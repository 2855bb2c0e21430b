------------------------------ MODULE ABManager ------------------------------
(***************************************************************************)
(* The A/B experiment manager of adx/internal/ab/manager.go: the running   *)
(* experiments are loaded from MySQL at start-up and again every minute by *)
(* one refresh goroutine, swapped in under a lock, and read by every       *)
(* request to pick its variant.  Operators edit the table at any time.     *)
(*                                                                         *)
(* traffic_ratio is DECIMAL(3,2) in MySQL, so a ratio is a number of       *)
(* hundredths here; it may also be NULL, which Scan refuses.  The list is  *)
(* ordered by id and an id appears once, so it is a partial function from  *)
(* ids to ratios and its order is the order of the ids.                    *)
(***************************************************************************)
EXTENDS Integers, FiniteSets

CONSTANTS
    Experiment,     \* ids of the rows of table experiments
    Ratio,          \* traffic ratios an operator sets, in hundredths
    Null,           \* SQL NULL
    RequestId,      \* OpenRTB request ids
    Bucket,         \* Bucket[e][id]: CRC32(salt of e + id) % 100
    MaxEdits,       \* bound on the number of edits of the table
    NoAssignment,   \* the nil assignment
    NoRows          \* the refresh goroutine holds no result set

ABConstants ==
    /\ Experiment \subseteq Nat
    /\ Ratio \subseteq 0..100
    /\ Null \notin Ratio
    /\ Bucket \in [Experiment -> [RequestId -> 0..99]]
    /\ MaxEdits \in Nat
    /\ NoAssignment \notin [experiment : Experiment, variant : {"control", "treatment"}]
    /\ NoRows \notin UNION {[S -> Ratio] : S \in SUBSET Experiment}

ASSUME ABAssumption == ABConstants

VARIABLES
    db,             \* the table: status and traffic_ratio of every row
    edits,          \* how often it was edited
    experiments,    \* mgr.experiments, the list requests are routed by
    rows            \* the rows a refresh has read and not yet swapped in

vars == <<db, edits, experiments, rows>>

Status == {"running", "paused", "completed"}
Row == [status : Status, ratio : Ratio \cup {Null}]
Lists == UNION {[S -> Ratio] : S \in SUBSET Experiment}
Assignment == [experiment : Experiment, variant : {"control", "treatment"}]

TypeOK ==
    /\ db \in [Experiment -> Row]
    /\ edits \in 0..MaxEdits
    /\ experiments \in Lists
    /\ rows \in Lists \cup {NoRows}

------------------------------------------------------------------------------
(* The rows of the query: status = 'running' ORDER BY id.                  *)
Running == {e \in Experiment : db[e].status = "running"}

(* Scan fails on a NULL traffic_ratio, and with it the whole load.         *)
Loadable == \A e \in Running : db[e].ratio # Null

Snapshot == [e \in Running |-> db[e].ratio]

(* int(TrafficRatio * 100) truncates the float64 product, which is just    *)
(* below the whole number for the ratios 0.29, 0.57 and 0.58.              *)
Threshold(ratio) == IF ratio \in {29, 57, 58} THEN ratio - 1 ELSE ratio

(* Mutant: the comparison turned round.                                    *)
MutantTreated(e, ratio, id) == Bucket[e][id] >= Threshold(ratio)

(* bucket < threshold; for a threshold of 0 no bucket is.                  *)
Treated(e, ratio, id) == Bucket[e][id] < Threshold(ratio)

(* Mutant: a loop that keeps the last experiment's answer.                 *)
MutantAssign(list, id) ==
    IF DOMAIN list = {} THEN NoAssignment
    ELSE LET last == CHOOSE e \in DOMAIN list : \A f \in DOMAIN list : f <= e
         IN [experiment |-> last,
             variant |-> IF Treated(last, list[last], id) THEN "treatment" ELSE "control"]

(* The loop returns in its first iteration, in the treatment bucket or out *)
(* of it: the first experiment of the list claims every request.           *)
Assign(list, id) ==
    IF DOMAIN list = {} THEN NoAssignment
    ELSE LET first == CHOOSE e \in DOMAIN list : \A f \in DOMAIN list : e <= f
         IN [experiment |-> first,
             variant |-> IF Treated(first, list[first], id) THEN "treatment" ELSE "control"]

------------------------------------------------------------------------------
(* NewExperimentManager loads the list once before it starts the loop.     *)
Init ==
    /\ db \in [Experiment -> Row]
    /\ Loadable
    /\ edits = 0
    /\ experiments = Snapshot
    /\ rows = NoRows

(* An operator edits a row: starts, pauses, completes or ramps it.         *)
Edit(e, row) ==
    /\ edits < MaxEdits
    /\ row # db[e]
    /\ db' = [db EXCEPT ![e] = row]
    /\ edits' = edits + 1
    /\ UNCHANGED <<experiments, rows>>

(* Mutant: a NULL is scanned as it is.                                     *)
MutantQuery ==
    /\ rows = NoRows
    /\ rows' = Snapshot
    /\ UNCHANGED <<db, edits, experiments>>

(* loadExperiments: the query reads one consistent snapshot of the table.  *)
(* Any error leaves the old list in place until the next tick.             *)
Query ==
    /\ rows = NoRows
    /\ Loadable
    /\ rows' = Snapshot
    /\ UNCHANGED <<db, edits, experiments>>

(* A tick whose load fails, on a lost connection or a NULL that Scan       *)
(* refuses, is logged and changes nothing.                                 *)
QueryFails == rows = NoRows /\ UNCHANGED vars

(* Mutant: the loaded list is assigned to a shadowed variable.             *)
MutantSwap ==
    /\ rows # NoRows
    /\ rows' = NoRows
    /\ UNCHANGED <<db, edits, experiments>>

(* The swap under the write lock, when the table may have moved on.        *)
Swap ==
    /\ rows # NoRows
    /\ experiments' = rows
    /\ rows' = NoRows
    /\ UNCHANGED <<db, edits>>

Next ==
    \/ \E e \in Experiment, row \in Row : Edit(e, row)
    \/ Query
    \/ QueryFails
    \/ Swap

(* The ticker runs as long as the process does, and MySQL does not refuse  *)
(* every query from some point on.                                         *)
Fairness == WF_vars(Query) /\ WF_vars(Swap)

Spec == Init /\ [][Next]_vars /\ Fairness

------------------------------------------------------------------------------
(* Once the table is left alone in a loadable state, the list that routes  *)
(* requests becomes the running experiments and stays so, although a       *)
(* refresh may be swapping in rows that were edited after it read them.    *)
(* (manager.go:88-118, 169-183)                                            *)
ListCatchesUp == <>[](Loadable => experiments = Snapshot)

(* The experiment that claims the requests routed by a list.               *)
Claims(list, e) == e \in DOMAIN list /\ \A f \in DOMAIN list : e <= f

(* Ramping the claiming experiment up moves requests from control to       *)
(* treatment only: nobody treated before the swap is in control after it.  *)
(* The bucket of a request does not depend on the ratio, and the truncated *)
(* threshold is monotone in it.  (manager.go:136-144)                      *)
RampUpKeepsTreatment ==
    [][\A e \in Experiment, id \in RequestId :
          /\ Claims(experiments, e) /\ Claims(experiments', e)
          /\ experiments[e] <= experiments'[e]
          /\ Assign(experiments, id).variant = "treatment"
          => Assign(experiments', id).variant = "treatment"]_vars

(* Starting, ramping or stopping any other experiment than the one that    *)
(* claims the traffic moves no request: concurrent experiments with larger *)
(* ids cannot disturb a running one.  (manager.go:135-150)                 *)
LaterExperimentsDoNotDisturb ==
    [][\A e \in Experiment :
          /\ Claims(experiments, e) /\ Claims(experiments', e)
          /\ experiments[e] = experiments'[e]
          => \A id \in RequestId : Assign(experiments', id) = Assign(experiments, id)]_vars

------------------------------------------------------------------------------
(* First match wins (manager.go:126-127): the first experiment whose       *)
(* bucket captures the request claims it, so a request that no earlier     *)
(* experiment captures reaches a later one that does.                      *)
DocumentedFirstMatch ==
    \A e \in DOMAIN experiments, id \in RequestId :
        /\ Treated(e, experiments[e], id)
        /\ \A f \in DOMAIN experiments : f < e => ~Treated(f, experiments[f], id)
        => Assign(experiments, id).experiment = e
==============================================================================
