------------------------------- MODULE Catalog -------------------------------
(***************************************************************************)
(* The ways a creative's text gets from MySQL to the vectors the bid path  *)
(* recalls: the updater of data/flink/vector_updater.py, which polls the   *)
(* table and remembers in a state file how far it got; the creative agent  *)
(* of agents/creative_agent.py, which inserts a row and upserts its vector *)
(* itself; deploy/schema/seed_ads.py, which makes the collection anew; and *)
(* the operators who edit rows.  Nothing coordinates them.                 *)
(*                                                                         *)
(* A text is the number of times its row was written.  The clock counts    *)
(* the seconds of updated_at and of the state file.                        *)
(***************************************************************************)
EXTENDS Integers, FiniteSets

CONSTANTS
    Ad,             \* ids of creatives
    NoAd,           \* no vector is on its way
    SeedAd,         \* ids in seed_ads.json
    Count,          \* --count of the agent
    MaxRaw,         \* bound on what the LLM returns
    MaxRuns,        \* bound on the agent's runs
    MaxVersion,     \* bound on the edits of a row
    MaxNow,         \* bound on the clock
    MaxSeeds,       \* bound on the runs of seed_ads.py
    MaxFaults       \* bound on failed or unanswered requests and on crashes

ASSUME CatalogAssumption ==
    /\ NoAd \notin Ad
    /\ SeedAd \subseteq Ad
    /\ Count \in Nat
    /\ MaxRaw \in Nat
    /\ Count <= MaxRaw
    /\ MaxRuns \in Nat
    /\ MaxVersion \in Nat \ {0}
    /\ MaxNow \in Nat \ {0}
    /\ MaxSeeds \in Nat
    /\ MaxFaults \in Nat

VARIABLES
    table,          \* creatives: how often each row was written, 0 for no row
    stampOf,        \* creatives.updated_at
    odd,            \* rows whose tags hold something that is not a string
    collection,     \* the Qdrant collection exists
    index,          \* the text behind each point
    late,           \* PUTs whose sender gave them up and that may still be executed
    now,            \* the clock
    stateFile,      \* last_updated_at, or Torn
    updater,        \* where the updater is
    rows,           \* what query_new_creatives returned
    new_ts,         \* the time that is about to be saved
    agent,          \* where the agent is
    left,           \* candidates still to look at
    rejected_count,
    results,        \* how many creatives the agent reports
    held,           \* the creative whose vector is not upserted yet
    seeding,        \* where seed_ads.py is
    used,           \* how often each bounded thing happened
    inserted,       \* history: rows the agent's run inserted
    unsure,         \* history: those of them whose commit was not answered
    exposed         \* history: creatives whose last write met a race

tableVars == <<table, stampOf, odd>>
vectors == <<collection, index, late>>
updaterVars == <<stateFile, updater, rows, new_ts>>
agentVars == <<agent, left, rejected_count, results, held, inserted, unsure>>
vars == <<tableVars, vectors, now, updaterVars, agentVars, seeding, used, exposed>>

None == 0
Seed == -1
Torn == -1
Epoch == 0
NoRows == [a \in {} |-> 0]
Time == 0..MaxNow
Batch == UNION {[S -> 1..MaxVersion] : S \in SUBSET Ad}
Limit == [runs |-> MaxRuns, seeds |-> MaxSeeds, faults |-> MaxFaults]

TypeOK ==
    /\ table \in [Ad -> 0..MaxVersion]
    /\ stampOf \in [Ad -> Time]
    /\ odd \subseteq Ad
    /\ collection \in BOOLEAN
    /\ index \in [Ad -> {None, Seed} \cup 1..MaxVersion]
    /\ late \subseteq Batch
    /\ now \in Time
    /\ stateFile \in Time \cup {Torn}
    /\ updater \in {"off", "poll", "put", "upserted", "opened"}
    /\ rows \in Batch
    /\ new_ts \in Time
    /\ agent \in {"off", "next", "embed"}
    /\ left \in 0..MaxRaw
    /\ rejected_count \in 0..MaxRaw
    /\ results \in 0..Count
    /\ held \in Ad \cup {NoAd}
    /\ seeding \in {"off", "deleted", "created"}
    /\ used \in [DOMAIN Limit -> Nat]
    /\ inserted \in Nat
    /\ unsure \in Nat
    /\ exposed \subseteq Ad

Rows == {a \in Ad : table[a] # 0}

(* A row is due when the query would find it. *)
Due == {a \in Rows : stampOf[a] > stateFile}

MayUse(k) ==
    /\ used[k] < Limit[k]
    /\ used' = [used EXCEPT ![k] = @ + 1]

(* A row written now may be passed over: the updater has read the table and
   not yet taken the time it will save, or that time is this very second. *)
Racing ==
    \/ updater \in {"put", "upserted"}
    \/ now <= IF updater = "opened" THEN new_ts ELSE stateFile

WriteRow(a, oddTags) ==
    /\ table' = [table EXCEPT ![a] = @ + 1]
    /\ stampOf' = [stampOf EXCEPT ![a] = now]
    /\ odd' = IF oddTags THEN odd \cup {a} ELSE odd \ {a}
    /\ exposed' = IF Racing \/ held = a THEN exposed \cup {a} ELSE exposed \ {a}

(* One PUT of points, which Qdrant refuses without the collection. *)
Put(points) ==
    index' = [a \in Ad |-> IF a \in DOMAIN points THEN points[a] ELSE index[a]]

(* A PUT that failed or was not answered in time was not executed, was
   executed, or may be executed yet. *)
GivenUp(points) ==
    /\ collection => MayUse("faults")
    /\ ~collection => UNCHANGED used
    /\ \/ UNCHANGED <<index, late>>
       \/ collection /\ Put(points) /\ UNCHANGED late
       \/ collection /\ late' = late \cup {points} /\ UNCHANGED index

(* A text that arrives behind a newer one stays, unless its row is read again
   before anything is saved. *)
Overtaken(points) ==
    {a \in DOMAIN points : points[a] # table[a] /\ (updater \in {"off", "poll"} => a \notin Due)}

LatePut(points) ==
    /\ points \in late
    /\ late' = late \ {points}
    /\ IF collection
       THEN Put(points) /\ exposed' = exposed \cup Overtaken(points)
       ELSE UNCHANGED <<index, exposed>>
    /\ UNCHANGED <<tableVars, collection, now, updaterVars, agentVars, seeding, used>>

------------------------------------------------------------------------------
(* The updater. *)

Launch ==
    /\ updater = "off"
    /\ updater' = "poll"
    /\ UNCHANGED <<tableVars, vectors, now, stateFile, rows, new_ts, agentVars, seeding, used, exposed>>

(* json.load raises, and nothing catches it. *)
load_state_fails ==
    /\ updater = "poll"
    /\ stateFile = Torn
    /\ updater' = "off"
    /\ UNCHANGED <<tableVars, vectors, now, stateFile, rows, new_ts, agentVars, seeding, used, exposed>>

(* Tags that are not strings raise. *)
build_ad_text(S) == S \cap odd = {}

(* load_state and the query, and the texts of all rows before anything is sent.
   Without a row that is due the pass ends here. *)
query_new_creatives ==
    /\ updater = "poll"
    /\ stateFile # Torn
    /\ Due # {}
    /\ IF build_ad_text(Due)
       THEN updater' = "put" /\ rows' = [a \in Due |-> table[a]]
       ELSE updater' = "off" /\ rows' = NoRows
    /\ UNCHANGED <<tableVars, vectors, now, stateFile, new_ts, agentVars, seeding, used, exposed>>

upsert_to_qdrant ==
    /\ updater = "put"
    /\ collection
    /\ Put(rows)
    /\ updater' = "upserted"
    /\ UNCHANGED <<tableVars, collection, late, now, stateFile, rows, new_ts, agentVars, seeding, used, exposed>>

\* Mutant: the result of the upsert is not looked at.
MutantFailedPut ==
    /\ updater = "put"
    /\ collection => MayUse("faults")
    /\ ~collection => UNCHANGED used
    /\ UNCHANGED index
    /\ updater' = "upserted"
    /\ UNCHANGED <<tableVars, collection, late, now, stateFile, rows, new_ts, agentVars, seeding, exposed>>

(* An HTTP or connection error is caught and the state not advanced; a timeout
   while the answer is read is not caught and ends the process. *)
upsert_to_qdrant_fails ==
    /\ updater = "put"
    /\ GivenUp(rows)
    /\ updater' \in {"poll", "off"}
    /\ rows' = NoRows
    /\ UNCHANGED <<tableVars, collection, now, stateFile, new_ts, agentVars, seeding, exposed>>

(* get_new_max_timestamp is the time after the upsert; open(..., "w") empties
   the file. *)
save_state_opens ==
    /\ updater = "upserted"
    /\ new_ts' = now
    /\ stateFile' = Torn
    /\ updater' = "opened"
    /\ UNCHANGED <<tableVars, vectors, now, rows, agentVars, seeding, used, exposed>>

\* Mutant: the time is taken once more when it is written.
MutantSave ==
    /\ updater = "opened"
    /\ stateFile' = now
    /\ updater' = "poll"
    /\ rows' = NoRows
    /\ new_ts' = 0
    /\ UNCHANGED <<tableVars, vectors, now, agentVars, seeding, used, exposed>>

save_state ==
    /\ updater = "opened"
    /\ stateFile' = new_ts
    /\ updater' = "poll"
    /\ rows' = NoRows
    /\ new_ts' = 0
    /\ UNCHANGED <<tableVars, vectors, now, agentVars, seeding, used, exposed>>

(* A kill, or a query that fails, at any moment of a pass. *)
UpdaterDies ==
    /\ updater # "off"
    /\ MayUse("faults")
    /\ updater' = "off"
    /\ rows' = NoRows
    /\ new_ts' = 0
    /\ UNCHANGED <<tableVars, vectors, now, stateFile, agentVars, seeding, exposed>>

(* An operator removes a state file that cannot be read: everything is due. *)
RemoveState ==
    /\ updater = "off"
    /\ stateFile = Torn
    /\ stateFile' = Epoch
    /\ UNCHANGED <<tableVars, vectors, now, updater, rows, new_ts, agentVars, seeding, used, exposed>>

Pass ==
    \/ query_new_creatives \/ upsert_to_qdrant \/ upsert_to_qdrant_fails
    \/ save_state_opens \/ save_state

------------------------------------------------------------------------------
(* The creative agent: one run for one campaign. *)

max_rejected == 3 * Count

AgentIsGone ==
    /\ agent' = "off"
    /\ left' = 0
    /\ rejected_count' = 0
    /\ results' = 0
    /\ held' = NoAd
    /\ inserted' = 0
    /\ unsure' = 0

(* _call_llm_generate: the list is padded to Count. *)
AgentStart ==
    /\ agent = "off"
    /\ MayUse("runs")
    /\ agent' = "next"
    /\ left' \in Count..MaxRaw
    /\ UNCHANGED <<tableVars, vectors, now, updaterVars, rejected_count, results, held, inserted, unsure,
                   seeding, exposed>>

\* Mutant: <= for <.
MutantGoing == left > 0 /\ results <= Count /\ rejected_count < max_rejected

Going == left > 0 /\ results < Count /\ rejected_count < max_rejected

TakeCandidate ==
    /\ agent = "next"
    /\ Going
    /\ left' = left - 1

(* The two layers of compliance: the list of terms, and a review by the LLM
   that passes whatever it cannot answer about. *)
Candidate == [term : BOOLEAN, review : {"passed", "failed", "unavailable"}, oddTags : BOOLEAN]

check_compliance(c) == ~c.term

llm_compliance_check(c) == c.review # "failed"

Compliant(c) == check_compliance(c) /\ llm_compliance_check(c)

Reject ==
    /\ TakeCandidate
    /\ \E c \in Candidate : ~Compliant(c)
    /\ rejected_count' = rejected_count + 1
    /\ UNCHANGED <<tableVars, vectors, now, updaterVars, agent, results, held, inserted, unsure,
                   seeding, used, exposed>>

(* MySQL gives the row an id no row has. *)
InsertRow(a) ==
    /\ table[a] = 0
    /\ \E c \in Candidate : Compliant(c) /\ WriteRow(a, c.oddTags)
    /\ inserted' = inserted + 1

_insert_to_mysql(a) ==
    /\ TakeCandidate
    /\ InsertRow(a)
    /\ agent' = "embed"
    /\ held' = a
    /\ UNCHANGED <<vectors, now, updaterVars, rejected_count, results, unsure, seeding, used>>

(* The insert raises, and the candidate is skipped. *)
InsertFails ==
    /\ TakeCandidate
    /\ UNCHANGED <<tableVars, vectors, now, updaterVars, agent, rejected_count, results, held,
                   inserted, unsure, seeding, used, exposed>>

(* The same, but the row was committed: its vector is left to the updater. *)
InsertIsUnsure(a) ==
    /\ TakeCandidate
    /\ MayUse("faults")
    /\ InsertRow(a)
    /\ unsure' = unsure + 1
    /\ UNCHANGED <<vectors, now, updaterVars, agent, rejected_count, results, held, seeding>>

Keep ==
    /\ agent = "embed"
    /\ results' = results + 1
    /\ held' = NoAd
    /\ agent' = "next"

\* Mutant: the vector goes to the id after the last one of the table.
MutantPoint ==
    /\ agent = "embed"
    /\ collection
    /\ Keep
    /\ \E a \in Ad : Put([b \in {a} |-> 1])
    /\ UNCHANGED <<tableVars, collection, late, now, updaterVars, left, rejected_count, inserted,
                   unsure, seeding, used, exposed>>

_upsert_to_qdrant ==
    /\ collection
    /\ Keep
    /\ Put([a \in {held} |-> 1])
    /\ exposed' = IF table[held] = 1 THEN exposed \ {held} ELSE exposed
    /\ UNCHANGED <<tableVars, collection, late, now, updaterVars, left, rejected_count, inserted,
                   unsure, seeding, used>>

\* Mutant: only a creative whose vector arrived is a result.
MutantUpsertFails ==
    /\ agent = "embed"
    /\ collection => MayUse("faults")
    /\ ~collection => UNCHANGED used
    /\ agent' = "next"
    /\ held' = NoAd
    /\ UNCHANGED <<tableVars, vectors, now, updaterVars, left, rejected_count, results, inserted,
                   unsure, seeding, exposed>>

(* The creative is a result all the same. *)
UpsertFails ==
    /\ Keep
    /\ GivenUp([a \in {held} |-> 1])
    /\ UNCHANGED <<tableVars, collection, now, updaterVars, left, rejected_count, inserted, unsure,
                   seeding, exposed>>

(* The loop ends, or a candidate without a title ends it: .strip() of null
   raises, and main reports nothing. *)
AgentEnd ==
    /\ agent = "next"
    /\ AgentIsGone
    /\ UNCHANGED <<tableVars, vectors, now, updaterVars, seeding, used, exposed>>

AgentDies ==
    /\ agent = "embed"
    /\ MayUse("faults")
    /\ AgentIsGone
    /\ UNCHANGED <<tableVars, vectors, now, updaterVars, seeding, exposed>>

AgentStep ==
    \/ Reject \/ InsertFails \/ _upsert_to_qdrant \/ UpsertFails \/ AgentEnd
    \/ \E a \in Ad : _insert_to_mysql(a) \/ InsertIsUnsure(a)

------------------------------------------------------------------------------
(* seed_ads.py: delete_collection, create_collection, upsert.  Every point of
   the updater is gone, and its state file says they are there. *)
delete_collection ==
    /\ seeding = "off"
    /\ MayUse("seeds")
    /\ collection' = FALSE
    /\ index' = [a \in Ad |-> None]
    /\ exposed' = exposed \cup Rows
    /\ seeding' = "deleted"
    /\ UNCHANGED <<tableVars, late, now, updaterVars, agentVars>>

create_collection ==
    /\ seeding = "deleted"
    /\ collection' = TRUE
    /\ seeding' = "created"
    /\ UNCHANGED <<tableVars, index, late, now, updaterVars, agentVars, used, exposed>>

SeedUpsert ==
    /\ seeding = "created"
    /\ Put([a \in SeedAd |-> Seed])
    /\ exposed' = exposed \cup (SeedAd \cap Rows)
    /\ seeding' = "off"
    /\ UNCHANGED <<tableVars, collection, late, now, updaterVars, agentVars, used>>

SeedingFails ==
    /\ seeding # "off"
    /\ MayUse("faults")
    /\ seeding' = "off"
    /\ UNCHANGED <<tableVars, vectors, now, updaterVars, agentVars, exposed>>

------------------------------------------------------------------------------
(* Operators add rows and edit them. *)
Edit(a) ==
    /\ table[a] < MaxVersion
    /\ \E oddTags \in BOOLEAN : WriteRow(a, oddTags)
    /\ UNCHANGED <<vectors, now, updaterVars, agentVars, seeding, used>>

Tick ==
    /\ now < MaxNow
    /\ now' = now + 1
    /\ UNCHANGED <<tableVars, vectors, updaterVars, agentVars, seeding, used, exposed>>

Init ==
    /\ table \in [Ad -> {0, 1}]      \* what init.sql loaded, in the first second
    /\ stampOf = table
    /\ odd = {}
    /\ collection = FALSE
    /\ index = [a \in Ad |-> None]
    /\ late = {}
    /\ now = 1
    /\ stateFile = Epoch
    /\ updater = "off"
    /\ rows = NoRows
    /\ new_ts = 0
    /\ agent = "off"
    /\ left = 0
    /\ rejected_count = 0
    /\ results = 0
    /\ held = NoAd
    /\ seeding = "off"
    /\ used = [k \in DOMAIN Limit |-> 0]
    /\ inserted = 0
    /\ unsure = 0
    /\ exposed = {}

Next ==
    \/ Launch \/ load_state_fails \/ Pass \/ UpdaterDies \/ RemoveState
    \/ AgentStart \/ AgentStep \/ AgentDies
    \/ delete_collection \/ create_collection \/ SeedUpsert \/ SeedingFails
    \/ \E points \in late : LatePut(points)
    \/ \E a \in Ad : Edit(a)
    \/ Tick

Spec == Init /\ [][Next]_vars

(* A dead updater is started again, a live one polls, a started agent or
   seeding goes on. *)
Fairness ==
    /\ WF_vars(Launch) /\ WF_vars(load_state_fails) /\ WF_vars(Pass)
    /\ WF_vars(AgentStep)
    /\ WF_vars(create_collection) /\ WF_vars(SeedUpsert)

FairSpec == Spec /\ Fairness

------------------------------------------------------------------------------
(* A text is in the index or the updater will find it, unless a race took the
   chance: the row was written between the query and the time that is saved,
   or within the second of that time; its agent's vector was still on the way;
   a PUT that had been given up was executed behind a newer one; or
   seed_ads.py made the collection anew.  Failed upserts, crashes, a torn state
   file and vectors the agent could not store lose nothing. *)
EditsAreNotLost == \A a \in Rows \ exposed : index[a] = table[a] \/ a \in Due

(* A run of the agent inserts no more rows than it was asked for, but for
   those whose commit was not answered: creatives whose vector failed are
   counted, rejected ones are not. *)
AgentKeepsItsQuota == inserted <= Count + unsure

(* Recall finds committed texts only: rows are inserted before they are
   embedded, and a pass upserts what it read. *)
CI == INSTANCE CreativeIndex WITH latest <- table
IndexContract == CI!Spec

(* In the end a text is in the index, once requests succeed again: but for the
   races above, a seeding that stopped half way, a state file that cannot be
   read, and a row whose tags stop every pass. *)
TextsReachTheIndex ==
    \A a \in Ad :
        []<>(a \in Rows => \/ index[a] = table[a]
                            \/ a \in exposed
                            \/ ~collection
                            \/ stateFile = Torn
                            \/ ~build_ad_text(Due))
=============================================================================
