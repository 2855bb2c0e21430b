--------------------------- MODULE ABManager_proofs ---------------------------
(***************************************************************************)
(* Proofs about the A/B experiment manager, for any experiments, ratios,   *)
(* buckets and request ids.                                                *)
(***************************************************************************)
EXTENDS ABManager, TLAPS

LEMMA SnapshotIsList ==
    ASSUME db \in [Experiment -> Row], Loadable
    PROVE  Snapshot \in Lists
  <1>1. Running \in SUBSET Experiment
    BY DEF Running
  <1>2. \A e \in Running : db[e].ratio \in Ratio
    BY <1>1 DEF Row, Loadable
  <1>3. Snapshot \in [Running -> Ratio]
    BY <1>2 DEF Snapshot
  <1> QED
    BY <1>1, <1>3 DEF Lists

(* The list that routes requests is always a list of experiments with a    *)
(* ratio each, a NULL in the table notwithstanding: a load that meets one  *)
(* stops before the swap.  (manager.go:88-118)                             *)
THEOREM TypeCorrect == Spec => []TypeOK
  <1>1. Init => TypeOK
    BY SnapshotIsList, ABAssumption DEF ABConstants, Init, TypeOK
  <1>2. TypeOK /\ [Next]_vars => TypeOK'
    <2> SUFFICES ASSUME TypeOK, [Next]_vars
                 PROVE  TypeOK'
      OBVIOUS
    <2>1. ASSUME NEW e \in Experiment, NEW row \in Row, Edit(e, row)
          PROVE  TypeOK'
      BY <2>1, ABAssumption DEF ABConstants, TypeOK, Edit
    <2>2. CASE Query
      BY <2>2, SnapshotIsList DEF TypeOK, Query
    <2>3. CASE QueryFails
      BY <2>3 DEF TypeOK, QueryFails, vars
    <2>4. CASE Swap
      BY <2>4 DEF TypeOK, Swap
    <2>5. CASE UNCHANGED vars
      BY <2>5 DEF TypeOK, vars
    <2> QED
      BY <2>1, <2>2, <2>3, <2>4, <2>5 DEF Next
  <1> QED
    BY <1>1, <1>2, PTL DEF Spec

------------------------------------------------------------------------------
(* Truncating the product keeps the order of the ratios.                   *)
LEMMA ThresholdIsMonotone ==
    ASSUME NEW r \in 0..100, NEW s \in 0..100, r <= s
    PROVE  Threshold(r) <= Threshold(s)
  BY DEF Threshold

(* The experiment that claims a list is the one Assign picks.              *)
LEMMA ClaimantIsAssigned ==
    ASSUME NEW list \in Lists, NEW e, Claims(list, e), NEW id
    PROVE  Assign(list, id) = [experiment |-> e,
              variant |-> IF Treated(e, list[e], id) THEN "treatment" ELSE "control"]
  <1>1. DOMAIN list \subseteq Nat
    BY ABAssumption DEF ABConstants, Lists
  <1>2. ASSUME NEW d \in DOMAIN list, \A f \in DOMAIN list : d <= f
        PROVE  d = e
    BY <1>1, <1>2 DEF Claims
  <1>3. e = CHOOSE d \in DOMAIN list : \A f \in DOMAIN list : d <= f
    BY <1>2 DEF Claims
  <1> QED
    BY <1>3 DEF Assign, Claims

LEMMA RatiosOfLists ==
    ASSUME NEW list \in Lists, NEW e \in DOMAIN list
    PROVE  e \in Experiment /\ list[e] \in 0..100
  <1>1. PICK S \in SUBSET Experiment : list \in [S -> Ratio]
    BY DEF Lists
  <1> QED
    BY <1>1, ABAssumption DEF ABConstants

(* Ramping up the claiming experiment never takes the treatment from a     *)
(* request, for every salt, ratio and id.  (manager.go:136-144)            *)
THEOREM RampUpIsSafe == Spec => RampUpKeepsTreatment
  <1>1. ASSUME TypeOK, TypeOK', NEW e \in Experiment, NEW id \in RequestId,
               Claims(experiments, e), Claims(experiments', e),
               experiments[e] <= experiments'[e],
               Assign(experiments, id).variant = "treatment"
        PROVE  Assign(experiments', id).variant = "treatment"
    <2>1. experiments \in Lists /\ experiments' \in Lists
      BY <1>1 DEF TypeOK
    <2>2. Treated(e, experiments[e], id)
      BY <1>1, <2>1, ClaimantIsAssigned
    <2>3. Threshold(experiments[e]) <= Threshold(experiments'[e])
      BY <1>1, <2>1, RatiosOfLists, ThresholdIsMonotone DEF Claims
    <2>4. Bucket[e][id] \in Int /\ Threshold(experiments[e]) \in Int
                                /\ Threshold(experiments'[e]) \in Int
      BY <1>1, <2>1, RatiosOfLists, ABAssumption DEF ABConstants, Claims, Threshold
    <2>5. Treated(e, experiments'[e], id)
      BY <2>2, <2>3, <2>4 DEF Treated
    <2> QED
      BY <1>1, <2>1, <2>5, ClaimantIsAssigned
  <1>2. TypeOK /\ TypeOK' /\ [Next]_vars =>
           [\A e \in Experiment, id \in RequestId :
              /\ Claims(experiments, e) /\ Claims(experiments', e)
              /\ experiments[e] <= experiments'[e]
              /\ Assign(experiments, id).variant = "treatment"
              => Assign(experiments', id).variant = "treatment"]_vars
    BY <1>1
  <1> QED
    BY <1>2, TypeCorrect, PTL DEF Spec, RampUpKeepsTreatment

(* An experiment with a larger id than the claiming one moves no request,  *)
(* whatever is done to it.  (manager.go:135-150)                           *)
THEOREM LaterExperimentsAreHarmless == Spec => LaterExperimentsDoNotDisturb
  <1>1. ASSUME TypeOK, TypeOK', NEW e \in Experiment,
               Claims(experiments, e), Claims(experiments', e),
               experiments[e] = experiments'[e], NEW id \in RequestId
        PROVE  Assign(experiments', id) = Assign(experiments, id)
    <2>1. experiments \in Lists /\ experiments' \in Lists
      BY <1>1 DEF TypeOK
    <2> QED
      BY <1>1, <2>1, ClaimantIsAssigned
  <1>2. TypeOK /\ TypeOK' /\ [Next]_vars =>
           [\A e \in Experiment :
              /\ Claims(experiments, e) /\ Claims(experiments', e)
              /\ experiments[e] = experiments'[e]
              => \A id \in RequestId : Assign(experiments', id) = Assign(experiments, id)]_vars
    BY <1>1
  <1> QED
    BY <1>2, TypeCorrect, PTL DEF Spec, LaterExperimentsDoNotDisturb
==============================================================================
