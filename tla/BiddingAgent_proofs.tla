------------------------ MODULE BiddingAgent_proofs --------------------------
(***************************************************************************)
(* Proofs about BiddingAgent and the filter it shares Redis with, for any  *)
(* campaigns, prices, callers, limit and window.                           *)
(***************************************************************************)
EXTENDS BiddingAgent, TLAPS

(* What a counter says of the calls it let through. *)
Counted == \A k \in Key : granted[k] <= count[k] /\ granted[k] <= Limit

OneDebt == \A r \in Caller : \A j, k \in owes[r] : j = k

Inv == TypeOK /\ Counted /\ OneDebt /\ CountersHaveWindows

USE BiddingAssumption DEF FilterConstants, NoExpiry, Amount, counters, calls

------------------------------------------------------------------------------
LEMMA WholeAmounts ==
    ASSUME NEW n \in Amount
    PROVE  /\ Whole(n) \in [form : {"none", "int", "float"}, amount : Amount]
           /\ Decimal(n) \in [form : {"none", "int", "float"}, amount : Amount]
           /\ Whole(n).form = "int" /\ Whole(n).amount = n
           /\ Decimal(n).form = "float"
  BY DEF Whole, Decimal

LEMMA InitInv == Init => Inv
  <1> SUFFICES ASSUME Init PROVE Inv
    OBVIOUS
  <1>1. budget \in [Campaign -> [form : {"none", "int", "float"}, amount : Amount]]
    <2>1. None \in [form : {"none", "int", "float"}, amount : Amount]
      BY DEF None
    <2>2. \A n \in 0..MaxAmount : Whole(n) \in [form : {"none", "int", "float"}, amount : Amount]
      BY WholeAmounts
    <2> QED
      BY <2>1, <2>2 DEF Init, FilterInit
  <1>2. FilterTypeOK
    BY <1>1 DEF Init, FilterInit, FilterTypeOK
  <1>3. TypeOK
    BY <1>2 DEF Init, TypeOK
  <1>4. Counted /\ OneDebt /\ CountersHaveWindows
    BY DEF Init, FilterInit, Counted, OneDebt, CountersHaveWindows
  <1> QED
    BY <1>3, <1>4 DEF Inv

(* The steps on budgets leave the counters alone. *)
LEMMA BudgetStep ==
    ASSUME Inv, UNCHANGED <<frequency, agentVars>>,
           \E c \in Campaign : DeductBudget(c) \/ \E n \in 0..MaxAmount : SetBudget(c, n)
    PROVE  Inv'
  <1>1. PICK c \in Campaign : DeductBudget(c) \/ \E n \in 0..MaxAmount : SetBudget(c, n)
    OBVIOUS
  <1>2. PICK n \in Amount : budget' = [budget EXCEPT ![c] = Whole(n)]
    <2>1. CASE DeductBudget(c)
      <3>1. PICK p \in Price : /\ budget[c].amount - p \in Amount
                               /\ budget' = [budget EXCEPT ![c] = Whole(budget[c].amount - p)]
        BY <2>1 DEF DeductBudget
      <3> QED
        BY <3>1
    <2>2. CASE \E n \in 0..MaxAmount : SetBudget(c, n)
      <3>1. PICK n \in 0..MaxAmount : SetBudget(c, n)
        BY <2>2
      <3>2. n \in Amount
        OBVIOUS
      <3> QED
        BY <3>1, <3>2 DEF SetBudget
    <2> QED
      BY <1>1, <2>1, <2>2
  <1>3. budget' \in [Campaign -> [form : {"none", "int", "float"}, amount : Amount]]
    BY <1>2, WholeAmounts DEF Inv, TypeOK, FilterTypeOK
  <1> QED
    BY <1>3 DEF Inv, TypeOK, FilterTypeOK, frequency, agentVars, Counted, OneDebt, CountersHaveWindows

(* Counting one more keeps the number in its range. *)
LEMMA CountIs ==
    ASSUME Inv, NEW k \in Key, Count(k)
    PROVE  /\ count[k] \in 0..(Limit + 2)
           /\ count'[k] = IF count[k] = Limit + 2 THEN count[k] ELSE count[k] + 1
           /\ \A j \in Key : j # k => count'[j] = count[j]
           /\ count' \in [Key -> 0..(Limit + 2)]
  <1>1. count \in [Key -> 0..(Limit + 2)]
    BY DEF Inv, TypeOK, FilterTypeOK
  <1>2. count' = [count EXCEPT ![k] = IF count[k] = Limit + 2 THEN count[k] ELSE count[k] + 1]
    BY DEF Count
  <1> QED
    BY <1>1, <1>2

(* Sending again, and giving up, stay within Retries. *)
LEMMA TriesType ==
    ASSUME Inv, NEW r \in Caller, SendAgain(r) \/ Answered(r) \/ tries' = tries
    PROVE  tries' \in [Caller -> 0..Retries]
  BY DEF Inv, TypeOK, FilterTypeOK, SendAgain, Answered

LEMMA LateType ==
    ASSUME Inv, NEW command \in {"INCR", "EXPIRE"}, NEW k \in Key,
           TimesOut(command, k) \/ Arrives(command, k)
    PROVE  late' \in [{"INCR", "EXPIRE"} -> [Key -> 0..MaxLate]]
  <1>1. late \in [{"INCR", "EXPIRE"} -> [Key -> 0..MaxLate]]
    BY DEF Inv, TypeOK, FilterTypeOK
  <1>2. late[command][k] \in 0..MaxLate
    BY <1>1
  <1>3. CASE TimesOut(command, k)
    <2>1. late[command][k] + 1 \in 0..MaxLate
      BY <1>2, <1>3 DEF TimesOut
    <2>2. late' = [late EXCEPT ![command][k] = late[command][k] + 1]
      BY <1>3 DEF TimesOut
    <2> QED
      BY <1>1, <2>1, <2>2
  <1>4. CASE Arrives(command, k)
    <2>1. late[command][k] - 1 \in 0..MaxLate
      BY <1>2, <1>4 DEF Arrives
    <2>2. late' = [late EXCEPT ![command][k] = late[command][k] - 1]
      BY <1>4 DEF Arrives
    <2> QED
      BY <1>1, <2>1, <2>2
  <1> QED
    BY <1>3, <1>4

LEMMA IncrInv ==
    ASSUME Inv, NEW r \in Caller, NEW k \in Key, Incr(r, k), UNCHANGED agentVars
    PROVE  Inv'
  <1> USE DEF Incr
  <1>1. /\ count[k] \in 0..(Limit + 2)
        /\ count'[k] = IF count[k] = Limit + 2 THEN count[k] ELSE count[k] + 1
        /\ \A j \in Key : j # k => count'[j] = count[j]
        /\ count' \in [Key -> 0..(Limit + 2)]
    BY CountIs
  <1>2. granted[k] \in 0..(Limit + 1) /\ granted[k] <= count[k] /\ granted[k] <= Limit
    BY DEF Inv, TypeOK, FilterTypeOK, Counted
  <1>3. granted' \in [Key -> 0..(Limit + 1)] /\ owes' \in [Caller -> SUBSET Key]
    BY <1>1, <1>2 DEF Inv, TypeOK, FilterTypeOK
  <1>4. tries' \in [Caller -> 0..Retries] /\ asks' \in [Caller -> SUBSET Key]
    BY TriesType DEF Answered, Inv, TypeOK, FilterTypeOK
  <1>5. TypeOK'
    BY <1>1, <1>3, <1>4 DEF Inv, TypeOK, FilterTypeOK, agentVars
  <1>6. Counted'
    <2> SUFFICES ASSUME NEW j \in Key PROVE granted'[j] <= count'[j] /\ granted'[j] <= Limit
      BY DEF Counted
    <2>1. CASE j = k
      BY <1>1, <1>2, <2>1 DEF Inv, TypeOK, FilterTypeOK
    <2>2. CASE j # k
      BY <1>1, <2>2 DEF Inv, TypeOK, FilterTypeOK, Counted
    <2> QED
      BY <2>1, <2>2
  <1>7. OneDebt'
    BY DEF Inv, TypeOK, FilterTypeOK, OneDebt
  <1>8. CountersHaveWindows'
    <2> SUFFICES ASSUME NEW j \in Key, count'[j] > 0, ttl[j] = NoExpiry
                 PROVE  j \in stuck \/ \E q \in Caller : j \in owes'[q]
      BY DEF CountersHaveWindows
    <2>1. CASE count[j] > 0
      BY <2>1 DEF MayAsk, Inv, TypeOK, FilterTypeOK, CountersHaveWindows
    <2>2. CASE count[j] = 0
      <3>1. j = k /\ count'[k] = 1
        BY <2>2, <1>1 DEF Inv, TypeOK, FilterTypeOK
      <3> QED
        BY <3>1 DEF Inv, TypeOK, FilterTypeOK
    <2> QED
      BY <1>1, <2>1, <2>2 DEF Inv, TypeOK, FilterTypeOK
  <1> QED
    BY <1>5, <1>6, <1>7, <1>8 DEF Inv

LEMMA IncrUnansweredInv ==
    ASSUME Inv, NEW r \in Caller, NEW k \in Key, IncrUnanswered(r, k), UNCHANGED agentVars
    PROVE  Inv'
  <1> USE DEF IncrUnanswered
  <1>1. tries' \in [Caller -> 0..Retries] /\ asks' \in [Caller -> SUBSET Key]
    BY TriesType DEF Answered, Inv, TypeOK, FilterTypeOK
  <1>2. late' \in [{"INCR", "EXPIRE"} -> [Key -> 0..MaxLate]]
    BY LateType
  <1>3. TypeOK'
    BY <1>1, <1>2 DEF Inv, TypeOK, FilterTypeOK, agentVars
  <1>4. Counted' /\ OneDebt' /\ CountersHaveWindows'
    BY DEF Inv, Counted, OneDebt, CountersHaveWindows
  <1> QED
    BY <1>3, <1>4 DEF Inv

(* A call that owes a window sets it, tries again, or leaves the counter
   stuck. *)
LEMMA OwedInv ==
    ASSUME Inv, NEW r \in Caller, NEW k \in Key, Owed(r, k), UNCHANGED agentVars
    PROVE  Inv'
  <1> USE DEF agentVars
  <1>1. \A j \in Key : j \in owes[r] => j = k
    BY DEF Owed, SetWindow, WindowUnanswered, WindowIsLost, Inv, OneDebt, TypeOK, FilterTypeOK
  <1>2. tries' \in [Caller -> 0..Retries] /\ asks' \in [Caller -> SUBSET Key]
    <2>1. SendAgain(r) \/ Answered(r)
      BY DEF Owed, SetWindow, WindowUnanswered, WindowIsLost, NoWindow
    <2>2. asks' = asks \/ asks' = [asks EXCEPT ![r] = {}]
      BY DEF Owed, SetWindow, WindowUnanswered, WindowIsLost, NoWindow, Answered
    <2> QED
      BY <2>1, <2>2, TriesType DEF Inv, TypeOK, FilterTypeOK
  <1>3. late' \in [{"INCR", "EXPIRE"} -> [Key -> 0..MaxLate]]
    <2>1. late' = late \/ TimesOut("EXPIRE", k)
      BY DEF Owed, SetWindow, WindowUnanswered, WindowIsLost
    <2> QED
      BY <2>1, LateType DEF Inv, TypeOK, FilterTypeOK
  <1>4. CASE SetWindow(r, k)
    BY <1>1, <1>2, <1>3, <1>4
    DEF SetWindow, GivesWindow, Inv, TypeOK, FilterTypeOK, Counted, OneDebt, CountersHaveWindows
  <1>5. CASE NoWindow(r, k) /\ UNCHANGED <<budget, counters, granted>>
    BY <1>1, <1>2, <1>3, <1>5
    DEF NoWindow, Inv, TypeOK, FilterTypeOK, Counted, OneDebt, CountersHaveWindows
  <1>6. CASE UNCHANGED <<budget, counters, owes, stuck, granted>>
    BY <1>2, <1>3, <1>6
    DEF Inv, TypeOK, FilterTypeOK, Counted, OneDebt, CountersHaveWindows
  <1> QED
    BY <1>4, <1>5, <1>6 DEF Owed, WindowUnanswered, WindowIsLost

(* What nobody waits for any more, and the end of a window. *)
LEMMA LateInv ==
    ASSUME Inv, UNCHANGED agentVars, NEW k \in Key,
           LateIncr(k) \/ LateExpire(k) \/ LateLost(k) \/ Expire(k)
    PROVE  Inv'
  <1> USE DEF agentVars
  <1>1. CASE LateIncr(k)
    <2>1. late' \in [{"INCR", "EXPIRE"} -> [Key -> 0..MaxLate]]
      BY <1>1, LateType DEF LateIncr
    <2>2. /\ count[k] \in 0..(Limit + 2)
          /\ count'[k] = IF count[k] = Limit + 2 THEN count[k] ELSE count[k] + 1
          /\ \A j \in Key : j # k => count'[j] = count[j]
          /\ count' \in [Key -> 0..(Limit + 2)]
      BY <1>1, CountIs DEF LateIncr
    <2>3. TypeOK'
      BY <1>1, <2>1, <2>2 DEF LateIncr, Inv, TypeOK, FilterTypeOK
    <2>4. Counted'
      <3> SUFFICES ASSUME NEW j \in Key PROVE granted'[j] <= count'[j] /\ granted'[j] <= Limit
        BY DEF Counted
      <3>1. granted[j] \in Nat /\ count[j] \in Nat /\ granted[j] <= count[j] /\ granted[j] <= Limit
        BY DEF Inv, TypeOK, FilterTypeOK, Counted
      <3>2. count[j] <= count'[j] /\ count'[j] \in Nat
        BY <2>2, <3>1
      <3> QED
        BY <1>1, <3>1, <3>2 DEF LateIncr
    <2>5. CountersHaveWindows'
      <3> SUFFICES ASSUME NEW j \in Key, count'[j] > 0, ttl[j] = NoExpiry
                   PROVE  j \in stuck' \/ \E q \in Caller : j \in owes[q]
        BY <1>1 DEF LateIncr, CountersHaveWindows
      <3>1. CASE count[j] > 0
        BY <1>1, <3>1 DEF LateIncr, Inv, CountersHaveWindows
      <3>2. CASE ~(count[j] > 0)
        <4>1. j = k /\ count[k] = 0
          BY <2>2, <3>2
        <4> QED
          BY <1>1, <4>1 DEF LateIncr
      <3> QED
        BY <3>1, <3>2
    <2> QED
      BY <1>1, <2>3, <2>4, <2>5 DEF LateIncr, Inv, OneDebt
  <1>2. CASE LateExpire(k)
    <2>1. late' \in [{"INCR", "EXPIRE"} -> [Key -> 0..MaxLate]]
      BY <1>2, LateType DEF LateExpire
    <2> QED
      BY <1>2, <2>1
      DEF LateExpire, GivesWindow, Inv, TypeOK, FilterTypeOK, Counted, OneDebt, CountersHaveWindows
  <1>3. CASE LateLost(k)
    <2>1. late' \in [{"INCR", "EXPIRE"} -> [Key -> 0..MaxLate]]
      BY <1>3, LateType DEF LateLost
    <2> QED
      BY <1>3, <2>1 DEF LateLost, Inv, TypeOK, FilterTypeOK, Counted, OneDebt, CountersHaveWindows
  <1>4. CASE Expire(k)
    BY <1>4 DEF Expire, Inv, TypeOK, FilterTypeOK, Counted, OneDebt, CountersHaveWindows
  <1> QED
    BY <1>1, <1>2, <1>3, <1>4

LEMMA TickInv ==
    ASSUME Inv, UNCHANGED agentVars, FilterTick
    PROVE  Inv'
  BY DEF agentVars, FilterTick, Inv, TypeOK, FilterTypeOK, Counted, OneDebt, CountersHaveWindows

LEMMA AgentInv ==
    ASSUME Inv, AgentStep
    PROVE  Inv'
  <1> USE DEF Inv, TypeOK
  <1>1. CASE _query_clickhouse
    BY <1>1 DEF _query_clickhouse, filterVars, frequency, FilterTypeOK, Counted, OneDebt, CountersHaveWindows
  <1>2. ASSUME NEW c \in Campaign, ReadBudget(c)
        PROVE  Inv'
    <2>1. PICK roas \in Roas : new_budget' \in _adjust_budget(budget[c].amount, roas)
      BY <1>2 DEF ReadBudget
    <2>2. budget[c].amount \in Amount
      BY DEF FilterTypeOK
    <2>3. new_budget' \in Amount
      BY <2>1, <2>2 DEF _adjust_budget, Roas
    <2> QED
      BY <1>2, <2>3 DEF ReadBudget, filterVars, frequency, FilterTypeOK, Counted, OneDebt, CountersHaveWindows
  <1>3. CASE _explain_decision
    BY <1>3 DEF _explain_decision, filterVars, frequency, FilterTypeOK, Counted, OneDebt, CountersHaveWindows
  <1>4. CASE _update_redis_bid
    BY <1>4 DEF _update_redis_bid, filterVars, frequency, FilterTypeOK, Counted, OneDebt, CountersHaveWindows
  <1>5. CASE _update_redis_budget
    <2>1. Decimal(new_budget) \in [form : {"none", "int", "float"}, amount : Amount]
      BY WholeAmounts
    <2>2. budget' \in [Campaign -> [form : {"none", "int", "float"}, amount : Amount]]
      BY <1>5, <2>1 DEF _update_redis_budget, FilterTypeOK
    <2> QED
      BY <1>5, <2>2
      DEF _update_redis_budget, Forget, frequency, FilterTypeOK, Counted, OneDebt, CountersHaveWindows
  <1>6. CASE RunEnds
    BY <1>6 DEF RunEnds, Forget, filterVars, frequency, FilterTypeOK, Counted, OneDebt, CountersHaveWindows
  <1> QED
    BY <1>1, <1>2, <1>3, <1>4, <1>5, <1>6 DEF AgentStep

THEOREM Invariance == Spec => []Inv
  <1>1. Inv /\ [Next]_vars => Inv'
    <2> SUFFICES ASSUME Inv, [Next]_vars PROVE Inv'
      OBVIOUS
    <2>1. CASE UNCHANGED vars
      BY <2>1 DEF vars, filterVars, frequency, agentVars, Inv, TypeOK, FilterTypeOK, Counted, OneDebt,
                  CountersHaveWindows
    <2>2. CASE Filtering /\ UNCHANGED agentVars
      <3>1. ASSUME NEW c \in Campaign, DeductBudget(c) \/ \E n \in 0..MaxAmount : SetBudget(c, n)
            PROVE  Inv'
        <4>1. UNCHANGED frequency
          BY <3>1 DEF DeductBudget, SetBudget
        <4> QED
          BY <2>2, <3>1, <4>1, BudgetStep
      <3> QED
        BY <2>2, <3>1, IncrInv, IncrUnansweredInv, OwedInv, LateInv, TickInv DEF Filtering
    <2> QED
      BY <2>1, <2>2, AgentInv DEF Next
  <1> QED
    BY InitInv, <1>1, PTL DEF Spec

------------------------------------------------------------------------------
(* The variables keep their types.  (filter.go:36-66, bidding_agent.py:279-351) *)
THEOREM Typing == Spec => []TypeOK
  BY Invariance, PTL DEF Inv

(* No number of simultaneous calls gets more than Limit answers out of one life
   of a counter, however many of their commands are counted twice or late.
   (filter.go:53-66) *)
THEOREM TheCapHolds == Spec => []CapHolds
  <1>1. Inv => CapHolds
    BY DEF Inv, TypeOK, FilterTypeOK, Counted, CapHolds
  <1> QED
    BY <1>1, Invariance, PTL

(* A counter without a window waits for it, was made unseen by an INCR that
   nobody waited for, or had its EXPIRE given up.  (filter.go:15-23, 58-64) *)
THEOREM WindowsAreSet == Spec => []CountersHaveWindows
  BY Invariance, PTL DEF Inv

(* Only an operator brings a refused campaign back, whatever the agent read and
   however late it writes.  (filter.go:36-51, bidding_agent.py:124-131, 310-342) *)
THEOREM NothingRevives == Spec => RefusedStaysRefused
  <1>1. Inv /\ [Next]_vars =>
            [\A c \in Campaign :
                ~CheckBudget(budget[c]) /\ CheckBudget(budget'[c]) =>
                    /\ \E n \in 1..MaxAmount : SetBudget(c, n)
                    /\ UNCHANGED agentVars]_vars
    <2> SUFFICES ASSUME Inv, Next, NEW c \in Campaign,
                        ~CheckBudget(budget[c]), CheckBudget(budget'[c])
                 PROVE  (\E n \in 1..MaxAmount : SetBudget(c, n)) /\ UNCHANGED agentVars
      OBVIOUS
    <2>1. budget'[c] # budget[c]
      OBVIOUS
    <2>2. CASE AgentStep
      <3>1. _update_redis_budget
        BY <2>1, <2>2 DEF AgentStep, _query_clickhouse, ReadBudget, _explain_decision,
                          _update_redis_bid, RunEnds, filterVars
      <3>2. budget'[c] = Decimal(new_budget)
        BY <3>1, <2>1 DEF _update_redis_budget, Inv, TypeOK, FilterTypeOK
      <3> QED
        BY <3>2 DEF CheckBudget, Decimal
    <2>3. CASE Filtering /\ UNCHANGED agentVars
      <3>1. PICK d \in Campaign : DeductBudget(d) \/ \E n \in 0..MaxAmount : SetBudget(d, n)
        BY <2>1, <2>3 DEF Filtering, Incr, IncrUnanswered, Owed, SetWindow, WindowUnanswered, WindowIsLost,
                            LateIncr, LateExpire, LateLost, Expire, FilterTick
      <3>2. d = c
        BY <2>1, <3>1 DEF DeductBudget, SetBudget, Inv, TypeOK, FilterTypeOK
      <3>3. ~DeductBudget(c)
        <4> SUFFICES ASSUME DeductBudget(c) PROVE FALSE
          OBVIOUS
        <4>1. PICK p \in Price : /\ budget[c].amount - p \in Amount
                                 /\ budget' = [budget EXCEPT ![c] = Whole(budget[c].amount - p)]
          BY DEF DeductBudget
        <4>2. budget[c].form = "int" /\ budget[c].amount <= 0 /\ budget[c].amount \in Int
          BY DEF DeductBudget, CheckBudget, Inv, TypeOK, FilterTypeOK
        <4>3. budget'[c] = Whole(budget[c].amount - p)
          BY <4>1 DEF Inv, TypeOK, FilterTypeOK
        <4> QED
          BY <4>2, <4>3 DEF CheckBudget, Whole
      <3>4. PICK n \in 0..MaxAmount : SetBudget(c, n)
        BY <3>1, <3>2, <3>3
      <3>5. n # 0
        BY <3>4 DEF SetBudget, Whole, CheckBudget, Inv, TypeOK, FilterTypeOK
      <3> QED
        BY <2>3, <3>4, <3>5
    <2> QED
      BY <2>2, <2>3 DEF Next
  <1> QED
    BY <1>1, Invariance, PTL DEF Spec, RefusedStaysRefused
==============================================================================
