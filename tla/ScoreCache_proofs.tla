-------------------------- MODULE ScoreCache_proofs --------------------------
(***************************************************************************)
(* Proofs about ScoreCache, for any ads, scores and times that keep        *)
(* ScoreCacheAssumption.  The invariant follows the two clocks of a key:   *)
(* how long ago its ad was seen active, and how long the scorer has been   *)
(* away from it.                                                           *)
(***************************************************************************)
EXTENDS ScoreCache, TLAPS

(* What is left of a cycle when the scorer is elsewhere, and how far the
   cycle's clock may have run. *)
Phase ==
    /\ pc \in Busy => elapsed <= MaxCycle
    /\ pc \in {"sleep", "head"} => elapsed <= Interval \/ elapsed <= MaxCycle
    /\ pc # "write" => half = NoAd /\ done = {} /\ DOMAIN scores = {}
    /\ pc \notin {"score", "write"} => batch = {}
    /\ pc = "down" => steady = {}
    /\ DOMAIN scores \subseteq batch

(* A key's age: its ad was active when the cycle that wrote it read MySQL. *)
Age ==
    /\ \A a \in active : offline[a] = 0
    /\ \A a \in batch : offline[a] <= elapsed
    /\ \A a \in Ad : Cached(a) =>
          IF ttl[a] = NoExpiry THEN a \in torn \/ a = half
                               ELSE offline[a] + ttl[a] <= TTL + MaxCycle

(* How much of a key's life the scorer's absence may have used up. *)
Refreshed ==
    /\ \A a \in steady \cup done : Cached(a) /\ ttl[a] # NoExpiry
    /\ \A a \in done : ttl[a] + elapsed >= TTL
    /\ \A a \in steady :
          IF pc \in Busy
          THEN \/ ttl[a] + elapsed + Interval >= TTL
               \/ ttl[a] + elapsed + MaxCycle >= TTL
          ELSE ttl[a] + elapsed >= TTL

Inv == TypeOK /\ Phase /\ Age /\ Refreshed

USE DEF NoExpiry, Cached, Busy

------------------------------------------------------------------------------
LEMMA InitInv == Init => Inv
  <1> SUFFICES ASSUME Init PROVE Inv
    OBVIOUS
  <1> USE ScoreCacheAssumption DEF Init, Nothing
  <1>1. TypeOK
    <2>1. scores \in [{} -> ECPM]
      OBVIOUS
    <2>2. scores \in PartialScores
      BY <2>1 DEF PartialScores
    <2>3. offline \in [Ad -> 0..Horizon] /\ ttl \in [Ad -> 0..TTL \cup {NoExpiry}]
      BY DEF Horizon
    <2>4. scoreCache \in [Ad -> ECPM \cup {Absent}]
      OBVIOUS
    <2> QED
      BY <2>2, <2>3, <2>4 DEF TypeOK
  <1>2. DOMAIN scores = {}
    OBVIOUS
  <1>3. Phase /\ Age /\ Refreshed
    BY <1>2 DEF Phase, Age, Refreshed
  <1> QED
    BY <1>1, <1>3 DEF Inv

(* However a cycle ends, what it wrote is what may count as steady. *)
LEMMA EndCycleInv ==
    ASSUME Inv, EndCycle, pc \in Busy,
           UNCHANGED <<mysql, keys, running, redis, elapsed>>,
           (torn' = torn /\ half = NoAd) \/ Tear
    PROVE  Inv'
  <1> USE ScoreCacheAssumption DEF Inv, EndCycle, Tear, Nothing, mysql, keys
  <1>1. scores' \in PartialScores
    <2>1. scores' \in [{} -> ECPM]
      OBVIOUS
    <2> QED
      BY <2>1 DEF PartialScores
  <1>2. TypeOK'
    BY <1>1 DEF TypeOK, Horizon
  <1>3. Phase'
    BY DEF Phase, TypeOK
  <1>4. Age'
    BY DEF Age, TypeOK
  <1>5. Refreshed'
    BY DEF Refreshed, TypeOK
  <1> QED
    BY <1>2, <1>3, <1>4, <1>5

------------------------------------------------------------------------------
LEMMA LoopStep ==
    ASSUME Inv, Start \/ BeginWith(TRUE) \/ BeginWith(FALSE) \/ Wake \/ Exit \/ Signal
    PROVE  Inv'
  <1> USE ScoreCacheAssumption
          DEF Inv, Start, BeginWith, Wake, Exit, Signal, mysql, keys, cycle
  <1>1. TypeOK'
    <2>1. redis' \in BOOLEAN /\ running' \in BOOLEAN
      <3>1. redis \in BOOLEAN /\ running \in BOOLEAN
        BY DEF TypeOK
      <3> QED
        BY <3>1, Zenon
    <2> QED
      BY <2>1 DEF TypeOK, Horizon
  <1>2. Phase'
    BY DEF Phase, TypeOK
  <1>3. Age'
    BY DEF Age, Phase, TypeOK
  <1>4. Refreshed'
    BY DEF Refreshed, Phase, TypeOK
  <1> QED
    BY <1>1, <1>2, <1>3, <1>4

LEMMA FetchStep ==
    ASSUME Inv, Fetch
    PROVE  Inv'
  <1> USE ScoreCacheAssumption DEF Inv, Fetch, mysql, keys
  <1>1. TypeOK'
    BY DEF TypeOK, Horizon
  <1>2. Phase'
    BY DEF Phase, TypeOK
  <1>3. Age'
    BY DEF Age, Phase, TypeOK
  <1>4. Refreshed'
    BY DEF Refreshed, Phase, TypeOK
  <1> QED
    BY <1>1, <1>2, <1>3, <1>4

LEMMA ScoreStep ==
    ASSUME Inv, NEW S \in SUBSET batch, ScoreThose(S)
    PROVE  Inv'
  <1> USE ScoreCacheAssumption DEF Inv, ScoreThose, mysql, keys
  <1>1. scores' \in PartialScores
    BY DEF PartialScores, TypeOK
  <1>2. TypeOK'
    BY <1>1 DEF TypeOK, Horizon, Phase
  <1>3. Phase' /\ Age' /\ Refreshed'
    BY DEF Phase, Age, Refreshed, TypeOK
  <1> QED
    BY <1>2, <1>3

LEMMA HsetStep ==
    ASSUME Inv, NEW a \in Ad, Hset(a)
    PROVE  Inv'
  <1> USE ScoreCacheAssumption DEF Inv, Hset, mysql, process
  <1>1. scores[a] \in ECPM
    BY DEF TypeOK, PartialScores
  <1>2. TypeOK'
    BY <1>1 DEF TypeOK, Horizon
  <1>3. Phase'
    BY DEF Phase, TypeOK
  <1>4. Age'
    BY <1>1 DEF Age, Phase, TypeOK
  <1>5. Refreshed'
    BY <1>1 DEF Refreshed, Phase, TypeOK
  <1> QED
    BY <1>2, <1>3, <1>4, <1>5

LEMMA SetExpiryStep ==
    ASSUME Inv, SetExpiry
    PROVE  Inv'
  <1> USE ScoreCacheAssumption DEF Inv, SetExpiry, mysql, process
  <1>1. TypeOK'
    BY DEF TypeOK, Horizon
  <1>2. Phase'
    BY DEF Phase, TypeOK
  <1>3. Age'
    BY DEF Age, Phase, TypeOK
  <1>4. Refreshed'
    BY DEF Refreshed, Phase, TypeOK
  <1> QED
    BY <1>1, <1>2, <1>3, <1>4

LEMMA CrashStep ==
    ASSUME Inv, Crash
    PROVE  Inv'
  <1> USE ScoreCacheAssumption DEF Inv, Crash, Tear, Nothing, mysql, keys
  <1>1. scores' \in PartialScores
    <2>1. scores' \in [{} -> ECPM]
      OBVIOUS
    <2> QED
      BY <2>1 DEF PartialScores
  <1>2. TypeOK'
    BY <1>1 DEF TypeOK, Horizon
  <1>3. Phase' /\ Age' /\ Refreshed'
    BY DEF Phase, Age, Refreshed, TypeOK
  <1> QED
    BY <1>2, <1>3

------------------------------------------------------------------------------
LEMMA EditStep ==
    ASSUME Inv, NEW a \in Ad, Pause(a) \/ Resume(a)
    PROVE  Inv'
  <1> USE ScoreCacheAssumption DEF Inv, Pause, Resume, keys, process, cycle
  <1>1. TypeOK'
    BY DEF TypeOK, Horizon
  <1>2. Phase'
    BY DEF Phase, TypeOK
  <1>3. Age'
    <2>1. CASE Pause(a)
      <3>1. active' \subseteq active /\ UNCHANGED <<offline, batch, elapsed, scoreCache, ttl, torn, half>>
        BY <2>1
      <3> QED
        BY <3>1 DEF Age
    <2>2. CASE Resume(a)
      <3>1. UNCHANGED <<batch, elapsed, scoreCache, ttl, torn, half>>
        BY <2>2
      <3>2. \A b \in Ad : offline[b] \in Nat /\ offline'[b] = IF b = a THEN 0 ELSE offline[b]
        BY <2>2 DEF TypeOK
      <3>3. \A b \in active' : offline'[b] = 0
        BY <2>2, <3>2 DEF Age, TypeOK
      <3>4. \A b \in batch : 0 <= elapsed /\ b \in Ad
        BY DEF TypeOK
      <3>5. \A b \in batch' : offline'[b] <= elapsed'
        BY <3>1, <3>2, <3>4 DEF Age
      <3>6. \A b \in Ad : ttl[b] # NoExpiry => ttl[b] \in Int /\ offline'[b] <= offline[b]
        BY <3>2 DEF TypeOK
      <3>7. ASSUME NEW b \in Ad, Cached(b)'
            PROVE  IF ttl'[b] = NoExpiry THEN b \in torn' \/ b = half'
                                         ELSE offline'[b] + ttl'[b] <= TTL + MaxCycle
        BY <3>1, <3>2, <3>6, <3>7 DEF Age
      <3> QED
        BY <3>3, <3>5, <3>7 DEF Age
    <2> QED
      BY <2>1, <2>2
  <1>4. Refreshed'
    BY DEF Refreshed, TypeOK
  <1> QED
    BY <1>1, <1>2, <1>3, <1>4

(* A key that the scorer keeps refreshing has life left at every moment. *)
LEMMA SteadyKeysLive ==
    ASSUME Inv, NEW a \in steady \cup done
    PROVE  Cached(a) /\ ttl[a] > 0
  <1> USE ScoreCacheAssumption
  <1>1. /\ Cached(a) /\ ttl[a] # NoExpiry
        /\ ttl[a] \in 0..TTL \cup {NoExpiry} /\ elapsed \in Nat
    BY DEF Inv, TypeOK, Refreshed
  <1>2. /\ pc \in Busy => elapsed <= MaxCycle
        /\ pc \in {"sleep", "head"} => elapsed <= Interval \/ elapsed <= MaxCycle
        /\ pc \notin Busy \cup {"sleep", "head"} => pc = "down"
    BY DEF Inv, TypeOK, Phase
  <1>3. CASE a \in done
    <2>1. pc = "write" /\ ttl[a] + elapsed >= TTL
      BY <1>3 DEF Inv, Phase, Refreshed
    <2> QED
      BY <1>1, <1>2, <2>1
  <1>4. CASE a \in steady
    <2>1. pc # "down"
      BY <1>4 DEF Inv, Phase
    <2>2. CASE pc \in Busy
      <3>1. \/ ttl[a] + elapsed + Interval >= TTL
            \/ ttl[a] + elapsed + MaxCycle >= TTL
        BY <1>4, <2>2 DEF Inv, Refreshed
      <3> QED
        BY <1>1, <1>2, <2>2, <3>1
    <2>3. CASE pc \notin Busy
      <3>1. ttl[a] + elapsed >= TTL
        BY <1>4, <2>3 DEF Inv, Refreshed
      <3> QED
        BY <1>1, <1>2, <2>1, <2>3, <3>1
    <2> QED
      BY <2>2, <2>3
  <1> QED
    BY <1>3, <1>4

LEMMA ExpireStep ==
    ASSUME Inv, NEW a \in Ad, Expire(a)
    PROVE  Inv'
  <1> USE ScoreCacheAssumption DEF Inv, Expire, mysql, process, cycle
  <1>1. a \notin steady \cup done
    BY SteadyKeysLive DEF TypeOK
  <1>2. TypeOK'
    BY DEF TypeOK, Horizon
  <1>3. Phase' /\ Age' /\ Refreshed'
    BY <1>1 DEF Phase, Age, Refreshed, TypeOK
  <1> QED
    BY <1>2, <1>3

LEMMA TickStep ==
    ASSUME Inv, Tick
    PROVE  Inv'
  <1> USE ScoreCacheAssumption DEF Inv, Tick, MayPass, cycle
  <1>1. TypeOK'
    BY DEF TypeOK, Horizon
  <1>2. Phase'
    BY DEF Phase, TypeOK
  <1>3. Age'
    BY DEF Age, Phase, TypeOK, Horizon
  <1>4. Refreshed'
    <2>1. CASE pc = "down"
      BY <2>1 DEF Refreshed, Phase, TypeOK
    <2>2. CASE pc # "down"
      <3>1. /\ \A a \in steady \cup done : ttl'[a] = ttl[a] - 1 /\ ttl[a] \in 1..TTL
            /\ elapsed' = elapsed + 1
        BY <2>2, SteadyKeysLive DEF Refreshed, TypeOK
      <3>2. /\ elapsed \in Nat /\ pc' = pc /\ steady' = steady /\ done' = done
            /\ scoreCache' = scoreCache
        BY DEF TypeOK
      <3>3. \A a \in steady \cup done : ttl'[a] # NoExpiry /\ scoreCache'[a] # Absent
        BY <3>1, <3>2 DEF Refreshed
      <3>4. \A a \in done : ttl'[a] + elapsed' >= TTL
        BY <3>1, <3>2 DEF Refreshed
      <3>5. \A a \in steady :
                IF pc \in Busy
                THEN \/ ttl'[a] + elapsed' + Interval >= TTL
                     \/ ttl'[a] + elapsed' + MaxCycle >= TTL
                ELSE ttl'[a] + elapsed' >= TTL
        BY <3>1, <3>2 DEF Refreshed
      <3> QED
        BY <3>2, <3>3, <3>4, <3>5 DEF Refreshed
    <2> QED
      BY <2>1, <2>2
  <1> QED
    BY <1>1, <1>2, <1>3, <1>4

------------------------------------------------------------------------------
LEMMA NextInv == Inv /\ [Next]_vars => Inv'
  <1> SUFFICES ASSUME Inv, [Next]_vars PROVE Inv'
    OBVIOUS
  <1>1. CASE Start \/ Begin \/ BeginOffline \/ Wake \/ Exit \/ Signal
    BY <1>1, LoopStep DEF Begin, BeginOffline
  <1>2. CASE Fetch
    BY <1>2, FetchStep
  <1>3. CASE ScoreAll \/ ScoreSome
    BY <1>3, ScoreStep DEF ScoreAll, ScoreSome
  <1>4. CASE FetchNothing \/ FetchFails \/ SkipWrite \/ ScoringFails \/ WriteDone \/ WriteFails
    <2>1. pc # "write" => half = NoAd
      BY DEF Inv, Phase
    <2> QED
      BY <1>4, <2>1, EndCycleInv
         DEF FetchNothing, FetchFails, SkipWrite, ScoringFails, WriteDone, WriteFails
  <1>5. ASSUME NEW a \in Ad, Hset(a)
        PROVE  Inv'
    BY <1>5, HsetStep
  <1>6. CASE SetExpiry
    BY <1>6, SetExpiryStep
  <1>7. CASE Crash
    BY <1>7, CrashStep
  <1>8. ASSUME NEW a \in Ad, Pause(a) \/ Resume(a)
        PROVE  Inv'
    BY <1>8, EditStep
  <1>9. ASSUME NEW a \in Ad, Expire(a)
        PROVE  Inv'
    BY <1>9, ExpireStep
  <1>10. CASE Tick
    BY <1>10, TickStep
  <1>11. CASE UNCHANGED vars
    BY <1>11 DEF Inv, TypeOK, Phase, Age, Refreshed, vars, mysql, keys, process, cycle, Horizon
  <1> QED
    BY <1>1, <1>2, <1>3, <1>4, <1>5, <1>6, <1>7, <1>8, <1>9, <1>10, <1>11
       DEF Next, Proceed, Fault, Edit

LEMMA Invariance == Spec => []Inv
  BY InitInv, NextInv, PTL DEF Spec

(* The state keeps its types; no command in the pipeline is for an ad that
   was not scored. *)
THEOREM TypeCorrect == Spec => []TypeOK
  <1>1. Inv => TypeOK
    BY DEF Inv
  <1> QED
    BY <1>1, Invariance, PTL

(* A paused ad is out of the cache after one life of its key and one cycle,
   whenever it was paused and whatever failed, unless its EXPIRE got lost.
   (cpu_scorer.py:476-482, 492-517) *)
THEOREM PausedAdsDoLeave == Spec => []PausedAdsLeave
  <1>1. Inv => PausedAdsLeave
    <2> SUFFICES ASSUME Inv, NEW a \in Ad, Cached(a), a \notin torn
                 PROVE  offline[a] <= TTL + MaxCycle
      BY DEF PausedAdsLeave
    <2>1. CASE ttl[a] = NoExpiry
      BY <2>1, ScoreCacheAssumption DEF Inv, TypeOK, Phase, Age
    <2>2. CASE ttl[a] # NoExpiry
      BY <2>2, ScoreCacheAssumption DEF Inv, TypeOK, Age, Horizon
    <2> QED
      BY <2>1, <2>2
  <1> QED
    BY <1>1, Invariance, PTL

(* Between two writes a steady ad's key has life left, for every interval and
   every scoring time that ScoreCacheAssumption allows.
   (cpu_scorer.py:92, 526-535) *)
THEOREM SteadyAdsStayCached == Spec => []SteadyAdsAreCached
  <1>1. Inv => SteadyAdsAreCached
    BY SteadyKeysLive DEF SteadyAdsAreCached
  <1> QED
    BY <1>1, Invariance, PTL

(* The scorer and the expiry of keys implement the store that the bidding
   path reads: every step is a step of one key or none.
   (cpu_scorer.py:459-488) *)
THEOREM ImplementsStore == Spec => StoreContract
  <1>1. Init => Store!Init
    BY DEF Init, Store!Init
  <1>2. Inv /\ [Next]_vars => [Store!Next]_scoreCache
    <2> SUFFICES ASSUME Inv, [Next]_vars, scoreCache' # scoreCache
                 PROVE  Store!Next
      OBVIOUS
    <2>1. ASSUME NEW a \in Ad, Hset(a)
          PROVE  Store!Next
      <3>1. scores[a] \in ECPM
        BY <2>1 DEF Inv, TypeOK, PartialScores, Hset
      <3> QED
        BY <2>1, <3>1 DEF Hset, Store!Next, Store!Put
    <2>2. ASSUME NEW a \in Ad, Expire(a)
          PROVE  Store!Next
      BY <2>2 DEF Expire, Store!Next, Store!Remove
    <2>3. (\E a \in Ad : Hset(a)) \/ (\E a \in Ad : Expire(a))
      BY DEF Next, Proceed, Fault, Edit, Start, Begin, BeginOffline, BeginWith, Wake, Exit,
             Signal, Fetch, FetchNothing, FetchFails, ScoreAll, ScoreSome, ScoreThose,
             SkipWrite, ScoringFails, WriteDone, WriteFails, SetExpiry, Crash, Pause,
             Resume, Tick, vars, keys
    <2> QED
      BY <2>1, <2>2, <2>3
  <1> QED
    BY <1>1, <1>2, Invariance, PTL DEF Spec, StoreContract, Store!Spec
==============================================================================
