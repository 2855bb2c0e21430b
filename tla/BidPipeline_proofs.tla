-------------------------- MODULE BidPipeline_proofs --------------------------
(***************************************************************************)
(* Proofs about the bidding path, for any requests, ads, scores, recalls,  *)
(* answers of the model, channel capacity and number of restarts.          *)
(***************************************************************************)
EXTENDS BidPipeline, FiniteSetTheorems, SequenceTheorems, TLAPS

USE DEF AdsOf, delivery

------------------------------------------------------------------------------
(* The auction.                                                            *)

(* A sale of RunWithECPM is to a bid at or above the floor, and settles at *)
(* or above it, whatever the scores are.  (auction.go:50-92)               *)
LEMMA OutcomeIsSound ==
    ASSUME NEW price, NEW ecpm, NEW floor \in Int,
           NEW o \in A!RunWithECPM(price, ecpm, floor), o.winner # NoBid
    PROVE  /\ o.winner \in DOMAIN price
           /\ price[o.winner] >= floor
           /\ o.price >= floor
  <1> DEFINE S == A!Eligible(price, ecpm, floor)
  <1>1. S # {}
    BY DEF A!RunWithECPM, A!Outcomes, A!EmptyAuction
  <1>2a. PICK w \in A!Top(S, ecpm) :
            \E s \in A!SecondPrices(S, price, ecpm, floor, w) :
                o = [winner |-> w, price |-> A!Settlement(s, floor)]
    BY <1>1 DEF A!RunWithECPM, A!Outcomes
  <1>2. PICK s \in A!SecondPrices(S, price, ecpm, floor, w) :
            o = [winner |-> w, price |-> A!Settlement(s, floor)]
    BY <1>2a
  <1>3. w \in S /\ w \in DOMAIN price /\ price[w] >= floor
    BY DEF A!Top, A!Eligible
  <1>4. s = floor \/ \E b \in S : s = price[b]
    BY DEF A!SecondPrices, A!Top
  <1>5. s >= floor
    BY <1>4 DEF A!Eligible
  <1>6. A!Settlement(s, floor) >= floor
    BY <1>5 DEF A!Settlement
  <1> QED
    BY <1>2, <1>3, <1>6
LEMMA OutcomeType ==
    ASSUME NEW list \in Seq(Ad), NEW price \in [AdsOf(list) -> Int], NEW ecpm, NEW floor \in Int,
           NEW o \in A!RunWithECPM(price, ecpm, floor)
    PROVE  o \in Outcome
  <1> DEFINE S == A!Eligible(price, ecpm, floor)
  <1>1. CASE S = {}
    BY <1>1 DEF A!RunWithECPM, A!Outcomes, A!EmptyAuction, Outcome
  <1>2. CASE S # {}
    <2>1. PICK w \in A!Top(S, ecpm) :
              \E s \in A!SecondPrices(S, price, ecpm, floor, w) :
                  o = [winner |-> w, price |-> A!Settlement(s, floor)]
      BY <1>2 DEF A!RunWithECPM, A!Outcomes
    <2>2. PICK s \in A!SecondPrices(S, price, ecpm, floor, w) :
              o = [winner |-> w, price |-> A!Settlement(s, floor)]
      BY <2>1
    <2>3. w \in Ad
      BY DEF A!Top, A!Eligible
    <2>4. s \in Int
      BY DEF A!SecondPrices, A!Top, A!Eligible
    <2> QED
      BY <2>2, <2>3, <2>4 DEF A!Settlement, Outcome
  <1> QED
    BY <1>1, <1>2

------------------------------------------------------------------------------
(* The experiment list.                                                    *)

LEMMA SnapshotIsList ==
    ASSUME db \in [Experiment -> AB!Row], AB!Loadable
    PROVE  AB!Snapshot \in AB!Lists
  <1>1. AB!Running \in SUBSET Experiment
    BY DEF AB!Running
  <1>2. \A e \in AB!Running : db[e].ratio \in Ratio
    BY <1>1 DEF AB!Row, AB!Loadable
  <1>3. AB!Snapshot \in [AB!Running -> Ratio]
    BY <1>2 DEF AB!Snapshot
  <1> QED
    BY <1>1, <1>3 DEF AB!Lists

LEMMA NoListIsList == NoList \in AB!Lists
  <1>1. NoList \in [{} -> Ratio]
    BY DEF NoList
  <1> QED
    BY <1>1 DEF AB!Lists

(* Every non-empty set of ids has a first one.                             *)
LEMMA FirstExists ==
    ASSUME NEW S \in SUBSET Nat, S # {}
    PROVE  \E e \in S : \A f \in S : e <= f
  <1> DEFINE R == {ss \in Nat \X Nat : ss[1] < ss[2]}
  <1>1. IsWellFoundedOn(R, Nat)
    BY NatLessThanWellFounded DEF OpToRel
  <1>2. PICK e \in S : \A f \in S : ~(<<f, e>> \in R)
    <2> HIDE DEF R
    <2> QED
      BY <1>1, WFMin
  <1>3. \A f \in S : <<f, e>> \in R <=> f < e
    OBVIOUS
  <1>4. \A f \in S : e \in Nat /\ f \in Nat /\ ~(f < e)
    BY <1>2, <1>3
  <1>5. \A f \in S : e <= f
    <2> HIDE DEF R
    <2> QED
      BY <1>4
  <1> QED
    BY <1>5

(* A routed request has an assignment to a running experiment.             *)
LEMMA AssignType ==
    ASSUME NEW list \in AB!Lists, NEW id
    PROVE  AB!Assign(list, id) \in AB!Assignment \cup {NoAssignment}
  <1>1. CASE DOMAIN list = {}
    BY <1>1 DEF AB!Assign
  <1>2. CASE DOMAIN list # {}
    <2>1. DOMAIN list \subseteq Experiment /\ DOMAIN list \in SUBSET Nat
      BY RoutingAssumption DEF AB!Lists, AB!ABConstants
    <2>2. PICK e \in DOMAIN list : \A f \in DOMAIN list : e <= f
      BY <1>2, <2>1, FirstExists
    <2> DEFINE first == CHOOSE d \in DOMAIN list : \A f \in DOMAIN list : d <= f
    <2>3. first \in Experiment
      BY <2>1, <2>2
    <2> QED
      BY <1>2, <2>3 DEF AB!Assign, AB!Assignment
  <1> QED
    BY <1>1, <1>2

------------------------------------------------------------------------------
(* Bids.                                                                   *)

LEMMA PricesType ==
    ASSUME NEW list \in Seq(Ad), NEW s \in Seq([ad : Ad, ecpm : Int])
    PROVE  BidPrices(list, s) \in [AdsOf(list) -> Int]
  <1> SUFFICES ASSUME NEW a \in AdsOf(list)
               PROVE  LET i == Position(list, a)
                      IN (IF i <= Len(s) THEN s[i].ecpm ELSE BidPrice[a]) \in Int
    BY DEF BidPrices
  <1>1. Position(list, a) \in DOMAIN list
    BY DEF Position
  <1>2. a \in Ad /\ BidPrice[a] \in Int
    BY PipelineAssumption
  <1>3. ASSUME Position(list, a) <= Len(s)
        PROVE  s[Position(list, a)].ecpm \in Int
    <2>1. Position(list, a) \in 1..Len(s)
      BY <1>1, <1>3
    <2>2. \A i \in 1..Len(s) : s[i] \in [ad : Ad, ecpm : Int]
      BY ElementOfSeq
    <2>3. s[Position(list, a)] \in [ad : Ad, ecpm : Int]
      BY <2>1, <2>2
    <2> QED
      BY <2>3
  <1> QED
    BY <1>2, <1>3

LEMMA ScoresByType ==
    ASSUME NEW list \in Seq(Ad), NEW f, \A a \in AdsOf(list) : f[a] \in Int
    PROVE  ScoresBy(list, f) \in Seq([ad : Ad, ecpm : Int])
  <1>1. \A i \in DOMAIN list : list[i] \in Ad /\ f[list[i]] \in Int
    OBVIOUS
  <1>2. DOMAIN list = 1..Len(list) /\ Len(list) \in Nat
    OBVIOUS
  <1> DEFINE e(i) == [ad |-> list[i], ecpm |-> f[list[i]]]
  <1>3. \A i \in 1..Len(list) : e(i) \in [ad : Ad, ecpm : Int]
    BY <1>1, <1>2
  <1> HIDE DEF e
  <1>4. [i \in 1..Len(list) |-> e(i)] \in Seq([ad : Ad, ecpm : Int])
    BY <1>2, <1>3
  <1> QED
    BY <1>2, <1>4 DEF ScoresBy, e
------------------------------------------------------------------------------
(* The inductive invariant.                                                *)

(* How far a request has come limits what is known of it.                  *)
Progress ==
    \A r \in Request :
        /\ pc[r] \in Unscored => scorer[r] = "none"
        /\ pc[r] \in {"cache", "llm"} => ~IsControl(assign[r])
        /\ pc[r] \in Unscored \cup {"auction", "rejected", "panicked"} =>
              ~Sold(r) /\ publisher[r] = "none"
        /\ publisher[r] \in {"pending", "queued"} => Sold(r)

RequestInv == RequestTypeOK /\ Progress /\ WinnerIsSound /\ VariantDecidesScorer

Inv == EnvironmentTypeOK /\ RequestInv

LEMMA InitInv == Init => Inv
  <1> SUFFICES ASSUME Init
               PROVE  Inv
    OBVIOUS
  <1>1. AB!TypeOK
    BY NoListIsList, RoutingAssumption DEF Init, AB!TypeOK, AB!ABConstants
  <1>2. EnvironmentTypeOK
    BY <1>1, PipelineAssumption DEF Init, EnvironmentTypeOK, NoDeps, Deps
  <1>3. RequestTypeOK
    <2>1. <<>> \in PartialScores
      <3>1. <<>> \in [{} -> ECPM \cup {Absent}]
        OBVIOUS
      <3> QED
        BY <3>1 DEF PartialScores
    <2>2. <<>> \in Seq([ad : Ad, ecpm : Int])
      OBVIOUS
    <2>3. A!EmptyAuction \in Outcome
      BY DEF A!EmptyAuction, Outcome
    <2> QED
      BY <2>1, <2>2, <2>3 DEF Init, RequestTypeOK, Scorers
  <1>4. Progress /\ WinnerIsSound /\ VariantDecidesScorer
    BY DEF Init, Progress, WinnerIsSound, VariantDecidesScorer, Sold, A!EmptyAuction
  <1> QED
    BY <1>2, <1>3, <1>4 DEF Inv, RequestInv

(* Steps that leave one half of the state alone.                           *)

LEMMA ABKept == AB!TypeOK /\ UNCHANGED abVars => AB!TypeOK'
  BY DEF AB!TypeOK, abVars

LEMMA EnvironmentKept == EnvironmentTypeOK /\ UNCHANGED Environment => EnvironmentTypeOK'
  BY ABKept DEF EnvironmentTypeOK, Environment, serverVars

LEMMA RequestsKept == RequestInv /\ UNCHANGED requestVars => RequestInv'
  <1> SUFFICES ASSUME RequestInv, UNCHANGED requestVars
               PROVE  RequestInv'
    OBVIOUS
  <1>1. RequestTypeOK'
    BY DEF RequestInv, RequestTypeOK, requestVars
  <1>2. Progress'
    BY DEF RequestInv, Progress, Sold, requestVars
  <1>3. WinnerIsSound'
    BY DEF RequestInv, WinnerIsSound, Sold, ResponsePrice, Prices, requestVars
  <1>4. VariantDecidesScorer'
    BY DEF RequestInv, VariantDecidesScorer, requestVars
  <1> QED
    BY <1>1, <1>2, <1>3, <1>4 DEF RequestInv

LEMMA CandidatesType ==
    ASSUME RequestInv, NEW r \in Request
    PROVE  candidates[r] \in Seq(Ad)
  <1>1. candidates[r] \in Recalls \cup {<<>>}
    BY DEF RequestInv, RequestTypeOK
  <1>2. <<>> \in Seq(Ad)
    OBVIOUS
  <1> QED
    BY <1>1, <1>2, PipelineAssumption

(* Steps that move a request on and do nothing else.                       *)
Moves(r) ==
    Reject(r) \/ Receive(r) \/ StartGPR(r) \/ CacheMiss(r) \/ Panic(r) \/ Respond(r)

LEMMA MovesStep ==
    ASSUME RequestInv, NEW r \in Request, Moves(r)
    PROVE  RequestInv'
  <1>1. RequestTypeOK'
    BY DEF RequestInv, RequestTypeOK, InFlight, Done, Goto, Moves, Reject, Receive, StartGPR,
           CacheMiss, Panic, Respond
  <1>2. Progress'
    BY DEF RequestInv, RequestTypeOK, Progress, Sold, IsControl, Unscored, Goto, Moves, Reject, Receive, StartGPR,
           CacheMiss, Panic, Respond
  <1>3. WinnerIsSound'
    BY DEF RequestInv, RequestTypeOK, Progress, WinnerIsSound, Sold, ResponsePrice, Prices,
           Unscored, Goto, Moves, Reject, Receive, StartGPR,
           CacheMiss, Panic, Respond
  <1>4. VariantDecidesScorer'
    BY DEF RequestInv, RequestTypeOK, Progress, VariantDecidesScorer, Unscored, Goto,
           Moves, Reject, Receive, StartGPR,
           CacheMiss, Panic, Respond
  <1> QED
    BY <1>1, <1>2, <1>3, <1>4 DEF RequestInv

LEMMA RecallStep ==
    ASSUME RequestInv, NEW r \in Request, Recall(r)
    PROVE  RequestInv'
  <1>1. RequestTypeOK'
    BY DEF RequestInv, RequestTypeOK, InFlight, Done, Goto, Recall
  <1>2. Progress'
    BY DEF RequestInv, RequestTypeOK, Progress, Sold, IsControl, Unscored, Goto, Recall
  <1>3. WinnerIsSound'
    BY DEF RequestInv, RequestTypeOK, Progress, WinnerIsSound, Sold, ResponsePrice, Prices,
           Unscored, Goto, Recall
  <1>4. VariantDecidesScorer'
    BY DEF RequestInv, RequestTypeOK, Progress, VariantDecidesScorer, Unscored, Goto,
           Recall
  <1> QED
    BY <1>1, <1>2, <1>3, <1>4 DEF RequestInv

LEMMA RouteStep ==
    ASSUME RequestInv, EnvironmentTypeOK, NEW r \in Request, Route(r)
    PROVE  RequestInv'
  <1>1. RequestTypeOK'
    <2>1. assign'[r] \in AB!Assignment \cup {NoAssignment}
      BY AssignType DEF RequestInv, RequestTypeOK, EnvironmentTypeOK, AB!TypeOK, Route
    <2> QED
      BY <2>1 DEF RequestInv, RequestTypeOK, InFlight, Goto, Route
  <1>2. Progress'
    BY DEF RequestInv, RequestTypeOK, Progress, Sold, IsControl, Unscored, Goto, Route
  <1>3. WinnerIsSound'
    BY DEF RequestInv, RequestTypeOK, Progress, WinnerIsSound, Sold, ResponsePrice, Prices,
           Unscored, Goto, Route
  <1>4. VariantDecidesScorer'
    BY DEF RequestInv, RequestTypeOK, Progress, VariantDecidesScorer, Unscored, Goto,
           Route
  <1> QED
    BY <1>1, <1>2, <1>3, <1>4 DEF RequestInv

LEMMA CacheReadStep ==
    ASSUME RequestInv, EnvironmentTypeOK, NEW r \in Request, CacheRead(r)
    PROVE  RequestInv'
  <1>1. RequestTypeOK'
    <2>1. candidates[r] \in Seq(Ad)
      BY CandidatesType
    <2>2. PICK i \in DOMAIN candidates[r] :
              cached' = [cached EXCEPT ![r] =
                  [b \in DOMAIN cached[r] \cup {candidates[r][i]} |->
                      IF b = candidates[r][i] THEN scoreCache[b] ELSE cached[r][b]]]
      BY DEF CacheRead
    <2> DEFINE a == candidates[r][i]
    <2>3. a \in Ad /\ scoreCache[a] \in ECPM \cup {Absent}
      BY <2>1 DEF EnvironmentTypeOK
    <2>4. PICK S \in SUBSET Ad : cached[r] \in [S -> ECPM \cup {Absent}]
      BY DEF RequestInv, RequestTypeOK, PartialScores
    <2>5. cached'[r] \in [S \cup {a} -> ECPM \cup {Absent}]
      BY <2>2, <2>3, <2>4 DEF RequestInv, RequestTypeOK
    <2>6. cached'[r] \in PartialScores
      BY <2>3, <2>4, <2>5 DEF PartialScores
    <2> QED
      BY <2>2, <2>6 DEF RequestInv, RequestTypeOK, CacheRead
  <1>2. Progress'
    BY DEF RequestInv, RequestTypeOK, Progress, Sold, IsControl, Unscored, Goto, CacheRead
  <1>3. WinnerIsSound'
    BY DEF RequestInv, RequestTypeOK, Progress, WinnerIsSound, Sold, ResponsePrice, Prices,
           Unscored, Goto, CacheRead
  <1>4. VariantDecidesScorer'
    BY DEF RequestInv, RequestTypeOK, Progress, VariantDecidesScorer, Unscored, Goto,
           CacheRead
  <1> QED
    BY <1>1, <1>2, <1>3, <1>4 DEF RequestInv

(* Whatever branch scored it, a request leaves the branch with scores, the *)
(* flag and the branch's name in accord.                                   *)

LEMMA ScoredStep ==
    ASSUME RequestInv, NEW r \in Request, NEW from \in {"score", "cache", "llm"},
           NEW s \in Seq([ad : Ad, ecpm : Int]), NEW used \in BOOLEAN, NEW by \in Scorers,
           by # "none", by = "baseline" <=> IsControl(assign[r]), used <=> by \in {"cache", "llm"},
           Goto(r, from, "auction"), Scored(r, s, used, by)
    PROVE  RequestInv'
  <1>1. RequestTypeOK'
    BY DEF RequestInv, RequestTypeOK, InFlight, Done, Goto, Scored
  <1>2. Progress'
    BY DEF RequestInv, RequestTypeOK, Progress, Sold, IsControl, Unscored, Goto, Scored
  <1>3. WinnerIsSound'
    BY DEF RequestInv, RequestTypeOK, Progress, WinnerIsSound, Sold, ResponsePrice, Prices,
           Unscored, Goto, Scored
  <1>4. VariantDecidesScorer'
    <2>1. IsControl(assign[r]) <=>
              assign[r] \in [experiment : Experiment, variant : {"control"}]
      BY RoutingAssumption DEF RequestInv, RequestTypeOK, IsControl, AB!Assignment, AB!ABConstants
    <2> QED
      BY <2>1 DEF RequestInv, RequestTypeOK, Progress, VariantDecidesScorer, Goto, Scored
  <1> QED
    BY <1>1, <1>2, <1>3, <1>4 DEF RequestInv

LEMMA ScorersStep ==
    ASSUME RequestInv, NEW r \in Request,
           ScoreBaseline(r) \/ CacheHit(r) \/ LLMScores(r) \/ LLMFails(r)
    PROVE  RequestInv'
  <1>1. candidates[r] \in Seq(Ad)
    BY CandidatesType
  <1>2. CASE ScoreBaseline(r)
    <2>1. PICK f \in [AdsOf(candidates[r]) -> ECPM] :
              Scored(r, ScoresBy(candidates[r], f), FALSE, "baseline")
      BY <1>2 DEF ScoreBaseline
    <2>2. ScoresBy(candidates[r], f) \in Seq([ad : Ad, ecpm : Int])
      <3>1. \A a \in AdsOf(candidates[r]) : f[a] \in Int
        BY PipelineAssumption
      <3> QED
        BY <1>1, <3>1, ScoresByType
    <2> QED
      BY <1>2, <2>1, <2>2, ScoredStep DEF ScoreBaseline, Scorers
  <1>3. CASE CacheHit(r)
    <2>1. ScoresBy(candidates[r], cached[r]) \in Seq([ad : Ad, ecpm : Int])
      <3>1. \A a \in AdsOf(candidates[r]) : cached[r][a] \in Int
        <4>1. PICK S \in SUBSET Ad : cached[r] \in [S -> ECPM \cup {Absent}]
          BY DEF RequestInv, RequestTypeOK, PartialScores
        <4>2. S = AdsOf(candidates[r]) /\ \A a \in S : cached[r][a] # Absent
          BY <1>3, <4>1 DEF CacheHit, AllRead
        <4> QED
          BY <4>1, <4>2, PipelineAssumption
      <3> QED
        BY <1>1, <3>1, ScoresByType
    <2>2. ~IsControl(assign[r])
      BY <1>3 DEF CacheHit, Goto, RequestInv, Progress
    <2> QED
      BY <1>3, <2>1, <2>2, ScoredStep DEF CacheHit, Scorers
  <1>4. CASE LLMScores(r)
    <2>1. PICK s \in LLMAnswers \cup {<<>>} : Scored(r, s, TRUE, "llm")
      BY <1>4 DEF LLMScores
    <2>2. s \in Seq([ad : Ad, ecpm : Int])
      <3>1. Score \subseteq [ad : Ad, ecpm : Int]
        BY PipelineAssumption DEF Score
      <3>2. CASE s \in LLMAnswers
        <4>1. s \in Seq(Score)
          BY <3>2, PipelineAssumption
        <4> QED
          BY <3>1, <4>1, SeqMonotonic
      <3>3. CASE s = <<>>
        BY <3>3
      <3> QED
        BY <3>2, <3>3
    <2>3. ~IsControl(assign[r])
      BY <1>4 DEF LLMScores, Goto, RequestInv, Progress
    <2> QED
      BY <1>4, <2>1, <2>2, <2>3, ScoredStep DEF LLMScores, Scorers
  <1>5. CASE LLMFails(r)
    <2> DEFINE s == ScoresBy(candidates[r], [a \in Ad |-> FallbackECPM(a)])
    <2>1. s \in Seq([ad : Ad, ecpm : Int])
      <3>1. \A a \in Ad : FallbackECPM(a) \in Int
        BY PipelineAssumption DEF FallbackECPM
      <3>2. \A a \in AdsOf(candidates[r]) : [b \in Ad |-> FallbackECPM(b)][a] \in Int
        BY <1>1, <3>1
      <3> QED
        BY <1>1, <3>2, ScoresByType
    <2>2. ~IsControl(assign[r])
      BY <1>5 DEF LLMFails, Goto, RequestInv, Progress
    <2> QED
      BY <1>5, <2>1, <2>2, ScoredStep DEF LLMFails, Scorers
  <1> QED
    BY <1>2, <1>3, <1>4, <1>5

LEMMA HoldAuctionStep ==
    ASSUME RequestInv, NEW r \in Request, HoldAuction(r)
    PROVE  RequestInv'
  <1>0. PICK o \in AuctionOf(r) :
            /\ result' = [result EXCEPT ![r] = o]
            /\ publisher' = [publisher EXCEPT ![r] =
                  IF o.winner # NoBid /\ deps.kafka THEN "pending" ELSE "none"]
    BY DEF HoldAuction
  <1>5. /\ candidates[r] \in Seq(Ad)
        /\ Prices(r) \in [AdsOf(candidates[r]) -> Int]
    <2>1. candidates[r] \in Seq(Ad)
      BY CandidatesType
    <2>2. scores[r] \in Seq([ad : Ad, ecpm : Int])
      BY DEF RequestInv, RequestTypeOK
    <2> QED
      BY <2>1, <2>2, PricesType DEF Prices
  <1>6. o.winner # NoBid => /\ o.winner \in AdsOf(candidates[r])
                            /\ Prices(r)[o.winner] >= Floor
                            /\ o.price >= Floor
    BY <1>5, OutcomeIsSound, PipelineAssumption DEF AuctionOf
  <1>1. RequestTypeOK'
    <2>1. o \in Outcome
      <3> DEFINE e == ECPMMap(candidates[r], scores[r], gprUsed[r])
      <3>1. o \in A!RunWithECPM(Prices(r), e, Floor) /\ Floor \in Int
        BY PipelineAssumption DEF AuctionOf
      <3> HIDE DEF e
      <3> QED
        BY <1>5, <3>1, OutcomeType
    <2> QED
      BY <1>0, <2>1 DEF RequestInv, RequestTypeOK, InFlight, Goto, HoldAuction
  <1>2. Progress'
    BY <1>0 DEF RequestInv, RequestTypeOK, Progress, Sold, Unscored, Goto, HoldAuction
  <1>3. WinnerIsSound'
    BY <1>0, <1>6 DEF RequestInv, RequestTypeOK, WinnerIsSound, Sold, ResponsePrice, Prices,
           HoldAuction
  <1>4. VariantDecidesScorer'
    BY DEF RequestInv, RequestTypeOK, Progress, VariantDecidesScorer, Unscored, Goto,
           HoldAuction
  <1> QED
    BY <1>1, <1>2, <1>3, <1>4 DEF RequestInv

------------------------------------------------------------------------------
(* Steps of the publishing goroutines and of everybody else.               *)

LEMMA EventType ==
    ASSUME RequestInv, NEW r \in Request, Sold(r)
    PROVE  EventOf(r) \in Event
  <1>1. candidates[r] \in Seq(Ad)
    BY CandidatesType
  <1>2. scores[r] \in Seq([ad : Ad, ecpm : Int])
    BY DEF RequestInv, RequestTypeOK
  <1>3. Prices(r) \in [AdsOf(candidates[r]) -> Int]
    BY <1>1, <1>2, PricesType DEF Prices
  <1>4. result[r].winner \in AdsOf(candidates[r])
    BY DEF RequestInv, WinnerIsSound
  <1>5. result[r].winner \in Ad /\ ResponsePrice(r) \in Int
    BY <1>1, <1>3, <1>4 DEF ResponsePrice
  <1> QED
    BY <1>5, PipelineAssumption DEF EventOf, Event, RequestInv, RequestTypeOK

LEMMA EventTypeNext ==
    RequestInv' => (\A r \in Request : Sold(r) => EventOf(r) \in Event)'
  <1>1. RequestInv => \A r \in Request : Sold(r) => EventOf(r) \in Event
    BY EventType
  <1> QED
    BY <1>1, PTL

LEMMA PublishStep ==
    ASSUME Inv, NEW r \in Request, Publish(r)
    PROVE  Inv'
  <1>1. EnvironmentTypeOK'
    <2>1. EventOf(r) \in Event
      BY EventType DEF Inv, RequestInv, Progress, Publish
    <2>4. [from |-> r, event |-> EventOf(r)] \in Queued
      BY <2>1 DEF Queued
    <2>2. /\ queue' \in Seq(Queued)
          /\ Len(queue') = Len(queue) + 1
      BY <2>4 DEF Inv, EnvironmentTypeOK, Publish
    <2>3. Len(queue') <= QueueCap
      BY <2>2, PipelineAssumption DEF Inv, EnvironmentTypeOK, Publish
    <2> QED
      BY <2>2, <2>3, ABKept DEF Inv, EnvironmentTypeOK, Publish, serverVars
  <1>2. RequestTypeOK'
    BY DEF Inv, RequestInv, RequestTypeOK, Publish
  <1>3. Progress'
    BY DEF Inv, RequestInv, RequestTypeOK, Progress, Sold, Publish
  <1>4. WinnerIsSound'
    BY DEF Inv, RequestInv, WinnerIsSound, Sold, ResponsePrice, Prices, Publish
  <1>5. VariantDecidesScorer'
    BY DEF Inv, RequestInv, VariantDecidesScorer, Publish
  <1> QED
    BY <1>1, <1>2, <1>3, <1>4, <1>5 DEF Inv, RequestInv

LEMMA HeadType ==
    ASSUME EnvironmentTypeOK, queue # <<>>
    PROVE  /\ Head(queue).from \in Request /\ Head(queue).event \in Event
           /\ [event |-> Head(queue).event, retries |-> 0] \in Sent
           /\ Len(queue) \in Nat \ {0} /\ DOMAIN queue = 1..Len(queue)
           /\ Tail(queue) \in Seq(Queued) /\ Len(Tail(queue)) = Len(queue) - 1
           /\ \A i \in DOMAIN Tail(queue) : Tail(queue)[i] = queue[i + 1]
  <1>1. queue \in Seq(Queued)
    BY DEF EnvironmentTypeOK
  <1>2. Head(queue) \in Queued
    BY <1>1
  <1>3. Head(queue).from \in Request /\ Head(queue).event \in Event
    BY <1>2 DEF Queued
  <1>4. [event |-> Head(queue).event, retries |-> 0] \in Sent
    BY <1>3, PipelineAssumption DEF Sent
  <1> QED
    BY <1>1, <1>3, <1>4

LEMMA TakeStep ==
    ASSUME EnvironmentTypeOK, Take
    PROVE  EnvironmentTypeOK'
  <1> DEFINE r == Head(queue).from
             m == [event |-> Head(queue).event, retries |-> 0]
  <1>1. /\ r \in Request /\ m \in Sent
        /\ queue' \in Seq(Queued) /\ Len(queue') <= QueueCap
    BY HeadType, PipelineAssumption DEF EnvironmentTypeOK, Take
  <1>2. flight' = [flight EXCEPT ![r] = @ \cup {m}]
    BY DEF Take
  <1> HIDE DEF r, m
  <1>3. flight' \in [Request -> SUBSET Sent]
    BY <1>1, <1>2 DEF EnvironmentTypeOK
  <1> QED
    BY <1>1, <1>3, ABKept DEF EnvironmentTypeOK, Take, serverVars

(* A sent event that is sent again.                                        *)
Again(m) == [event |-> m.event, retries |-> m.retries + 1]

LEMMA ProduceStep ==
    ASSUME EnvironmentTypeOK, NEW r \in Request, Produce(r)
    PROVE  EnvironmentTypeOK'
  <1>1. PICK m \in flight[r] :
            /\ \/ topic' = [topic EXCEPT ![r] = Append(@, m.event)]
               \/ UNCHANGED topic
            /\ \/ flight' = [flight EXCEPT ![r] = @ \ {m}]
               \/ /\ m.retries < Retries
                  /\ flight' = [flight EXCEPT ![r] = (@ \ {m}) \cup {Again(m)}]
            /\ UNCHANGED <<abVars, serverVars, scoreCache, queue, requestVars>>
    BY DEF Produce, Again
  <1>2. m \in Sent /\ m.event \in Event /\ m.retries \in 0..Retries
    BY DEF EnvironmentTypeOK, Sent
  <1>3. m.retries < Retries => Again(m) \in Sent
    BY <1>2, PipelineAssumption DEF Sent, Again
  <1>4. topic' \in [Request -> Seq(Event)]
    <2>1. Append(topic[r], m.event) \in Seq(Event)
      BY <1>2, AppendProperties DEF EnvironmentTypeOK
    <2> QED
      BY <1>1, <2>1 DEF EnvironmentTypeOK
  <1>5. flight' \in [Request -> SUBSET Sent]
    BY <1>1, <1>2, <1>3 DEF EnvironmentTypeOK
  <1> QED
    BY <1>1, <1>4, <1>5, ABKept DEF EnvironmentTypeOK, serverVars

LEMMA BrokerStep ==
    ASSUME Inv, Broker
    PROVE  Inv'
  <1>1. EnvironmentTypeOK'
    BY TakeStep, ProduceStep DEF Inv, Broker
  <1>2. UNCHANGED requestVars
    BY DEF Broker, Take, Produce
  <1> QED
    BY <1>1, <1>2, RequestsKept DEF Inv

LEMMA CacheStep ==
    ASSUME EnvironmentTypeOK, NEW a \in Ad, CacheWrite(a) \/ CacheExpire(a)
    PROVE  EnvironmentTypeOK'
  BY ABKept DEF EnvironmentTypeOK, CacheWrite, CacheExpire, Store!Put, Store!Remove, serverVars

LEMMA ExperimentsStep ==
    ASSUME EnvironmentTypeOK, EditExperiment \/ RefreshExperiments
    PROVE  EnvironmentTypeOK'
  <1>1. AB!TypeOK
    BY DEF EnvironmentTypeOK
  <1>2. CASE EditExperiment
    BY <1>1, <1>2, RoutingAssumption
       DEF EnvironmentTypeOK, EditExperiment, AB!Edit, AB!TypeOK, AB!ABConstants, serverVars
  <1>3. CASE RefreshExperiments
    <2>1. AB!Query => AB!TypeOK'
      BY <1>1, SnapshotIsList DEF AB!Query, AB!TypeOK
    <2>2. AB!Swap => AB!TypeOK'
      BY <1>1 DEF AB!Swap, AB!TypeOK
    <2> QED
      BY <1>3, <2>1, <2>2 DEF EnvironmentTypeOK, RefreshExperiments, serverVars
  <1> QED
    BY <1>2, <1>3

LEMMA StartStep ==
    ASSUME EnvironmentTypeOK, NEW d \in StartUps, Start(d)
    PROVE  EnvironmentTypeOK'
  <1>1. AB!TypeOK'
    BY SnapshotIsList, NoListIsList DEF EnvironmentTypeOK, AB!TypeOK, Start
  <1> QED
    BY <1>1, PipelineAssumption DEF EnvironmentTypeOK, Start

LEMMA StopStep ==
    ASSUME Inv, Stop
    PROVE  Inv'
  <1>1. AB!TypeOK'
    BY NoListIsList DEF Inv, EnvironmentTypeOK, AB!TypeOK, Stop
  <1>7. flight' \in [Request -> SUBSET Sent]
    <2>1. ASSUME NEW r \in Request, NEW m \in flight[r]
          PROVE  [m EXCEPT !.retries = Retries] \in Sent
      <3>1. m \in Sent
        BY <2>1 DEF Inv, EnvironmentTypeOK
      <3> QED
        BY <3>1, PipelineAssumption DEF Sent
    <2> QED
      BY <2>1 DEF Stop
  <1>8. queue' = <<>> /\ Len(queue') <= QueueCap
    BY PipelineAssumption DEF Stop
  <1>2. EnvironmentTypeOK'
    BY <1>1, <1>7, <1>8 DEF Inv, EnvironmentTypeOK, Stop, NoDeps, Deps
  <1>3. RequestTypeOK'
    BY DEF Inv, RequestInv, RequestTypeOK, Stop, Done
  <1>4. Progress'
    BY DEF Inv, RequestInv, RequestTypeOK, Progress, Sold, Stop, Unscored, InFlight
  <1>5. WinnerIsSound'
    BY DEF Inv, RequestInv, WinnerIsSound, Sold, ResponsePrice, Prices, Stop
  <1>6. VariantDecidesScorer'
    BY DEF Inv, RequestInv, VariantDecidesScorer, Stop
  <1> QED
    BY <1>2, <1>3, <1>4, <1>5, <1>6 DEF Inv, RequestInv

------------------------------------------------------------------------------
LEMMA RequestStep ==
    ASSUME Inv, NEW r \in Request, Reject(r) \/ Receive(r) \/ Handle(r)
    PROVE  Inv'
  <1>1. RequestInv'
    BY MovesStep, RecallStep, RouteStep, CacheReadStep, ScorersStep, HoldAuctionStep
       DEF Inv, Moves, Handle
  <1>2. UNCHANGED Environment
    BY DEF Reject, Receive, Handle, Recall, Route, ScoreBaseline, StartGPR, CacheRead, CacheHit,
           CacheMiss, LLMScores, LLMFails, Panic, HoldAuction, Respond, Scored
  <1> QED
    BY <1>1, <1>2, EnvironmentKept DEF Inv

LEMMA NextInv == Inv /\ [Next]_vars => Inv'
  <1> SUFFICES ASSUME Inv, [Next]_vars
               PROVE  Inv'
    OBVIOUS
  <1>1. ASSUME NEW r \in Request, Reject(r) \/ Receive(r) \/ Handle(r) \/ Publish(r)
        PROVE  Inv'
    BY <1>1, RequestStep, PublishStep
  <1>2. CASE Broker
    BY <1>2, BrokerStep
  <1>3. ASSUME NEW a \in Ad, CacheWrite(a) \/ CacheExpire(a)
        PROVE  Inv'
    BY <1>3, CacheStep, RequestsKept DEF Inv, CacheWrite, CacheExpire
  <1>4. CASE EditExperiment \/ RefreshExperiments
    BY <1>4, ExperimentsStep, RequestsKept DEF Inv, EditExperiment, RefreshExperiments
  <1>5. ASSUME NEW d \in StartUps, Start(d)
        PROVE  Inv'
    BY <1>5, StartStep, RequestsKept DEF Inv, Start
  <1>6. CASE Stop
    BY <1>6, StopStep
  <1>7. CASE UNCHANGED vars
    BY <1>7, EnvironmentKept, RequestsKept DEF Inv, vars, Environment
  <1> QED
    BY <1>1, <1>2, <1>3, <1>4, <1>5, <1>6, <1>7 DEF Next

LEMMA Invariance == Spec => []Inv
  BY InitInv, NextInv, PTL DEF Spec

(* The state keeps its types: the channel within its capacity, scores as   *)
(* numbers, assignments to experiments that exist.                         *)
THEOREM TypeCorrect == Spec => []TypeOK
  <1>1. Inv => TypeOK
    BY DEF Inv, RequestInv, TypeOK
  <1> QED
    BY <1>1, Invariance, PTL

(* A sale is always to a recalled ad at or above the floor, and settles    *)
(* there, however many requests run, whatever the caches and models answer *)
(* and however often the server is restarted.  (pipeline.go:216-274)       *)
THEOREM SalesAreSound == Spec => []WinnerIsSound
  <1>1. Inv => WinnerIsSound
    BY DEF Inv, RequestInv
  <1> QED
    BY <1>1, Invariance, PTL

(* The variant a request was given decides who scores it, and gpr_used     *)
(* tells, whatever happens to the experiments meanwhile.                   *)
(* (pipeline.go:112-118, 137-211)                                          *)
THEOREM LabelsAreTrue == Spec => []VariantDecidesScorer
  <1>1. Inv => VariantDecidesScorer
    BY DEF Inv, RequestInv
  <1> QED
    BY <1>1, Invariance, PTL

------------------------------------------------------------------------------
(* Second prices: the bids take scores by position, the eCPM map by name,  *)
(* and the two agree when the scorer answered in order.                    *)

InOrder(list, s) ==
    Len(s) = Len(list) /\ \A i \in DOMAIN list : s[i].ad = list[i]

LEMMA NoAdTwice ==
    ASSUME RequestInv, NEW r \in Request
    PROVE  \A i, j \in DOMAIN candidates[r] : candidates[r][i] = candidates[r][j] => i = j
  <1>1. CASE candidates[r] = <<>>
    BY <1>1
  <1>2. CASE candidates[r] # <<>>
    <2>1. candidates[r] \in Recalls
      BY <1>2 DEF RequestInv, RequestTypeOK
    <2>2. DOMAIN candidates[r] = 1..Len(candidates[r])
      BY CandidatesType, LenProperties
    <2> QED
      BY <2>1, <2>2, PipelineAssumption
  <1> QED
    BY <1>1, <1>2

LEMMA MapsAgree ==
    ASSUME NEW list \in Seq(Ad), NEW s \in Seq([ad : Ad, ecpm : Int]), NEW used,
           InOrder(list, s), list # <<>>,
           \A i, j \in DOMAIN list : list[i] = list[j] => i = j
    PROVE  ECPMMap(list, s, used) = BidPrices(list, s)
  <1>0. DOMAIN list = 1..Len(list) /\ Len(list) \in Nat \ {0} /\ DOMAIN s = 1..Len(s)
    BY LenProperties, EmptySeq
  <1>1. /\ DOMAIN list = 1..Len(list) /\ DOMAIN s = DOMAIN list /\ Len(s) = Len(list)
        /\ Len(s) \in Nat /\ Len(s) > 0
        /\ \A i \in DOMAIN list : s[i].ad = list[i]
    <2>1. Len(s) = Len(list) /\ \A i \in DOMAIN list : s[i].ad = list[i]
      BY DEF InOrder
    <2> QED
      BY <1>0, <2>1
  <1>2. {s[i].ad : i \in DOMAIN s} = AdsOf(list)
    <2>1. DOMAIN s = DOMAIN list /\ \A i \in DOMAIN s : s[i].ad = list[i]
      BY <1>1
    <2>2. \A a \in AdsOf(list) : \E i \in DOMAIN s : s[i].ad = a
      BY <2>1
    <2>3. \A i \in DOMAIN s : s[i].ad \in AdsOf(list)
      BY <2>1
    <2> DEFINE names == {s[i].ad : i \in DOMAIN s}
    <2>4. names \subseteq AdsOf(list)
      BY <2>3
    <2>5. AdsOf(list) \subseteq names
      <3> SUFFICES ASSUME NEW a \in AdsOf(list) PROVE a \in names
        BY Zenon
      <3> QED
        BY <2>2
    <2> HIDE DEF names
    <2>6. names = AdsOf(list)
      BY <2>4, <2>5, Zenon
    <2> QED
      BY <2>6 DEF names
  <1> DEFINE Last(a, i) == s[i].ad = a /\ \A j \in DOMAIN s : s[j].ad = a => j <= i
  <1>3. ASSUME NEW a \in AdsOf(list)
        PROVE  /\ Position(list, a) \in DOMAIN list /\ Position(list, a) <= Len(s)
               /\ (CHOOSE i \in DOMAIN s : Last(a, i)) = Position(list, a)
    <2>1. PICK k \in DOMAIN list : list[k] = a
      OBVIOUS
    <2>2. \A i \in DOMAIN list : list[i] = a => i = k
      BY <2>1
    <2>3. Position(list, a) = k
      BY <2>1, <2>2 DEF Position
    <2>4. k \in DOMAIN s /\ k \in 1..Len(s) /\ k <= k
      BY <1>1, <2>1
    <2>5. \A i \in DOMAIN s : Last(a, i) <=> i = k
      BY <1>1, <2>1, <2>2, <2>4
    <2> HIDE DEF Last
    <2>6. (CHOOSE i \in DOMAIN s : Last(a, i)) = k
      BY <2>4, <2>5
    <2> QED
      BY <2>1, <2>3, <2>4, <2>6
  <1>4. ECPMMap(list, s, used) = [a \in AdsOf(list) |-> s[CHOOSE i \in DOMAIN s : Last(a, i)].ecpm]
    BY <1>1, <1>2 DEF ECPMMap
  <1> HIDE DEF Last
  <1>5. \A a \in AdsOf(list) :
           s[CHOOSE i \in DOMAIN s : Last(a, i)].ecpm
             = IF Position(list, a) <= Len(s) THEN s[Position(list, a)].ecpm ELSE BidPrice[a]
    <2> SUFFICES ASSUME NEW a \in AdsOf(list)
                 PROVE  s[CHOOSE i \in DOMAIN s : Last(a, i)].ecpm
                          = IF Position(list, a) <= Len(s) THEN s[Position(list, a)].ecpm
                            ELSE BidPrice[a]
      OBVIOUS
    <2> DEFINE k == CHOOSE i \in DOMAIN s : Last(a, i)
    <2>1. k = Position(list, a) /\ Position(list, a) <= Len(s)
      BY <1>3
    <2> HIDE DEF k
    <2>2. s[k].ecpm = IF Position(list, a) <= Len(s) THEN s[Position(list, a)].ecpm
                      ELSE BidPrice[a]
      BY <2>1
    <2> QED
      BY <2>2 DEF k
  <1> QED
    BY <1>4, <1>5, Zenon DEF BidPrices

(* Ranked by price, a sale is at no less than any losing bid.              *)
LEMMA SalesAreSecondPrice ==
    ASSUME NEW S, NEW price \in [S -> Int], NEW o \in A!RunWithECPM(price, price, Floor),
           o.winner # NoBid
    PROVE  /\ o.winner \in S
           /\ o.price <= price[o.winner]
           /\ \A b \in S \ {o.winner} : price[b] <= price[o.winner] /\ price[b] <= o.price
  <1> DEFINE E == A!Eligible(price, price, Floor)
  <1>1. E = {b \in S : price[b] >= Floor} /\ Floor \in Int
    BY PipelineAssumption DEF A!Eligible
  <1>2. o \in A!Outcomes(E, price, price, Floor)
    BY DEF A!RunWithECPM
  <1> HIDE DEF E
  <1>3. E # {}
    BY <1>2 DEF A!Outcomes, A!EmptyAuction
  <1>4. PICK w \in A!Top(E, price) :
            \E s \in A!SecondPrices(E, price, price, Floor, w) :
                o = [winner |-> w, price |-> A!Settlement(s, Floor)]
    BY <1>2, <1>3 DEF A!Outcomes
  <1>5. PICK s \in A!SecondPrices(E, price, price, Floor, w) :
            o = [winner |-> w, price |-> A!Settlement(s, Floor)]
    BY <1>4
  <1>6. w \in E /\ w \in S /\ price[w] >= Floor /\ \A c \in E : price[c] <= price[w]
    BY <1>1 DEF A!Top
  <1>7. \A b \in S \ {w} : b \notin E => price[b] < Floor
    BY <1>1
  <1>8. CASE E = {w}
    <2>1. o.price = Floor /\ o.winner = w
      BY <1>1, <1>5, <1>8 DEF A!SecondPrices, A!Settlement
    <2>2. \A b \in S \ {w} : price[b] < Floor
      BY <1>7, <1>8
    <2> QED
      BY <1>1, <1>6, <2>1, <2>2
  <1>9. CASE E # {w}
    <2>1. PICK c \in A!Top(E \ {w}, price) : s = price[c]
      BY <1>5, <1>9 DEF A!SecondPrices
    <2>2. c \in E \ {w} /\ \A d \in E \ {w} : price[d] <= price[c]
      BY DEF A!Top
    <2>3. price[c] \in Int /\ price[c] >= Floor /\ price[c] <= price[w]
      BY <1>1, <1>6, <2>2
    <2>4. o.price = price[c] /\ o.winner = w
      BY <1>1, <1>5, <2>1, <2>3 DEF A!Settlement
    <2>5. \A b \in S \ {w} : price[b] <= price[c]
      BY <1>1, <1>7, <2>2, <2>3
    <2>6. \A b \in S \ {w} : price[b] <= price[w]
      BY <1>6, <2>3, <2>5
    <2> QED
      BY <1>6, <2>3, <2>4, <2>5, <2>6
  <1> QED
    BY <1>8, <1>9

(* What the settlement rests on: scores stay in order once they are there. *)
InOrderInv ==
    \A r \in Request :
        scorer[r] \in {"baseline", "cache", "fallback"} => InOrder(candidates[r], scores[r])

AlignedInv == InOrderInv /\ AlignedScorersSettleSecondPrice

LEMMA ScoresByIsInOrder ==
    ASSUME NEW list \in Seq(Ad), NEW f
    PROVE  InOrder(list, ScoresBy(list, f))
  <1>1. DOMAIN list = 1..Len(list) /\ Len(list) \in Nat
    BY LenProperties
  <1> DEFINE e(i) == [ad |-> list[i], ecpm |-> f[list[i]]]
  <1>2. ScoresBy(list, f) = [i \in 1..Len(list) |-> e(i)]
    BY <1>1 DEF ScoresBy
  <1>3. \A i \in 1..Len(list) : e(i).ad = list[i]
    OBVIOUS
  <1> HIDE DEF e
  <1>4. Len([i \in 1..Len(list) |-> e(i)]) = Len(list)
    BY <1>1
  <1> QED
    BY <1>1, <1>2, <1>3, <1>4 DEF InOrder

(* Steps that touch neither candidates nor scores nor the result.          *)
LEMMA AlignedKept ==
    ASSUME AlignedInv, UNCHANGED <<candidates, scores, scorer, result>>
    PROVE  AlignedInv'
  BY DEF AlignedInv, InOrderInv, AlignedScorersSettleSecondPrice, Sold, Prices

(* Steps of a request that has no result yet; the others keep what they    *)
(* have.                                                                   *)
LEMMA AlignedUnsold ==
    ASSUME RequestInv, AlignedInv, NEW r \in Request, ~Sold(r), UNCHANGED result,
           \A q \in Request \ {r} : /\ candidates'[q] = candidates[q]
                                    /\ scores'[q] = scores[q]
                                    /\ scorer'[q] = scorer[q],
           scorer'[r] \in {"baseline", "cache", "fallback"} => InOrder(candidates'[r], scores'[r])
    PROVE  AlignedInv'
  <1>1. InOrderInv'
    BY DEF AlignedInv, InOrderInv
  <1>2. AlignedScorersSettleSecondPrice'
    BY DEF AlignedInv, AlignedScorersSettleSecondPrice, Sold, Prices
  <1> QED
    BY <1>1, <1>2 DEF AlignedInv

LEMMA ScoredAligned ==
    ASSUME RequestInv, AlignedInv, NEW r \in Request,
           Recall(r) \/ ScoreBaseline(r) \/ CacheHit(r) \/ LLMScores(r) \/ LLMFails(r)
    PROVE  AlignedInv'
  <1>1. ~Sold(r) /\ candidates[r] \in Seq(Ad)
    BY CandidatesType DEF RequestInv, Progress, Unscored, Goto, Recall, ScoreBaseline, CacheHit,
       LLMScores, LLMFails
  <1>2. CASE Recall(r)
    BY <1>1, <1>2, AlignedUnsold DEF Recall, Goto, RequestInv, RequestTypeOK, Progress, Unscored
  <1>3. ASSUME NEW s, NEW used, NEW by, Scored(r, s, used, by),
               by \in {"baseline", "cache", "fallback"} => InOrder(candidates[r], s)
        PROVE  AlignedInv'
    BY <1>1, <1>3, AlignedUnsold DEF Scored, RequestInv, RequestTypeOK
  <1>4. CASE LLMScores(r)
    BY <1>3, <1>4 DEF LLMScores
  <1>5. CASE ScoreBaseline(r) \/ CacheHit(r) \/ LLMFails(r)
    BY <1>1, <1>3, <1>5, ScoresByIsInOrder DEF ScoreBaseline, CacheHit, LLMFails
  <1> QED
    BY <1>2, <1>4, <1>5

LEMMA AuctionAligned ==
    ASSUME RequestInv, AlignedInv, NEW r \in Request, HoldAuction(r)
    PROVE  AlignedInv'
  <1>1. InOrderInv'
    BY DEF AlignedInv, InOrderInv, HoldAuction
  <1>2. PICK o \in AuctionOf(r) : result' = [result EXCEPT ![r] = o]
    BY DEF HoldAuction
  <1>3. /\ candidates' = candidates /\ scores' = scores /\ scorer' = scorer
        /\ result'[r] = o /\ \A q \in Request \ {r} : result'[q] = result[q]
    BY <1>2 DEF HoldAuction, RequestInv, RequestTypeOK
  <1> DEFINE Fair(q, res, p) ==
                /\ res.price <= p[res.winner]
                /\ \A b \in AdsOf(candidates[q]) \ {res.winner} :
                       p[b] <= p[res.winner] /\ p[b] <= res.price
  <1>4. ASSUME o.winner # NoBid, scorer[r] \in {"baseline", "cache", "fallback"}
        PROVE  Fair(r, o, Prices(r))
    <2>1. /\ candidates[r] \in Seq(Ad) /\ scores[r] \in Seq([ad : Ad, ecpm : Int])
          /\ InOrder(candidates[r], scores[r])
      BY <1>4, CandidatesType DEF RequestInv, RequestTypeOK, AlignedInv, InOrderInv
    <2>2. Prices(r) \in [AdsOf(candidates[r]) -> Int]
      BY <2>1, PricesType DEF Prices
    <2> DEFINE e == ECPMMap(candidates[r], scores[r], gprUsed[r])
    <2>3. o \in A!RunWithECPM(Prices(r), e, Floor)
      BY DEF AuctionOf
    <2> HIDE DEF e
    <2>4. o.winner \in AdsOf(candidates[r])
      BY <1>4, <2>2, <2>3, OutcomeIsSound, PipelineAssumption
    <2>5. candidates[r] # <<>>
      BY <2>4
    <2>6. e = Prices(r)
      BY <2>1, <2>5, NoAdTwice, MapsAgree DEF Prices, e
    <2>7. o \in A!RunWithECPM(Prices(r), Prices(r), Floor)
      BY <2>3, <2>6
    <2> QED
      BY <1>4, <2>2, <2>7, SalesAreSecondPrice
  <1>5. \A q \in Request : Sold(q) /\ scorer[q] \in {"baseline", "cache", "fallback"} =>
           Fair(q, result[q], Prices(q))
    BY DEF AlignedInv, AlignedScorersSettleSecondPrice
  <1>6. ASSUME NEW q \in Request, Sold(q)', scorer[q] \in {"baseline", "cache", "fallback"}
        PROVE  Fair(q, result'[q], Prices(q))
    <2>1. CASE q = r
      BY <1>3, <1>4, <1>6, <2>1 DEF Sold
    <2>2. CASE q # r
      BY <1>3, <1>5, <1>6, <2>2 DEF Sold
    <2> QED
      BY <2>1, <2>2
  <1>7. AlignedScorersSettleSecondPrice'
    BY <1>3, <1>6 DEF AlignedScorersSettleSecondPrice, Prices
  <1> QED
    BY <1>1, <1>7 DEF AlignedInv

LEMMA AlignedStep == Inv /\ AlignedInv /\ [Next]_vars => AlignedInv'
  <1> SUFFICES ASSUME Inv, AlignedInv, [Next]_vars PROVE AlignedInv'
    OBVIOUS
  <1>1. ASSUME NEW r \in Request, Handle(r)
        PROVE  AlignedInv'
    <2>1. CASE HoldAuction(r)
      BY <2>1, AuctionAligned DEF Inv
    <2>2. CASE Recall(r) \/ ScoreBaseline(r) \/ CacheHit(r) \/ LLMScores(r) \/ LLMFails(r)
      BY <2>2, ScoredAligned DEF Inv
    <2>3. CASE Route(r) \/ StartGPR(r) \/ CacheRead(r) \/ CacheMiss(r) \/ Panic(r) \/ Respond(r)
      BY <2>3, AlignedKept DEF Route, StartGPR, CacheRead, CacheMiss, Panic, Respond
    <2> QED
      BY <1>1, <2>1, <2>2, <2>3 DEF Handle
  <1>2. ASSUME NEW r \in Request, Reject(r) \/ Receive(r) \/ Publish(r)
        PROVE  AlignedInv'
    BY <1>2, AlignedKept DEF Reject, Receive, Publish
  <1>3. CASE Broker
    BY <1>3, AlignedKept DEF Broker, Take, Produce, requestVars
  <1>4. ASSUME NEW a \in Ad, CacheWrite(a) \/ CacheExpire(a)
        PROVE  AlignedInv'
    BY <1>4, AlignedKept DEF CacheWrite, CacheExpire, requestVars
  <1>5. CASE EditExperiment \/ RefreshExperiments
    BY <1>5, AlignedKept DEF EditExperiment, RefreshExperiments, requestVars
  <1>6. ASSUME NEW d \in StartUps, Start(d)
        PROVE  AlignedInv'
    BY <1>6, AlignedKept DEF Start, requestVars
  <1>7. CASE Stop
    BY <1>7, AlignedKept DEF Stop
  <1>8. CASE UNCHANGED vars
    BY <1>8, AlignedKept DEF vars, requestVars
  <1> QED
    BY <1>1, <1>2, <1>3, <1>4, <1>5, <1>6, <1>7, <1>8 DEF Next

(* The winner of a request that the baseline, the cache or the fallback    *)
(* scored pays at least every losing bid and at most its own, for any      *)
(* candidates and scores.  (pipeline.go:160-168, 186-196, 218-258)         *)
THEOREM AlignedSalesAreSecondPrice == Spec => []AlignedScorersSettleSecondPrice
  <1>1. Init => AlignedInv
    BY DEF Init, AlignedInv, InOrderInv, AlignedScorersSettleSecondPrice
  <1>2. Spec => []AlignedInv
    BY <1>1, AlignedStep, Invariance, PTL DEF Spec
  <1>3. AlignedInv => AlignedScorersSettleSecondPrice
    BY DEF AlignedInv
  <1> QED
    BY <1>2, <1>3, PTL
------------------------------------------------------------------------------
(* The way of an event.                                                    *)

(* What a goroutine has sent for r.                                        *)
Own(r) == IF publisher[r] = "queued" THEN {EventOf(r)} ELSE {}

(* The event of r is at one place, was sent again at least as often as the *)
(* broker has it already, and has not arrived before it left the channel.  *)
Underway(r) ==
    /\ \A i \in Waiting(r) : queue[i].event \in Own(r)
    /\ \A m \in flight[r] : m.event \in Own(r) /\ Len(topic[r]) <= m.retries
    /\ AdsOf(topic[r]) \subseteq Own(r)
    /\ Lone(Waiting(r)) /\ Lone(flight[r])
    /\ Waiting(r) # {} => flight[r] = {} /\ topic[r] = <<>>
    /\ Len(topic[r]) <= Retries + 1

DeliveryInv == \A r \in Request : Underway(r)

(* Steps that take back nothing that was sent.                             *)
LEMMA DeliveryKept ==
    ASSUME DeliveryInv, UNCHANGED delivery, \A r \in Request : Own(r) \subseteq Own(r)'
    PROVE  DeliveryInv'
  <1> SUFFICES ASSUME NEW r \in Request
               PROVE  Underway(r)'
    BY DEF DeliveryInv
  <1>1. Underway(r) /\ Own(r) \subseteq Own(r)' /\ Waiting(r)' = Waiting(r)
    BY DEF DeliveryInv, Waiting
  <1> QED
    BY <1>1 DEF Underway, Lone

LEMMA OwnKept == UNCHANGED requestVars => \A r \in Request : Own(r)' = Own(r)
  BY DEF requestVars, Own, EventOf, ResponsePrice, Prices

(* A request that was sold and handed to the channel is past its auction,  *)
(* and no step of its handler changes what it was sold as.                 *)
LEMMA RequestDelivers ==
    ASSUME Inv, DeliveryInv, NEW r \in Request, Reject(r) \/ Receive(r) \/ Handle(r)
    PROVE  DeliveryInv'
  <1>1. UNCHANGED delivery
    BY DEF Environment, Reject, Receive, Handle, Recall, Route, ScoreBaseline, StartGPR,
       CacheRead, CacheHit, CacheMiss, LLMScores, LLMFails, Panic, HoldAuction, Respond, Scored
  <1>2. ASSUME NEW q \in Request, publisher[q] = "queued"
        PROVE  publisher'[q] = "queued" /\ EventOf(q)' = EventOf(q)
    <2>1. q = r => pc[r] \notin Unscored \cup {"auction"}
      BY <1>2 DEF Inv, RequestInv, Progress
    <2>2. /\ publisher'[q] = publisher[q]  /\ result'[q] = result[q]
          /\ candidates'[q] = candidates[q] /\ scores'[q] = scores[q] /\ assign'[q] = assign[q]
      <3>1. CASE Reject(r) \/ Receive(r) \/ StartGPR(r) \/ CacheRead(r) \/ CacheMiss(r)
                  \/ Panic(r) \/ Respond(r)
        BY <3>1 DEF Reject, Receive, StartGPR, CacheRead, CacheMiss, Panic, Respond
      <3>2. CASE Recall(r) \/ Route(r)
        BY <2>1, <3>2 DEF Recall, Route, Goto, Unscored, Inv, RequestInv, RequestTypeOK
      <3>3. CASE ScoreBaseline(r) \/ CacheHit(r) \/ LLMScores(r) \/ LLMFails(r)
        <4>1. pc[r] \in Unscored
          BY <3>3 DEF ScoreBaseline, CacheHit, LLMScores, LLMFails, Goto, Unscored
        <4>2. \E s, used, by : Scored(r, s, used, by)
          BY <3>3 DEF ScoreBaseline, CacheHit, LLMScores, LLMFails
        <4> QED
          BY <2>1, <4>1, <4>2 DEF Scored, Inv, RequestInv, RequestTypeOK
      <3>4. CASE HoldAuction(r)
        BY <2>1, <3>4 DEF HoldAuction, Goto, Inv, RequestInv, RequestTypeOK
      <3> QED
        BY <3>1, <3>2, <3>3, <3>4 DEF Handle
    <2> QED
      BY <1>2, <2>2 DEF EventOf, ResponsePrice, Prices
  <1>3. \A q \in Request : Own(q) \subseteq Own(q)'
    BY <1>2 DEF Own
  <1> QED
    BY <1>1, <1>3, DeliveryKept

(* Handing an event to the channel puts it at the end.                     *)
LEMMA WaitingNext ==
    ASSUME EnvironmentTypeOK, NEW r \in Request, NEW e, queue' = Append(queue, [from |-> r, event |-> e])
    PROVE  /\ \A q \in Request \ {r} : Waiting(q)' = Waiting(q)
           /\ Waiting(r)' = Waiting(r) \cup {Len(queue) + 1}
           /\ Len(queue) + 1 \notin Waiting(r)
           /\ \A i \in DOMAIN queue : queue'[i] = queue[i]
           /\ queue'[Len(queue) + 1].event = e
  <1>1. queue \in Seq(Queued) /\ DOMAIN queue = 1..Len(queue) /\ Len(queue) \in Nat
    BY DEF EnvironmentTypeOK
  <1> DEFINE x == [from |-> r, event |-> e]
  <1>2. x.from = r /\ x.event = e
    OBVIOUS
  <1>3. queue' = Append(queue, x)
    OBVIOUS
  <1> HIDE DEF x
  <1>4. /\ DOMAIN queue' = 1..(Len(queue) + 1)
        /\ \A i \in 1..Len(queue) : queue'[i] = queue[i]
        /\ queue'[Len(queue) + 1] = x
    BY <1>1, <1>3
  <1> QED
    BY <1>1, <1>2, <1>4 DEF Waiting

LEMMA PublishDelivers ==
    ASSUME Inv, DeliveryInv, NEW r \in Request, Publish(r)
    PROVE  DeliveryInv'
  <1>1. /\ queue' = Append(queue, [from |-> r, event |-> EventOf(r)])
        /\ publisher[r] = "pending" /\ UNCHANGED <<flight, topic>>
    BY DEF Publish
  <1>2. \A q \in Request : /\ EventOf(q)' = EventOf(q)
                           /\ publisher'[q] = IF q = r THEN "queued" ELSE publisher[q]
    BY DEF Publish, EventOf, ResponsePrice, Prices, Inv, RequestInv, RequestTypeOK
  <1>3. /\ \A q \in Request \ {r} : Own(q)' = Own(q)
        /\ Own(r) = {} /\ Own(r)' = {EventOf(r)}
    BY <1>1, <1>2 DEF Own
  <1>4. /\ \A q \in Request \ {r} : Waiting(q)' = Waiting(q)
        /\ Waiting(r)' = Waiting(r) \cup {Len(queue) + 1}
        /\ \A i \in DOMAIN queue : queue'[i] = queue[i]
        /\ queue'[Len(queue) + 1].event = EventOf(r)
    BY <1>1, WaitingNext DEF Inv
  <1>5. ASSUME NEW q \in Request \ {r}
        PROVE  Underway(q)'
    <2>1. Underway(q) /\ Own(q)' = Own(q) /\ Waiting(q)' = Waiting(q) /\ Waiting(q) \subseteq DOMAIN queue
      BY <1>3, <1>4 DEF DeliveryInv, Waiting
    <2> QED
      BY <1>1, <1>4, <2>1 DEF Underway, Lone
  <1>6. Underway(r)'
    <2>1. Waiting(r) = {} /\ flight[r] = {} /\ AdsOf(topic[r]) = {} /\ Len(topic[r]) <= Retries + 1
      BY <1>3 DEF DeliveryInv, Underway
    <2>2. topic[r] = <<>>
      <3>1. topic[r] \in Seq(Event)
        BY DEF Inv, EnvironmentTypeOK
      <3>2. Len(topic[r]) \in Nat /\ DOMAIN topic[r] = 1..Len(topic[r])
        BY <3>1
      <3>4. Len(topic[r]) = 0
        <4>1. ASSUME 1 \in DOMAIN topic[r] PROVE FALSE
          BY <2>1, <4>1
        <4> QED
          BY <3>2, <4>1
      <3> QED
        BY <3>1, <3>4, EmptySeq
    <2>3. Waiting(r)' = {Len(queue) + 1} /\ flight'[r] = {} /\ topic'[r] = topic[r]
      BY <1>1, <1>4, <2>1
    <2> QED
      BY <1>3, <1>4, <2>1, <2>2, <2>3 DEF Underway, Lone
  <1> QED
    BY <1>5, <1>6 DEF DeliveryInv

(* Taking the first event moves the others forward.                        *)
LEMMA TakeDelivers ==
    ASSUME Inv, DeliveryInv, Take, NEW r \in Request, NEW e,
           Head(queue).from = r, Head(queue).event = e
    PROVE  /\ DeliveryInv'
           /\ Waiting(r) # {} /\ Waiting(r)' = {}
           /\ flight'[r] = {[event |-> e, retries |-> 0]}
           /\ \A q \in Request \ {r} : /\ Waiting(q)' = {} <=> Waiting(q) = {}
                                       /\ flight'[q] = flight[q]
  <1> DEFINE m == [event |-> e, retries |-> 0]
  <1>1. /\ queue # <<>> /\ queue' = Tail(queue) /\ UNCHANGED <<topic, requestVars>>
        /\ flight' = [flight EXCEPT ![r] = @ \cup {m}]
    BY DEF Take
  <1>2. /\ Len(queue) \in Nat \ {0} /\ DOMAIN queue = 1..Len(queue)
        /\ DOMAIN queue' = 1..(Len(queue) - 1)
        /\ \A i \in DOMAIN queue' : queue'[i] = queue[i + 1]
        /\ queue[1].from = r /\ queue[1].event = e
    <2>1. queue \in Seq(Queued)
      BY DEF Inv, EnvironmentTypeOK
    <2>2. Head(queue) = queue[1]
      BY <1>1, <2>1
    <2>3. DOMAIN Tail(queue) = 1..(Len(queue) - 1)
      BY <1>1, <2>1
    <2> QED
      BY <1>1, <2>2, <2>3, HeadType DEF Inv
  <1>3. m.event = e /\ m.retries = 0
    OBVIOUS
  <1> HIDE DEF m
  <1>4. \A q \in Request : Own(q)' = Own(q)
    BY <1>1, OwnKept
  <1>5. \A q \in Request : Waiting(q)' = {i \in 1..(Len(queue) - 1) : i + 1 \in Waiting(q)}
    BY <1>2 DEF Waiting
  <1>6. flight'[r] = flight[r] \cup {m} /\ \A q \in Request \ {r} : flight'[q] = flight[q]
    BY <1>1, <1>2 DEF Inv, EnvironmentTypeOK
  <1>7. 1 \in Waiting(r)
    BY <1>2 DEF Waiting
  <1>8. /\ e \in Own(r) /\ flight[r] = {} /\ topic[r] = <<>>
        /\ Waiting(r) = {1}
    BY <1>2, <1>7 DEF DeliveryInv, Underway, Lone
  <1>9. Waiting(r)' = {} /\ flight'[r] = {m}
    BY <1>2, <1>5, <1>6, <1>8
  <1>10. Underway(r)'
    <2>1. topic'[r] = <<>> /\ Len(topic'[r]) = 0 /\ DOMAIN topic'[r] = {}
      BY <1>1, <1>8
    <2> QED
      BY <1>3, <1>4, <1>8, <1>9, <2>1, <1>2, PipelineAssumption DEF Underway, Lone
  <1>11. ASSUME NEW q \in Request \ {r}
         PROVE  Underway(q)' /\ (Waiting(q)' = {} <=> Waiting(q) = {})
    <2>1. Underway(q)
      BY DEF DeliveryInv
    <2>2. \A i \in Waiting(q) : i \in 2..Len(queue)
      BY <1>2 DEF Waiting
    <2>3. \A i \in Waiting(q)' : i + 1 \in Waiting(q) /\ queue'[i] = queue[i + 1]
                                 /\ i \in 1..(Len(queue) - 1)
      BY <1>2, <1>5
    <2>4. \A i \in Waiting(q) : i - 1 \in Waiting(q)'
      BY <1>2, <1>5, <2>2
    <2>5. Waiting(q)' = {} <=> Waiting(q) = {}
      BY <2>3, <2>4
    <2>6. Lone(Waiting(q)')
      <3> SUFFICES ASSUME NEW i \in Waiting(q)', NEW j \in Waiting(q)'
                   PROVE  i = j
        BY DEF Lone
      <3>1. i + 1 = j + 1
        BY <2>1, <2>3 DEF Underway, Lone
      <3> QED
        BY <2>3, <3>1
    <2>7. \A i \in Waiting(q)' : queue'[i].event \in Own(q)'
      BY <1>4, <2>1, <2>3 DEF Underway
    <2>8. topic'[q] = topic[q] /\ flight'[q] = flight[q] /\ Own(q)' = Own(q)
      BY <1>1, <1>4, <1>6
    <2> QED
      BY <2>1, <2>5, <2>6, <2>7, <2>8 DEF Underway
  <1>12. DeliveryInv'
    BY <1>10, <1>11 DEF DeliveryInv
  <1> QED
    BY <1>6, <1>7, <1>9, <1>11, <1>12 DEF m

LEMMA ProduceDelivers ==
    ASSUME Inv, DeliveryInv, NEW r \in Request, Produce(r)
    PROVE  DeliveryInv'
  <1>1. PICK m \in flight[r] :
            /\ \/ topic' = [topic EXCEPT ![r] = Append(@, m.event)]
               \/ UNCHANGED topic
            /\ \/ flight' = [flight EXCEPT ![r] = @ \ {m}]
               \/ /\ m.retries < Retries
                  /\ flight' = [flight EXCEPT ![r] = (@ \ {m}) \cup {Again(m)}]
            /\ UNCHANGED <<abVars, serverVars, scoreCache, queue, requestVars>>
    BY DEF Produce, Again
  <1>2. /\ m.event \in Event /\ m.retries \in 0..Retries /\ Retries \in Nat
        /\ topic[r] \in Seq(Event) /\ DOMAIN topic = Request /\ DOMAIN flight = Request
    BY PipelineAssumption DEF Inv, EnvironmentTypeOK, Sent
  <1>3. \A q \in Request : Own(q)' = Own(q) /\ Waiting(q)' = Waiting(q)
    BY <1>1, OwnKept DEF Waiting
  <1>4. /\ flight[r] = {m} /\ Waiting(r) = {} /\ m.event \in Own(r)
        /\ Len(topic[r]) <= m.retries /\ AdsOf(topic[r]) \subseteq Own(r)
    BY DEF DeliveryInv, Underway, Lone
  <1>5. topic'[r] \in {topic[r], Append(topic[r], m.event)}
    BY <1>1, <1>2
  <1>6. Len(topic'[r]) <= m.retries + 1 /\ Len(topic'[r]) \in Nat
    <2>1. Len(Append(topic[r], m.event)) = Len(topic[r]) + 1 /\ Len(topic[r]) \in Nat
      BY <1>2
    <2> QED
      BY <1>2, <1>4, <1>5, <2>1
  <1>7. AdsOf(topic'[r]) \subseteq Own(r)
    <2>1. AdsOf(Append(topic[r], m.event)) \subseteq AdsOf(topic[r]) \cup {m.event}
      <3>1. ASSUME NEW i \in DOMAIN Append(topic[r], m.event)
            PROVE  Append(topic[r], m.event)[i] \in AdsOf(topic[r]) \cup {m.event}
        <4>1. Len(topic[r]) \in Nat /\ DOMAIN topic[r] = 1..Len(topic[r])
              /\ DOMAIN Append(topic[r], m.event) = 1..(Len(topic[r]) + 1)
          BY <1>2
        <4>2. CASE i \in 1..Len(topic[r])
          BY <1>2, <4>1, <4>2
        <4>3. CASE i = Len(topic[r]) + 1
          BY <1>2, <4>1, <4>3
        <4> QED
          BY <3>1, <4>1, <4>2, <4>3
      <3> QED
        BY <3>1
    <2> QED
      BY <1>4, <1>5, <2>1
  <1>8. \/ flight'[r] = {}
        \/ flight'[r] = {Again(m)} /\ m.retries < Retries
    BY <1>1, <1>2, <1>4
  <1>9. Again(m).event = m.event /\ Again(m).retries = m.retries + 1
    BY DEF Again
  <1>10. Underway(r)'
    <2>1. Len(topic'[r]) <= Retries + 1
      BY <1>2, <1>6
    <2>2. \A n \in flight'[r] : n.event \in Own(r) /\ Len(topic'[r]) <= n.retries
      BY <1>4, <1>6, <1>8, <1>9
    <2>3. Lone(flight'[r]) /\ Lone(Waiting(r))
      BY <1>4, <1>8 DEF Lone
    <2> QED
      BY <1>3, <1>4, <1>7, <2>1, <2>2, <2>3 DEF Underway
  <1>11. ASSUME NEW q \in Request \ {r}
         PROVE  Underway(q)'
    <2>1. Underway(q)
      BY DEF DeliveryInv
    <2>2. topic'[q] = topic[q] /\ flight'[q] = flight[q] /\ queue' = queue
      BY <1>1, <1>2
    <2> QED
      BY <1>3, <2>1, <2>2 DEF Underway
  <1> QED
    BY <1>10, <1>11 DEF DeliveryInv

(* A stop empties the channel and leaves what is in flight its last try.   *)
LEMMA StopDelivers ==
    ASSUME Inv, DeliveryInv, Stop
    PROVE  DeliveryInv'
  <1> SUFFICES ASSUME NEW r \in Request
               PROVE  Underway(r)'
    BY DEF DeliveryInv
  <1>1. Underway(r)
    BY DEF DeliveryInv
  <1>2. queue' = <<>> /\ topic' = topic
        /\ flight'[r] = {[m EXCEPT !.retries = Retries] : m \in flight[r]}
    BY DEF Stop
  <1>3. Waiting(r)' = {}
    BY <1>2 DEF Waiting
  <1>4. Own(r)' = Own(r)
    BY DEF Stop, Own, EventOf, ResponsePrice, Prices, Inv, RequestInv, RequestTypeOK
  <1>5. ASSUME NEW n \in flight'[r]
        PROVE  n.event \in Own(r) /\ Len(topic[r]) <= n.retries
    <2>1. PICK m \in flight[r] : n = [m EXCEPT !.retries = Retries]
      BY <1>2, <1>5
    <2>2. m \in Sent
      BY DEF Inv, EnvironmentTypeOK
    <2>3. n.event = m.event /\ n.retries = Retries /\ m.retries \in 0..Retries
      BY <2>1, <2>2 DEF Sent
    <2>4. Len(topic[r]) \in Nat
      BY DEF Inv, EnvironmentTypeOK
    <2> QED
      BY <1>1, <2>3, <2>4, PipelineAssumption DEF Underway
  <1>6. Lone(flight'[r])
    BY <1>1, <1>2 DEF Underway, Lone
  <1>7. Lone({})
    BY DEF Lone
  <1> QED
    BY <1>1, <1>2, <1>3, <1>4, <1>5, <1>6, <1>7 DEF Underway

LEMMA DeliveryStep == Inv /\ DeliveryInv /\ [Next]_vars => DeliveryInv'
  <1> SUFFICES ASSUME Inv, DeliveryInv, [Next]_vars PROVE DeliveryInv'
    OBVIOUS
  <1>1. ASSUME NEW r \in Request, Reject(r) \/ Receive(r) \/ Handle(r) \/ Publish(r)
        PROVE  DeliveryInv'
    BY <1>1, RequestDelivers, PublishDelivers
  <1>2. CASE Broker
    <2>1. CASE Take
      <3>1. Head(queue).from \in Request
        BY <2>1, HeadType DEF Inv, Take
      <3> QED
        BY <2>1, <3>1, TakeDelivers
    <2> QED
      BY <1>2, <2>1, ProduceDelivers DEF Broker
  <1>3. CASE Stop
    BY <1>3, StopDelivers
  <1>4. ASSUME UNCHANGED <<delivery, requestVars>>
        PROVE  DeliveryInv'
    BY <1>4, OwnKept, DeliveryKept
  <1>5. ASSUME NEW a \in Ad, CacheWrite(a) \/ CacheExpire(a)
        PROVE  DeliveryInv'
    BY <1>4, <1>5 DEF CacheWrite, CacheExpire
  <1>6. CASE EditExperiment \/ RefreshExperiments
    BY <1>4, <1>6 DEF EditExperiment, RefreshExperiments
  <1>7. ASSUME NEW d \in StartUps, Start(d)
        PROVE  DeliveryInv'
    BY <1>4, <1>7 DEF Start
  <1>8. CASE UNCHANGED vars
    BY <1>4, <1>8 DEF vars
  <1> QED
    BY <1>1, <1>2, <1>3, <1>5, <1>6, <1>7, <1>8 DEF Next

LEMMA DeliveryInvariance == Spec => []DeliveryInv
  <1>1. Init => DeliveryInv
    <2> SUFFICES ASSUME Init, NEW r \in Request PROVE Underway(r)
      BY DEF DeliveryInv
    <2>1. Waiting(r) = {} /\ flight[r] = {} /\ topic[r] = <<>> /\ Len(topic[r]) = 0
          /\ DOMAIN topic[r] = {}
      BY DEF Init, Waiting
    <2> QED
      BY <2>1, PipelineAssumption DEF Underway, Lone
  <1> QED
    BY <1>1, DeliveryStep, Invariance, PTL DEF Spec

(* However many requests share an id, ad and price, however often an       *)
(* acknowledgement is lost and whenever the server stops and starts: what  *)
(* is on its way to the broker or has reached it for a request is what the *)
(* request was sold as, and it is stored no more often than it was sent,   *)
(* 1 + Retries times.  (pipeline.go:276-285, producer.go:31-39, 98-109)    *)
THEOREM EventsAreAccounted == Spec => []ImpressionsAccounted
  <1>1. DeliveryInv => ImpressionsAccounted
    <2> SUFFICES ASSUME DeliveryInv, NEW r \in Request
                 PROVE  /\ {queue[i].event : i \in Waiting(r)} \subseteq Own(r)
                        /\ {m.event : m \in flight[r]} \subseteq Own(r)
                        /\ AdsOf(topic[r]) \subseteq Own(r)
                        /\ Lone(Waiting(r)) /\ Lone(flight[r])
                        /\ Waiting(r) = {} \/ flight[r] = {}
                        /\ Len(topic[r]) <= 1 + Retries
      BY DEF ImpressionsAccounted, Own
    <2>1. Underway(r)
      BY DEF DeliveryInv
    <2>2. Retries + 1 = 1 + Retries
      BY PipelineAssumption
    <2> QED
      BY <2>1, <2>2 DEF Underway
  <1> QED
    BY <1>1, DeliveryInvariance, PTL
------------------------------------------------------------------------------
(* Every auction has an outcome.                                           *)

(* Among finitely many bids some bid is highest: a smallest set without    *)
(* one would have one less after any of its bids is taken out.             *)
LEMMA TopExists ==
    ASSUME NEW S, IsFiniteSet(S), S # {}, NEW rank, \A b \in S : rank[b] \in Int
    PROVE  A!Top(S, rank) # {}
  <1> DEFINE Bad(T) == T # {} /\ A!Top(T, rank) = {}
             Sizes == {n \in Nat : \E T \in SUBSET S : Cardinality(T) = n /\ Bad(T)}
  <1>1. \A T \in SUBSET S : IsFiniteSet(T) /\ Cardinality(T) \in Nat
    BY FS_Subset, FS_CardinalityType
  <1>2. SUFFICES ASSUME Bad(S) PROVE FALSE
    OBVIOUS
  <1>3. Sizes # {} /\ Sizes \in SUBSET Nat
    <2> HIDE DEF Bad
    <2>1. Cardinality(S) \in Sizes
      BY <1>1, <1>2
    <2> QED
      BY <2>1
  <1>4. PICK n \in Sizes : \A m \in Sizes : n <= m
    <2> HIDE DEF Sizes
    <2> QED
      BY <1>3, FirstExists
  <1>5. PICK T \in SUBSET S : Cardinality(T) = n /\ Bad(T)
    OBVIOUS
  <1>6. PICK x \in T : TRUE
    BY <1>5
  <1> DEFINE R == T \ {x}
  <1>7. R \in SUBSET S /\ Cardinality(R) = n - 1 /\ Cardinality(R) \in Nat
    BY <1>1, <1>5, <1>6, FS_RemoveElement
  <1>8. ~Bad(R)
    <2> SUFFICES ASSUME Bad(R) PROVE FALSE
      OBVIOUS
    <2> HIDE DEF Bad, R
    <2>1. Cardinality(R) \in Sizes
      BY <1>7
    <2> QED
      BY <1>4, <1>7, <2>1
  <1>9. CASE R = {}
    <2>1. T = {x} /\ rank[x] \in Int
      BY <1>6, <1>9
    <2>2. x \in A!Top(T, rank)
      BY <2>1 DEF A!Top
    <2> QED
      BY <1>5, <2>2
  <1>10. CASE R # {}
    <2>1. PICK y \in R : \A c \in R : rank[c] <= rank[y]
      BY <1>8, <1>10 DEF A!Top
    <2>2. rank[x] \in Int /\ rank[y] \in Int /\ \A c \in T : rank[c] \in Int
      BY <1>6, <2>1
    <2>3. \A c \in T : c = x \/ c \in R
      OBVIOUS
    <2>4. CASE rank[x] <= rank[y]
      <3>1. \A c \in T : rank[c] <= rank[y]
        BY <2>1, <2>3, <2>4
      <3>2. y \in A!Top(T, rank)
        BY <2>1, <3>1 DEF A!Top
      <3> QED
        BY <1>5, <3>2
    <2>5. CASE ~(rank[x] <= rank[y])
      <3>1. \A c \in T : rank[c] <= rank[x]
        BY <2>1, <2>2, <2>3, <2>5
      <3>2. x \in A!Top(T, rank)
        BY <1>6, <3>1 DEF A!Top
      <3> QED
        BY <1>5, <3>2
    <2> QED
      BY <2>4, <2>5
  <1> QED
    BY <1>9, <1>10

LEMMA OutcomeExists ==
    ASSUME NEW S, IsFiniteSet(S), NEW price \in [S -> Int], NEW floor,
           NEW ecpm, \A b \in DOMAIN ecpm : ecpm[b] \in Int
    PROVE  A!RunWithECPM(price, ecpm, floor) # {}
  <1> DEFINE E == A!Eligible(price, ecpm, floor)
  <1>1. E \in SUBSET S /\ IsFiniteSet(E) /\ \A b \in E : ecpm[b] \in Int
    <2>1. E \in SUBSET S /\ \A b \in E : ecpm[b] \in Int
      BY DEF A!Eligible
    <2> QED
      BY <2>1, FS_Subset
  <1> HIDE DEF E
  <1>2. CASE E = {}
    BY <1>2 DEF A!RunWithECPM, A!Outcomes, E
  <1>3. CASE E # {}
    <2>1. PICK w \in A!Top(E, ecpm) : TRUE
      BY <1>1, <1>3, TopExists
    <2>2. A!SecondPrices(E, price, ecpm, floor, w) # {}
      <3>1. CASE E = {w}
        BY <3>1 DEF A!SecondPrices
      <3>2. CASE E # {w}
        <4>1. E \ {w} # {} /\ IsFiniteSet(E \ {w}) /\ \A b \in E \ {w} : ecpm[b] \in Int
          BY <1>1, <2>1, <3>2, FS_RemoveElement DEF A!Top
        <4>2. A!Top(E \ {w}, ecpm) # {}
          BY <4>1, TopExists
        <4> QED
          BY <3>2, <4>2 DEF A!SecondPrices
      <3> QED
        BY <3>1, <3>2
    <2>3. PICK s \in A!SecondPrices(E, price, ecpm, floor, w) : TRUE
      BY <2>2
    <2>4. [winner |-> w, price |-> A!Settlement(s, floor)] \in A!Outcomes(E, price, ecpm, floor)
      BY <1>3, <2>1, <2>3 DEF A!Outcomes
    <2> QED
      BY <2>4 DEF A!RunWithECPM, E
  <1> QED
    BY <1>2, <1>3

(* The map has a number for every ad it has, whichever score of the ad was *)
(* the last.                                                               *)
LEMMA MapType ==
    ASSUME NEW list \in Seq(Ad), NEW s \in Seq([ad : Ad, ecpm : Int]), NEW used
    PROVE  \A a \in DOMAIN ECPMMap(list, s, used) : ECPMMap(list, s, used)[a] \in Int
  <1> DEFINE Last(a, i) == s[i].ad = a /\ \A j \in DOMAIN s : s[j].ad = a => j <= i
             names == {s[i].ad : i \in DOMAIN s}
             f == [a \in names |-> s[CHOOSE i \in DOMAIN s : Last(a, i)].ecpm]
             g == [a \in AdsOf(list) |-> FallbackECPM(a)]
  <1>1. DOMAIN s = 1..Len(s) /\ Len(s) \in Nat /\ \A i \in DOMAIN s : s[i].ecpm \in Int
    <2>1. DOMAIN s = 1..Len(s) /\ Len(s) \in Nat
      BY LenProperties
    <2>2. \A i \in 1..Len(s) : s[i] \in [ad : Ad, ecpm : Int]
      BY ElementOfSeq
    <2>3. \A x \in [ad : Ad, ecpm : Int] : x.ecpm \in Int
      OBVIOUS
    <2> QED
      BY <2>1, <2>2, <2>3
  <1>2. ASSUME NEW a \in names
        PROVE  f[a] \in Int
    <2> DEFINE P == {i \in DOMAIN s : s[i].ad = a}
               rank == [i \in P |-> i]
    <2>1. P # {} /\ IsFiniteSet(P)
      <3>1. IsFiniteSet(1..Len(s)) /\ P \in SUBSET (1..Len(s))
        BY <1>1, FS_Interval
      <3>2. IsFiniteSet(P)
        BY <3>1, FS_Subset
      <3> QED
        BY <3>2
    <2>2. \A i \in P : rank[i] \in Int
      BY <1>1
    <2>3. A!Top(P, rank) # {}
      <3> HIDE DEF P, rank
      <3> QED
        BY <2>1, <2>2, TopExists
    <2>4. PICK i \in P : \A j \in P : j <= i
      BY <2>3 DEF A!Top
    <2>5. \E k \in DOMAIN s : Last(a, k)
      BY <2>4
    <2> DEFINE last == CHOOSE k \in DOMAIN s : Last(a, k)
    <2>6. last \in DOMAIN s
      BY <2>5
    <2> HIDE DEF last
    <2>7. s[last].ecpm \in Int
      BY <1>1, <2>6
    <2> QED
      BY <2>7 DEF last
  <1>3. ASSUME NEW a \in AdsOf(list)
        PROVE  g[a] \in Int
    <2>1. a \in Ad /\ BidPrice[a] \in Nat
      BY PipelineAssumption
    <2> QED
      BY <2>1 DEF FallbackECPM
  <1>4. ECPMMap(list, s, used) = f \/ ECPMMap(list, s, used) = g
    BY DEF ECPMMap
  <1>5. DOMAIN f = names /\ DOMAIN g = AdsOf(list)
    OBVIOUS
  <1> HIDE DEF f, g, names
  <1> QED
    BY <1>2, <1>3, <1>4, <1>5

LEMMA RecallIsFinite ==
    ASSUME NEW list \in Seq(Ad)
    PROVE  IsFiniteSet(AdsOf(list))
  <1>1. DOMAIN list = 1..Len(list) /\ Len(list) \in Nat /\ IsFiniteSet(1..Len(list))
    BY LenProperties, FS_Interval
  <1>2. /\ list \in [DOMAIN list -> AdsOf(list)]
        /\ \A a \in AdsOf(list) : \E i \in DOMAIN list : list[i] = a
    BY <1>1
  <1>3. list \in Surjection(DOMAIN list, AdsOf(list))
    BY <1>2 DEF Surjection
  <1> QED
    BY <1>1, <1>3, FS_Surjection

(* No request gets stuck at its auction, whatever was recalled and scored: *)
(* there is always a winner or none, though the scores may miss all the    *)
(* candidates or name others.  (pipeline.go:216-258, auction.go:50-92)     *)
AuctionsDecide == \A r \in Request : AuctionOf(r) # {}

(* AuctionsDecide: the ranking and the second price are defined for every  *)
(* recall and every answer of a scorer, so the handler's one way out of    *)
(* the auction other than its answer is the panic on a missing impression. *)
THEOREM EveryAuctionDecides == Spec => []AuctionsDecide
  <1>1. ASSUME Inv, NEW r \in Request
        PROVE  AuctionOf(r) # {}
    <2>1. candidates[r] \in Seq(Ad) /\ scores[r] \in Seq([ad : Ad, ecpm : Int])
      BY <1>1, CandidatesType DEF Inv, RequestInv, RequestTypeOK
    <2>2. Prices(r) \in [AdsOf(candidates[r]) -> Int]
      BY <2>1, PricesType DEF Prices
    <2>3. IsFiniteSet(AdsOf(candidates[r]))
      BY <2>1, RecallIsFinite
    <2> DEFINE ecpm == ECPMMap(candidates[r], scores[r], gprUsed[r])
    <2>4. \A a \in DOMAIN ecpm : ecpm[a] \in Int
      BY <2>1, MapType
    <2>5. AuctionOf(r) = A!RunWithECPM(Prices(r), ecpm, Floor)
      BY DEF AuctionOf
    <2> HIDE DEF ecpm
    <2> QED
      BY <2>2, <2>3, <2>4, <2>5, OutcomeExists
  <1>2. Inv => AuctionsDecide
    BY <1>1 DEF AuctionsDecide
  <1> QED
    BY <1>2, Invariance, PTL

------------------------------------------------------------------------------
(* The bidding path implements Exchange: every step is one of Exchange's   *)
(* or does not show.                                                       *)

Stage(r) == IF pc[r] \in InFlight \ {"respond"} THEN "serving" ELSE pc[r]

SaleOf(r) == IF Sold(r) THEN {EventOf(r)} ELSE {}

IsDue(r) == publisher[r] = "pending"

SameSales == \A r \in Request : SaleOf(r)' = SaleOf(r)

SameLeft == \A r \in Request : Left(r)' = Left(r)

(* What Left says, case by case.                                           *)
LEMMA LeftIs ==
    \A r \in Request :
        /\ Waiting(r) # {} => Left(r) = Retries + 1
        /\ Waiting(r) = {} /\ flight[r] = {} => Left(r) = 0
        /\ \A m : Waiting(r) = {} /\ flight[r] = {m} => Left(r) = Retries + 1 - m.retries
  <1> SUFFICES ASSUME NEW r \in Request
               PROVE  /\ Waiting(r) # {} => Left(r) = Retries + 1
                      /\ Waiting(r) = {} /\ flight[r] = {} => Left(r) = 0
                      /\ \A m : Waiting(r) = {} /\ flight[r] = {m} =>
                                    Left(r) = Retries + 1 - m.retries
    OBVIOUS
  <1>1. Waiting(r) # {} => Left(r) = Retries + 1
    BY DEF Left
  <1>2. Waiting(r) = {} /\ flight[r] = {} => Left(r) = 0
    BY DEF Left
  <1>3. ASSUME NEW m, Waiting(r) = {}, flight[r] = {m}
        PROVE  Left(r) = Retries + 1 - m.retries
    <2>1. (CHOOSE n \in flight[r] : TRUE) = m
      BY <1>3
    <2> QED
      BY <1>3, <2>1 DEF Left
  <1> QED
    BY <1>1, <1>2, <1>3

LEMMA LeftIsNext ==
    (\A r \in Request :
        /\ Waiting(r) # {} => Left(r) = Retries + 1
        /\ Waiting(r) = {} /\ flight[r] = {} => Left(r) = 0
        /\ \A m : Waiting(r) = {} /\ flight[r] = {m} => Left(r) = Retries + 1 - m.retries)'
  BY LeftIs, PTL

LEMMA LeftType ==
    ASSUME Inv, DeliveryInv, NEW r \in Request
    PROVE  Left(r) \in 0..(Retries + 1)
  <1>1. Retries \in Nat
    BY PipelineAssumption
  <1>2. CASE Waiting(r) # {}
    BY <1>1, <1>2, LeftIs
  <1>3. CASE Waiting(r) = {} /\ flight[r] = {}
    BY <1>1, <1>3, LeftIs
  <1>4. CASE Waiting(r) = {} /\ flight[r] # {}
    <2>1. PICK m \in flight[r] : flight[r] = {m}
      BY <1>4 DEF DeliveryInv, Underway, Lone
    <2>2. m.retries \in 0..Retries
      BY DEF Inv, EnvironmentTypeOK, Sent
    <2>3. Left(r) = Retries + 1 - m.retries
      BY <1>4, <2>1, LeftIs
    <2> QED
      BY <1>1, <2>2, <2>3
  <1> QED
    BY <1>2, <1>3, <1>4

LEMMA LeftSame ==
    ASSUME UNCHANGED <<queue, flight>>
    PROVE  SameLeft
  BY DEF SameLeft, Left, Waiting

LEMMA LeftsSame == SameLeft => UNCHANGED [r \in Request |-> Left(r)]
  BY DEF SameLeft

LEMMA Unseen ==
    ASSUME SameSales, SameLeft, UNCHANGED topic,
           \A r \in Request : Stage(r)' = Stage(r) /\ IsDue(r)' = IsDue(r)
    PROVE  UNCHANGED X!vars
  <1>1. [r \in Request |-> Stage(r)]' = [r \in Request |-> Stage(r)]
    OBVIOUS
  <1>2. [r \in Request |-> SaleOf(r)]' = [r \in Request |-> SaleOf(r)]
    BY DEF SameSales
  <1>3. {r \in Request : IsDue(r)}' = {r \in Request : IsDue(r)}
    OBVIOUS
  <1>4. [r \in Request |-> Left(r)]' = [r \in Request |-> Left(r)]
    BY LeftsSame
  <1> QED
    BY <1>1, <1>2, <1>3, <1>4 DEF X!vars, Stage, SaleOf, IsDue

(* A request goes from one stage to another.                               *)
LEMMA Visible ==
    ASSUME NEW r \in Request, NEW from, NEW to, Stage(r) = from, Stage(r)' = to,
           \A q \in Request \ {r} : Stage(q)' = Stage(q)
    PROVE  X!Goto(r, from, to)
  <1>1. [q \in Request |-> Stage(q)]' = [[q \in Request |-> Stage(q)] EXCEPT ![r] = to]
    OBVIOUS
  <1>2. [q \in Request |-> Stage(q)][r] = from
    OBVIOUS
  <1> QED
    BY <1>1, <1>2 DEF X!Goto, Stage

LEMMA SalesSame == SameSales => UNCHANGED [r \in Request |-> IF Sold(r) THEN {EventOf(r)} ELSE {}]
  BY DEF SameSales, SaleOf

LEMMA DueSame ==
    ASSUME \A r \in Request : IsDue(r)' = IsDue(r)
    PROVE  UNCHANGED {r \in Request : publisher[r] = "pending"}
  BY DEF IsDue

(* What a sale is made of does not change once there is one, nor does the  *)
(* absence of one before the auction.                                      *)
LEMMA SalesStay ==
    ASSUME Inv, NEW r \in Request, Reject(r) \/ Receive(r) \/ Handle(r), ~HoldAuction(r)
    PROVE  SameSales /\ SameLeft /\ UNCHANGED <<topic, publisher>>
  <1>1. UNCHANGED delivery /\ SameLeft
    <2>1. UNCHANGED delivery
      BY DEF Environment, Reject, Receive, Handle, Recall, Route, ScoreBaseline, StartGPR,
         CacheRead, CacheHit, CacheMiss, LLMScores, LLMFails, Panic, Respond, Scored
    <2> QED
      BY <2>1, LeftSame
  <1>2. UNCHANGED <<result, publisher>>
    BY DEF Reject, Receive, Handle, Recall, Route, ScoreBaseline, StartGPR,
       CacheRead, CacheHit, CacheMiss, LLMScores, LLMFails, Panic, Respond, Scored
  <1>3. ASSUME NEW q \in Request, Sold(q)
        PROVE  candidates'[q] = candidates[q] /\ scores'[q] = scores[q] /\ assign'[q] = assign[q]
    <2>1. q = r => pc[r] \notin Unscored \cup {"auction"}
      BY <1>3 DEF Inv, RequestInv, Progress
    <2>2. CASE Reject(r) \/ Receive(r) \/ StartGPR(r) \/ CacheRead(r) \/ CacheMiss(r)
                \/ Panic(r) \/ Respond(r)
      BY <2>2 DEF Reject, Receive, StartGPR, CacheRead, CacheMiss, Panic, Respond
    <2>3. CASE Recall(r) \/ Route(r)
      BY <2>1, <2>3 DEF Recall, Route, Goto, Unscored, Inv, RequestInv, RequestTypeOK
    <2>4. CASE ScoreBaseline(r) \/ CacheHit(r) \/ LLMScores(r) \/ LLMFails(r)
      <3>1. pc[r] \in Unscored
        BY <2>4 DEF ScoreBaseline, CacheHit, LLMScores, LLMFails, Goto, Unscored
      <3>2. q # r
        BY <2>1, <3>1
      <3>3. \E s, used, by : Scored(r, s, used, by)
        BY <2>4 DEF ScoreBaseline, CacheHit, LLMScores, LLMFails
      <3> QED
        BY <3>2, <3>3 DEF Scored, Inv, RequestInv, RequestTypeOK
    <2> QED
      BY <2>2, <2>3, <2>4 DEF Handle
  <1>4. ASSUME NEW q \in Request PROVE SaleOf(q)' = SaleOf(q)
    <2>1. CASE Sold(q)
      BY <1>2, <1>3, <2>1 DEF SaleOf, Sold, EventOf, ResponsePrice, Prices
    <2>2. CASE ~Sold(q)
      BY <1>2, <2>2 DEF SaleOf, Sold
    <2> QED
      BY <2>1, <2>2
  <1> QED
    BY <1>1, <1>2, <1>4 DEF SameSales

LEMMA RequestMaps ==
    ASSUME Inv, NEW r \in Request, Reject(r) \/ Receive(r) \/ Handle(r), ~HoldAuction(r)
    PROVE  X!Next \/ UNCHANGED X!vars
  <1>1. /\ SameSales /\ SameLeft /\ UNCHANGED <<topic, publisher>>
        /\ \A q \in Request : IsDue(q)' = IsDue(q)
    BY SalesStay DEF IsDue
  <1>2. \A q \in Request \ {r} : Stage(q)' = Stage(q)
    <2>1. \A q \in Request \ {r} : pc'[q] = pc[q]
      BY DEF Reject, Receive, Handle, Recall, Route, ScoreBaseline, StartGPR, CacheRead,
         CacheHit, CacheMiss, LLMScores, LLMFails, Panic, Respond, Goto,
         Inv, RequestInv, RequestTypeOK
    <2> QED
      BY <2>1 DEF Stage
  <1>3. pc \in [Request -> {"new"} \cup InFlight \cup Done]
    BY DEF Inv, RequestInv, RequestTypeOK
  <1>4. ASSUME Stage(r)' = Stage(r) PROVE UNCHANGED X!vars
    BY <1>1, <1>2, <1>4, Unseen
  <1>5. CASE Recall(r) \/ Route(r) \/ ScoreBaseline(r) \/ StartGPR(r) \/ CacheRead(r)
              \/ CacheHit(r) \/ CacheMiss(r) \/ LLMScores(r) \/ LLMFails(r)
    <2>1. Stage(r)' = Stage(r)
      BY <1>3, <1>5 DEF Stage, InFlight, Recall, Route, ScoreBaseline, StartGPR, CacheRead,
         CacheHit, CacheMiss, LLMScores, LLMFails, Goto
    <2> QED
      BY <1>4, <2>1
  <1>6. CASE Reject(r)
    <2>1. Stage(r) = "new" /\ Stage(r)' = "rejected"
      BY <1>3, <1>6 DEF Stage, InFlight, Reject, Goto
    <2>2. X!Refuse(r)
      BY <1>1, <1>2, <2>1, Visible, SalesSame, LeftsSame, DueSame DEF X!Refuse
    <2> QED
      BY <2>2 DEF X!Next
  <1>7. CASE Receive(r)
    <2>1. Stage(r) = "new" /\ Stage(r)' = "serving"
      BY <1>3, <1>7 DEF Stage, InFlight, Receive, Goto
    <2>2. X!Accept(r)
      BY <1>1, <1>2, <2>1, Visible, SalesSame, LeftsSame, DueSame DEF X!Accept
    <2> QED
      BY <2>2 DEF X!Next
  <1>8. CASE Panic(r)
    <2>1. Stage(r) = "serving" /\ Stage(r)' = "panicked"
      BY <1>3, <1>8 DEF Stage, InFlight, Panic, Goto
    <2>2. X!Fail(r)
      BY <1>1, <1>2, <2>1, Visible, SalesSame, LeftsSame, DueSame DEF X!Fail
    <2> QED
      BY <2>2 DEF X!Next
  <1>9. CASE Respond(r)
    <2>1. Stage(r) = "respond" /\ Stage(r)' = "answered"
      BY <1>3, <1>9 DEF Stage, InFlight, Respond, Goto
    <2>2. X!Answer(r)
      BY <1>1, <1>2, <2>1, Visible, SalesSame, LeftsSame, DueSame DEF X!Answer
    <2> QED
      BY <2>2 DEF X!Next
  <1> QED
    BY <1>5, <1>6, <1>7, <1>8, <1>9 DEF Handle

(* The auction decides: the event put together from what it left carries   *)
(* the request's id and a price at the floor or above.                     *)
LEMMA AuctionMaps ==
    ASSUME Inv, Inv', NEW r \in Request, HoldAuction(r)
    PROVE  X!Next
  <1>1. PICK o \in AuctionOf(r) :
            /\ result' = [result EXCEPT ![r] = o]
            /\ publisher' = [publisher EXCEPT ![r] =
                  IF o.winner # NoBid /\ deps.kafka THEN "pending" ELSE "none"]
    BY DEF HoldAuction
  <1>2. /\ pc[r] = "auction" /\ pc' = [pc EXCEPT ![r] = "respond"]
        /\ UNCHANGED <<queue, flight, topic, candidates, scores, assign>>
        /\ pc \in [Request -> {"new"} \cup InFlight \cup Done]
        /\ DOMAIN result = Request /\ DOMAIN publisher = Request
    BY DEF HoldAuction, Goto, Environment, Inv, RequestInv, RequestTypeOK
  <1>3. X!Goto(r, "serving", "respond")
    <2>1. Stage(r) = "serving" /\ Stage(r)' = "respond"
          /\ \A q \in Request \ {r} : Stage(q)' = Stage(q)
      BY <1>2 DEF Stage, InFlight
    <2> QED
      BY <2>1, Visible
  <1>4. \A q \in Request \ {r} : SaleOf(q)' = SaleOf(q)
    BY <1>1, <1>2 DEF SaleOf, Sold, EventOf, ResponsePrice, Prices
  <1>5. \A q \in Request : SaleOf(q)' \in SUBSET Event
    <2>1. \A q \in Request : Sold(q)' => EventOf(q)' \in Event
      BY EventTypeNext DEF Inv
    <2> QED
      BY <2>1 DEF SaleOf
  <1>6. \A e \in SaleOf(r)' : e.bid = IdOf[r] /\ e.ecpm >= Floor
    BY DEF SaleOf, EventOf, Inv, RequestInv, WinnerIsSound
  <1>7. \A e, f \in SaleOf(r)' : e = f
    BY DEF SaleOf
  <1>8. \A q \in Request : IsDue(q)' <=> IF q = r THEN o.winner # NoBid /\ deps.kafka ELSE IsDue(q)
    BY <1>1, <1>2 DEF IsDue
  <1>9. ~IsDue(r) /\ (IsDue(r)' => SaleOf(r)' # {})
    BY <1>1, <1>2 DEF IsDue, SaleOf, Sold, Inv, RequestInv, Progress
  <1> DEFINE Due == {q \in Request : IsDue(q)}
             Sales == [q \in Request |-> SaleOf(q)]
  <1>10. Due' = Due \/ (SaleOf(r)' # {} /\ Due' = Due \cup {r})
    BY <1>8, <1>9
  <1>11. /\ Sales' \in [Request -> SUBSET Event]
         /\ \A q \in Request \ {r} : Sales'[q] = Sales[q]
         /\ Sales'[r] = SaleOf(r)'
    BY <1>4, <1>5
  <1>13. UNCHANGED [q \in Request |-> Left(q)]
    BY <1>2, LeftSame, LeftsSame
  <1>12. X!Decide(r)
    BY <1>2, <1>3, <1>6, <1>7, <1>10, <1>11, <1>13 DEF X!Decide, SaleOf, IsDue
  <1> QED
    BY <1>12 DEF X!Next

LEMMA PublishMaps ==
    ASSUME Inv, NEW r \in Request, Publish(r)
    PROVE  X!Next
  <1>1. SameSales
    BY DEF SameSales, SaleOf, Sold, EventOf, ResponsePrice, Prices, Publish
  <1>2. \A q \in Request : IsDue(q)' <=> q # r /\ IsDue(q)
    BY DEF IsDue, Publish, Inv, RequestInv, RequestTypeOK
  <1> DEFINE Due == {q \in Request : IsDue(q)}
             Sales == [q \in Request |-> SaleOf(q)]
  <1>3. r \in Due /\ Due' = Due \ {r}
    BY <1>2 DEF IsDue, Publish
  <1>4. /\ \A q \in Request \ {r} : Waiting(q)' = Waiting(q) /\ flight'[q] = flight[q]
        /\ Waiting(r)' # {}
    BY WaitingNext DEF Inv, Publish
  <1>8. Left(r)' = Retries + 1 /\ \A q \in Request \ {r} : Left(q)' = Left(q)
    BY <1>4, LeftIsNext DEF Left
  <1> DEFINE Lefts == [q \in Request |-> Left(q)]
  <1>5. Lefts' = [Lefts EXCEPT ![r] = Retries + 1]
    BY <1>8
  <1>6. UNCHANGED [q \in Request |-> Stage(q)]
    BY DEF Stage, Publish
  <1>7. X!Send(r)
    BY <1>1, <1>3, <1>5, <1>6, SalesSame DEF X!Send, Publish, SaleOf, IsDue, Stage
  <1> QED
    BY <1>7 DEF X!Next

LEMMA SameRequests ==
    ASSUME UNCHANGED requestVars
    PROVE  /\ SameSales
           /\ \A r \in Request : Stage(r)' = Stage(r) /\ IsDue(r)' = IsDue(r)
           /\ UNCHANGED [r \in Request |-> IF pc[r] \in InFlight \ {"respond"} THEN "serving" ELSE pc[r]]
  BY DEF requestVars, SameSales, SaleOf, Sold, EventOf, ResponsePrice, Prices, Stage, IsDue

(* That an event left the channel does not show.                           *)
LEMMA TakeMaps ==
    ASSUME Inv, DeliveryInv, Take
    PROVE  UNCHANGED X!vars
  <1>1. PICK r \in Request : Head(queue).from = r
    BY HeadType DEF Inv, Take
  <1> DEFINE m == [event |-> Head(queue).event, retries |-> 0]
  <1>2. /\ Waiting(r) # {} /\ Waiting(r)' = {} /\ flight'[r] = {m}
        /\ \A q \in Request \ {r} : /\ Waiting(q)' = {} <=> Waiting(q) = {}
                                    /\ flight'[q] = flight[q]
    BY <1>1, TakeDelivers
  <1>3. m.retries = 0
    OBVIOUS
  <1> HIDE DEF m
  <1>4. Left(r)' = Left(r)
    BY <1>2, <1>3, LeftIs, LeftIsNext, PipelineAssumption
  <1>5. \A q \in Request \ {r} : Left(q)' = Left(q)
    BY <1>2 DEF Left
  <1>6. SameLeft
    BY <1>4, <1>5 DEF SameLeft
  <1> QED
    BY <1>6, SameRequests, Unseen DEF Take

(* Each attempt to have an event stored leaves it fewer.                   *)
LEMMA ProduceMaps ==
    ASSUME Inv, DeliveryInv, NEW r \in Request, Produce(r)
    PROVE  X!Next
  <1>1. PICK m \in flight[r] :
            /\ \/ topic' = [topic EXCEPT ![r] = Append(@, m.event)]
               \/ UNCHANGED topic
            /\ \/ flight' = [flight EXCEPT ![r] = @ \ {m}]
               \/ /\ m.retries < Retries
                  /\ flight' = [flight EXCEPT ![r] = (@ \ {m}) \cup {Again(m)}]
            /\ UNCHANGED <<abVars, serverVars, scoreCache, queue, requestVars>>
    BY DEF Produce, Again
  <1>2. /\ m.retries \in 0..Retries /\ Retries \in Nat /\ DOMAIN flight = Request
        /\ Again(m).retries = m.retries + 1
    BY PipelineAssumption DEF Inv, EnvironmentTypeOK, Sent, Again
  <1>3. flight[r] = {m} /\ Waiting(r) = {} /\ m.event \in Own(r)
    BY DEF DeliveryInv, Underway, Lone
  <1>4. SaleOf(r) = {m.event}
    <2>1. publisher[r] = "queued" /\ m.event = EventOf(r)
      BY <1>3 DEF Own
    <2> QED
      BY <2>1 DEF SaleOf, Inv, RequestInv, Progress
  <1>5. \A q \in Request : Waiting(q)' = Waiting(q)
    BY <1>1 DEF Waiting
  <1>6. Left(r)' \in 0..(Left(r) - 1)
    <2>1. Left(r) = Retries + 1 - m.retries
      BY <1>3, LeftIs
    <2>2. \/ flight'[r] = {}
          \/ flight'[r] = {Again(m)} /\ m.retries < Retries
      <3>1. flight[r] = {m} /\ DOMAIN flight = Request
        BY <1>2, <1>3
      <3> QED
        BY <1>1, <3>1
    <2>3. Left(r)' = 0 \/ (Left(r)' = Retries + 1 - (m.retries + 1) /\ m.retries < Retries)
      BY <1>2, <1>3, <1>5, <2>2, LeftIsNext
    <2> QED
      BY <1>2, <2>1, <2>3
  <1>7. \A q \in Request \ {r} : Left(q)' = Left(q)
    <2>1. \A q \in Request \ {r} : flight'[q] = flight[q]
      BY <1>1, <1>2
    <2> QED
      BY <1>5, <2>1 DEF Left
  <1> DEFINE Lefts == [q \in Request |-> Left(q)]
             Sales == [q \in Request |-> SaleOf(q)]
  <1>8. \E n \in 0..(Lefts[r] - 1) : Lefts' = [Lefts EXCEPT ![r] = n]
    BY <1>6, <1>7
  <1>9. \/ \E e \in Sales[r] : topic' = [topic EXCEPT ![r] = Append(@, e)]
        \/ UNCHANGED topic
    BY <1>1, <1>4
  <1>10. X!Arrive(r)
    BY <1>1, <1>8, <1>9, SameRequests, SalesSame, DueSame DEF X!Arrive, SaleOf
  <1> QED
    BY <1>10 DEF X!Next

LEMMA BrokerMaps ==
    ASSUME Inv, DeliveryInv, Broker
    PROVE  X!Next \/ UNCHANGED X!vars
  BY TakeMaps, ProduceMaps DEF Broker

LEMMA StopMaps ==
    ASSUME Inv, Inv', DeliveryInv, DeliveryInv', Stop
    PROVE  X!Next
  <1>1. SameSales
    BY DEF SameSales, SaleOf, Sold, EventOf, ResponsePrice, Prices, Stop
  <1>2. {r \in Request : IsDue(r)}' = {}
    BY DEF IsDue, Stop
  <1> DEFINE Stages == [r \in Request |-> Stage(r)]
  <1>3. \A r \in Request : Stage(r)' = IF Stage(r) \in {"serving", "respond"} THEN "lost" ELSE Stage(r)
    BY DEF Stage, Stop, InFlight, Done, Inv, RequestInv, RequestTypeOK
  <1>4. Stages' = [r \in Request |->
                     IF Stages[r] \in {"serving", "respond"} THEN "lost" ELSE Stages[r]]
    BY <1>3
  <1> DEFINE Lefts == [r \in Request |-> Left(r)]
  <1>6. ASSUME NEW r \in Request
        PROVE  Left(r)' \in 0..(Retries + 1) /\ Left(r)' <= Left(r)
    <2>1. /\ Left(r) \in 0..(Retries + 1) /\ Retries \in Nat /\ Waiting(r)' = {}
          /\ flight'[r] = {[m EXCEPT !.retries = Retries] : m \in flight[r]}
      BY LeftType, PipelineAssumption DEF Stop, Waiting
    <2>2. CASE flight[r] = {}
      <3>1. Left(r)' = 0
        BY <2>1, <2>2, LeftIsNext
      <3> QED
        BY <2>1, <3>1
    <2>3. CASE flight[r] # {}
      <3>1. PICK m \in flight[r] : flight[r] = {m} /\ Waiting(r) = {}
        BY <2>3 DEF DeliveryInv, Underway, Lone
      <3> DEFINE n == [m EXCEPT !.retries = Retries]
      <3>2. m \in Sent
        BY DEF Inv, EnvironmentTypeOK
      <3>3. n.retries = Retries /\ m.retries \in 0..Retries
        BY <3>2 DEF Sent
      <3>4. flight'[r] = {n}
        BY <2>1, <3>1
      <3> HIDE DEF n
      <3>5. Left(r) = Retries + 1 - m.retries /\ Left(r)' = Retries + 1 - n.retries
        BY <2>1, <3>1, <3>4, LeftIs, LeftIsNext
      <3> QED
        BY <2>1, <3>3, <3>5
    <2> QED
      BY <2>2, <2>3
  <1>7. Lefts' \in [Request -> 0..(Retries + 1)] /\ \A r \in Request : Lefts'[r] <= Lefts[r]
    BY <1>6
  <1>5. X!Crash
    BY <1>1, <1>2, <1>4, <1>7, SalesSame DEF X!Crash, Stop, IsDue, Stage
  <1> QED
    BY <1>5 DEF X!Next

LEMMA StepMaps ==
    Inv /\ Inv' /\ DeliveryInv /\ DeliveryInv' /\ [Next]_vars => [X!Next]_X!vars
  <1> SUFFICES ASSUME Inv, Inv', DeliveryInv, DeliveryInv', [Next]_vars
               PROVE  X!Next \/ UNCHANGED X!vars
    OBVIOUS
  <1>1. ASSUME NEW r \in Request, Reject(r) \/ Receive(r) \/ Handle(r)
        PROVE  X!Next \/ UNCHANGED X!vars
    BY <1>1, RequestMaps, AuctionMaps
  <1>2. ASSUME NEW r \in Request, Publish(r)
        PROVE  X!Next
    BY <1>2, PublishMaps
  <1>3. CASE Broker \/ Stop
    BY <1>3, BrokerMaps, StopMaps
  <1>4. ASSUME UNCHANGED <<delivery, requestVars>>
        PROVE  UNCHANGED X!vars
    BY <1>4, SameRequests, LeftSame, Unseen
  <1>5. ASSUME NEW a \in Ad, CacheWrite(a) \/ CacheExpire(a)
        PROVE  UNCHANGED X!vars
    BY <1>4, <1>5 DEF CacheWrite, CacheExpire
  <1>6. CASE EditExperiment \/ RefreshExperiments
    BY <1>4, <1>6 DEF EditExperiment, RefreshExperiments
  <1>7. ASSUME NEW d \in StartUps, Start(d)
        PROVE  UNCHANGED X!vars
    BY <1>4, <1>7 DEF Start
  <1>8. CASE UNCHANGED vars
    BY <1>4, <1>8 DEF vars
  <1> QED
    BY <1>1, <1>2, <1>3, <1>5, <1>6, <1>7, <1>8 DEF Next

(* The bidding path implements Exchange, for any requests, ads, scorers,   *)
(* experiments and restarts: a request is sold once and for all at its     *)
(* auction, its impression is handed to sarama once at most and says just  *)
(* that, and the broker has it at most once for each time it was sent.     *)
(* (pipeline.go:60-330, producer.go:31-109, main.go:150-190)               *)
THEOREM ImplementsExchange == Spec => ExchangeContract
  <1>1. Init => X!Init
    <2> SUFFICES ASSUME Init PROVE X!Init
      OBVIOUS
    <2>1. \A r \in Request : pc[r] = "new" /\ ~Sold(r) /\ publisher[r] # "pending"
      BY DEF Init, Sold, A!EmptyAuction
    <2>2. "new" \notin InFlight \ {"respond"}
      BY DEF InFlight
    <2>3. \A r \in Request : Left(r) = 0
      BY LeftIs DEF Init, Waiting
    <2> QED
      BY <2>1, <2>2, <2>3 DEF X!Init, Init
  <1>2. Inv /\ Inv' /\ DeliveryInv /\ DeliveryInv' /\ [Next]_vars => [X!Next]_X!vars
    BY StepMaps
  <1> QED
    BY <1>1, <1>2, Invariance, DeliveryInvariance, PTL DEF Spec, ExchangeContract, X!Spec
=============================================================================
