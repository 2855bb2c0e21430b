----------------------------- MODULE BidPipeline -----------------------------
(***************************************************************************)
(* The real-time bidding path of the ADX server: handleBid and main of     *)
(* adx/cmd/server/main.go, Pipeline.Process of                             *)
(* adx/internal/pipeline/pipeline.go and the clients it calls (vector      *)
(* search, GPR score cache, GPR model client, event producer).  Requests   *)
(* are served concurrently, each in a goroutine of its own.  They share    *)
(* the experiment list, which a refresh goroutine swaps (ABManager), the   *)
(* score cache, which another process rewrites and whose keys expire, and  *)
(* the bounded input channel of the Kafka producer.  The process may be    *)
(* stopped at any moment: main returns on a signal without draining        *)
(* anything.                                                               *)
(*                                                                         *)
(* Money is counted in units in which a score's eCPM and the bid price it  *)
(* sets, ECPM/1000, are the same number.                                   *)
(***************************************************************************)
EXTENDS Integers, FiniteSets, Sequences

CONSTANTS
    Request,        \* HTTP requests to POST /bid
    IdOf,           \* the OpenRTB id of each request; two may carry the same
    Malformed,      \* requests that do not parse or have no id
    NoImp,          \* requests whose imp list is empty
    Ad,             \* ads in the vector index
    BidPrice,       \* payload bid_price of each ad
    ECPM,           \* the eCPM values a scorer may predict
    Recalls,        \* candidate lists the vector search may return
    LLMAnswers,     \* score lists the model may answer with
    Absent,         \* no cached score
    NoBid,          \* the nil Winner
    Floor,          \* the floor price Process passes to the auction, 0.10
    QueueCap,       \* capacity of the producer's input channel
    FlightCap,      \* events sarama holds until the broker has acknowledged them
    Retries,        \* Producer.Retry.Max: how often sarama sends an event again
    StartUps,       \* sets of dependencies a start-up may reach
    MaxStarts,      \* bound on the number of server starts
    Experiment, Ratio, Null, RequestId, Bucket, MaxEdits, NoAssignment, NoRows

Score == [ad : Ad, ecpm : ECPM]
Deps == [qdrant : BOOLEAN, ab : BOOLEAN, cache : BOOLEAN, kafka : BOOLEAN]

ASSUME PipelineAssumption ==
    /\ IsFiniteSet(Request)
    /\ IdOf \in [Request -> RequestId]
    /\ Malformed \subseteq Request
    /\ NoImp \subseteq Request
    /\ BidPrice \in [Ad -> Nat]
    /\ ECPM \subseteq Int
    /\ Recalls \subseteq Seq(Ad)
    /\ \A c \in Recalls : \A i, j \in 1..Len(c) : c[i] = c[j] => i = j
    /\ LLMAnswers \subseteq Seq(Score)
    /\ Absent \notin ECPM
    /\ NoBid \notin Ad
    /\ Floor \in Nat
    /\ QueueCap \in Nat \ {0}
    /\ FlightCap \in Nat \ {0}
    /\ Retries \in Nat
    /\ StartUps \subseteq Deps
    /\ MaxStarts \in Nat

VARIABLES
    db, edits, experiments, rows,   \* the A/B manager's, see ABManager
    server,         \* "up" or "down"
    starts,         \* how often it was started
    deps,           \* the dependencies it reached at start-up
    scoreCache,     \* Redis: the gpr_score:<ad> hashes
    queue,          \* events in the producer's input channel, and whose they are
    flight,         \* each request's event between sarama and the broker, and how
                    \* often it was sent again
    topic,          \* what the broker has in ad_impressions of each request
    pc,             \* where each request's goroutine is
    candidates,     \* the recalled ads, in order
    assign,         \* the request's experiment assignment
    cached,         \* scores read from the cache so far
    scores,         \* the scores of the request
    gprUsed,        \* result.GPRUsed
    scorer,         \* history: which branch produced the scores
    result,         \* result.AuctionResult
    publisher       \* the goroutine that publishes the impression

abVars == <<db, edits, experiments, rows>>
serverVars == <<server, starts, deps>>
delivery == <<queue, flight, topic>>
requestVars == <<pc, candidates, assign, cached, scores, gprUsed, scorer, result, publisher>>
vars == <<abVars, serverVars, scoreCache, delivery, requestVars>>

AB == INSTANCE ABManager

ASSUME RoutingAssumption == AB!ABConstants

A  == INSTANCE Auction

Store == INSTANCE ScoreStore

Scorers == {"none", "baseline", "cache", "llm", "fallback"}
Unscored == {"new", "recall", "assign", "score", "cache", "llm"}
InFlight == {"recall", "assign", "score", "cache", "llm", "auction", "respond"}
Done == {"answered", "rejected", "panicked", "lost"}
NoDeps == [qdrant |-> FALSE, ab |-> FALSE, cache |-> FALSE, kafka |-> FALSE]
NoList == [e \in {} |-> 0]
Event == [bid : RequestId, ad : Ad, ecpm : Int, assign : AB!Assignment \cup {NoAssignment}]
Queued == [from : Request, event : Event]
Sent == [event : Event, retries : 0..Retries]
PartialScores == UNION {[S -> ECPM \cup {Absent}] : S \in SUBSET Ad}
Outcome == [winner : Ad \cup {NoBid}, price : Int]

EnvironmentTypeOK ==
    /\ AB!TypeOK
    /\ server \in {"up", "down"}
    /\ starts \in 0..MaxStarts
    /\ deps \in Deps
    /\ scoreCache \in [Ad -> ECPM \cup {Absent}]
    /\ queue \in Seq(Queued)
    /\ Len(queue) <= QueueCap
    /\ flight \in [Request -> SUBSET Sent]
    /\ topic \in [Request -> Seq(Event)]

RequestTypeOK ==
    /\ pc \in [Request -> {"new"} \cup InFlight \cup Done]
    /\ candidates \in [Request -> Recalls \cup {<<>>}]
    /\ assign \in [Request -> AB!Assignment \cup {NoAssignment}]
    /\ cached \in [Request -> PartialScores]
    /\ scores \in [Request -> Seq([ad : Ad, ecpm : Int])]
    /\ gprUsed \in [Request -> BOOLEAN]
    /\ scorer \in [Request -> Scorers]
    /\ result \in [Request -> Outcome]
    /\ publisher \in [Request -> {"none", "pending", "queued", "lost"}]

TypeOK == EnvironmentTypeOK /\ RequestTypeOK

------------------------------------------------------------------------------
AdsOf(list) == {list[i] : i \in DOMAIN list}

Position(list, a) == CHOOSE i \in DOMAIN list : list[i] = a

(* The hardcoded eCPM of fallbackScores, BidPrice * 0.02 * 1000.           *)
FallbackECPM(a) == BidPrice[a] \div 50

(* Scores with one entry per candidate, in the candidates' order.          *)
ScoresBy(list, f) == [i \in DOMAIN list |-> [ad |-> list[i], ecpm |-> f[list[i]]]]

(* Mutant: the bound check is off by one.                                  *)
MutantBidPrices(list, s) ==
    [a \in AdsOf(list) |->
        LET i == Position(list, a)
        IN IF i < Len(s) THEN s[i].ecpm ELSE BidPrice[a]]

(* Bids take the score at their own POSITION; a candidate beyond the end   *)
(* of the scores keeps its raw bid price.                                  *)
BidPrices(list, s) ==
    [a \in AdsOf(list) |->
        LET i == Position(list, a)
        IN IF i <= Len(s) THEN s[i].ecpm ELSE BidPrice[a]]

(* The auction's eCPM map goes by the ad ID a score NAMES; the last score  *)
(* of an ad wins.  With no score at all and GPR unused, fallback values.   *)
ECPMMap(list, s, used) ==
    IF used \/ Len(s) > 0
    THEN [a \in {s[i].ad : i \in DOMAIN s} |->
            LET last == CHOOSE i \in DOMAIN s :
                            /\ s[i].ad = a
                            /\ \A j \in DOMAIN s : s[j].ad = a => j <= i
            IN s[last].ecpm]
    ELSE [a \in AdsOf(list) |-> FallbackECPM(a)]

Prices(r) == BidPrices(candidates[r], scores[r])

(* Mutant: the reserve is left at zero.                                    *)
MutantAuctionOf(r) ==
    A!RunWithECPM(Prices(r), ECPMMap(candidates[r], scores[r], gprUsed[r]), 0)

(* Process's call of the auction, which may break ties either way.         *)
AuctionOf(r) ==
    A!RunWithECPM(Prices(r), ECPMMap(candidates[r], scores[r], gprUsed[r]), Floor)

(* The price the bid response and the impression event carry: the winning  *)
(* bid's own.  AuctionResult.Price, the settlement, goes nowhere.          *)
ResponsePrice(r) == Prices(r)[result[r].winner]

(* Mutant: the goroutine looks the assignment up again when it runs.       *)
MutantEventOf(r) == [bid |-> IdOf[r], ad |-> result[r].winner, ecpm |-> ResponsePrice(r),
                     assign |-> IF deps.ab THEN AB!Assign(experiments, IdOf[r]) ELSE NoAssignment]

EventOf(r) == [bid |-> IdOf[r], ad |-> result[r].winner,
               ecpm |-> ResponsePrice(r), assign |-> assign[r]]

IsControl(a) == a # NoAssignment /\ a.variant = "control"

------------------------------------------------------------------------------
Goto(r, from, to) == pc[r] = from /\ pc' = [pc EXCEPT ![r] = to]

Environment == <<abVars, serverVars, scoreCache, delivery>>

(* handleBid: a body that does not parse or has no id is answered 400.     *)
Reject(r) ==
    /\ server = "up"
    /\ r \in Malformed
    /\ Goto(r, "new", "rejected")
    /\ UNCHANGED <<Environment, candidates, assign, cached, scores, gprUsed, scorer, result, publisher>>

(* handleBid: a valid request enters the pipeline.  filter.Apply is a stub *)
(* and its result is ignored.                                              *)
Receive(r) ==
    /\ server = "up"
    /\ r \notin Malformed
    /\ Goto(r, "new", "recall")
    /\ UNCHANGED <<Environment, candidates, assign, cached, scores, gprUsed, scorer, result, publisher>>

(* Vector recall: the top ads, none when the search fails or times out or  *)
(* the index was unreachable at start-up.  The error is only logged.       *)
Recall(r) ==
    /\ Goto(r, "recall", "assign")
    /\ \E list \in IF deps.qdrant THEN Recalls \cup {<<>>} ELSE {<<>>} :
          candidates' = [candidates EXCEPT ![r] = list]
    /\ UNCHANGED <<Environment, assign, cached, scores, gprUsed, scorer, result, publisher>>

(* A/B routing on the list that is live now; no manager, no assignment.    *)
Route(r) ==
    /\ Goto(r, "assign", "score")
    /\ assign' = [assign EXCEPT ![r] =
           IF deps.ab THEN AB!Assign(experiments, IdOf[r]) ELSE NoAssignment]
    /\ UNCHANGED <<Environment, candidates, cached, scores, gprUsed, scorer, result, publisher>>

(* What every scoring branch leaves behind.                                *)
Scored(r, s, used, by) ==
    /\ scores' = [scores EXCEPT ![r] = s]
    /\ gprUsed' = [gprUsed EXCEPT ![r] = used]
    /\ scorer' = [scorer EXCEPT ![r] = by]
    /\ UNCHANGED <<Environment, candidates, assign, cached, result, publisher>>

(* Control: DeepFM scores every candidate.  main sets the baseline scorer  *)
(* whenever it sets the manager, so an assignment implies one.             *)
ScoreBaseline(r) ==
    /\ IsControl(assign[r])
    /\ Goto(r, "score", "auction")
    /\ \E f \in [AdsOf(candidates[r]) -> ECPM] :
          Scored(r, ScoresBy(candidates[r], f), FALSE, "baseline")

(* Mutant: the branch asks the live experiment list again.                 *)
MutantStartGPR(r) ==
    /\ ~IsControl(IF deps.ab THEN AB!Assign(experiments, IdOf[r]) ELSE NoAssignment)
    /\ Goto(r, "score", IF deps.cache THEN "cache" ELSE "llm")
    /\ UNCHANGED <<Environment, candidates, assign, cached, scores, gprUsed, scorer, result, publisher>>

(* Treatment or no experiment: the score cache first, if there is one.     *)
StartGPR(r) ==
    /\ ~IsControl(assign[r])
    /\ Goto(r, "score", IF deps.cache THEN "cache" ELSE "llm")
    /\ UNCHANGED <<Environment, candidates, assign, cached, scores, gprUsed, scorer, result, publisher>>

(* GetScores: one HGETALL of the pipeline, answered between any two        *)
(* commands of the process that writes the keys.                           *)
CacheRead(r) ==
    /\ pc[r] = "cache"
    /\ \E i \in DOMAIN candidates[r] :
          LET a == candidates[r][i]
          IN /\ \A j \in 1..(i - 1) : candidates[r][j] \in DOMAIN cached[r]
             /\ a \notin DOMAIN cached[r]
             /\ cached' = [cached EXCEPT ![r] =
                    [b \in DOMAIN cached[r] \cup {a} |->
                        IF b = a THEN scoreCache[a] ELSE cached[r][b]]]
    /\ UNCHANGED <<Environment, pc, candidates, assign, scores, gprUsed, scorer, result, publisher>>

AllRead(r) == DOMAIN cached[r] = AdsOf(candidates[r])

(* Every candidate has a cached score: they are the scores, in order.  An  *)
(* empty candidate list counts as a hit.                                   *)
CacheHit(r) ==
    /\ AllRead(r)
    /\ \A a \in DOMAIN cached[r] : cached[r][a] # Absent
    /\ Goto(r, "cache", "auction")
    /\ Scored(r, ScoresBy(candidates[r], cached[r]), TRUE, "cache")

(* A failed read or a single missing score discards what the cache had.    *)
CacheMiss(r) ==
    /\ AllRead(r) => \E a \in DOMAIN cached[r] : cached[r][a] = Absent
    /\ Goto(r, "cache", "llm")
    /\ UNCHANGED <<Environment, candidates, assign, cached, scores, gprUsed, scorer, result, publisher>>

(* GPRClient.Score: nothing to score is an empty success, and an answer    *)
(* that parses is used as it is: fewer, repeated or reordered scores too.  *)
LLMScores(r) ==
    /\ Goto(r, "llm", "auction")
    /\ \E s \in IF candidates[r] = <<>> THEN {<<>>} ELSE LLMAnswers :
          Scored(r, s, TRUE, "llm")

(* Timeout, refused connection, bad status or an answer that does not      *)
(* parse: hardcoded scores come back along with the error.                 *)
LLMFails(r) ==
    /\ candidates[r] # <<>>
    /\ Goto(r, "llm", "auction")
    /\ Scored(r, ScoresBy(candidates[r], [a \in Ad |-> FallbackECPM(a)]), FALSE, "fallback")

(* Building the bids indexes req.Imp[0] for each candidate: without an     *)
(* impression that panics, and gin's recovery answers 500.                 *)
Panic(r) ==
    /\ r \in NoImp
    /\ candidates[r] # <<>>
    /\ Goto(r, "auction", "panicked")
    /\ UNCHANGED <<Environment, candidates, assign, cached, scores, gprUsed, scorer, result, publisher>>

(* Bids, auction, and a goroutine that will publish the impression of the  *)
(* winner if there is a producer.                                          *)
HoldAuction(r) ==
    /\ r \in NoImp => candidates[r] = <<>>
    /\ Goto(r, "auction", "respond")
    /\ \E o \in AuctionOf(r) :
          /\ result' = [result EXCEPT ![r] = o]
          /\ publisher' = [publisher EXCEPT ![r] =
                IF o.winner # NoBid /\ deps.kafka THEN "pending" ELSE "none"]
    /\ UNCHANGED <<Environment, candidates, assign, cached, scores, gprUsed, scorer>>

(* Mutant: the response waits for the impression to be published.          *)
MutantRespond(r) ==
    /\ publisher[r] # "pending"
    /\ Goto(r, "respond", "answered")
    /\ UNCHANGED <<Environment, candidates, assign, cached, scores, gprUsed, scorer, result, publisher>>

(* handleBid writes the response.                                          *)
Respond(r) ==
    /\ Goto(r, "respond", "answered")
    /\ UNCHANGED <<Environment, candidates, assign, cached, scores, gprUsed, scorer, result, publisher>>

(* Mutant: a send that does not wait for room in the channel.              *)
MutantSend(r) ==
    /\ publisher[r] = "pending"
    /\ queue' = Append(queue, [from |-> r, event |-> EventOf(r)])
    /\ publisher' = [publisher EXCEPT ![r] = "queued"]
    /\ UNCHANGED <<abVars, serverVars, scoreCache, flight, topic, pc, candidates, assign,
                   cached, scores, gprUsed, scorer, result>>

(* Mutant: the event is sent again after it was sent.                      *)
MutantResend(r) ==
    /\ publisher[r] \in {"pending", "queued"}
    /\ Len(queue) < QueueCap
    /\ Len(topic[r]) < Retries + 2
    /\ queue' = Append(queue, [from |-> r, event |-> EventOf(r)])
    /\ publisher' = [publisher EXCEPT ![r] = "queued"]
    /\ UNCHANGED <<abVars, serverVars, scoreCache, flight, topic, pc, candidates, assign,
                   cached, scores, gprUsed, scorer, result>>

(* Mutant: one slot of the channel is never used.                          *)
MutantCapacity(r) ==
    /\ publisher[r] = "pending"
    /\ Len(queue) + 1 < QueueCap
    /\ queue' = Append(queue, [from |-> r, event |-> EventOf(r)])
    /\ publisher' = [publisher EXCEPT ![r] = "queued"]
    /\ UNCHANGED <<abVars, serverVars, scoreCache, flight, topic, pc, candidates, assign,
                   cached, scores, gprUsed, scorer, result>>

(* The publishing goroutine sends on the producer's input channel and      *)
(* blocks while it is full.  (json.Marshal fails on numbers that are not   *)
(* finite alone, and ECPM has none.)                                       *)
Publish(r) ==
    /\ publisher[r] = "pending"
    /\ Len(queue) < QueueCap
    /\ queue' = Append(queue, [from |-> r, event |-> EventOf(r)])
    /\ publisher' = [publisher EXCEPT ![r] = "queued"]
    /\ UNCHANGED <<abVars, serverVars, scoreCache, flight, topic, pc, candidates, assign,
                   cached, scores, gprUsed, scorer, result>>

------------------------------------------------------------------------------
(* Sarama takes an event off the channel.                                  *)
Take ==
    /\ queue # <<>>
    /\ Cardinality({r \in Request : flight[r] # {}}) < FlightCap
    /\ queue' = Tail(queue)
    /\ LET head == Head(queue)
       IN  flight' = [flight EXCEPT ![head.from] =
                         @ \cup {[event |-> head.event, retries |-> 0]}]
    /\ UNCHANGED <<abVars, serverVars, scoreCache, topic, requestVars>>

(* An event is sent to the broker, which stores it or not; and sarama gets *)
(* the acknowledgement or a final error and lets the event go, or it gets  *)
(* none and will send it again.  Without idempotence a stored event whose  *)
(* acknowledgement was lost is stored twice.  Events in flight are sent in *)
(* any order.                                                              *)
Produce(r) ==
    \E m \in flight[r] :
        /\ \/ topic' = [topic EXCEPT ![r] = Append(@, m.event)]
           \/ UNCHANGED topic
        /\ \/ flight' = [flight EXCEPT ![r] = @ \ {m}]
           \/ /\ m.retries < Retries
              /\ flight' = [flight EXCEPT ![r] =
                    (@ \ {m}) \cup {[event |-> m.event, retries |-> m.retries + 1]}]
        /\ UNCHANGED <<abVars, serverVars, scoreCache, queue, requestVars>>

(* The batch scorer overwrites a key; a key reaches its TTL.               *)
CacheWrite(a) ==
    /\ Store!Put(a)
    /\ UNCHANGED <<abVars, serverVars, delivery, requestVars>>

CacheExpire(a) ==
    /\ Store!Remove(a)
    /\ UNCHANGED <<abVars, serverVars, delivery, requestVars>>

(* Operators edit the experiments table whether or not the server is up.   *)
EditExperiment ==
    /\ \E e \in Experiment, row \in AB!Row : AB!Edit(e, row)
    /\ UNCHANGED <<serverVars, scoreCache, delivery, requestVars>>

(* The refresh goroutine of a server that reached MySQL at start-up.       *)
RefreshExperiments ==
    /\ server = "up" /\ deps.ab
    /\ AB!Query \/ AB!Swap
    /\ UNCHANGED <<serverVars, scoreCache, delivery, requestVars>>

(* main: each dependency that is unreachable is left nil for good.         *)
Start(d) ==
    /\ server = "down"
    /\ starts < MaxStarts
    /\ d.ab => AB!Loadable
    /\ server' = "up"
    /\ starts' = starts + 1
    /\ deps' = d
    /\ experiments' = IF d.ab THEN AB!Snapshot ELSE NoList
    /\ UNCHANGED <<db, edits, rows, scoreCache, delivery, requestVars>>

(* main returns on SIGTERM, or the process dies: requests in flight, and   *)
(* events in the channel, are gone.  What is on its way to the broker is   *)
(* not sent again.                                                         *)
Stop ==
    /\ server = "up"
    /\ server' = "down"
    /\ deps' = NoDeps
    /\ experiments' = NoList
    /\ rows' = NoRows
    /\ queue' = <<>>
    /\ flight' = [r \in Request |-> {[m EXCEPT !.retries = Retries] : m \in flight[r]}]
    /\ pc' = [r \in Request |-> IF pc[r] \in InFlight THEN "lost" ELSE pc[r]]
    /\ publisher' = [r \in Request |->
          IF publisher[r] = "pending" THEN "lost" ELSE publisher[r]]
    /\ UNCHANGED <<db, edits, starts, scoreCache, topic, candidates, assign, cached,
                   scores, gprUsed, scorer, result>>

Init ==
    /\ db \in [Experiment -> AB!Row]
    /\ edits = 0
    /\ experiments = NoList
    /\ rows = NoRows
    /\ server = "down"
    /\ starts = 0
    /\ deps = NoDeps
    /\ scoreCache \in [Ad -> ECPM \cup {Absent}]
    /\ queue = <<>>
    /\ flight = [r \in Request |-> {}]
    /\ topic = [r \in Request |-> <<>>]
    /\ pc = [r \in Request |-> "new"]
    /\ candidates = [r \in Request |-> <<>>]
    /\ assign = [r \in Request |-> NoAssignment]
    /\ cached = [r \in Request |-> <<>>]
    /\ scores = [r \in Request |-> <<>>]
    /\ gprUsed = [r \in Request |-> FALSE]
    /\ scorer = [r \in Request |-> "none"]
    /\ result = [r \in Request |-> A!EmptyAuction]
    /\ publisher = [r \in Request |-> "none"]

(* One step of the goroutine that serves r.                                *)
Handle(r) ==
    \/ Recall(r)        \/ Route(r)
    \/ ScoreBaseline(r) \/ StartGPR(r)
    \/ CacheRead(r)     \/ CacheHit(r)    \/ CacheMiss(r)
    \/ LLMScores(r)     \/ LLMFails(r)
    \/ Panic(r)         \/ HoldAuction(r) \/ Respond(r)

Broker == Take \/ \E r \in Request : Produce(r)

Next ==
    \/ \E r \in Request : Reject(r) \/ Receive(r) \/ Handle(r) \/ Publish(r)
    \/ Broker
    \/ \E a \in Ad : CacheWrite(a) \/ CacheExpire(a)
    \/ EditExperiment
    \/ RefreshExperiments
    \/ \E d \in StartUps : Start(d)
    \/ Stop

(* Goroutines run, and the calls they make end within their timeouts.      *)
(* Nothing is assumed of the broker, the operators or the process's life.  *)
Fairness == \A r \in Request : WF_vars(Handle(r)) /\ WF_vars(Publish(r))

Spec == Init /\ [][Next]_vars /\ Fairness

------------------------------------------------------------------------------
Sold(r) == result[r].winner # NoBid

(* Whatever the scorers answer, a sale is to a recalled ad whose bid       *)
(* reaches the floor, and settles at the floor or above, while everything  *)
(* the scores came from may have changed since.  (pipeline.go:216-274)     *)
WinnerIsSound ==
    \A r \in Request : Sold(r) =>
        /\ result[r].winner \in AdsOf(candidates[r])
        /\ ResponsePrice(r) >= Floor
        /\ result[r].price >= Floor

(* The scorers that answer in the order they were asked settle a true      *)
(* second-price auction: the winner has the highest bid of all candidates, *)
(* pays no more than that, and no less than any losing bid.  It takes the  *)
(* bid prices, which go by position, and the eCPM map, which goes by name, *)
(* to agree.  (pipeline.go:160-168, 186-196, 218-258, client.go:136-147)   *)
AlignedScorersSettleSecondPrice ==
    \A r \in Request :
        Sold(r) /\ scorer[r] \in {"baseline", "cache", "fallback"} =>
            LET w == result[r].winner
            IN /\ result[r].price <= Prices(r)[w]
               /\ \A b \in AdsOf(candidates[r]) \ {w} :
                      /\ Prices(r)[b] <= Prices(r)[w]
                      /\ Prices(r)[b] <= result[r].price

(* The label of a request says who scored it, although the experiments may *)
(* be edited, refreshed or lost in a restart between routing and scoring:  *)
(* control is scored by the baseline and nobody else is, so that the A/B   *)
(* report, which groups by variant, compares what it means to; and         *)
(* gpr_used is set exactly when a GPR scorer answered.                     *)
(* (pipeline.go:112-118, 137-211; ab_report.py:133-134)                    *)
VariantDecidesScorer ==
    \A r \in Request : scorer[r] # "none" =>
        /\ scorer[r] = "baseline" <=>
              assign[r] \in [experiment : Experiment, variant : {"control"}]
        /\ gprUsed[r] <=> scorer[r] \in {"cache", "llm"}

Waiting(r) == {i \in DOMAIN queue : queue[i].from = r}

Lone(S) == \A x, y \in S : x = y

(* Impressions are made for sales only and as sold: whatever waits in the  *)
(* channel, is in flight or has been stored for a request is the event of  *)
(* what it sold, once a goroutine has sent it.  It waits or is in flight   *)
(* at most once, and the broker has it once, and once more at most for     *)
(* each time it was sent again.                                            *)
(* (pipeline.go:276-285, producer.go:31-39, 63-73, 98-109)                 *)
ImpressionsAccounted ==
    \A r \in Request :
        LET waits == Waiting(r)
            said == {queue[i].event : i \in waits} \cup {m.event : m \in flight[r]}
                        \cup AdsOf(topic[r])
        IN  /\ said \subseteq (IF publisher[r] = "queued" THEN {EventOf(r)} ELSE {})
            /\ Lone(waits) /\ Lone(flight[r])
            /\ waits = {} \/ flight[r] = {}
            /\ Len(topic[r]) <= 1 + Retries

(* How often an event may still be stored.                                 *)
Left(r) ==
    CASE Waiting(r) # {} -> Retries + 1
      [] Waiting(r) = {} /\ flight[r] # {} -> Retries + 1 - (CHOOSE m \in flight[r] : TRUE).retries
      [] Waiting(r) = {} /\ flight[r] = {} -> 0

(* How the bidding path looks from outside: all of Process up to the       *)
(* auction is one stage, and what a request was sold for is its event.     *)
X == INSTANCE Exchange WITH
        Impression <- Event,
        Copies <- Retries + 1,
        stage <- [r \in Request |-> IF pc[r] \in InFlight \ {"respond"} THEN "serving" ELSE pc[r]],
        sale <- [r \in Request |-> IF Sold(r) THEN {EventOf(r)} ELSE {}],
        due <- {r \in Request : publisher[r] = "pending"},
        left <- [r \in Request |-> Left(r)],
        arrived <- topic

(* The bidding path implements Exchange.  An event is put together from    *)
(* four variables of its request when the goroutine gets to run, maybe     *)
(* after the answer, while other requests, refreshes and restarts go on:   *)
(* it still says what was sold at the auction, it is handed over once,     *)
(* arrives no more often than it was sent, and no step in between shows.   *)
(* (pipeline.go:60-330, producer.go:31-109, main.go:150-190)               *)
ExchangeContract == X!Spec

(* A request that is being served gets an answer, or dies with the server, *)
(* even if the broker never takes an event again and every publishing      *)
(* goroutine is stuck: publishing must not block the hot path.             *)
(* (pipeline.go:276-285, producer.go:13-15)                                *)
Answered == \A r \in Request : pc[r] \in InFlight ~> pc[r] \in Done

(* If sarama and the broker go on, no publishing goroutine waits forever,  *)
(* however many of them compete for the channel and however often the      *)
(* broker's acknowledgement is lost.                                       *)
(* (producer.go:98-109)                                                    *)
ImpressionsDrain ==
    WF_vars(Broker) =>
        \A r \in Request : publisher[r] = "pending" ~> publisher[r] # "pending"

==============================================================================
