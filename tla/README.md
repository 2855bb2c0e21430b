# Verification of the ADX exchange

TLA+ models, TLC runs and TLAPS proofs for `agentic-adx`: an ad exchange in Go
that answers OpenRTB bid requests with a second-price auction over AI scores,
and the Python processes that feed it. Every definition is translated from the
source; `PROJECT.json` maps it to its lines.

## The system

| component | state | operations | talks to |
|---|---|---|---|
| ADX server, `adx/cmd/server/main.go` | dependencies (nil or not, fixed at start-up) | start-up, `/bid`, `/api/creative`, exit on a signal | everything below |
| bid pipeline, `adx/internal/pipeline` | per request: candidates, assignment, scores, result | `Process`: recall, A/B routing, scoring, auction, response, impression goroutine | Qdrant, A/B manager, score cache, model, producer |
| auction, `adx/internal/auction` | none | `Run`, `RunWithECPM` | called by `Process` |
| A/B manager, `adx/internal/ab` | experiment list under a RWMutex | load, refresh every minute, `AssignExperiment` | MySQL `experiments`, edited by operators |
| GPR client, `adx/internal/gpr/client.go` | counter of consecutive fallbacks (for logging) | `Score`, hardcoded fallback | llama.cpp server |
| score cache, `adx/internal/gpr/cache.go` | none; keys `gpr_score:<ad>` in Redis | `GetScores` | written by the batch scorer |
| event producer, `adx/internal/event` | sarama's bounded input channel | `PublishImpression` (click, conversion unused) | Kafka |
| Redis filter, `adx/internal/filter` | `budget:<campaign>`, `freq:<user>:<campaign>` in Redis | `CheckBudget`, `DeductBudget`, `CheckFrequency`, `Apply` (a stub, the only one the server calls) | Redis; budgets are written by the bidding agent too |
| baseline and fallback scorers | none / weights | `Score` | called by `Process` |
| batch scorer, `gpr/serve/cpu_scorer.py` | none between cycles | fetch active ads, score, HSET + EXPIRE, every 30 s | MySQL, Redis |
| sample cleaner, `data/flink/sample_cleaner.py` | pending joins, line buffer, Kafka offsets | join, expire, flush, shut down | Kafka, `training_samples.tsv` |
| training trigger, `data/flink/training_trigger.py` | the samples file and its archives | count, rename, train | the file, `pretrain.py` |
| vector updater, `data/flink/vector_updater.py` | last timestamp in a state file | poll, embed, upsert, save | MySQL, Qdrant |
| bidding agent, `agents/bidding_agent.py`, `mab.py` | bandit arms in memory; bids and budgets in Redis | hourly optimisation | ClickHouse, Redis, LLM |
| creative agent, `agents/creative_agent.py`, `compliance.py` | none between runs | generate, check, insert, upsert | LLM, MySQL, Qdrant |
| seeding, `deploy/schema/seed_ads.py` | none | delete, create and fill the collection | Qdrant |
| A/B report, `data/ab_report.py` | none | metrics, lift, verdict | ClickHouse |
| model, embedding, training, SSP simulator, deployment | | | |

What is hard in it: requests run concurrently and share an experiment list
that is swapped, a cache that another process rewrites while keys expire, and
a channel that fills up; the process may exit with all of that in flight; every
dependency may be missing from start-up on; answers of a language model are
trusted as long as they parse; and the offline processes pass work to each
other through files, offsets and keys without transactions. `PROJECT.json`
lists these hazards line by line, with the properties that watch them.

## Modules

**`Auction`** — `auction.go` as pure operators. `sort.Slice` is not stable, so
an auction has a *set* of outcomes. Bids are ranked among those that have a
score and reach the floor; the settlement is the runner-up's *bid price* even
when the rank is by eCPM.

**`ABManager`** — the table `experiments`, edited at any time; the list that
routes requests; and the rows a refresh holds between its query and the swap
under the lock. The list is ordered by id and ids are unique, so it is a
partial function from ids to ratios. Ratios are hundredths, as in the
`DECIMAL(3,2)` column, and `Threshold` does what the float64 product does to
them. Salts are fixed: `Bucket[e][id]` is any function to 0..99.

**`BidPipeline`** — the bidding path: `handleBid`, `Process` and the clients it
calls, with `ABManager` and `Auction` instantiated inside. Each request is a
goroutine with a `pc`; a step ends where another goroutine or process can come
between (the vector search, the read lock of the A/B manager, each HGETALL of
the cache, the call of the model, the write of the response). The environment
is the A/B refresh, the operators, the process that writes the cache, Redis'
expiry, sarama and the broker behind the channel, and the server's start and
stop. `scorer` is a history variable: the branch that produced the scores.

Delivery is what `producer.go:31-39` configures: local acknowledgements, three
retries, no idempotence. Sarama takes events off the channel (`Take`) and holds
up to `FlightCap` of them in `flight`; one attempt (`Produce`) stores an event
or not and, either way, ends in an acknowledgement, a final error, or in
nothing, after which the event is sent again, up to `Retries` times. So the
topic may hold an impression more than once, and in another order than they
were sent; the cleaner then sees the repeated impression that its own runs
have. A `Stop` drops the channel, and an event on the wire has only the attempt
under way left. `topic` is kept per request: what consumers see between two
requests' events is any order.

Money is counted so that an eCPM and the price it sets, `ECPM/1000`, are the
same number, and `Floor` is the constant 0.10. With a unit of 0.02 that is
`Floor = 5`, which the fallback's score of 5 just reaches (`scoring`). `publish`
and `routing` take a sixth of 0.10 as the unit, so that `Floor = 6` and the
fallback's 5 makes no sale: requests with and without an impression meet.

**`Exchange`** — what that path promises, seen from outside: a request is
refused, or served and decided once; what it was sold for, if anything, carries
its id, reaches the floor and never changes; the impression of a sale is handed
over once at most, as sold, and arrives up to `Copies` times, in any order, or
never. There is no recall, variant, scorer or auction in it. `BidPipeline`
implements it (`ExchangeContract`): everything between accepting and deciding
is one stage, a sale is the event built from the result's winner, as a set of
one or none, and `Copies` is `Retries + 1`: what is left of them is known from
where the event is and how often it was sent again.

The cache it reads is **`ScoreStore`**, what a reader may rely on: keys appear,
change and vanish one at a time and hold a score or nothing.

**`ScoreCache`** — the batch scorer and the cache it keeps. A cycle is a
sequence of steps at which it can be overtaken or fail: connect, fetch, score,
then HSET and EXPIRE of one ad after the other, since the pipeline is not a
transaction. Operators pause and resume ads at any time. Redis' lives and the
scorer's sleep are counted in ticks of 30 s (`TTL = 4`, `Interval = 1` are the
defaults). A cycle takes at most `MaxCycle` ticks and the loop does not
oversleep (`MayPass`); these are assumptions about the machine, not the code.
Commands that a crashed client had already sent look like a crash a little
later, so they need no step of their own. `torn` and `steady` are history.
Checked and proved to implement `ScoreStore`.

**`SampleCleaner`** — the join of three topics by bid id. `pos` is the
consumer's position, `committed` the group's offset, which kafka-python commits
on its own while samples sit in memory. The nested loops of the code (expired
samples, pending samples at shutdown, one conversion) share `leaving` and
`mode`; a flush within them opens, writes and closes the file in separate
steps, because another process may rename it in between. Files are numbered
and `path` is the one under the data file's name. A signal, an exception, the
one-second idle timeout and a kill each end the process their own way. The
lines of one flush appear at once, at the close: a hundred of them fit the
file object's buffer.

**`TrainingTrigger`** — count, rename, train, sleep; a training reads its
archive once, at its start. What decides between its end and an exception is
the length of its batches (`Trainable`): the ranking loss subtracts the halves
of a batch from each other, which raises for odd batches above three
(`RankLossRuns`). The arithmetic itself is left out, and any other failure is
`TrainBreaks`.

**`DataLoop`** — the data-loop container: cleaner in the background, trigger in
the foreground, over one file. When the trigger ends, the container ends and
takes the cleaner with it; when the cleaner ends nothing happens.

**`Catalog`** — how a creative's text gets from MySQL to the vectors that the
bid path recalls. Four writers that know nothing of each other: the updater
(query, upsert, take the time, empty the state file, write it), the creative
agent (compliance, insert, upsert), `seed_ads.py` (delete, create, upsert) and
operators who edit rows. A text is the number of times its row was written; the
clock counts the whole seconds of `updated_at` and of the state file. A PUT
that failed was not carried out, was, or is still on its way (`GivenUp`), and
then arrives whenever it does, maybe behind a newer text (`LatePut`). `exposed`
is a history variable, the rows whose last write met one of the races that
`EditsAreNotLost` names; `inserted` and `unsure` count a run's rows, those of
an unanswered commit apart.

The collection it keeps is, abstractly, **`CreativeIndex`**: a point stands for
a text the table has committed, or for one of the seed file. `Catalog`
implements it with `latest <- table`.

**`RedisFilter`** — one action per Redis command of `filter.go`, for any number
of callers. A budget is a text, absent, a whole number or a decimal: `CheckBudget`
and DECRBY tell them apart. `CheckFrequency` is INCR and, for the caller that
sees that it made the counter 1, EXPIRE; between the two the caller may be
overtaken or end. The client waits 50 ms for an answer (`filter.go:20`): a
command without one is sent again by go-redis, up to `Retries` times, or
given up, and the first one is executed at once, later or never (`late`). A
call given up at INCR returns false and sends no EXPIRE; a retry of an executed
one sees 2. `stuck` is history: the counters that were made without anybody
seeing it, or whose EXPIRE was given up. The window is counted in ticks. The
counting stops at `Limit + 2`, which no guard tells from more.

**`BiddingAgent`** — the hourly run of the bidding agent beside those callers:
per campaign read the budget, ask the LLM for an explanation, write the
multiplier, write the budget, with everything else in between. Each run is a
new process (`docker-compose` starts it every hour), so `MAB`'s statistics are
empty when an arm is chosen and any arm may come out. `_query_clickhouse` may
yield no campaign: no format is asked for, and ClickHouse's default has no
column names.

**`ABReport`**, **`MAB`** — the A/B report's lifts and verdict, with fractions
where Python has floats, and the bandit's running mean and greedy scan, as
operators. They share `MCAlgorithms` with `Auction`: all three are functions of
their input, and a behaviour computes one of them.

`MC*` modules give the constants of the small instances, `*_proofs` modules
hold the theorems. Definitions called `Mutant...` are plausible bugs of the
definition that follows them; nothing refers to them. Substituting one for its
original makes TLC find the property that `PROJECT.json` pairs it with
violated, which is how we know that the property can fail.

## Runs

| run | question | bounds |
|---|---|---|
| `algorithms` | is `Run` a second-price auction and truthful; is `RunWithECPM` the same auction when scores and prices agree; does the report's verdict follow the rates; does the bandit exploit the arm with the best average | 3 bids, prices 0..3 around a floor of 1, scores 0..1 or missing; reports on up to 2 of the 3 groups of rows with counts 0..2; 3 arms, up to 4 plays each, 3 rewards |
| `ab_manager` | what may an edit or a refresh do to the routing; does the list catch up | 2 experiments, 2 edits, ratios 0, .29, .30, 1 and NULL, buckets on both sides of each |
| `publish` | are requests answered whatever the broker does; are impressions drained, published for sales only and stored no more often than sent | 3 requests with one id, 1 ad, a channel of 1: one event queued, one in flight, a goroutine waiting; one retry |
| `routing` | do labels and scorers agree while experiments and cache change; does anything come back after a restart; is the whole path, seen from outside, `Exchange` | 2 requests with ids in different buckets, one without impressions, 1 edit, 2 starts, one event in flight, one retry |
| `scoring` | what does the auction make of the scores | 1 valid and 1 malformed request, 2 ads, 3 recalls or none, 5 shapes of model answers, 4 start-ups |
| `score_cache` | how long can a stale score be served; does the TTL bridge the cycles; do readers get what they rely on; does the cache recover from any failure | 2 ads, 2 scores, TTL of 4 ticks, interval 1, a pass of up to 1; any number of cycles, faults and edits |
| `sample_cleaner` | what may be lost, duplicated or mislabelled | 3 contents of the topics with up to 5 messages (a repeated impression, a conversion without a click, an impression without a number, a message without an id), a buffer of 2, 1 fault |
| `data_loop` | does the hand-over by file keep samples apart and moving | 3 impressions of 2 bids, a buffer of 1, threshold 2, at most 3 lines read by a training, 1 fault |
| `consumed_samples` | does a training end on whatever samples there are (violated, see below) | one archive of 5 samples, batches of up to 16, no faults |
| `catalog` | which edits can the index miss; does it catch up; is it ever ahead of the table; does the agent keep its quota | 2 creatives, 1 of them seeded, 2 edits each, a clock of 2 seconds, one agent run of one creative out of 2 candidates, one seeding, one fault, which may be a late PUT |
| `bidding` | are the caps kept with concurrent callers; what ends a counter; can the agent revive a spent campaign | 1 campaign, budgets -2..2, 2 callers of one counter, a limit of 2, a window of 2 ticks, one retry per call, one INCR and one EXPIRE late at a time |

The bounds are the smallest at which the cases meet: two goroutines waiting on
a full channel, a refresh between an edit and a request, two ads so that order
matters, a second start, an edit in the second of the saved time, a second
caller between INCR and EXPIRE, an executed command that is sent again. One
retry stands for three: what a first repetition cannot break, a second one
meets in the same state. Campaigns share nothing but the agent, which takes
them one after the other. No action compares ads or requests by anything but
the constants above, so further ones repeat these cases.

Properties of note:

- `Answered` and `ImpressionsDrain` are the two halves of the producer's
  promise not to block the hot path: the first holds without any fairness of
  the broker, the second assumes the broker keeps taking events.
- `ImpressionsAccounted` follows each request's event through channel, flight
  and topic, because two requests may carry the same id and then publish equal
  events. It says that whatever is there is what was sold, that the event is in
  one place and that it is stored no more often than it was sent. It does not
  say once: after a lost acknowledgement the code sends a stored event again.
- `ExchangeContract` is the bidding path without its inside. It fails when a
  result changes after it was decided, when an impression says something else
  than the result, or when it is handed to sarama twice, early, or after a
  restart, or arrives more often than sarama sends it.
- `AlignedScorersSettleSecondPrice` is the auction's promise end to end, for
  the three scorers that answer in the order they were asked. It fails for the
  model itself; see below.
- `PausedAdsLeave` and `SteadyAdsAreCached` are the two sides of the TTL: long
  enough to bridge an interval and two passes, so that an ad is never missing
  between writes, and the bound on how long a paused ad is still sold. The
  first excepts keys left without EXPIRE.
- `Converges` starts from any mess of earlier failures: half-written keys, no
  Redis at start-up, a dead process.
- `OnlyKillsLoseSamples` counts samples, open, buffered and written: on every
  way out but a kill, what was joined reaches a file, one line each. The one
  exception is in the code: an impression whose bid id still has an open sample
  takes its place, labels and all (`sample_cleaner.py:121`).
  `AtMostOneLinePerJoin` says no sample is written twice; it counts lines
  against joins, because an impression that is read again after a kill is
  joined again and may make a second line, which nothing prevents.
- `TrainingWaitsForThreshold`, `TrainedAtMostOnce` and `AtMostOneLateFlush`
  hold of two processes that share a file and no lock. `TrainedAtMostOnce` is
  about archives: an impression read again may have its lines in two of them.
  The last says how bad it can get that a cleaner writes to a file renamed
  under its hands.
- `EditsAreNotLost` says exactly which races lose an edit: a row written
  between the updater's query and the time it saves, or within the second of
  that time; a row edited while its agent's vector was on the way; a PUT that
  was given up and overtakes a newer text after all; a collection made anew.
  Other failed or half-done upserts, crashes and a torn state file lose
  nothing. `TextsReachTheIndex` is the same over time.
- `IndexContract` is the refinement the bid path relies on: nothing uncommitted
  is ever recalled. A point may be older than its row, and outlives it.
- `CapHolds` needs INCR to be one command and each caller to judge the number
  it made; `CountersHaveWindows` and `WindowsEnd` say that a cap lasts for ever
  in two cases only: its EXPIRE was given up, or its counter was made by an
  INCR whose answer nobody got, so that the next caller sees 2.
- `RefusedStaysRefused`: the agent writes a budget it read before others spent
  it, and still revives no spent campaign, because what it writes is a decimal
  that the exchange cannot read. One wrong thing hides another; the mutant is
  the obvious repair of the format.
- `VerdictFollowsRates` compares the report with rates of unequal traffic, and
  with the rows that stand in for a missing control.
- `ListCatchesUp` says a refresh that overtook an edit is corrected by a later
  one; `LaterExperimentsDoNotDisturb` and `RampUpKeepsTreatment` say which
  requests an operator's change may move.

### Where the documents and the code disagree

Two runs check what a comment or document says and are violated;
`PROJECT.json` "findings" quotes the lines:

- `DocumentedFirstMatch`: the first running experiment claims every request,
  captured or not.
- `ConsumedSamplesAreTrainedOn`: an archive whose lines leave an odd last batch
  of five or more makes the ranking loss raise (`gpr_model.py:234`). The
  training's exit code is dropped, and its samples stay in an archive that
  nothing reads again.

Others were met while modelling and are part of the models, without a run of
their own.

In the bidding path:

- `int(TrafficRatio * 100)` truncates the float64 product, so a ratio of 0.29,
  0.57 or 0.58 treats one bucket fewer than `manager.go:123` says
  (`Threshold`).
- Routing hashes the request id, so one user's requests get different
  variants; `demo_flow.md:712` promises the same one.
- Scores set prices by position and ranks by ad name. A short or reordered
  answer of the model can settle above the winner's bid; only
  `AlignedScorersSettleSecondPrice` holds.
- The settlement price is computed and never used: the response and the
  impression carry the winner's own price (`pipeline.go:270`), where
  `draft/product-idea.md:195` has it settle at the second price.
- The floor is the constant 0.10; `Imp.BidFloor` is never read.
- The filter's budget and frequency checks have no caller: `main.go:238` passes
  the requests through `Apply`, which keeps every candidate.

- After a lost acknowledgement the topic holds an impression twice
  (`WaitForLocal`, `Retry.Max = 3`, no idempotence, `producer.go:36-39`), and
  no consumer here removes it: the cleaner joins it again, or replaces the open
  sample by it.

In the budgets and counters:

- `CheckFrequency` returns before EXPIRE when INCR has no answer
  (`filter.go:58-61`), and only the caller that sees 1 sends it: a counter that
  Redis made all the same, or that a retry took to 2, has no window, and its
  user is capped until somebody deletes the key.
- The agent writes `str(float)`. `CheckBudget` cannot read "90.0", and
  DECRBY refuses it, so a campaign the agent has touched is refused until an
  operator sets it anew. A campaign without a budget, which `CheckBudget` takes
  for unlimited, becomes "0.0".
- The agent asks ClickHouse for "JSONEachRow" in a comment only
  (`bidding_agent.py:72`) and parses the default format as if its first line
  named the columns.
- An arm is rewarded with the ROAS that earlier multipliers earned, and the
  statistics end with the process, every hour.
- The environment sets `REDIS_ADDR`, the agent reads `REDIS_HOST`.

In the catalogue:

- `get_new_max_timestamp` calls the time after the upsert "a safe upper bound"
  (`vector_updater.py:136-142`); rows written in between are passed over.
- The query selects by `updated_at`, a column that `init.sql` does not give
  `creatives`, and no compose service runs the updater: the model is of a
  deployment that has both.
- Paused and deleted creatives keep their points; the query ignores the status.
- A seeding replaces the points of rows that were updated since, and the
  updater's state file says they are there.
- The LLM's compliance review passes whatever it cannot answer about.

In the offline loop:

- A pipeline cut off between HSET and EXPIRE leaves a score without TTL,
  which stays when the ad is paused (the exception in `PausedAdsLeave`).
- A cleaner that opened the file before the rename writes its buffer into the
  archive, maybe during the training (`training_trigger.py:104-105` promises a
  fresh file).
- After one second without a message the cleaner ends
  (`sample_cleaner.py:68`), and nothing starts it again while the trigger
  lives.
- The fallback tokenizer's answer cannot be indexed, so without a downloaded
  tokenizer every training raises (`TrainBreaks`).

In the A/B report: a control without events counts as no lift, a treatment
that wins clicks and loses money shows "moderate improvement", and one that
loses everywhere "no significant difference".

### Fairness

`Handle` and `Publish` are weakly fair per request: goroutines are scheduled,
and every call they make ends, the vector search within 30 ms, the model within
80 ms, Redis within the client's own timeouts. `Publish` needs room in the
channel to be enabled. Nothing is assumed of the broker, the operators, the
cache writer, or that the server is ever started. `ABManager` assumes the
ticker ticks and that MySQL does not refuse every query from some point on;
`ScoreCache` assumes that time passes, that Redis removes expired keys, and
that a running scorer goes on and a dead one is restarted (the container's
restart policy); that no cycle fails is assumed by `Converges` itself, from
some point on. `DataLoop` assumes that both processes are scheduled, that a
training ends, and that Docker restarts the container; not that the cleaner
goes idle, ages samples or commits. `Catalog` assumes that a dead updater is
restarted, a live one polls, and a started agent or seeding goes on; not that
an unreadable state file is removed, that the clock moves or that a seeding is
repeated, which is why `TextsReachTheIndex` excepts them. `BiddingAgent`
assumes that time passes, that Redis removes expired counters, and that a
caller which owes an EXPIRE sends it, repeats it, gives it up or ends; nothing
of the agent or of commands on their way.
`ListCatchesUp` asks for nothing while a
NULL ratio makes the table unloadable.

## Proofs

`ABManager_proofs`: `TypeCorrect`, from the lemma that a loadable table has a
snapshot with ratios only; `RampUpIsSafe` from `ThresholdIsMonotone`
(truncation keeps the order) and `ClaimantIsAssigned` (the experiment a list
is claimed by is the one `Assign` chooses); `LaterExperimentsAreHarmless` from
the latter. They hold for every set of ids, ratio, bucket function and number
of edits, under `ABAssumption`.

`Algorithms_proofs` has the three sets of operators that keep no state; its
invariant `AllInv` says that the values a behaviour compares are what the
operators make of the inputs it chose.
For the auction it first takes the sort out: by `Awarded`, an outcome is either
an empty auction without bids, or a winner of the highest rank and, for a
price, the reserve when the winner is alone and otherwise the price of a
runner-up of the highest rank among the rest. `RunSecondPrice` and
`AlignedRunIsRun` follow by comparing ranks with prices; `Truthful` by the
cases who wins with the true value and who with the deviation. For the report,
`VerdictIsTheRates` multiplies the fractions out: a lift is positive when the
treatment's rate is the higher one, whatever the traffic of the two groups and
also for the row that stands in for a missing one. For the bandit,
`GreedyIsGreedy`: the running mean times the plays is the sum of the rewards,
and the scan, a recursive function over the arms, keeps at every prefix
the first of the best so far. Assumptions:
`MCAssumption`, that is a finite set of bids, `NoBid` not among them, and
natural prices and scores; `AlgorithmsAssumption`, rewards that the mean
divides without remainder (there are no floats here; scaling the unit gives
this for any finite set of rewards and plays); `MABAssumption`, distinct arms.

`BidPipeline_proofs`: one inductive invariant, `Inv`, gives `TypeCorrect`,
`SalesAreSound` and `LabelsAreTrue`. Neither property is inductive alone.
`WinnerIsSound` relates a result to candidates and scores, so it needs to know
that those no longer change once there is a result; `VariantDecidesScorer`
needs to know that a request in the cache or model branch was not routed to
control, and that a request scores once; the type of the channel needs sold
events to have an integer price. `Progress` supplies exactly that: what is
known of a request at each `pc`. The auction enters through `OutcomeIsSound`,
which holds for any floor and any scores. The proof has a lemma per step, split
by the half of the state it touches.

`EveryAuctionDecides` closes a gap those leave: an auction is any of a set of
outcomes, and a property of all outcomes would be empty if there were none.
There always is one (`OutcomeExists`), since a finite set of bids that is not
empty has a highest rank (`TopExists`, by a smallest counterexample), and the
bids of a request are finite: recall lists finitely many, and the scores that
reach an auction are numbers (`MapType`).

`ImplementsExchange` maps every step of the pipeline to one of `Exchange` or to
a stutter. Most steps of a request are stutters, and that is the work: `SalesStay`
says that a step which does not decide leaves every sale as it was, though it
rewrites the scores, candidates or assignment that another request's would be
made of; the decision itself needs `WinnerIsSound` for its price, and `Progress`
for the request having had no sale before. It is the safety half only: that
requests are answered is `Answered`, which TLC checks.

The impression's way is refined by `Left`, the attempts that remain of it: all
of them while it waits, one less for each retry, none when it is let go.
`LeftIs` takes the three cases apart, and needs that an event is in one place
only, which is the next invariant's.

Two more invariants rest on it. `InOrderInv`: scores of the baseline, the cache
and the fallback stay in the candidates' order; the eCPM map, which goes by
name, and the bid prices, which go by position, then agree (`MapsAgree`, which
needs that recall lists no ad twice), and the auction is one ranked by price
(`AlignedSalesAreSecondPrice`). `DeliveryInv`: for each request, what waits in
the channel, is in flight or was stored is the event its goroutine sent
(`Own`), it waits or is in flight at most once and never both (`Underway`), and
while it is in flight the broker has it no more often than it was sent again.
This is what makes `1 + Retries` inductive: an attempt that stores the event
either lets it go or counts a retry. `DeliveryInv` gives `EventsAreAccounted`.
It needs `Progress` again: a request whose impression was sent is sold and
changes nothing its event is made of.

Assumptions: `PipelineAssumption` and `RoutingAssumption`, that is the types of
the constants, a finite set of requests, and that the sentinels are none of the
values.

`ScoreCache_proofs`: the inductive invariant has three parts beside the types.
`Phase` says which of the cycle's variables are in use at each `pc` (an HSET
waits for its EXPIRE only while writing; between cycles nothing is left).
`Age` bounds, for every key with a TTL, the ticks an ad is paused plus the life
that is left, and for a batch being scored the ticks since it was fetched: an
ad in the batch was active when the cycle began. `Refreshed` bounds the life
left from below by the time to the next EXPIRE. They give `PausedAdsDoLeave`,
`SteadyAdsStayCached` and `TypeCorrect`; `ImplementsStore` shows that each step
changes one key, which needs the types of the scores. Assumption:
`ScoreCacheAssumption`, in which `TTL > Interval + MaxCycle` and
`TTL > 2 * MaxCycle` are what the configured 120 s and 30 s give.

`SampleCleaner_proofs`: `Inv` adds `Phase` to the types: a full buffer is on
its way to the file, a writer has a file, a process that leaves has all open
samples in its loop, and one that is gone has none. The bound on the buffer
needs the first, `SamplesSurviveStops` the others: at the close nothing is
pending and nothing buffered, and no step but a kill takes a sample out of the
count. `LabelsAreEarned` needs the same claim of open
samples and buffered lines (`Earned`) and that what was read stays read.
`LinesAreJoins` is an invariant over the places a sample can be in: open,
buffered, or in a file. Flushing a sample moves one from the first to the
second, a write moves all of the second to the third (an injection again, into
what was written and the buffer), and only a join adds one. All for any topics,
bids and `Batch`, under `CleanerAssumption`.

`DataLoop_proofs` goes on from there. What the cleaner keeps alone it keeps
beside the trigger: a rename moves lines to another name, a restart begins with
what is in the files, and `EarnedLoop` and `CountLoop` carry the cleaner's
invariants over these steps (`LoopLabelsAreEarned`, `LoopLinesAreJoins`).
`LoopLosesOnlyAtEnd` is what becomes of `SamplesSurviveStops`: in the container
the samples of a bid, open, buffered and written, are as many as before a step
or as many more as were joined, but for a fault, the replacement of an open
sample, and the trigger's leaving, which takes the cleaner with it; without
that last exception TLC finds it violated. For the hand-over, `LoopInv` adds to
the cleaner's invariant what ties the two processes to one file. `Renamed` says
of every archive that it is not the data file any more, holds the lines it was
renamed with and at most one buffer more, and none more as long as a cleaner
has it open: that is why the write that is still to come is the only one.
`Place` says what the trigger knows where it stands: the lines it counted are
still there at the rename and at the training (the cleaner's steps only add
lines, `CleanerGrows`), and the archive it is about to train on is in no
earlier training, because those files are not the data file either. From it
`TrainedOnce`, `WaitsForThreshold` and `LateFlushIsOne`, under
`CleanerAssumption` and `DataLoopAssumption` (a positive threshold, sample
limit and batch size).

`Catalog_proofs`: `NoEditIsLost` needs more than `EditsAreNotLost`. `Placed`
says, for each place of the updater, where the text of a creative that met no
race is: in the index, in the rows about to be upserted, or in the table with a
time later than the one that is saved or about to be. `Carried` keeps the rows
of a pass, the PUTs still on their way and the index no newer than the table,
`OnItsWay` says that a vector the agent holds is of a first text or counted
among the races. `TheQuotaIsKept` comes from `Quota`: the rows inserted are the
results, the unanswered commits and the vector held. `ImplementsIndex` maps
every step to a commit, a put, a recreation, a sowing or a stutter; the put
needs that what is on its way was committed. Assumption: `CatalogAssumption`.

`BiddingAgent_proofs`: `TheCapHolds` from `granted` being no more than the count
and the limit, `WindowsAreSet` from an invariant that adds that a call owes one
counter at most, `NothingRevives` from the types, for any number
of callers, campaigns and keys, any limit and window, under
`BiddingAssumption`.

Only model-checked are the liveness properties (`ListCatchesUp`, `Answered`,
`ImpressionsDrain`, `Converges`, `FullFileIsArchived`, `TextsReachTheIndex`,
`WindowsEnd`), which are out of the prover's reach, and the two findings. Every
other property of a passing run is stated by a theorem.

## Not modelled

- The arithmetic of the scorers, the GPR model and the embeddings, the vector
  index's ranking, HTTP, JSON, tracing, metrics, logging and the report's
  layout. The numbers they produce are any of a small set.
- The fallback logistic regression, which has no state: one of the scorers
  whose scores are arbitrary.
- `IsBlacklisted` and `Apply` of the filter, which always answer the same.
- The GPR HTTP server and the SSP simulator: stateless, one a wrapper of the
  batch scorer's model, the other a client for demonstrations.
- The error path of `publish` after `json.Marshal` (`producer.go:99-103`): the
  encoder refuses no event but one with a number that is not finite, and
  `ECPM` has none.
- Dry runs and `--once` of the Python programs, which take a subset of the
  modelled steps.
- A disk that refuses a write, and several cleaners in one consumer group.
- Deployment is in the models as what is restarted and what ends with what.

## Plan

Done: `Auction`, `ABManager`, `BidPipeline` with `Exchange`, `ScoreStore`,
`ScoreCache`, `SampleCleaner`, `DataLoop` with `TrainingTrigger`, `Catalog`
with `CreativeIndex`, `BiddingAgent` with `RedisFilter`, `ABReport` and `MAB`.

Nothing of the plan is left. What remains unmodelled is listed above with its
reason.
