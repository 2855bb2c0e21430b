----------------------------- MODULE ScoreCache ------------------------------
(***************************************************************************)
(* The batch scorer of gpr/serve/cpu_scorer.py and the score cache it      *)
(* keeps in Redis.  Each cycle reads the active ads from MySQL, scores     *)
(* them in one pass that may take long, and writes the scores through a    *)
(* pipeline that is not a transaction: HSET and EXPIRE of one ad after     *)
(* the other, any of them possibly the last that arrives.                  *)
(*                                                                         *)
(* Time passes in ticks.  The pass itself, the sleep between cycles and    *)
(* the lives of the keys are measured in them.                             *)
(***************************************************************************)
EXTENDS Integers, FiniteSets

CONSTANTS
    Ad,             \* ads in MySQL
    ECPM,           \* scores
    Absent,         \* no hash under the key
    NoAd,           \* no HSET is waiting for its EXPIRE
    TTL,            \* redis_ttl
    Interval,       \* score_interval
    MaxCycle        \* bound on what a cycle takes, in ticks

ASSUME ScoreCacheAssumption ==
    /\ Absent \notin ECPM
    /\ NoAd \notin Ad
    /\ TTL \in Nat
    /\ Interval \in Nat \ {0}
    /\ MaxCycle \in Nat
    /\ TTL > Interval + MaxCycle
    /\ TTL > 2 * MaxCycle

VARIABLES
    active,         \* ads with status 'active'
    offline,        \* ticks since each ad was last active, up to Horizon
    scoreCache,     \* Redis: the score under each key
    ttl,            \* Redis: the life left of each key, or NoExpiry
    pc,             \* where the scorer is
    running,        \* _RUNNING
    redis,          \* redis_client is set
    elapsed,        \* ticks since cycle_start
    batch,          \* the ads _fetch_active_ads returned
    scores,         \* what _score_batch returned
    todo,           \* ads whose HSET is still in the pipeline
    half,           \* the ad whose HSET was executed and EXPIRE was not
    done,           \* history: ads written in this cycle
    steady,         \* history: active ads the last cycle wrote, while the scorer runs
    torn            \* history: ads left without EXPIRE by a broken pipeline

mysql == <<active, offline>>
keys == <<scoreCache, ttl>>
process == <<pc, running, redis, elapsed>>
cycle == <<batch, scores, todo, half, done>>
vars == <<mysql, keys, process, cycle, steady, torn>>

NoExpiry == -1
Horizon == TTL + MaxCycle + 1
Busy == {"fetch", "score", "write"}
PartialScores == UNION {[S -> ECPM] : S \in SUBSET Ad}

TypeOK ==
    /\ active \subseteq Ad
    /\ offline \in [Ad -> 0..Horizon]
    /\ scoreCache \in [Ad -> ECPM \cup {Absent}]
    /\ ttl \in [Ad -> 0..TTL \cup {NoExpiry}]
    /\ pc \in Busy \cup {"down", "head", "sleep"}
    /\ running \in BOOLEAN
    /\ redis \in BOOLEAN
    /\ elapsed \in Nat
    /\ batch \subseteq Ad
    /\ scores \in PartialScores
    /\ todo \subseteq DOMAIN scores
    /\ half \in Ad \cup {NoAd}
    /\ half # NoAd => half \in DOMAIN scores
    /\ done \subseteq Ad
    /\ steady \subseteq active
    /\ torn \subseteq Ad

Cached(a) == scoreCache[a] # Absent

Nothing == [a \in {} |-> 0]

------------------------------------------------------------------------------
(* The cycle is over, however it ended: sleep for what is left of the interval
   unless the process was asked to stop meanwhile.  The local variables of
   run_once are gone. *)
EndCycle ==
    /\ pc' = IF running /\ elapsed < Interval THEN "sleep" ELSE "head"
    /\ batch' = {}
    /\ scores' = Nothing
    /\ todo' = {}
    /\ half' = NoAd
    /\ done' = {}
    /\ steady' = done \cap active

(* Commands the pipeline did not get to are dropped.  A key that only got its
   HSET keeps the life it had, and a new one has none. *)
Tear == torn' = IF half # NoAd /\ ttl[half] = NoExpiry THEN torn \cup {half} ELSE torn

Start ==
    /\ pc = "down"
    /\ pc' = "head"
    /\ running' = TRUE
    /\ redis' = FALSE
    /\ elapsed' = 0
    /\ UNCHANGED <<mysql, keys, cycle, steady, torn>>

BeginWith(connected) ==
    /\ pc = "head"
    /\ running
    /\ pc' = "fetch"
    /\ redis' = (redis \/ connected)
    /\ elapsed' = 0
    /\ UNCHANGED <<mysql, keys, running, cycle, steady, torn>>

Begin == BeginWith(TRUE)

BeginOffline == ~redis /\ BeginWith(FALSE)

\* Mutant: the query has lost its WHERE status = 'active'.
MutantFetch ==
    /\ pc = "fetch"
    /\ batch' = Ad
    /\ pc' = "score"
    /\ UNCHANGED <<mysql, keys, running, redis, elapsed, scores, todo, half, done, steady, torn>>

Fetch ==
    /\ pc = "fetch"
    /\ active # {}
    /\ batch' = active
    /\ pc' = "score"
    /\ UNCHANGED <<mysql, keys, running, redis, elapsed, scores, todo, half, done, steady, torn>>

FetchNothing ==
    /\ pc = "fetch"
    /\ active = {}
    /\ EndCycle
    /\ UNCHANGED <<mysql, keys, running, redis, elapsed, torn>>

FetchFails ==
    /\ pc = "fetch"
    /\ EndCycle
    /\ UNCHANGED <<mysql, keys, running, redis, elapsed, torn>>

(* _score_batch skips an ad whose result cannot be read. *)
ScoreThose(S) ==
    /\ pc = "score"
    /\ redis
    /\ scores' \in [S -> ECPM]
    /\ todo' = S
    /\ pc' = "write"
    /\ UNCHANGED <<mysql, keys, running, redis, elapsed, batch, half, done, steady, torn>>

ScoreAll == ScoreThose(batch)

ScoreSome == \E S \in SUBSET batch : S \notin {{}, batch} /\ ScoreThose(S)

(* _write_scores has no client to write with. *)
SkipWrite ==
    /\ pc = "score"
    /\ ~redis
    /\ EndCycle
    /\ UNCHANGED <<mysql, keys, running, redis, elapsed, torn>>

(* An exception in the model, or not one result that can be read. *)
ScoringFails ==
    /\ pc = "score"
    /\ EndCycle
    /\ UNCHANGED <<mysql, keys, running, redis, elapsed, torn>>

\* Mutant: all the hashes are written in one MULTI.
MutantHset(a) ==
    /\ pc = "write"
    /\ half = NoAd
    /\ a \in todo
    /\ scoreCache' = [b \in Ad |-> IF b \in todo THEN scores[b] ELSE scoreCache[b]]
    /\ todo' = todo \ {a}
    /\ half' = a
    /\ UNCHANGED <<mysql, ttl, process, batch, scores, done, steady, torn>>

\* Mutant: an ad that is in the cache is not written again.
MutantSkipCached(a) ==
    /\ pc = "write"
    /\ half = NoAd
    /\ a \in todo
    /\ todo' = todo \ {a}
    /\ IF Cached(a)
       THEN UNCHANGED <<keys, half>>
       ELSE /\ scoreCache' = [scoreCache EXCEPT ![a] = scores[a]]
            /\ ttl' = [ttl EXCEPT ![a] = NoExpiry]
            /\ half' = a
    /\ UNCHANGED <<mysql, process, batch, scores, done, steady, torn>>

(* HSET creates the key without a TTL, or keeps the TTL it has. *)
Hset(a) ==
    /\ pc = "write"
    /\ half = NoAd
    /\ a \in todo
    /\ scoreCache' = [scoreCache EXCEPT ![a] = scores[a]]
    /\ ttl' = IF Cached(a) THEN ttl ELSE [ttl EXCEPT ![a] = NoExpiry]
    /\ todo' = todo \ {a}
    /\ half' = a
    /\ UNCHANGED <<mysql, process, batch, scores, done, steady, torn>>

\* Mutant: EXPIRE ... NX, which keeps the life a key still has.
MutantExpiryOnce ==
    /\ pc = "write"
    /\ half # NoAd
    /\ ttl' = IF Cached(half) /\ ttl[half] = NoExpiry THEN [ttl EXCEPT ![half] = TTL] ELSE ttl
    /\ done' = IF Cached(half) THEN done \cup {half} ELSE done
    /\ torn' = torn \ {half}
    /\ half' = NoAd
    /\ UNCHANGED <<mysql, scoreCache, process, batch, scores, todo, steady>>

\* Mutant: the life is given in another unit than EXPIRE takes.
MutantExpiryUnit ==
    /\ pc = "write"
    /\ half # NoAd
    /\ ttl' = [ttl EXCEPT ![half] = 30 * TTL]
    /\ done' = done \cup {half}
    /\ torn' = torn \ {half}
    /\ half' = NoAd
    /\ UNCHANGED <<mysql, scoreCache, process, batch, scores, todo, steady>>

(* A key that vanished since its HSET gets no TTL: EXPIRE does nothing. *)
SetExpiry ==
    /\ pc = "write"
    /\ half # NoAd
    /\ IF Cached(half)
       THEN ttl' = [ttl EXCEPT ![half] = TTL] /\ done' = done \cup {half}
       ELSE UNCHANGED <<ttl, done>>
    /\ torn' = torn \ {half}
    /\ half' = NoAd
    /\ UNCHANGED <<mysql, scoreCache, process, batch, scores, todo, steady>>

WriteDone ==
    /\ pc = "write"
    /\ todo = {}
    /\ half = NoAd
    /\ EndCycle
    /\ UNCHANGED <<mysql, keys, running, redis, elapsed, torn>>

(* A failure after the last command leaves the keys as WriteDone does. *)
WriteFails ==
    /\ pc = "write"
    /\ todo # {} \/ half # NoAd
    /\ Tear
    /\ EndCycle
    /\ UNCHANGED <<mysql, keys, running, redis, elapsed>>

Wake ==
    /\ pc = "sleep"
    /\ elapsed >= Interval
    /\ pc' = "head"
    /\ UNCHANGED <<mysql, keys, running, redis, elapsed, cycle, steady, torn>>

(* The loop tests _RUNNING only between cycles. *)
Exit ==
    /\ pc = "head"
    /\ ~running
    /\ pc' = "down"
    /\ steady' = {}
    /\ UNCHANGED <<mysql, keys, running, redis, elapsed, cycle, torn>>

(* SIGTERM; the sleep and the cycle it interrupts go on. *)
Signal ==
    /\ pc # "down"
    /\ running' = FALSE
    /\ UNCHANGED <<mysql, keys, pc, redis, elapsed, cycle, steady, torn>>

Crash ==
    /\ pc # "down"
    /\ Tear
    /\ pc' = "down"
    /\ elapsed' = 0
    /\ batch' = {}
    /\ scores' = Nothing
    /\ todo' = {}
    /\ half' = NoAd
    /\ done' = {}
    /\ steady' = {}
    /\ UNCHANGED <<mysql, keys, running, redis>>

------------------------------------------------------------------------------
(* Ads are paused and resumed in MySQL whatever the scorer is doing. *)
Pause(a) ==
    /\ active' = active \ {a}
    /\ steady' = steady \ {a}
    /\ UNCHANGED <<offline, keys, process, cycle, torn>>

Resume(a) ==
    /\ active' = active \cup {a}
    /\ offline' = [offline EXCEPT ![a] = 0]
    /\ UNCHANGED <<keys, process, cycle, steady, torn>>

(* Redis removes a key whose time is over. *)
Expire(a) ==
    /\ Cached(a)
    /\ ttl[a] = 0
    /\ scoreCache' = [scoreCache EXCEPT ![a] = Absent]
    /\ UNCHANGED <<mysql, ttl, process, cycle, steady, torn>>

(* A cycle ends within MaxCycle ticks, and the loop does not oversleep. *)
MayPass ==
    /\ pc \in Busy => elapsed < MaxCycle
    /\ pc = "sleep" => elapsed < Interval
    /\ pc # "head"
    /\ \A a \in Ad : Cached(a) => ttl[a] # 0

Tick ==
    /\ MayPass
    /\ elapsed' = IF pc = "down" THEN elapsed ELSE elapsed + 1
    /\ ttl' = [a \in Ad |-> IF Cached(a) /\ ttl[a] # NoExpiry THEN ttl[a] - 1 ELSE ttl[a]]
    /\ offline' = [a \in Ad |-> IF a \in active \/ offline[a] = Horizon
                                THEN offline[a] ELSE offline[a] + 1]
    /\ UNCHANGED <<active, scoreCache, pc, running, redis, cycle, steady, torn>>

------------------------------------------------------------------------------
Init ==
    /\ active \in SUBSET Ad
    /\ offline = [a \in Ad |-> 0]
    /\ scoreCache = [a \in Ad |-> Absent]
    /\ ttl = [a \in Ad |-> NoExpiry]
    /\ pc = "down"
    /\ running = TRUE
    /\ redis = FALSE
    /\ elapsed = 0
    /\ batch = {}
    /\ scores = Nothing
    /\ todo = {}
    /\ half = NoAd
    /\ done = {}
    /\ steady = {}
    /\ torn = {}

Proceed ==
    \/ Start \/ Begin \/ Fetch \/ FetchNothing \/ ScoreAll
    \/ SkipWrite \/ SetExpiry \/ WriteDone \/ Wake \/ Exit
    \/ \E a \in Ad : Hset(a)

Fault ==
    \/ BeginOffline \/ FetchFails \/ ScoreSome \/ ScoringFails \/ WriteFails
    \/ Signal \/ Crash

Edit == \E a \in Ad : Pause(a) \/ Resume(a)

Next == Proceed \/ Fault \/ Edit \/ Tick \/ \E a \in Ad : Expire(a)

Spec == Init /\ [][Next]_vars

(* Time passes, keys expire, the container is restarted and a running scorer
   goes on.  Nothing says that a cycle succeeds. *)
Fairness ==
    /\ WF_vars(Tick)
    /\ WF_vars(Proceed)
    /\ \A a \in Ad : WF_vars(Expire(a))

FairSpec == Spec /\ Fairness

------------------------------------------------------------------------------
(* An ad that was paused leaves the cache: the auction may be served its score
   for one life of the key and one cycle more, unless a broken pipeline left
   the key without a TTL.  run_once reads the ads before it scores them, and
   writes whatever became of them meanwhile. *)
PausedAdsLeave == \A a \in Ad : Cached(a) => a \in torn \/ offline[a] <= TTL + MaxCycle

(* An ad that stayed active and was written in every cycle so far is in the
   cache at every moment between the writes: the TTL bridges the sleep and two
   scoring passes. *)
SteadyAdsAreCached == \A a \in steady : Cached(a) /\ ttl[a] > 0

(* Whatever failed before, once nothing fails any more an ad that stays active
   is in the cache for good, and with a TTL. *)
Converges ==
    \A a \in Ad :
        <>[](a \in active) /\ <>[][~Fault]_vars => <>[](Cached(a) /\ ttl[a] # NoExpiry)

(* The readers' contract: keys change one at a time and hold a score or
   nothing. *)
Store == INSTANCE ScoreStore
StoreContract == Store!Spec
=============================================================================
