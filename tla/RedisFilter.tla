----------------------------- MODULE RedisFilter -----------------------------
(***************************************************************************)
(* The budgets and frequency counters that                                 *)
(* adx/internal/filter/filter.go keeps in Redis.  Callers may come at any  *)
(* time and in any number; every step here is one Redis command.  A command *)
(* that is not answered in time (ReadTimeout) is sent again by go-redis,   *)
(* and the first one may still be executed: at once, later, or never.      *)
(***************************************************************************)
EXTENDS Integers

CONSTANTS
    Campaign,
    Price,          \* what a deduction may take
    MaxAmount,      \* bound on budgets, above and below zero
    Key,            \* a user and a campaign
    Caller,         \* calls of CheckFrequency under way at a time
    Limit,          \* limit
    Window,         \* window
    Retries,        \* MaxRetries of go-redis: how often a command is sent again
    MaxLate         \* bound on the commands on their way that nobody waits for

FilterConstants ==
    /\ Price \subseteq Nat
    /\ MaxAmount \in Nat
    /\ Limit \in Nat
    /\ Window \in Nat \ {0}
    /\ Retries \in Nat
    /\ MaxLate \in Nat

VARIABLES
    budget,         \* the text under budget:{campaign}, if any
    count,          \* freq:{user}:{campaign}, 0 if there is no key
    ttl,            \* the life left of each counter, or NoExpiry
    asks,           \* the counter each call's INCR has had no answer from yet
    owes,           \* the counter each call has created and not yet given its window
    tries,          \* how often each call has sent its command again
    late,           \* INCRs and EXPIREs on their way that nobody waits for
    granted,        \* history: how many calls each counter's life has let through
    stuck           \* history: counters made unseen, or whose EXPIRE failed

counters == <<count, ttl>>
calls == <<asks, owes, tries>>
frequency == <<counters, calls, late, granted, stuck>>
filterVars == <<budget, frequency>>

NoExpiry == -1
None == [form |-> "none", amount |-> 0]
Amount == (-MaxAmount)..MaxAmount
Whole(n) == [form |-> "int", amount |-> n]
Decimal(n) == [form |-> "float", amount |-> n]

FilterTypeOK ==
    /\ budget \in [Campaign -> [form : {"none", "int", "float"}, amount : Amount]]
    /\ count \in [Key -> 0..(Limit + 2)]
    /\ ttl \in [Key -> 0..Window \cup {NoExpiry}]
    /\ asks \in [Caller -> SUBSET Key]
    /\ owes \in [Caller -> SUBSET Key]
    /\ tries \in [Caller -> 0..Retries]
    /\ late \in [{"INCR", "EXPIRE"} -> [Key -> 0..MaxLate]]
    /\ granted \in [Key -> 0..(Limit + 1)]
    /\ stuck \subseteq Key

------------------------------------------------------------------------------
(* A text that is not a whole number is an error, and the answer then false. *)
CheckBudget(text) ==
    \/ text.form = "none"
    \/ text.form = "int" /\ text.amount > 0

(* DECRBY takes a missing key for 0, and refuses a text that is not a whole
   number.  One that is sent again is a deduction more. *)
DeductBudget(c) ==
    /\ budget[c].form # "float"
    /\ \E p \in Price :
          /\ budget[c].amount - p \in Amount
          /\ budget' = [budget EXCEPT ![c] = Whole(budget[c].amount - p)]
    /\ UNCHANGED frequency

(* Operators give a campaign its budget. *)
SetBudget(c, n) ==
    /\ budget' = [budget EXCEPT ![c] = Whole(n)]
    /\ UNCHANGED frequency

(* Only whether a counter is 1 or above the limit matters, so counting stops at
   Limit + 2. *)
Count(k) == count' = [count EXCEPT ![k] = IF @ = Limit + 2 THEN @ ELSE @ + 1]

MayAsk(r, k) == owes[r] = {} /\ asks[r] \subseteq {k}

Answered(r) ==
    /\ asks' = [asks EXCEPT ![r] = {}]
    /\ tries' = [tries EXCEPT ![r] = 0]

\* Mutant: the limit is compared before the call is counted.
MutantIncr(r, k) ==
    /\ MayAsk(r, k)
    /\ Count(k)
    /\ Answered(r)
    /\ granted' = IF count[k] <= Limit THEN [granted EXCEPT ![k] = @ + 1] ELSE granted
    /\ owes' = IF count'[k] = 1 THEN [owes EXCEPT ![r] = {k}] ELSE owes
    /\ UNCHANGED <<budget, ttl, late, stuck>>

\* Mutant: every call starts the window anew.
MutantSliding(r, k) ==
    /\ MayAsk(r, k)
    /\ Count(k)
    /\ Answered(r)
    /\ granted' = IF count'[k] <= Limit THEN [granted EXCEPT ![k] = @ + 1] ELSE granted
    /\ owes' = [owes EXCEPT ![r] = {k}]
    /\ UNCHANGED <<budget, ttl, late, stuck>>

\* Mutant: only the call that meets the limit sets the window.
MutantLateWindow(r, k) ==
    /\ MayAsk(r, k)
    /\ Count(k)
    /\ Answered(r)
    /\ granted' = IF count'[k] <= Limit THEN [granted EXCEPT ![k] = @ + 1] ELSE granted
    /\ owes' = IF count'[k] = Limit THEN [owes EXCEPT ![r] = {k}] ELSE owes
    /\ UNCHANGED <<budget, ttl, late, stuck>>

(* CheckFrequency counts first: INCR returns what this call made of the
   counter, and the call that sees that it made it 1 owes it an EXPIRE. *)
Incr(r, k) ==
    /\ MayAsk(r, k)
    /\ Count(k)
    /\ Answered(r)
    /\ granted' = IF count'[k] <= Limit THEN [granted EXCEPT ![k] = @ + 1] ELSE granted
    /\ owes' = IF count'[k] = 1 THEN [owes EXCEPT ![r] = {k}] ELSE owes
    /\ UNCHANGED <<budget, ttl, late, stuck>>

(* The client stops waiting for a command that is on its way. *)
TimesOut(command, k) ==
    /\ late[command][k] < MaxLate
    /\ late' = [late EXCEPT ![command][k] = @ + 1]

SendAgain(r) ==
    /\ tries[r] < Retries
    /\ tries' = [tries EXCEPT ![r] = @ + 1]

(* INCR has no answer: it is sent again, or the call returns false. *)
IncrUnanswered(r, k) ==
    /\ MayAsk(r, k)
    /\ TimesOut("INCR", k)
    /\ \/ SendAgain(r) /\ asks' = [asks EXCEPT ![r] = {k}]
       \/ Answered(r)
    /\ UNCHANGED <<budget, counters, owes, granted, stuck>>

GivesWindow(k) ==
    /\ ttl' = IF count[k] = 0 THEN ttl ELSE [ttl EXCEPT ![k] = Window]
    /\ stuck' = stuck \ {k}

SetWindow(r, k) ==
    /\ k \in owes[r]
    /\ GivesWindow(k)
    /\ owes' = [owes EXCEPT ![r] = {}]
    /\ Answered(r)
    /\ UNCHANGED <<budget, count, late, granted>>

(* The result of EXPIRE is dropped, so that nobody sees it fail. *)
NoWindow(r, k) ==
    /\ stuck' = IF count[k] > 0 /\ ttl[k] = NoExpiry THEN stuck \cup {k} ELSE stuck
    /\ owes' = [owes EXCEPT ![r] = {}]
    /\ Answered(r)

(* EXPIRE has no answer: it is sent again, or not. *)
WindowUnanswered(r, k) ==
    /\ k \in owes[r]
    /\ TimesOut("EXPIRE", k)
    /\ \/ SendAgain(r) /\ UNCHANGED <<asks, owes, stuck>>
       \/ NoWindow(r, k)
    /\ UNCHANGED <<budget, counters, granted>>

(* EXPIRE is refused, or the server ends before it is sent. *)
WindowIsLost(r, k) ==
    /\ k \in owes[r]
    /\ NoWindow(r, k)
    /\ UNCHANGED <<budget, counters, late, granted>>

(* A command nobody waits for is executed after all, or lost.  An INCR that
   makes a counter makes it unseen. *)
Arrives(command, k) ==
    /\ late[command][k] > 0
    /\ late' = [late EXCEPT ![command][k] = @ - 1]

LateIncr(k) ==
    /\ Arrives("INCR", k)
    /\ Count(k)
    /\ stuck' = IF count[k] = 0 THEN stuck \cup {k} ELSE stuck
    /\ UNCHANGED <<budget, ttl, calls, granted>>

LateExpire(k) ==
    /\ Arrives("EXPIRE", k)
    /\ GivesWindow(k)
    /\ UNCHANGED <<budget, count, calls, granted>>

LateLost(k) ==
    /\ Arrives("INCR", k) \/ Arrives("EXPIRE", k)
    /\ UNCHANGED <<budget, counters, calls, granted, stuck>>

(* Redis removes a counter at the end of its window. *)
Expire(k) ==
    /\ ttl[k] = 0
    /\ count' = [count EXCEPT ![k] = 0]
    /\ ttl' = [ttl EXCEPT ![k] = NoExpiry]
    /\ granted' = [granted EXCEPT ![k] = 0]
    /\ UNCHANGED <<budget, calls, late, stuck>>

FilterTick ==
    /\ \E k \in Key : ttl[k] > 0
    /\ \A k \in Key : ttl[k] # 0
    /\ ttl' = [k \in Key |-> IF ttl[k] > 0 THEN ttl[k] - 1 ELSE ttl[k]]
    /\ UNCHANGED <<budget, count, calls, late, granted, stuck>>

FilterInit ==
    /\ budget \in [Campaign -> {None} \cup {Whole(n) : n \in 0..MaxAmount}]
    /\ count = [k \in Key |-> 0]
    /\ ttl = [k \in Key |-> NoExpiry]
    /\ asks = [r \in Caller |-> {}]
    /\ owes = [r \in Caller |-> {}]
    /\ tries = [r \in Caller |-> 0]
    /\ late = [command \in {"INCR", "EXPIRE"} |-> [k \in Key |-> 0]]
    /\ granted = [k \in Key |-> 0]
    /\ stuck = {}

Owed(r, k) == SetWindow(r, k) \/ WindowUnanswered(r, k) \/ WindowIsLost(r, k)

Filtering ==
    \/ \E c \in Campaign : DeductBudget(c) \/ \E n \in 0..MaxAmount : SetBudget(c, n)
    \/ \E r \in Caller, k \in Key : Incr(r, k) \/ IncrUnanswered(r, k) \/ Owed(r, k)
    \/ \E k \in Key : LateIncr(k) \/ LateExpire(k) \/ LateLost(k) \/ Expire(k)
    \/ FilterTick

(* Time passes, and a call that is to set a window tries to. *)
FilterFairness ==
    /\ WF_filterVars(FilterTick)
    /\ \A k \in Key : WF_filterVars(Expire(k))
    /\ \A r \in Caller : WF_filterVars(\E k \in Key : Owed(r, k))

------------------------------------------------------------------------------
(* A counter's life lets no more than Limit calls through, however many come
   at once and however often a command is counted twice: INCR is one command,
   and each call judges the number it made. *)
CapHolds == \A k \in Key : granted[k] <= Limit

(* The only counters without a window are those whose creator is about to set
   it, those made by an INCR whose answer nobody waited for, and those whose
   EXPIRE was given up. *)
CountersHaveWindows ==
    \A k \in Key : count[k] > 0 /\ ttl[k] = NoExpiry =>
        k \in stuck \/ \E r \in Caller : k \in owes[r]

(* A user who is capped is served again: a counter does not outlive its window,
   however hard it is hit and whatever arrives late, unless nobody saw it made
   or its EXPIRE was given up. *)
WindowsEnd == \A k \in Key : []<>(count[k] = 0 \/ k \in stuck)
=============================================================================
