------------------------------ MODULE Exchange -------------------------------
(***************************************************************************)
(* What the ADX server promises of its bidding path, with no word on how   *)
(* it gets there: a request is refused, or served and then decided once;   *)
(* what it was decided to be sold for never changes; and the impression of *)
(* a sale is handed over once at most, as sold, and arrives any number of  *)
(* times up to Copies, in any order, or never.  A crash may come at any    *)
(* moment.                                                                 *)
(*                                                                         *)
(* There is no recall, experiment, scorer, cache or auction here: see      *)
(* BidPipeline, which implements it.                                       *)
(***************************************************************************)
EXTENDS Integers, Sequences

CONSTANTS
    Request,        \* HTTP requests
    IdOf,           \* the OpenRTB id of each
    Impression,     \* what an impression event may say: records with bid and ecpm
    Floor,          \* what a sale reaches at least
    Copies          \* how often an impression that was sent may arrive

VARIABLES
    stage,          \* how far each request has come
    sale,           \* the impression each request was sold for, as a set of one, or of none
    due,            \* requests whose impression is still to be sent
    left,           \* how often each request's impression may still arrive
    arrived         \* what has arrived of each request

vars == <<stage, sale, due, left, arrived>>

Init ==
    /\ stage = [r \in Request |-> "new"]
    /\ sale = [r \in Request |-> {}]
    /\ due = {}
    /\ left = [r \in Request |-> 0]
    /\ arrived = [r \in Request |-> <<>>]

Goto(r, from, to) == stage[r] = from /\ stage' = [stage EXCEPT ![r] = to]

Refuse(r) ==
    /\ Goto(r, "new", "rejected")
    /\ UNCHANGED <<sale, due, left, arrived>>

Accept(r) ==
    /\ Goto(r, "new", "serving")
    /\ UNCHANGED <<sale, due, left, arrived>>

(* The handler fails, and nothing is sold.                                 *)
Fail(r) ==
    /\ Goto(r, "serving", "panicked")
    /\ UNCHANGED <<sale, due, left, arrived>>

(* There is a sale or there is none; the impression of a sale carries the  *)
(* request's id and a price that reaches the floor.  It becomes due where  *)
(* there is a producer.                                                    *)
Decide(r) ==
    /\ Goto(r, "serving", "respond")
    /\ sale' \in [Request -> SUBSET Impression]
    /\ \A q \in Request \ {r} : sale'[q] = sale[q]
    /\ \A e \in sale'[r] : e.bid = IdOf[r] /\ e.ecpm >= Floor
    /\ \A e, f \in sale'[r] : e = f
    /\ due' = due \/ (sale'[r] # {} /\ due' = due \cup {r})
    /\ UNCHANGED <<left, arrived>>

Answer(r) ==
    /\ Goto(r, "respond", "answered")
    /\ UNCHANGED <<sale, due, left, arrived>>

(* Whether the request was answered yet does not matter.                   *)
Send(r) ==
    /\ r \in due
    /\ due' = due \ {r}
    /\ left' = [left EXCEPT ![r] = Copies]
    /\ UNCHANGED <<stage, sale, arrived>>

(* One attempt: the impression arrives or not, and may do so less often    *)
(* from now on.                                                            *)
Arrive(r) ==
    /\ \E n \in 0..(left[r] - 1) : left' = [left EXCEPT ![r] = n]
    /\ \/ \E e \in sale[r] : arrived' = [arrived EXCEPT ![r] = Append(@, e)]
       \/ UNCHANGED arrived
    /\ UNCHANGED <<stage, sale, due>>

(* Requests in service and impressions due go, and impressions on their    *)
(* way may.                                                                *)
Crash ==
    /\ stage' = [r \in Request |-> IF stage[r] \in {"serving", "respond"} THEN "lost" ELSE stage[r]]
    /\ due' = {}
    /\ left' \in [Request -> 0..Copies]
    /\ \A r \in Request : left'[r] <= left[r]
    /\ UNCHANGED <<sale, arrived>>

Next ==
    \/ \E r \in Request : Refuse(r) \/ Accept(r) \/ Fail(r) \/ Decide(r) \/ Answer(r)
    \/ \E r \in Request : Send(r) \/ Arrive(r)
    \/ Crash

Spec == Init /\ [][Next]_vars
==============================================================================
