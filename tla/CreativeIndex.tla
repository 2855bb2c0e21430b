---------------------------- MODULE CreativeIndex ----------------------------
(***************************************************************************)
(* What recall may expect of the vector collection, whoever writes to it:  *)
(* a point stands for a text the creative table has committed, not         *)
(* necessarily the latest one, or for a text of the seed file.             *)
(***************************************************************************)
EXTENDS Integers

CONSTANTS
    Ad,
    None,           \* no point under the id
    Seed            \* the text of the seed file

VARIABLES
    latest,         \* how many texts the table has had under each id
    index           \* the text behind each point

vars == <<latest, index>>

Init ==
    /\ latest \in [Ad -> Nat]
    /\ index = [a \in Ad |-> None]

Commit(a) ==
    /\ latest' = [latest EXCEPT ![a] = @ + 1]
    /\ UNCHANGED index

(* One PUT changes the points of all its ids at once. *)
Put(S) ==
    /\ \A a \in S : index'[a] \in 1..latest[a]
    /\ \A a \in Ad \ S : index'[a] = index[a]
    /\ DOMAIN index' = Ad
    /\ UNCHANGED latest

Recreate ==
    /\ index' = [a \in Ad |-> None]
    /\ UNCHANGED latest

Sow(S) ==
    /\ index' = [a \in Ad |-> IF a \in S THEN Seed ELSE index[a]]
    /\ UNCHANGED latest

Next ==
    \/ \E a \in Ad : Commit(a)
    \/ \E S \in SUBSET Ad : Put(S) \/ Sow(S)
    \/ Recreate

Spec == Init /\ [][Next]_vars
=============================================================================
