----------------------------- MODULE ScoreStore ------------------------------
(***************************************************************************)
(* What a reader of the score cache may rely on: each gpr_score:<ad> hash  *)
(* appears, changes and disappears by itself, one key in a step, and what  *)
(* is read is always a score that some cycle predicted.  BidPipeline reads *)
(* the cache under this contract; ScoreCache shows that the batch scorer   *)
(* and the expiry of keys keep it.                                         *)
(***************************************************************************)
CONSTANTS Ad, ECPM, Absent

VARIABLE scoreCache

Init == scoreCache \in [Ad -> ECPM \cup {Absent}]

Put(a) == \E e \in ECPM : scoreCache' = [scoreCache EXCEPT ![a] = e]

Remove(a) == scoreCache' = [scoreCache EXCEPT ![a] = Absent]

Next == \E a \in Ad : Put(a) \/ Remove(a)

Spec == Init /\ [][Next]_scoreCache
=============================================================================
