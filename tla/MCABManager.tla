----------------------------- MODULE MCABManager -----------------------------
(***************************************************************************)
(* Two experiments, four requests.  The buckets lie on both                *)
(* sides of the ratios, 28 being the one that a truncated 0.29 loses.      *)
(***************************************************************************)
EXTENDS ABManager

MCBucket == <<[q1 |-> 28, q2 |-> 29, q3 |-> 60, q4 |-> 30],
              [q1 |-> 75, q2 |-> 3, q3 |-> 29, q4 |-> 28]>>

MCRequestId == {"q1", "q2", "q3", "q4"}
==============================================================================
