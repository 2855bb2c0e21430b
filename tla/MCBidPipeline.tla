---------------------------- MODULE MCBidPipeline ----------------------------
(***************************************************************************)
(* Small instances of the bidding path.                                    *)
(*                                                                         *)
(* MCPublish: concurrent requests with one id compete for a channel with   *)
(*   room for one event; the broker or the server may stop.                *)
(* MCRouting: experiments are edited and refreshed, cached scores come and *)
(*   go, and the server is restarted, while requests are routed, scored    *)
(*   and published; one of them has no impression.                         *)
(* MCScoring: one auction under every recall, score and start-up, next to  *)
(*   a malformed request.                                                  *)
(***************************************************************************)
EXTENDS BidPipeline, TLC

CONSTANTS r1, r2, r3, a1, a2

MCRequestId == {"id1", "id2"}
OneId == [r \in Request |-> "id1"]
OwnIds == [r \in Request |-> IF r = r1 THEN "id1" ELSE "id2"]
MCBucket == [e \in Experiment |-> [id1 |-> 50, id2 |-> 10]]

MCBidPrice == [a \in Ad |-> IF a = a1 THEN 250 ELSE 100]
OneAd == {<<a1>>}
AllRecalls == {<<a1>>, <<a1, a2>>, <<a2, a1>>}

Answer(list) == [i \in DOMAIN list |-> [ad |-> list[i][1], ecpm |-> list[i][2]]]
OneAnswer == {Answer(<<<<a1, 7>>>>)}
(* In order, reordered, short, repeated and naming a stranger's ad.        *)
AllAnswers == {Answer(<<<<a1, 7>>, <<a2, 5>>>>), Answer(<<<<a2, 7>>, <<a1, 5>>>>),
               Answer(<<<<a2, 5>>>>), Answer(<<<<a1, 5>>, <<a1, 7>>>>), <<>>}

Reach(names) == [d \in {"qdrant", "ab", "cache", "kafka"} |-> d \in names]
Publishing == {Reach({"qdrant", "kafka"}), Reach({"qdrant"})}
Routing == {Reach({"qdrant", "ab", "cache", "kafka"})}
AllStartUps == {Reach({"qdrant", "ab", "cache"}), Reach({"qdrant", "cache", "kafka"}),
                Reach({"qdrant", "ab"}), Reach({"kafka"})}
==============================================================================
