----------------------------- MODULE MCDataLoop ------------------------------
(* Three impressions of two bids, a buffer of one line and a threshold of
   two; a kill, or a stop of the trigger, comes anywhere. *)
EXTENDS DataLoop

CONSTANTS b1, b2

MCBid == {b1, b2}

MCLogs ==
    {[t \in Topic |-> CASE t = "ad_impressions" -> <<b1, b2, b1>>
                        [] t = "ad_clicks" -> <<>>
                        [] t = "ad_conversions" -> <<>>]}

(* Five impressions, which make five samples when each expires in time. *)
MCFive ==
    {[t \in Topic |-> CASE t = "ad_impressions" -> <<b1, b2, b1, b2, b1>>
                        [] t = "ad_clicks" -> <<>>
                        [] t = "ad_conversions" -> <<>>]}
=============================================================================
