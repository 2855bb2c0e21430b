--------------------------- MODULE MCSampleCleaner ---------------------------
(* The topics hold impressions of both bids, one of them twice, and a click
   and a conversion; a conversion comes without a click, an impression has no
   eCPM, and a message no id.  A reader may find them in any interleaving. *)
EXTENDS SampleCleaner

CONSTANTS b1, b2, bad

MCBid == {b1, b2, bad}

MCUnreadable == {bad}

Topics(impressions, clicks, conversions) ==
    [t \in Topic |-> CASE t = "ad_impressions" -> impressions
                       [] t = "ad_clicks" -> clicks
                       [] t = "ad_conversions" -> conversions]

MCLogs ==
    {Topics(<<b1, b2>>, <<b1>>, <<b1, b2>>),
     Topics(<<b1, b1, b2>>, <<b2>>, <<b1>>),
     Topics(<<b2, bad, b1>>, <<b1>>, <<NoId>>)}
=============================================================================
