------------------------------ MODULE MCAuction ------------------------------
(***************************************************************************)
(* Every auction among a few bids: one bidder considers a deviation from   *)
(* her bid, both auctions are held, and the outcomes are compared with     *)
(* definitions of a second-price auction that mention neither sorting nor  *)
(* positions.                                                              *)
(***************************************************************************)
EXTENDS Auction, FiniteSets

CONSTANTS Bid,          \* the bid IDs
          Price,        \* the prices a bid may carry
          Score,        \* the eCPM values a model may predict
          Floor         \* the reserve

ASSUME MCAssumption ==
    /\ IsFiniteSet(Bid) /\ NoBid \notin Bid
    /\ Price \subseteq Nat /\ Score \subseteq Nat /\ Floor \in Nat

VARIABLES price,        \* what each bidder bids, her true value
          scores,       \* the model's eCPM, a partial function on bids
          deviation,    \* a bid and the price it is changed to
          ranked,       \* outcome of RunWithECPM
          honest,       \* outcome of Run on price
          deviated      \* outcome of Run after the deviation

vars == <<price, scores, deviation, ranked, honest, deviated>>

NotRun == [winner |-> NoBid, price |-> -1]

PartialScores == UNION {[S -> Score] : S \in SUBSET Bid}

Init == /\ price \in [Bid -> Price]
        /\ scores \in PartialScores
        /\ deviation \in Bid \X Price
        /\ ranked = NotRun /\ honest = NotRun /\ deviated = NotRun

Hold == /\ ranked = NotRun
        /\ ranked' \in RunWithECPM(price, scores, Floor)
        /\ honest' \in Run(price, Floor)
        /\ deviated' \in Run([price EXCEPT ![deviation[1]] = deviation[2]], Floor)
        /\ UNCHANGED <<price, scores, deviation>>

Next == Hold

Spec == Init /\ [][Next]_vars

------------------------------------------------------------------------------
Sold(outcome) == outcome.winner # NoBid

(* The k-th highest price of the bids at or above the floor, counted with  *)
(* multiplicity: the highest p that at least k of them reach.              *)
KthPrice(k) ==
    LET reach(p) == {b \in Bid : price[b] >= p /\ price[b] >= Floor}
    IN CHOOSE p \in Price : /\ Cardinality(reach(p)) >= k
                            /\ \A q \in Price : Cardinality(reach(q)) >= k => q <= p

(* Run is the textbook second-price auction with a reserve: it sells       *)
(* exactly when some bid reaches the floor, to a highest bid, at the       *)
(* second highest of the prices that reach the floor, or at the floor when *)
(* one bid does.  (auction.go:15-48)                                       *)
RunIsSecondPrice ==
    honest # NotRun =>
        LET above == {b \in Bid : price[b] >= Floor}
        IN /\ Sold(honest) <=> above # {}
           /\ Sold(honest) =>
                /\ price[honest.winner] = KthPrice(1)
                /\ honest.price = IF Cardinality(above) = 1 THEN Floor ELSE KthPrice(2)

(* What bidder b with true value v gains from an outcome.                  *)
Gain(b, v, outcome) == IF outcome.winner = b THEN v - outcome.price ELSE 0

(* Bidding one's value is a dominant strategy of Run: no bidder gains from *)
(* any other bid, whatever the others bid and however ties are broken.     *)
(* This is what the runner-up's price is charged for.  (auction.go:33-41)  *)
BiddingTheValueIsDominant ==
    honest # NotRun =>
        LET b == deviation[1]
        IN Gain(b, price[b], honest) >= Gain(b, price[b], deviated)

(* Scores rank the eligible bids the way their prices do.                  *)
Aligned(S) == \A b, c \in S : scores[b] < scores[c] <=> price[b] < price[c]

(* When the scores order the eligible bids as their prices do, ranking by  *)
(* eCPM is a second-price auction among the scored bids: the same outcomes *)
(* as Run has on them.  (auction.go:50-92 against 15-48)                   *)
AlignedScoresRunIsRun ==
    LET S == Eligible(price, scores, Floor)
    IN ranked # NotRun /\ Aligned(S) =>
           ranked \in Run([b \in DOMAIN scores |-> price[b]], Floor)

==============================================================================
