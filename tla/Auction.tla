------------------------------- MODULE Auction -------------------------------
(***************************************************************************)
(* The sealed-bid auction of adx/internal/auction/auction.go as pure       *)
(* operators.  A bid is named by its ID ("bid-<ad id>": unique, because    *)
(* the vector index returns each point once); price is the function from   *)
(* bid IDs to bid prices and ecpm the map from bid IDs to predicted eCPM,  *)
(* which may miss some bids and name others.                               *)
(*                                                                         *)
(* sort.Slice is not stable, so the order of bids of equal rank is not     *)
(* fixed: an auction has a SET of possible outcomes.                       *)
(***************************************************************************)
EXTENDS Integers

CONSTANT NoBid          \* the nil Winner of an empty auction

(* What a run returns when no bid is eligible: IsEmpty is Winner = nil.    *)
EmptyAuction == [winner |-> NoBid, price |-> 0]

(* Mutant: a bid at the floor is turned away.                              *)
MutantEligible(price, ecpm, floor) ==
    {b \in DOMAIN price : b \in DOMAIN ecpm /\ price[b] > floor}

(* The bids that enter the ranking: scored, and at or above the floor.     *)
Eligible(price, ecpm, floor) ==
    {b \in DOMAIN price : b \in DOMAIN ecpm /\ price[b] >= floor}

(* The members of S an unstable descending sort by rank may put first.     *)
Top(S, rank) == {b \in S : \A c \in S : rank[c] <= rank[b]}

(* Mutant: the winner pays its own price.                                  *)
MutantSecondPrices(S, price, rank, floor, w) ==
    IF S = {w} THEN {floor} ELSE {price[w]}

(* The prices second place may set: the floor for a lone bid, otherwise    *)
(* the bid price of a runner-up by rank.                                   *)
SecondPrices(S, price, rank, floor, w) ==
    IF S = {w} THEN {floor} ELSE {price[b] : b \in Top(S \ {w}, rank)}

(* The settlement never falls below the floor.                             *)
Settlement(second, floor) == IF second < floor THEN floor ELSE second

(* Every outcome of an auction among the bids of S, ranked by rank.        *)
Outcomes(S, price, rank, floor) ==
    IF S = {} THEN {EmptyAuction}
    ELSE UNION {{[winner |-> w, price |-> Settlement(s, floor)] :
                    s \in SecondPrices(S, price, rank, floor, w)} :
                    w \in Top(S, rank)}

(* Mutant: the runner-up's eCPM is taken for its price.                    *)
MutantRunWithECPM(price, ecpm, floor) ==
    Outcomes(Eligible(price, ecpm, floor), ecpm, ecpm, floor)

(* Rank by eCPM, settle at the runner-up's bid price.                      *)
RunWithECPM(price, ecpm, floor) ==
    Outcomes(Eligible(price, ecpm, floor), price, ecpm, floor)

(* Rank by bid price, settle at the runner-up's bid price.                 *)
Run(price, floor) == Outcomes(Eligible(price, price, floor), price, price, floor)
==============================================================================
