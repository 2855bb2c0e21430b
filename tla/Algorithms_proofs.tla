--------------------------- MODULE Algorithms_proofs ---------------------------
(***************************************************************************)
(* Proofs about the pure computations, for every value of the constants:   *)
(* Run is a second-price auction in which it is best to bid one's value,   *)
(* for any finite set of bids, any prices, scores and reserve, and         *)
(* whichever way the unstable sort breaks ties; the verdict of the A/B     *)
(* report follows the rates, for any counts; the arm the bandit exploits   *)
(* has the best average, for any arms and rewards.                         *)
(***************************************************************************)
EXTENDS MCAlgorithms, FiniteSetTheorems, TLAPS

(***************************************************************************)
(* The invariant: each of the three computations has its inputs, or its    *)
(* outputs on them.                                                        *)
(***************************************************************************)

(* The inputs stay, and there are no outcomes before the auctions are held. *)
AuctionInputs ==
    /\ price \in [Bid -> Price]
    /\ scores \in PartialScores
    /\ deviation \in Bid \X Price

Held ==
    /\ ranked \in RunWithECPM(price, scores, Floor)
    /\ honest \in Run(price, Floor)
    /\ deviated \in Run([price EXCEPT ![deviation[1]] = deviation[2]], Floor)

AuctionInv == (ranked = NotRun /\ honest = NotRun) \/ (AuctionInputs /\ Held)

(* A report is on the groups it was given. *)
ReportInv ==
    /\ groups \in Groups \cup {NoGroups}
    /\ report = NoReport \/ (groups \in Groups /\ report = generate_report(groups))

(* The running mean of an arm times its plays is what the arm earned, which
   any number of plays can share. *)
ArmInv(i) ==
    /\ plays[i] = stats[i].count
    /\ plays[i] <= MaxPlays
    /\ sums[i] = stats[i].mean * plays[i]
    /\ plays[i] = 0 => stats[i].mean = 0
    /\ \A k \in 1..MaxPlays : \E q \in Nat : sums[i] = k * q

BanditInv ==
    stats # NoStats =>
        /\ stats \in [DOMAIN Arms -> [count : Nat, mean : Nat]]
        /\ plays \in [DOMAIN Arms -> Nat]
        /\ sums \in [DOMAIN Arms -> Nat]
        /\ \A i \in DOMAIN Arms : ArmInv(i)

AllInv ==
    /\ groups = NoGroups /\ stats = NoStats => AuctionInputs
    /\ AuctionInv
    /\ ReportInv
    /\ BanditInv

------------------------------------------------------------------------------
(* The bandit's arithmetic. *)

LEMMA Quotient ==
    ASSUME NEW n \in Nat, n >= 1, NEW d \in Int
    PROVE  (n * d) \div n = d
  BY Z3

LEMMA ProductType ==
    ASSUME NEW a \in Nat, NEW b \in Nat
    PROVE  a * b \in Nat /\ a * b = b * a /\ a * 0 = 0 /\ 0 * a = 0
  BY Z3

LEMMA Distributes ==
    ASSUME NEW k \in Nat, NEW a \in Nat, NEW b \in Nat
    PROVE  k * a + k * b = k * (a + b)
  BY Z3

LEMMA Bounds == MaxPlays \in Nat /\ MaxCount \in Nat /\ Reward \subseteq Nat
  BY AlgorithmsAssumption

(* One more reward moves the mean to the sum's share. *)
LEMMA NewMean ==
    ASSUME NEW c \in Nat, NEW m \in Nat, NEW r \in Nat, NEW q \in Nat,
           c * m + r = (c + 1) * q
    PROVE  m + (r - m) \div (c + 1) = q
  <1>1. r - m = (c + 1) * (q - m)
    BY Z3
  <1>2. (r - m) \div (c + 1) = q - m
    <2> DEFINE n == c + 1
               d == q - m
    <2>1. n \in Nat /\ n >= 1 /\ d \in Int /\ r - m = n * d
      BY <1>1
    <2> HIDE DEF n, d
    <2>2. (r - m) \div n = d
      BY <2>1, Quotient
    <2> QED
      BY <2>2 DEF n, d
  <1> QED
    BY <1>2

------------------------------------------------------------------------------
(* The invariant holds. *)

LEMMA ArmsNotEmpty == 1 \in DOMAIN Arms /\ DOMAIN Arms = 1..Len(Arms) /\ Len(Arms) \in Nat
  BY MABAssumption

LEMMA GroupsAre ==
    ASSUME NEW g \in Groups
    PROVE  /\ g # NoGroups
           /\ \E V \in SUBSET {"control", "treatment", ""} : g \in [V -> Metrics]
  <1>1. PICK V \in VariantSets : g \in [V -> Metrics]
    BY DEF Groups
  <1>2. V \in SUBSET {"control", "treatment", ""}
    BY AlgorithmsAssumption
  <1>3. DOMAIN g = V /\ DOMAIN NoGroups = {"none"}
    BY <1>1 DEF NoGroups
  <1>4. "none" \notin V
    BY <1>2
  <1> QED
    BY <1>1, <1>2, <1>3, <1>4

LEMMA InitAll == AllInit => AllInv
  <1> SUFFICES ASSUME AllInit PROVE AllInv
    OBVIOUS
  <1>1. CASE Init /\ ReportIdle /\ BanditIdle
    BY <1>1 DEF Init, ReportIdle, BanditIdle, AllInv, AuctionInputs, AuctionInv, ReportInv,
                BanditInv
  <1>2. CASE AuctionIdle /\ groups \in Groups /\ report = NoReport /\ BanditIdle
    <2>1. groups # NoGroups
      BY <1>2, GroupsAre
    <2> QED
      BY <1>2, <2>1 DEF AuctionIdle, BanditIdle, AllInv, AuctionInv, ReportInv, BanditInv
  <1>3. CASE /\ AuctionIdle /\ ReportIdle
             /\ stats = _init_campaign /\ plays = NoPlays /\ sums = NoPlays
    <2>1. /\ stats \in [DOMAIN Arms -> [count : Nat, mean : Nat]]
          /\ plays \in [DOMAIN Arms -> Nat] /\ sums \in [DOMAIN Arms -> Nat]
          /\ \A i \in DOMAIN Arms : /\ stats[i].count = 0 /\ stats[i].mean = 0
                                    /\ plays[i] = 0 /\ sums[i] = 0
      BY <1>3 DEF _init_campaign, NoPlays
    <2>2. stats # NoStats
      <3>1. DOMAIN stats # {}
        BY <2>1, ArmsNotEmpty
      <3> QED
        BY <3>1 DEF NoStats
    <2>3. 0 \in Nat /\ 0 <= MaxPlays /\ 0 * 0 = 0 /\ \A k \in 1..MaxPlays : 0 = k * 0
      BY Bounds
    <2>4. \A i \in DOMAIN Arms : ArmInv(i)
      <3> SUFFICES ASSUME NEW i \in DOMAIN Arms PROVE ArmInv(i)
        OBVIOUS
      <3>1. \A k \in 1..MaxPlays : \E q \in Nat : sums[i] = k * q
        BY <2>1, <2>3
      <3> QED
        BY <2>1, <2>3, <3>1 DEF ArmInv
    <2> QED
      BY <1>3, <2>1, <2>2, <2>4
         DEF AuctionIdle, ReportIdle, AllInv, AuctionInv, ReportInv, BanditInv
  <1> QED
    BY <1>1, <1>2, <1>3 DEF AllInit

LEMMA PlayStep == AllInv /\ Play => BanditInv'
  <1> SUFFICES ASSUME AllInv, Play PROVE BanditInv'
    OBVIOUS
  <1>1. PICK explore \in BOOLEAN, reward \in Reward :
           \E arm \in select_arm(stats, explore) :
              /\ plays[arm] < MaxPlays
              /\ stats' = update(stats, arm, reward)
              /\ plays' = [plays EXCEPT ![arm] = @ + 1]
              /\ sums' = [sums EXCEPT ![arm] = @ + reward]
    BY DEF Play
  <1>2. PICK arm \in select_arm(stats, explore) :
           /\ plays[arm] < MaxPlays
           /\ stats' = update(stats, arm, reward)
           /\ plays' = [plays EXCEPT ![arm] = @ + 1]
           /\ sums' = [sums EXCEPT ![arm] = @ + reward]
    BY <1>1
  <1>3. /\ stats \in [DOMAIN Arms -> [count : Nat, mean : Nat]]
        /\ plays \in [DOMAIN Arms -> Nat] /\ sums \in [DOMAIN Arms -> Nat]
        /\ \A i \in DOMAIN Arms : ArmInv(i)
        /\ reward \in Nat
    BY Bounds DEF AllInv, BanditInv, Play
  <1>4. CASE arm \notin DOMAIN Arms
    <2>1. stats' = stats /\ plays' = plays /\ sums' = sums
      BY <1>2, <1>3, <1>4 DEF update
    <2> QED
      BY <1>3, <2>1 DEF BanditInv, ArmInv
  <1>5. CASE arm \in DOMAIN Arms
    <2> DEFINE c == plays[arm]
               m == stats[arm].mean
    <2>1. /\ c \in Nat /\ m \in Nat /\ c + 1 \in 1..MaxPlays
          /\ stats[arm].count = c /\ sums[arm] = m * c
          /\ \A k \in 1..MaxPlays : \E q \in Nat : sums[arm] = k * q
      <3>1. /\ c \in Nat /\ m \in Nat /\ c < MaxPlays
            /\ stats[arm].count = c /\ sums[arm] = m * c
            /\ \A k \in 1..MaxPlays : \E q \in Nat : sums[arm] = k * q
        BY <1>2, <1>3, <1>5 DEF ArmInv
      <3> HIDE DEF c, m
      <3>2. c + 1 \in 1..MaxPlays
        BY <3>1, Bounds
      <3> QED
        BY <3>1, <3>2
    <2>2. \A k \in 1..MaxPlays : \E q \in Nat : sums[arm] + reward = k * q
      <3> SUFFICES ASSUME NEW k \in 1..MaxPlays
                   PROVE  \E q \in Nat : sums[arm] + reward = k * q
        OBVIOUS
      <3>1. PICK q \in Nat : sums[arm] = k * q
        BY <2>1
      <3>2. PICK z \in 0..reward : reward = k * z
        BY AlgorithmsAssumption
      <3>3. k \in Nat /\ z \in Nat /\ k * q + k * z = k * (q + z) /\ q + z \in Nat
        <4>1. k \in Nat /\ z \in Nat /\ q + z \in Nat
          BY <1>3, <3>2, Bounds
        <4> QED
          BY <4>1, Distributes
      <3> QED
        BY <3>1, <3>2, <3>3
    <2>3. PICK q \in Nat : sums[arm] + reward = (c + 1) * q
      BY <2>1, <2>2
    <2>4. m + (reward - m) \div (c + 1) = q
      <3>1. c * m = m * c
        BY <2>1, ProductType
      <3>2. c * m + reward = (c + 1) * q
        BY <2>1, <2>3, <3>1
      <3>3. c \in Nat /\ m \in Nat
        BY <2>1
      <3> HIDE DEF c, m
      <3> QED
        BY <1>3, <3>2, <3>3, NewMean
    <2>5. /\ stats' = [stats EXCEPT ![arm] = [count |-> c + 1, mean |-> q]]
          /\ plays' = [plays EXCEPT ![arm] = c + 1]
          /\ sums' = [sums EXCEPT ![arm] = (c + 1) * q]
      BY <1>2, <1>3, <2>1, <2>3, <2>4 DEF update
    <2>6. (c + 1) * q \in Nat /\ (c + 1) * q = q * (c + 1) /\ c + 1 # 0 /\ c + 1 \in Nat
          /\ c + 1 <= MaxPlays
      <3>1. c + 1 \in Nat /\ c + 1 # 0 /\ c + 1 <= MaxPlays
        BY <2>1, Bounds
      <3> QED
        BY <3>1, ProductType
    <2> HIDE DEF c, m
    <2>7. /\ stats' \in [DOMAIN Arms -> [count : Nat, mean : Nat]]
          /\ plays' \in [DOMAIN Arms -> Nat] /\ sums' \in [DOMAIN Arms -> Nat]
      BY <1>3, <2>3, <2>5, <2>6
    <2>8. \A i \in DOMAIN Arms : ArmInv(i)'
      <3> SUFFICES ASSUME NEW i \in DOMAIN Arms PROVE ArmInv(i)'
        OBVIOUS
      <3>1. CASE i = arm
        <4>1. /\ stats'[i] = [count |-> c + 1, mean |-> q]
              /\ plays'[i] = c + 1 /\ sums'[i] = (c + 1) * q
          BY <1>3, <2>5, <3>1
        <4>2. sums'[i] = sums[arm] + reward
          BY <2>3, <4>1
        <4> QED
          BY <2>2, <2>6, <4>1, <4>2 DEF ArmInv
      <3>2. CASE i # arm
        <4>1. stats'[i] = stats[i] /\ plays'[i] = plays[i] /\ sums'[i] = sums[i]
          BY <1>3, <2>5, <3>2
        <4> QED
          BY <1>3, <4>1 DEF ArmInv
      <3> QED
        BY <3>1, <3>2
    <2> QED
      BY <2>7, <2>8 DEF BanditInv
  <1> QED
    BY <1>4, <1>5

LEMMA AllStep == AllInv /\ [AllNext]_allVars => AllInv'
  <1> SUFFICES ASSUME AllInv, [AllNext]_allVars PROVE AllInv'
    OBVIOUS
  <1>1. CASE HoldAuctions
    <2>1. /\ price' = price /\ scores' = scores /\ deviation' = deviation
          /\ ranked' \in RunWithECPM(price, scores, Floor)
          /\ honest' \in Run(price, Floor)
          /\ deviated' \in Run([price EXCEPT ![deviation[1]] = deviation[2]], Floor)
          /\ AuctionInputs
      BY <1>1 DEF HoldAuctions, Hold, AllInv
    <2>2. AuctionInputs' /\ Held'
      BY <2>1 DEF AuctionInputs, Held
    <2>3. ReportInv' /\ BanditInv'
      BY <1>1 DEF HoldAuctions, reportVars, banditVars, AllInv, ReportInv, BanditInv, ArmInv
    <2> QED
      BY <2>2, <2>3 DEF AllInv, AuctionInv
  <1>2. CASE WriteReport
    <2>1. ReportInv'
      BY <1>2 DEF WriteReport, AllInv, ReportInv
    <2>2. BanditInv'
      BY <1>2 DEF WriteReport, banditVars, AllInv, BanditInv, ArmInv
    <2> QED
      BY <1>2, <2>1, <2>2 DEF WriteReport, vars, banditVars, AllInv, AuctionInv, AuctionInputs, Held
  <1>3. CASE Play
    <2>1. BanditInv'
      BY <1>3, PlayStep
    <2>2. ReportInv'
      BY <1>3 DEF Play, reportVars, AllInv, ReportInv
    <2>3. stats' # NoStats
      <3>1. stats \in [DOMAIN Arms -> [count : Nat, mean : Nat]] /\ \E e, a : stats' = update(stats, a, e)
        BY <1>3 DEF Play, AllInv, BanditInv
      <3>2. DOMAIN stats' = DOMAIN Arms
        BY <3>1 DEF update
      <3> QED
        BY <3>2, ArmsNotEmpty DEF NoStats
    <2> QED
      BY <1>3, <2>1, <2>2, <2>3 DEF Play, vars, AllInv, AuctionInv, AuctionInputs, Held
  <1>4. CASE UNCHANGED allVars
    BY <1>4 DEF allVars, vars, reportVars, banditVars, AllInv, AuctionInv, AuctionInputs, Held,
                ReportInv, BanditInv, ArmInv
  <1> QED
    BY <1>1, <1>2, <1>3, <1>4 DEF AllNext

LEMMA Always == AllSpec => []AllInv
  BY InitAll, AllStep, PTL DEF AllSpec

------------------------------------------------------------------------------
(* The auctions. *)

USE MCAssumption

(* What an outcome is, without the sort: it empties an auction without bids,
   and otherwise sells to a bid of the highest rank. *)
Awarded(o, S, p, rank) ==
    /\ o.winner \in S
    /\ \A c \in S : rank[c] <= rank[o.winner]
    /\ \/ S = {o.winner} /\ o.price = Floor
       \/ \E r \in S \ {o.winner} :
             /\ o.price = p[r]
             /\ \A c \in S \ {o.winner} : rank[c] <= rank[r]

LEMMA OutcomeIs ==
    ASSUME NEW S, NEW p, NEW rank, NEW o \in Outcomes(S, p, rank, Floor),
           \A b \in S : p[b] \in Nat /\ p[b] >= Floor
    PROVE  (S = {} /\ o = EmptyAuction) \/ Awarded(o, S, p, rank)
  <1>1. CASE S = {}
    BY <1>1 DEF Outcomes
  <1>2. CASE S # {}
    <2>1. PICK w \in Top(S, rank) :
             \E s \in SecondPrices(S, p, rank, Floor, w) :
                 o = [winner |-> w, price |-> Settlement(s, Floor)]
      BY <1>2 DEF Outcomes
    <2>2. PICK s \in SecondPrices(S, p, rank, Floor, w) :
             o = [winner |-> w, price |-> Settlement(s, Floor)]
      BY <2>1
    <2>3. w \in S /\ \A c \in S : rank[c] <= rank[w]
      BY DEF Top
    <2>4. CASE S = {w}
      BY <2>2, <2>3, <2>4 DEF SecondPrices, Settlement, Awarded
    <2>5. CASE S # {w}
      <3>1. PICK r \in Top(S \ {w}, rank) : s = p[r]
        BY <2>5 DEF SecondPrices
      <3>2. r \in S \ {w} /\ \A c \in S \ {w} : rank[c] <= rank[r]
        BY DEF Top
      <3>3. Settlement(s, Floor) = p[r]
        BY <3>1, <3>2 DEF Settlement
      <3> QED
        BY <2>2, <2>3, <3>2, <3>3 DEF Awarded
    <2> QED
      BY <2>4, <2>5
  <1> QED
    BY <1>1, <1>2

(* Ranked by price, the sale is at the highest price of the others. *)
LEMMA RunIs ==
    ASSUME NEW p \in [Bid -> Nat], NEW o \in Run(p, Floor)
    PROVE  LET S == {b \in Bid : p[b] >= Floor}
           IN (S = {} /\ o = EmptyAuction) \/ Awarded(o, S, p, p)
  <1> DEFINE S == {b \in Bid : p[b] >= Floor}
  <1>1. Eligible(p, p, Floor) = S
    BY DEF Eligible
  <1>2. o \in Outcomes(S, p, p, Floor)
    BY <1>1 DEF Run
  <1>3. \A b \in S : p[b] \in Nat /\ p[b] >= Floor
    OBVIOUS
  <1> HIDE DEF S
  <1>4. (S = {} /\ o = EmptyAuction) \/ Awarded(o, S, p, p)
    BY <1>2, <1>3, OutcomeIs
  <1> QED
    BY <1>4 DEF S

------------------------------------------------------------------------------
(* Second prices. *)

Reach(p) == {b \in Bid : price[b] >= p /\ price[b] >= Floor}

LEMMA KthIs ==
    ASSUME NEW k, NEW v \in Price, Cardinality(Reach(v)) >= k,
           \A q \in Price : Cardinality(Reach(q)) >= k => q <= v
    PROVE  KthPrice(k) = v
  <1> DEFINE Is(p) == /\ Cardinality(Reach(p)) >= k
                      /\ \A q \in Price : Cardinality(Reach(q)) >= k => q <= p
  <1>1. KthPrice(k) = CHOOSE p \in Price : Is(p)
    BY DEF KthPrice, Reach
  <1>2. Is(v)
    OBVIOUS
  <1>3. \A p \in Price : Is(p) => p = v
    OBVIOUS
  <1> HIDE DEF Is
  <1>4. \A p \in Price : Is(p) <=> p = v
    BY <1>2, <1>3
  <1>5. (CHOOSE p \in Price : Is(p)) = v
    BY <1>2, <1>3
  <1> QED
    BY <1>1, <1>5

LEMMA NotEmpty ==
    ASSUME NEW T, IsFiniteSet(T)
    PROVE  Cardinality(T) \in Nat /\ (T # {} <=> Cardinality(T) >= 1)
  <1>1. Cardinality(T) \in Nat /\ (Cardinality(T) = 0 <=> T = {})
    BY FS_EmptySet, FS_CardinalityType
  <1> QED
    BY <1>1

LEMMA Reaching ==
    ASSUME NEW p
    PROVE  /\ IsFiniteSet(Reach(p)) /\ Cardinality(Reach(p)) \in Nat
           /\ \A x \in Reach(p) : Cardinality(Reach(p)) >= 1
           /\ \A x, y \in Reach(p) : x # y => Cardinality(Reach(p)) >= 2
           /\ Cardinality(Reach(p)) >= 1 => \E x \in Bid : x \in Reach(p)
           /\ Cardinality(Reach(p)) >= 2 => \A x \in Bid : \E y \in Bid \ {x} : y \in Reach(p)
  <1> DEFINE R == Reach(p)
  <1>1. R \subseteq Bid
    BY DEF Reach
  <1> HIDE DEF R
  <1>2. IsFiniteSet(R) /\ Cardinality(R) \in Nat
    BY <1>1, FS_Subset, FS_CardinalityType
  <1>3. R # {} <=> Cardinality(R) >= 1
    BY <1>2, NotEmpty
  <1>4. \A x : /\ IsFiniteSet(R \ {x})
               /\ Cardinality(R \ {x}) = IF x \in R THEN Cardinality(R) - 1 ELSE Cardinality(R)
    BY <1>2, FS_RemoveElement
  <1>5. \A x : /\ Cardinality(R \ {x}) \in Nat
               /\ R \ {x} # {} <=> Cardinality(R \ {x}) >= 1
    <2> SUFFICES ASSUME NEW x
                 PROVE  /\ Cardinality(R \ {x}) \in Nat
                        /\ R \ {x} # {} <=> Cardinality(R \ {x}) >= 1
      OBVIOUS
    <2>1. IsFiniteSet(R \ {x})
      BY <1>4
    <2> QED
      BY <2>1, NotEmpty
  <1>6. \A x, y \in R : x # y => Cardinality(R) >= 2
    <2> SUFFICES ASSUME NEW x \in R, NEW y \in R, x # y PROVE Cardinality(R) >= 2
      OBVIOUS
    <2>1. Cardinality(R \ {x}) >= 1
      BY <1>5
    <2> QED
      BY <1>2, <1>4, <2>1
  <1>7. ASSUME Cardinality(R) >= 2, NEW x \in Bid
        PROVE  \E y \in Bid \ {x} : y \in R
    <2>1. Cardinality(R \ {x}) >= 1
      BY <1>2, <1>4, <1>7
    <2>2. R \ {x} # {}
      BY <1>5, <2>1
    <2> QED
      BY <1>1, <2>2
  <1> QED
    BY <1>1, <1>2, <1>3, <1>6, <1>7 DEF R

(* RunIsSecondPrice: whatever the bids and the order the sort gives to ties,
   Run sells to a highest bid at the second highest price, or at the reserve
   (auction.go:15-48). *)
THEOREM RunSecondPrice == AllSpec => []RunIsSecondPrice
  <1>1. AllInv => RunIsSecondPrice
    <2> SUFFICES ASSUME AllInv, honest # NotRun PROVE RunIsSecondPrice
      BY DEF RunIsSecondPrice
    <2> DEFINE S == {b \in Bid : price[b] >= Floor}
               w == honest.winner
    <2>1. price \in [Bid -> Nat] /\ price \in [Bid -> Price] /\ honest \in Run(price, Floor)
      BY DEF AllInv, AuctionInv, AuctionInputs, Held
    <2>2. (S = {} /\ honest = EmptyAuction) \/ Awarded(honest, S, price, price)
      BY <2>1, RunIs
    <2>3. CASE S = {}
      <3>1. ~Sold(honest)
        BY <2>2, <2>3 DEF EmptyAuction, Sold, Awarded
      <3> QED
        BY <2>3, <3>1 DEF RunIsSecondPrice
    <2>4. CASE S # {}
      <3>1. Awarded(honest, S, price, price) /\ w \in S /\ Sold(honest)
        BY <2>2, <2>4 DEF Awarded, Sold
      <3>2. price[w] \in Price /\ \A c \in S : price[c] <= price[w]
        BY <2>1, <3>1 DEF Awarded
      <3>3. KthPrice(1) = price[w]
        <4>1. w \in Reach(price[w])
          BY <2>1, <3>1 DEF Reach
        <4>2. \A q \in Price : Cardinality(Reach(q)) >= 1 => q <= price[w]
          <5> SUFFICES ASSUME NEW q \in Price, Cardinality(Reach(q)) >= 1 PROVE q <= price[w]
            OBVIOUS
          <5>1. PICK x \in Bid : x \in Reach(q)
            BY Reaching
          <5>2. x \in S /\ price[x] \in Nat /\ q <= price[x] /\ q \in Nat /\ price[w] \in Nat
            BY <2>1, <3>2, <5>1 DEF Reach
          <5> QED
            BY <3>2, <5>2
        <4> QED
          BY <3>2, <4>1, <4>2, Reaching, KthIs
      <3>4. honest.price = IF Cardinality(S) = 1 THEN Floor ELSE KthPrice(2)
        <4>1. IsFiniteSet(S)
          BY FS_Subset
        <4>2. Cardinality(S) = 1 <=> S = {w}
          BY <3>1, <4>1, FS_Singleton
        <4>3. CASE S = {w}
          BY <3>1, <4>2, <4>3 DEF Awarded
        <4>4. CASE S # {w}
          <5>1. PICK r \in S \ {w} :
                   honest.price = price[r] /\ \A c \in S \ {w} : price[c] <= price[r]
            BY <3>1, <4>4 DEF Awarded
          <5>2. price[r] \in Price /\ price[r] <= price[w]
            BY <2>1, <3>2, <5>1
          <5>3. r \in Reach(price[r]) /\ w \in Reach(price[r]) /\ r # w
            BY <2>1, <3>1, <5>1, <5>2 DEF Reach
          <5>4. \A q \in Price : Cardinality(Reach(q)) >= 2 => q <= price[r]
            <6> SUFFICES ASSUME NEW q \in Price, Cardinality(Reach(q)) >= 2 PROVE q <= price[r]
              OBVIOUS
            <6>1. PICK y \in Bid \ {w} : y \in Reach(q)
              BY <3>1, Reaching
            <6> QED
              BY <2>1, <5>1, <5>2, <6>1 DEF Reach
          <5>5. KthPrice(2) = price[r]
            BY <5>2, <5>3, <5>4, Reaching, KthIs
          <5> QED
            BY <4>2, <4>4, <5>1, <5>5
        <4> QED
          BY <4>3, <4>4
      <3> HIDE DEF S, w
      <3> QED
        BY <2>4, <3>1, <3>3, <3>4 DEF RunIsSecondPrice, S, w
    <2> QED
      BY <2>3, <2>4
  <1> QED
    BY <1>1, Always, PTL

------------------------------------------------------------------------------
(* Truthfulness. *)

(* What a sale by Run costs: at least the reserve and every losing bid, at
   most the winning one, and exactly the reserve or a losing bid. *)
LEMMA SaleIs ==
    ASSUME NEW p \in [Bid -> Nat], NEW o \in Run(p, Floor), o.winner \in Bid
    PROVE  /\ o.price \in Nat /\ p[o.winner] >= o.price /\ o.price >= Floor
           /\ \A c \in Bid \ {o.winner} : p[c] >= Floor => o.price >= p[c]
           /\ o.price = Floor \/ \E c \in Bid \ {o.winner} : p[c] >= Floor /\ o.price = p[c]
  <1> DEFINE S == {b \in Bid : p[b] >= Floor}
  <1>1. Awarded(o, S, p, p)
    BY RunIs DEF EmptyAuction
  <1>2. o.winner \in S /\ \A c \in S : p[c] <= p[o.winner]
    BY <1>1 DEF Awarded
  <1>3. CASE S = {o.winner} /\ o.price = Floor
    BY <1>2, <1>3
  <1>4. ASSUME NEW r \in S \ {o.winner}, o.price = p[r],
               \A c \in S \ {o.winner} : p[c] <= p[r]
        PROVE  /\ o.price \in Nat /\ p[o.winner] >= o.price /\ o.price >= Floor
               /\ \A c \in Bid \ {o.winner} : p[c] >= Floor => o.price >= p[c]
               /\ \E c \in Bid \ {o.winner} : p[c] >= Floor /\ o.price = p[c]
    BY <1>2, <1>4
  <1> QED
    BY <1>1, <1>3, <1>4 DEF Awarded

(* A bid at or above the reserve is sold to, or loses to one no lower. *)
LEMMA SoldToTheBest ==
    ASSUME NEW p \in [Bid -> Nat], NEW o \in Run(p, Floor), NEW b \in Bid, p[b] >= Floor
    PROVE  o.winner \in Bid /\ p[b] <= p[o.winner] /\ p[o.winner] >= Floor
  <1> DEFINE S == {c \in Bid : p[c] >= Floor}
  <1>1. Awarded(o, S, p, p)
    BY RunIs
  <1> QED
    BY <1>1 DEF Awarded

(* BiddingTheValueIsDominant: the runner-up's price leaves nothing to gain by
   a bid other than one's value, for any number of bidders (auction.go:33-41). *)
THEOREM Truthful == AllSpec => []BiddingTheValueIsDominant
  <1>1. AllInv => BiddingTheValueIsDominant
    <2> SUFFICES ASSUME AllInv, honest # NotRun
                 PROVE  Gain(deviation[1], price[deviation[1]], honest)
                          >= Gain(deviation[1], price[deviation[1]], deviated)
      BY DEF BiddingTheValueIsDominant
    <2> DEFINE b == deviation[1]
               v == price[b]
               p == [price EXCEPT ![b] = deviation[2]]
    <2>1. b \in Bid /\ price \in [Bid -> Nat] /\ p \in [Bid -> Nat] /\ v \in Nat
      BY DEF AllInv, AuctionInv, AuctionInputs
    <2>2. honest \in Run(price, Floor) /\ deviated \in Run(p, Floor)
      BY DEF AllInv, AuctionInv, AuctionInputs, Held
    <2>3. \A c \in Bid \ {b} : p[c] = price[c]
      BY <2>1
    <2> HIDE DEF b, v, p
    <2>4. Gain(b, v, honest) \in Nat
      <3>1. CASE honest.winner = b
        <4>1. honest.price \in Nat /\ price[b] >= honest.price
          BY <2>1, <2>2, <3>1, SaleIs
        <4> QED
          BY <2>1, <3>1, <4>1 DEF Gain, v
      <3>2. CASE honest.winner # b
        BY <3>2 DEF Gain
      <3> QED
        BY <3>1, <3>2
    <2>5. CASE deviated.winner # b
      BY <2>4, <2>5 DEF Gain, b, v
    <2>6. CASE deviated.winner = b
      <3>1. /\ deviated.price \in Nat /\ deviated.price >= Floor
            /\ \A c \in Bid \ {b} : price[c] >= Floor => deviated.price >= price[c]
        BY <2>1, <2>2, <2>3, <2>6, SaleIs
      <3>2. Gain(b, v, deviated) = v - deviated.price
        BY <2>6 DEF Gain
      <3>3. CASE v < deviated.price
        BY <2>1, <2>4, <3>1, <3>2, <3>3 DEF b, v
      <3>4. CASE v >= deviated.price
        <4>1. v >= Floor
          BY <2>1, <3>1, <3>4
        <4>2. honest.winner \in Bid /\ v <= price[honest.winner] /\ price[honest.winner] >= Floor
          BY <2>1, <2>2, <4>1, SoldToTheBest DEF v
        <4>3. CASE honest.winner = b
          <5>1. /\ honest.price \in Nat
                /\ \/ honest.price = Floor
                   \/ \E c \in Bid \ {b} : price[c] >= Floor /\ honest.price = price[c]
            BY <2>1, <2>2, <4>2, <4>3, SaleIs
          <5>2. honest.price <= deviated.price
            BY <2>1, <3>1, <5>1
          <5>3. Gain(b, v, honest) = v - honest.price
            BY <4>3 DEF Gain
          <5>4. v - honest.price >= v - deviated.price
            BY <2>1, <3>1, <5>1, <5>2
          <5> QED
            BY <3>2, <5>3, <5>4 DEF b, v
        <4>4. CASE honest.winner # b
          <5>1. deviated.price >= price[honest.winner]
            BY <3>1, <4>2, <4>4
          <5>2. v = deviated.price
            BY <2>1, <3>1, <3>4, <4>2, <5>1
          <5>3. Gain(b, v, deviated) = 0
            BY <2>1, <3>2, <5>2
          <5> QED
            BY <2>4, <5>3 DEF b, v
        <4> QED
          BY <4>3, <4>4
      <3> QED
        BY <2>1, <3>1, <3>3, <3>4
    <2> QED
      BY <2>5, <2>6
  <1> QED
    BY <1>1, Always, PTL

------------------------------------------------------------------------------
(* Ranking by scores. *)

(* AlignedScoresRunIsRun: where scores rank the bids as prices do, RunWithECPM
   is Run on the scored bids (auction.go:50-92 against 15-48). *)
THEOREM AlignedRunIsRun == AllSpec => []AlignedScoresRunIsRun
  <1>1. AllInv => AlignedScoresRunIsRun
    <2> DEFINE S == Eligible(price, scores, Floor)
               p == [b \in DOMAIN scores |-> price[b]]
    <2> SUFFICES ASSUME AllInv, ranked # NotRun, Aligned(S)
                 PROVE  ranked \in Run(p, Floor)
      BY DEF AlignedScoresRunIsRun
    <2>1. /\ price \in [Bid -> Nat] /\ DOMAIN scores \subseteq Bid
          /\ \A b \in DOMAIN scores : scores[b] \in Nat
      <3>1. PICK D \in SUBSET Bid : scores \in [D -> Score]
        BY DEF AllInv, AuctionInv, AuctionInputs, PartialScores
      <3>2. price \in [Bid -> Nat]
        BY DEF AllInv, AuctionInv, AuctionInputs
      <3> QED
        BY <3>1, <3>2
    <2>2. /\ S = {b \in DOMAIN scores : price[b] >= Floor}
          /\ Eligible(p, p, Floor) = S
          /\ \A b \in S : p[b] = price[b]
      BY <2>1 DEF Eligible
    <2>3. ranked \in Outcomes(S, price, scores, Floor)
      BY DEF AllInv, AuctionInv, AuctionInputs, Held, RunWithECPM
    <2> HIDE DEF S
    <2>4. \A T \in SUBSET S : Top(T, scores) = Top(T, price)
      <3>1. \A b \in S : price[b] \in Nat /\ scores[b] \in Nat
        BY <2>1, <2>2
      <3>2. \A b, c \in S : scores[b] < scores[c] <=> price[b] < price[c]
        BY DEF Aligned
      <3>3. \A b, c \in S : scores[c] <= scores[b] <=> price[c] <= price[b]
        BY <3>1, <3>2
      <3> QED
        BY <3>3 DEF Top
    <2> HIDE DEF p
    <2>5. \A T \in SUBSET S : Top(T, scores) = Top(T, p)
      BY <2>2, <2>4 DEF Top
    <2>6. \A w \in S : SecondPrices(S, price, scores, Floor, w) = SecondPrices(S, p, p, Floor, w)
      <3> SUFFICES ASSUME NEW w \in S
                   PROVE  SecondPrices(S, price, scores, Floor, w) = SecondPrices(S, p, p, Floor, w)
        OBVIOUS
      <3>1. Top(S \ {w}, scores) = Top(S \ {w}, p)
        BY <2>5
      <3>2. \A b \in Top(S \ {w}, p) : p[b] = price[b]
        BY <2>2 DEF Top
      <3> QED
        BY <3>1, <3>2 DEF SecondPrices
    <2>7. CASE S = {}
      BY <2>2, <2>3, <2>7 DEF Run, Outcomes
    <2>8. CASE S # {}
      <3>1. PICK w \in Top(S, scores) :
               \E s \in SecondPrices(S, price, scores, Floor, w) :
                   ranked = [winner |-> w, price |-> Settlement(s, Floor)]
        BY <2>3, <2>8 DEF Outcomes
      <3>2. w \in S /\ w \in Top(S, p)
        BY <2>5 DEF Top
      <3>3. \E s \in SecondPrices(S, p, p, Floor, w) :
               ranked = [winner |-> w, price |-> Settlement(s, Floor)]
        BY <2>6, <3>1, <3>2
      <3>4. ranked \in Outcomes(S, p, p, Floor)
        BY <2>8, <3>2, <3>3 DEF Outcomes
      <3> QED
        BY <2>2, <3>4 DEF Run
    <2> QED
      BY <2>7, <2>8
  <1> QED
    BY <1>1, Always, PTL
------------------------------------------------------------------------------
(* The report. *)

Counts == [imps : Nat, clicks : Nat, convs : Nat, rev : Nat, latency : {0, 5}]

LEMMA CountsAreNaturals == \A n \in 0..MaxCount : n \in Nat
  BY Bounds

(* The two columns of the report are the variants' rows. *)
LEMMA ReportColumns ==
    ASSUME NEW g \in Groups
    PROVE  LET metrics == get_experiment_metrics(g)
           IN /\ Of(metrics, "treatment") =
                     IF "treatment" \in DOMAIN g THEN g["treatment"] ELSE NoMetrics
              /\ ControlOf(metrics) =
                     IF "control" \in DOMAIN g THEN g["control"]
                     ELSE IF "" \in DOMAIN g THEN g[""] ELSE NoMetrics
              /\ HasControl(metrics) <=> "control" \in DOMAIN g \/ "" \in DOMAIN g
              /\ Of(metrics, "treatment") \in Counts /\ ControlOf(metrics) \in Counts
  <1> DEFINE named(v) == IF v = "" THEN "unknown" ELSE v
             metrics == get_experiment_metrics(g)
  <1>1. PICK V \in SUBSET {"control", "treatment", ""} : g \in [V -> Metrics]
    BY GroupsAre
  <1>2. DOMAIN g = V
    BY <1>1
  <1>3. /\ DOMAIN metrics = {named(v) : v \in V}
        /\ \A n \in DOMAIN metrics : metrics[n] = g[CHOOSE v \in V : named(v) = n]
    BY <1>2 DEF get_experiment_metrics
  <1>4. \A v \in V : named(v) \in DOMAIN metrics /\ metrics[named(v)] = g[v]
    <2> SUFFICES ASSUME NEW v \in V
                 PROVE  named(v) \in DOMAIN metrics /\ metrics[named(v)] = g[v]
      OBVIOUS
    <2>1. \A w \in V : named(w) = named(v) => w = v
      BY <1>1
    <2> HIDE DEF named
    <2>2. (CHOOSE w \in V : named(w) = named(v)) = v
      BY <2>1
    <2> QED
      BY <1>3, <2>2
  <1>5. /\ "treatment" \in DOMAIN metrics <=> "treatment" \in V
        /\ "control" \in DOMAIN metrics <=> "control" \in V
        /\ "unknown" \in DOMAIN metrics <=> "" \in V
    <2>1. \A v \in V : v = "control" \/ v = "treatment" \/ v = ""
      BY <1>1
    <2> QED
      BY <1>3, <2>1
  <1>6. /\ named("treatment") = "treatment" /\ named("control") = "control"
        /\ named("") = "unknown"
    OBVIOUS
  <1> HIDE DEF named, metrics
  <1>7. NoMetrics \in Counts /\ \A v \in V : g[v] \in Counts
    <2>1. \A n \in 0..MaxCount : n \in Nat
      BY CountsAreNaturals
    <2>2. \A v \in V : g[v] \in Metrics
      BY <1>1
    <2> QED
      BY <2>1, <2>2 DEF Metrics, Counts, NoMetrics
  <1>8. Of(metrics, "treatment") = IF "treatment" \in V THEN g["treatment"] ELSE NoMetrics
    BY <1>4, <1>5, <1>6 DEF Of
  <1>9. ControlOf(metrics) = IF "control" \in V THEN g["control"]
                             ELSE IF "" \in V THEN g[""] ELSE NoMetrics
    BY <1>4, <1>5, <1>6 DEF Of, ControlOf
  <1>10. HasControl(metrics) <=> "control" \in V \/ "" \in V
    BY <1>5 DEF HasControl
  <1> QED
    BY <1>2, <1>7, <1>8, <1>9, <1>10 DEF metrics

(* The rate tn/td is greater than the rate cn/cd. *)
Exceeds(tn, td, cn, cd) == td > 0 /\ tn * cd > cn * td

(* A positive lift is a greater rate, per thousand or not. *)
LEMMA RateLift ==
    ASSUME NEW tn \in Nat, NEW td \in Nat, NEW cn \in Nat, NEW cd \in Nat,
           cn > 0, cd > 0, NEW k \in Nat, k >= 1
    PROVE  LET lift == _lift_pct(Times(k, _safe_ratio(tn, td)), Times(k, _safe_ratio(cn, cd)))
               plain == _lift_pct(_safe_ratio(tn, td), _safe_ratio(cn, cd))
           IN /\ Positive(lift) <=> Exceeds(tn, td, cn, cd)
              /\ Positive(plain) <=> Exceeds(tn, td, cn, cd)
  <1> DEFINE n == IF td = 0 THEN 0 ELSE tn
             d == IF td = 0 THEN 1 ELSE td
             x == n * cd
             y == cn * d
             X == (k * n) * cd
             Y == (k * cn) * d
  <1>1. /\ _safe_ratio(tn, td) = <<n, d>>
        /\ _safe_ratio(cn, cd) = <<cn, cd>>
    BY DEF _safe_ratio, Fraction
  <1>2. n \in Nat /\ d \in Nat /\ d >= 1
    OBVIOUS
  <1>3. x > y <=> td > 0 /\ tn * cd > cn * td
    <2>1. CASE td = 0
      <3>1. x = 0 /\ y = cn
        BY <2>1
      <3> QED
        BY <2>1, <3>1
    <2>2. CASE td # 0
      BY <2>2
    <2> QED
      BY <2>1, <2>2
  <1> HIDE DEF n, d
  <1>4. x \in Nat /\ y \in Nat
    BY <1>2, ProductType
  <1>5. X = k * x /\ Y = k * y
    BY <1>2, Z3
  <1>6. k * cn \in Nat /\ k * n \in Nat /\ k * cn > 0
    BY <1>2, Z3
  <1> HIDE DEF x, y
  <1>7. X \in Nat /\ Y \in Nat /\ (X > Y <=> x > y)
    BY <1>4, <1>5, Z3
  <1>8. Positive(_lift_pct(<<n, d>>, <<cn, cd>>)) <=> x > y
    <2>1. _lift_pct(<<n, d>>, <<cn, cd>>)[1] = 100 * (x - y)
      BY DEF _lift_pct, Fraction, x, y
    <2> QED
      BY <1>4, <2>1 DEF Positive
  <1>9. Positive(_lift_pct(<<k * n, d>>, <<k * cn, cd>>)) <=> X > Y
    <2>1. _lift_pct(<<k * n, d>>, <<k * cn, cd>>)[1] = 100 * (X - Y)
      <3>1. k * cn # 0
        BY <1>6
      <3> QED
        BY <3>1 DEF _lift_pct, Fraction
    <2> HIDE DEF X, Y
    <2> QED
      BY <1>7, <2>1 DEF Positive
  <1>10. /\ Times(k, _safe_ratio(tn, td)) = <<k * n, d>>
         /\ Times(k, _safe_ratio(cn, cd)) = <<k * cn, cd>>
    BY <1>1 DEF Times, Fraction
  <1> HIDE DEF X, Y
  <1> QED
    BY <1>1, <1>3, <1>7, <1>8, <1>9, <1>10 DEF Exceeds

(* What the verdict says of the lifts that are positive. *)
LEMMA VerdictIs ==
    ASSUME NEW lift
    PROVE  /\ _compute_verdict(lift) = "outperforms"
                 <=> Positive(lift["ecpm"]) /\ (Positive(lift["ctr"]) \/ Positive(lift["cvr"]))
           /\ _compute_verdict(lift) = "no difference"
                 <=> ~(\E r \in {"ctr", "cvr", "ecpm"} : Positive(lift[r]))
  <1> DEFINE P == {r \in {"ctr", "cvr", "ecpm"} : Positive(lift[r])}
             pos == Cardinality(P)
  <1>1. IsFiniteSet({"ctr", "cvr", "ecpm"})
    <2>1. IsFiniteSet({}) /\ IsFiniteSet({} \cup {"ctr"})
      BY FS_EmptySet, FS_AddElement
    <2>2. IsFiniteSet(({} \cup {"ctr"}) \cup {"cvr"})
      BY <2>1, FS_AddElement
    <2>3. IsFiniteSet((({} \cup {"ctr"}) \cup {"cvr"}) \cup {"ecpm"})
      BY <2>2, FS_AddElement
    <2>4. (({} \cup {"ctr"}) \cup {"cvr"}) \cup {"ecpm"} = {"ctr", "cvr", "ecpm"}
      OBVIOUS
    <2> QED
      BY <2>3, <2>4
  <1>2. P \subseteq {"ctr", "cvr", "ecpm"}
    OBVIOUS
  <1>3. /\ "ecpm" \in P <=> Positive(lift["ecpm"])
        /\ P \ {"ecpm"} # {} <=> Positive(lift["ctr"]) \/ Positive(lift["cvr"])
        /\ P # {} <=> \E r \in {"ctr", "cvr", "ecpm"} : Positive(lift[r])
    OBVIOUS
  <1>4. lift["ecpm"] = lift.ecpm
    OBVIOUS
  <1>5. _compute_verdict(lift) = CASE pos >= 2 /\ Positive(lift["ecpm"]) -> "outperforms"
                                   [] pos = 0 -> "no difference"
                                   [] OTHER -> "moderate improvement"
    BY <1>4 DEF _compute_verdict
  <1> HIDE DEF P
  <1>6. IsFiniteSet(P) /\ IsFiniteSet(P \ {"ecpm"})
    <2>1. IsFiniteSet(P)
      BY <1>1, <1>2, FS_Subset
    <2> QED
      BY <2>1, FS_RemoveElement
  <1>7. pos \in Nat /\ (P # {} <=> pos >= 1)
    BY <1>6, NotEmpty
  <1>8. /\ Cardinality(P \ {"ecpm"}) \in Nat
        /\ P \ {"ecpm"} # {} <=> Cardinality(P \ {"ecpm"}) >= 1
    BY <1>6, NotEmpty
  <1>9. "ecpm" \in P => Cardinality(P \ {"ecpm"}) = pos - 1
    BY <1>6, FS_RemoveElement
  <1> HIDE DEF pos
  <1>10. "ecpm" \in P => (pos >= 2 <=> P \ {"ecpm"} # {})
    BY <1>7, <1>8, <1>9
  <1> DEFINE two == pos >= 2
  <1> HIDE DEF two
  <1>11. CASE two /\ Positive(lift["ecpm"])
    <2>1. _compute_verdict(lift) = "outperforms"
      <3>1. pos # 0
        BY <1>7, <1>11 DEF two
      <3> QED
        BY <1>5, <1>11, <3>1, Zenon DEF two
    <2>2. Positive(lift["ecpm"]) /\ (Positive(lift["ctr"]) \/ Positive(lift["cvr"]))
      BY <1>3, <1>10, <1>11 DEF two
    <2> QED
      BY <2>1, <2>2, Zenon
  <1>12. CASE pos = 0
    <2>1. _compute_verdict(lift) = "no difference"
      <3>1. ~two
        BY <1>7, <1>12 DEF two
      <3> QED
        BY <1>5, <1>12, <3>1, Zenon DEF two
    <2>2. P = {}
      BY <1>7, <1>12
    <2> QED
      BY <1>3, <2>1, <2>2, Zenon
  <1>13. CASE ~(two /\ Positive(lift["ecpm"])) /\ pos # 0
    <2>1. _compute_verdict(lift) = "moderate improvement"
      BY <1>5, <1>13, Zenon DEF two
    <2>2. P # {} /\ ("ecpm" \in P => ~(P \ {"ecpm"} # {}))
      BY <1>3, <1>7, <1>10, <1>13 DEF two
    <2> QED
      BY <1>3, <2>1, <2>2, Zenon
  <1> QED
    BY <1>11, <1>12, <1>13

(* VerdictFollowsRates: for any counts, the verdict and the printed directions
   say which variant has the greater rates (ab_report.py:166-213, 222-229, 318-329). *)
THEOREM VerdictIsTheRates == AllSpec => []VerdictFollowsRates
  <1>1. AllInv => VerdictFollowsRates
    <2> SUFFICES ASSUME AllInv, report # NoReport PROVE VerdictFollowsRates
      BY DEF VerdictFollowsRates
    <2> DEFINE metrics == get_experiment_metrics(groups)
               t == Of(metrics, "treatment")
               c == ControlOf(metrics)
               lift == calculate_lift(c, t)
    <2>1. groups \in Groups /\ report = generate_report(groups)
      BY DEF AllInv, ReportInv
    <2>2. /\ t = IF "treatment" \in DOMAIN groups THEN groups["treatment"] ELSE NoMetrics
          /\ c = IF "control" \in DOMAIN groups THEN groups["control"]
                 ELSE IF "" \in DOMAIN groups THEN groups[""] ELSE NoMetrics
          /\ HasControl(metrics) <=> "control" \in DOMAIN groups \/ "" \in DOMAIN groups
          /\ t \in Counts /\ c \in Counts
      BY <2>1, ReportColumns
    <2>3. /\ report.treatment = t
          /\ HasControl(metrics) =>
                /\ report.verdict = _compute_verdict(lift)
                /\ report.lifts = <<_print_lift_line(lift.ctr), _print_lift_line(lift.cvr),
                                    _print_lift_line(lift.ecpm),
                                    _print_lift_line(Fraction(lift.latency_delta, 1))>>
      BY <2>1 DEF generate_report
    <2>4. c.imps > 0 => HasControl(metrics)
      <3>1. CASE HasControl(metrics)
        BY <3>1
      <3>2. CASE ~HasControl(metrics)
        <4>1. c = NoMetrics
          BY <2>2, <3>2
        <4> QED
          BY <4>1 DEF NoMetrics
      <3> QED
        BY <3>1, <3>2
    <2>5. ASSUME c.imps > 0, c.clicks > 0, c.convs > 0, c.rev > 0
          PROVE  /\ Positive(lift["ctr"]) <=> Beats(t, c, "clicks", "imps")
                 /\ Positive(lift["cvr"]) <=> Beats(t, c, "convs", "clicks")
                 /\ Positive(lift["ecpm"]) <=> Beats(t, c, "rev", "imps")
      <3> HIDE DEF t, c, metrics
      <3>1. t \in Counts /\ c \in Counts
        BY <2>2
      <3>2. /\ lift["ctr"] = _lift_pct(_safe_ratio(t.clicks, t.imps), _safe_ratio(c.clicks, c.imps))
            /\ lift["cvr"] = _lift_pct(_safe_ratio(t.convs, t.clicks), _safe_ratio(c.convs, c.clicks))
            /\ lift["ecpm"] = _lift_pct(Times(1000, _safe_ratio(t.rev, t.imps)),
                                        Times(1000, _safe_ratio(c.rev, c.imps)))
        BY DEF calculate_lift, ctr, cvr, ecpm
      <3>3. /\ t.imps \in Nat /\ t.clicks \in Nat /\ t.convs \in Nat /\ t.rev \in Nat
            /\ c.imps \in Nat /\ c.clicks \in Nat /\ c.convs \in Nat /\ c.rev \in Nat
        BY <3>1 DEF Counts
      <3> HIDE DEF lift
      <3>4. Positive(lift["ctr"]) <=> Exceeds(t.clicks, t.imps, c.clicks, c.imps)
        BY <2>5, <3>2, <3>3, RateLift
      <3>5. Positive(lift["cvr"]) <=> Exceeds(t.convs, t.clicks, c.convs, c.clicks)
        BY <2>5, <3>2, <3>3, RateLift
      <3>6. Positive(lift["ecpm"]) <=> Exceeds(t.rev, t.imps, c.rev, c.imps)
        BY <2>5, <3>2, <3>3, RateLift
      <3> QED
        BY <3>4, <3>5, <3>6 DEF Beats, Exceeds
    <2> DEFINE earns == Beats(t, c, "rev", "imps")
               wins == {n \in {"clicks", "convs"} :
                           Beats(t, c, n, IF n = "clicks" THEN "imps" ELSE "clicks")}
    <2>6. /\ "clicks" \in wins <=> Beats(t, c, "clicks", "imps")
          /\ "convs" \in wins <=> Beats(t, c, "convs", "clicks")
          /\ wins # {} <=> "clicks" \in wins \/ "convs" \in wins
      OBVIOUS
    <2> HIDE DEF t, c, metrics, wins, lift
    <2>7. ASSUME c.imps > 0, c.clicks > 0, c.convs > 0, c.rev > 0
          PROVE  /\ report.verdict = "outperforms" <=> earns /\ wins # {}
                 /\ report.verdict = "no difference" <=> ~earns /\ wins = {}
                 /\ \A i \in 1..3 : report.lifts[i] = "up" <=>
                        <<"clicks" \in wins, "convs" \in wins, earns>>[i]
      <3>1. /\ Positive(lift["ctr"]) <=> "clicks" \in wins
            /\ Positive(lift["cvr"]) <=> "convs" \in wins
            /\ Positive(lift["ecpm"]) <=> earns
        BY <2>5, <2>6, <2>7
      <3> HIDE DEF earns
      <3>2. HasControl(metrics)
        BY <2>4, <2>7
      <3>3. /\ report.verdict = "outperforms" <=> earns /\ wins # {}
            /\ report.verdict = "no difference" <=> ~earns /\ wins = {}
        BY <2>3, <2>6, <3>1, <3>2, VerdictIs
      <3>4. /\ report.lifts[1] = _print_lift_line(lift["ctr"])
            /\ report.lifts[2] = _print_lift_line(lift["cvr"])
            /\ report.lifts[3] = _print_lift_line(lift["ecpm"])
        BY <2>3, <3>2
      <3>5. \A x : _print_lift_line(x) = "up" <=> Positive(x)
        BY DEF _print_lift_line
      <3>6. /\ report.lifts[1] = "up" <=> "clicks" \in wins
            /\ report.lifts[2] = "up" <=> "convs" \in wins
            /\ report.lifts[3] = "up" <=> earns
        BY <3>1, <3>4, <3>5
      <3>7. /\ report.lifts[1] = "up" <=> <<"clicks" \in wins, "convs" \in wins, earns>>[1]
            /\ report.lifts[2] = "up" <=> <<"clicks" \in wins, "convs" \in wins, earns>>[2]
            /\ report.lifts[3] = "up" <=> <<"clicks" \in wins, "convs" \in wins, earns>>[3]
        BY <3>6
      <3>8. \A i \in 1..3 : report.lifts[i] = "up" <=>
                 <<"clicks" \in wins, "convs" \in wins, earns>>[i]
        <4>1. \A i \in 1..3 : i = 1 \/ i = 2 \/ i = 3
          OBVIOUS
        <4> QED
          BY <3>7, <4>1, Zenon
      <3> QED
        BY <3>3, <3>8
    <2> QED
      BY <2>2, <2>3, <2>7 DEF VerdictFollowsRates, wins
  <1> QED
    BY <1>1, Always, PTL

------------------------------------------------------------------------------
(* The bandit's scan. *)

(* Every non-empty set of naturals has a least member. *)
LEMMA LeastExists ==
    ASSUME NEW S \in SUBSET Nat, S # {}
    PROVE  \E e \in S : \A f \in S : e <= f
  <1> DEFINE R == {ss \in Nat \X Nat : ss[1] < ss[2]}
  <1>1. IsWellFoundedOn(R, Nat)
    BY NatLessThanWellFounded DEF OpToRel
  <1>2. PICK e \in S : \A f \in S : ~(<<f, e>> \in R)
    <2> HIDE DEF R
    <2> QED
      BY <1>1, WFMin
  <1>3. \A f \in S : e \in Nat /\ f \in Nat /\ ~(f < e)
    BY <1>2
  <1> QED
    BY <1>3

(* f[i] is the arm the scan holds best after arm i, of n arms. *)
Scan(f, st, n) ==
    f = [i \in 1..n |-> IF i = 1 THEN 1
                        ELSE IF st[i].mean > st[f[i - 1]].mean THEN i ELSE f[i - 1]]

LEMMA ScanExists ==
    ASSUME NEW st, NEW n \in Nat
    PROVE  \E f : Scan(f, st, n)
  <1> DEFINE S == {k \in Nat : ~\E f : Scan(f, st, k)}
  <1> SUFFICES ASSUME S # {} PROVE FALSE
    OBVIOUS
  <1>1. PICK e \in S : \A k \in S : e <= k
    <2> HIDE DEF S
    <2>1. S \in SUBSET Nat
      BY DEF S
    <2> QED
      BY <2>1, LeastExists
  <1>2. e \in Nat /\ ~\E f : Scan(f, st, e)
    OBVIOUS
  <1>3. CASE e = 0
    <2>1. Scan([i \in 1..0 |-> 1], st, 0)
      BY DEF Scan
    <2> QED
      BY <1>2, <1>3, <2>1
  <1>4. CASE e # 0
    <2> DEFINE d == e - 1
    <2>1. d \in Nat /\ e = d + 1 /\ ~(e <= d)
      BY <1>2, <1>4
    <2>2. PICK f : Scan(f, st, d)
      BY <1>1, <2>1
    <2> DEFINE last == IF e = 1 THEN 1 ELSE IF st[e].mean > st[f[d]].mean THEN e ELSE f[d]
               g == [i \in 1..e |-> IF i = e THEN last ELSE f[i]]
    <2> HIDE DEF d, S
    <2>3. \A i \in 1..e : i - 1 \in Int /\ (i # e => i \in 1..d) /\ (i # 1 => i - 1 \in 1..d) /\ i - 1 # e
      BY <1>2, <2>1
    <2>4. \A i \in 1..d : i \in 1..e /\ g[i] = f[i]
      BY <1>2, <2>1
    <2> HIDE DEF g
    <2>5. \A i \in 1..e : g[i] = IF i = 1 THEN 1
                              ELSE IF st[i].mean > st[g[i - 1]].mean THEN i ELSE g[i - 1]
      <3> SUFFICES ASSUME NEW i \in 1..e
                   PROVE  g[i] = IF i = 1 THEN 1
                                 ELSE IF st[i].mean > st[g[i - 1]].mean THEN i ELSE g[i - 1]
        OBVIOUS
      <3>1. i # 1 => g[i - 1] = f[i - 1]
        BY <2>3, <2>4
      <3>2. CASE i = e
        <4>1. g[i] = last /\ i - 1 = d
          BY <1>2, <2>1, <3>2 DEF g
        <4> QED
          BY <3>1, <3>2, <4>1
      <3>3. CASE i # e
        <4>1. i \in 1..d /\ g[i] = f[i]
          BY <2>3, <2>4, <3>3
        <4>2. f[i] = IF i = 1 THEN 1
                     ELSE IF st[i].mean > st[f[i - 1]].mean THEN i ELSE f[i - 1]
          BY <2>2, <4>1 DEF Scan
        <4> QED
          BY <3>1, <4>1, <4>2
      <3> QED
        BY <3>2, <3>3
    <2>6. g = [i \in 1..e |-> g[i]]
      BY DEF g
    <2>7. Scan(g, st, e)
      BY <2>5, <2>6 DEF Scan
    <2> QED
      BY <1>2, <2>7
  <1> QED
    BY <1>3, <1>4

(* After arm i the scan holds the first of the best of the arms up to i. *)
LEMMA ScanIsBest ==
    ASSUME NEW n \in Nat, NEW st, \A i \in 1..n : st[i].mean \in Nat,
           NEW f, Scan(f, st, n), NEW i \in 1..n
    PROVE  /\ f[i] \in 1..i
           /\ \A j \in 1..i : st[j].mean <= st[f[i]].mean
           /\ \A j \in 1..(f[i] - 1) : st[j].mean < st[f[i]].mean
  <1> DEFINE Best(k) == /\ f[k] \in 1..k
                        /\ \A j \in 1..k : st[j].mean <= st[f[k]].mean
                        /\ \A j \in 1..(f[k] - 1) : st[j].mean < st[f[k]].mean
             S == {k \in 1..n : ~Best(k)}
  <1> SUFFICES ASSUME S # {} PROVE FALSE
    OBVIOUS
  <1>1. PICK e \in S : \A k \in S : e <= k
    <2> HIDE DEF S
    <2>1. S \in SUBSET Nat
      BY DEF S
    <2> QED
      BY <2>1, LeastExists
  <1>2. e \in 1..n /\ ~Best(e)
    OBVIOUS
  <1>3. f[e] = IF e = 1 THEN 1
               ELSE IF st[e].mean > st[f[e - 1]].mean THEN e ELSE f[e - 1]
    BY <1>2 DEF Scan
  <1>4. CASE e = 1
    BY <1>2, <1>3, <1>4
  <1>5. CASE e # 1
    <2> DEFINE d == e - 1
    <2>1. d \in 1..n /\ e = d + 1 /\ ~(e <= d)
      BY <1>2, <1>5
    <2>2. Best(d)
      BY <1>1, <2>1
    <2>3. f[e] = IF st[e].mean > st[f[d]].mean THEN e ELSE f[d]
      BY <1>3, <1>5
    <2> HIDE DEF d, S
    <2>4. f[d] \in 1..n /\ f[d] \in 1..e /\ st[f[d]].mean \in Nat /\ st[e].mean \in Nat
      BY <1>2, <2>1, <2>2
    <2>5. \A j \in 1..e : j = e \/ j \in 1..d
      BY <1>2, <2>1
    <2>6. \A j \in 1..d : st[j].mean \in Nat /\ st[j].mean <= st[f[d]].mean
      BY <1>2, <2>1, <2>2
    <2>7. \A j \in 1..(e - 1) : j \in 1..d
      BY <1>2, <2>1
    <2>8. CASE st[e].mean > st[f[d]].mean
      <3>1. f[e] = e
        BY <2>3, <2>8
      <3>2. \A j \in 1..d : st[j].mean < st[e].mean
        BY <2>4, <2>6, <2>8
      <3> QED
        BY <1>2, <2>4, <2>5, <2>7, <3>1, <3>2
    <2>9. CASE ~(st[e].mean > st[f[d]].mean)
      <3>1. f[e] = f[d]
        BY <2>3, <2>9
      <3>2. st[e].mean <= st[f[d]].mean
        BY <2>4, <2>9
      <3> QED
        BY <1>2, <2>2, <2>4, <2>5, <2>6, <3>1, <3>2
    <2> QED
      BY <2>8, <2>9
  <1> QED
    BY <1>4, <1>5

(* The arm the scan ends with is the first of the best arms. *)
LEMMA GreedyIsBest ==
    ASSUME NEW st \in [DOMAIN Arms -> [count : Nat, mean : Nat]]
    PROVE  /\ Greedy(st) \in DOMAIN Arms
           /\ \A j \in DOMAIN Arms : st[j].mean <= st[Greedy(st)].mean
           /\ \A j \in 1..(Greedy(st) - 1) :
                 j \in DOMAIN Arms /\ st[j].mean < st[Greedy(st)].mean
  <1> DEFINE n == Len(Arms)
             scan == CHOOSE f : Scan(f, st, n)
  <1>1. DOMAIN Arms = 1..n /\ n \in Nat /\ n \in 1..n
    BY ArmsNotEmpty
  <1>2. Greedy(st) = scan[n]
    BY <1>1 DEF Greedy, Scan
  <1>3. Scan(scan, st, n)
    <2> HIDE DEF n
    <2>1. \E f : Scan(f, st, n)
      BY <1>1, ScanExists
    <2> QED
      BY <2>1
  <1>4. \A i \in 1..n : st[i].mean \in Nat
    BY <1>1
  <1> HIDE DEF n, scan
  <1>5. /\ scan[n] \in 1..n
        /\ \A j \in 1..n : st[j].mean <= st[scan[n]].mean
        /\ \A j \in 1..(scan[n] - 1) : st[j].mean < st[scan[n]].mean
    BY <1>1, <1>3, <1>4, ScanIsBest
  <1>6. \A j \in 1..(scan[n] - 1) : j \in 1..n
    BY <1>1, <1>5
  <1> QED
    BY <1>1, <1>2, <1>5, <1>6

(* Averages compare as the means do. *)
LEMMA WorseIs ==
    ASSUME AllInv, stats # NoStats, NEW i \in DOMAIN Arms, NEW j \in DOMAIN Arms
    PROVE  Worse(i, j) <=> stats[i].mean < stats[j].mean
  <1> DEFINE n(k) == IF plays[k] = 0 THEN 1 ELSE plays[k]
  <1>1. \A k \in DOMAIN Arms : /\ n(k) \in Nat /\ n(k) >= 1
                              /\ stats[k].mean \in Nat
                              /\ sums[k] = stats[k].mean * n(k)
    <2> SUFFICES ASSUME NEW k \in DOMAIN Arms
                 PROVE  /\ n(k) \in Nat /\ n(k) >= 1
                        /\ stats[k].mean \in Nat
                        /\ sums[k] = stats[k].mean * n(k)
      OBVIOUS
    <2>1. /\ plays[k] \in Nat /\ stats[k].mean \in Nat
          /\ sums[k] = stats[k].mean * plays[k]
          /\ plays[k] = 0 => stats[k].mean = 0
      BY DEF AllInv, BanditInv, ArmInv
    <2>2. 0 * 0 = 0 /\ 0 * 1 = 0
      OBVIOUS
    <2> QED
      BY <2>1, <2>2
  <1>2. Worse(i, j) <=> sums[i] * n(j) < sums[j] * n(i)
    BY DEF Worse
  <1> HIDE DEF n
  <1>3. ASSUME NEW a \in Nat, NEW b \in Nat, NEW k \in Nat, NEW l \in Nat, k >= 1, l >= 1
        PROVE  (a * k) * l < (b * l) * k <=> a < b
    <2> DEFINE p == k * l
    <2>1. p \in Nat /\ p >= 1
      BY <1>3, Z3
    <2>2. (a * k) * l = a * p /\ (b * l) * k = b * p
      BY <1>3, Z3
    <2> HIDE DEF p
    <2>3. a * p < b * p <=> a < b
      BY <1>3, <2>1, Z3
    <2> QED
      BY <2>2, <2>3
  <1> QED
    BY <1>1, <1>2, <1>3

(* GreedyArmHasBestAverage: whatever was played and earned, the arm exploited
   is the first of those with the best average (mab.py:61-77, 79-98). *)
THEOREM GreedyIsGreedy == AllSpec => []GreedyArmHasBestAverage
  <1>1. AllInv => GreedyArmHasBestAverage
    <2> SUFFICES ASSUME AllInv, stats # NoStats PROVE GreedyArmHasBestAverage
      BY DEF GreedyArmHasBestAverage
    <2> DEFINE best == Greedy(stats)
    <2>1. stats \in [DOMAIN Arms -> [count : Nat, mean : Nat]]
      BY DEF AllInv, BanditInv
    <2>2. /\ best \in DOMAIN Arms
          /\ \A j \in DOMAIN Arms : stats[j].mean <= stats[best].mean
          /\ \A j \in 1..(best - 1) : j \in DOMAIN Arms /\ stats[j].mean < stats[best].mean
      BY <2>1, GreedyIsBest
    <2> HIDE DEF best
    <2>3. \A i \in DOMAIN Arms : ~Worse(best, i)
      BY <2>1, <2>2, WorseIs
    <2>4. \A i \in 1..(best - 1) : Worse(i, best)
      BY <2>1, <2>2, WorseIs
    <2> QED
      BY <2>3, <2>4 DEF GreedyArmHasBestAverage, best
  <1> QED
    BY <1>1, Always, PTL
=============================================================================
