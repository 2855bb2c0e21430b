----------------------------- MODULE MCAlgorithms -----------------------------
(***************************************************************************)
(* The pure computations of the system, each over every small input: the   *)
(* auctions of MCAuction, the A/B report and the bandit.  A behaviour      *)
(* starts in one of the three and stays there.                             *)
(***************************************************************************)
EXTENDS MCAuction, ABReport, MAB

CONSTANTS Reward,       \* rewards a play may earn
          MaxPlays,     \* bound on the plays of an arm
          MaxCount,     \* bound on the counts in a variant's rows
          VariantSets   \* the sets of variants that may have rows

(* The rewards can be divided among any number of plays.                   *)
ASSUME AlgorithmsAssumption ==
    /\ MaxPlays \in Nat /\ MaxCount \in Nat
    /\ Reward \subseteq Nat
    /\ \A r \in Reward, k \in 1..MaxPlays : \E q \in 0..r : r = k * q
    /\ VariantSets \subseteq SUBSET {"control", "treatment", ""}

VARIABLES groups,       \* the report's input: metrics by variant
          report,       \* the report on them
          stats,        \* the bandit's statistics
          plays, sums   \* history: the plays of each arm, what they earned

reportVars == <<groups, report>>
banditVars == <<stats, plays, sums>>
allVars == <<vars, reportVars, banditVars>>

MCArms == <<50, 100, 200>>

MCVariantSets == {V \in SUBSET {"control", "treatment", ""} : Cardinality(V) < 3}

NoGroups == [none |-> 0]
NoReport == [verdict |-> "none"]
NoStats == <<>>
NoPlays == [i \in DOMAIN Arms |-> 0]

Metrics == [imps : 0..MaxCount, clicks : 0..MaxCount, convs : 0..MaxCount,
            rev : 0..MaxCount, latency : {5}]
Groups == UNION {[V -> Metrics] : V \in VariantSets}

AuctionIdle == /\ price = [b \in Bid |-> 0] /\ scores = <<>>
               /\ deviation = <<CHOOSE b \in Bid : TRUE, 0>>
               /\ ranked = NotRun /\ honest = NotRun /\ deviated = NotRun
ReportIdle == groups = NoGroups /\ report = NoReport
BanditIdle == stats = NoStats /\ plays = NoPlays /\ sums = NoPlays

AllInit == \/ Init /\ ReportIdle /\ BanditIdle
           \/ AuctionIdle /\ groups \in Groups /\ report = NoReport /\ BanditIdle
           \/ /\ AuctionIdle /\ ReportIdle
              /\ stats = _init_campaign /\ plays = NoPlays /\ sums = NoPlays

HoldAuctions == /\ groups = NoGroups /\ stats = NoStats
                /\ Hold
                /\ UNCHANGED <<reportVars, banditVars>>

WriteReport == /\ groups # NoGroups /\ report = NoReport
               /\ report' = generate_report(groups)
               /\ UNCHANGED <<vars, groups, banditVars>>

Play == /\ stats # NoStats
        /\ \E explore \in BOOLEAN, reward \in Reward :
             \E arm \in select_arm(stats, explore) :
                /\ plays[arm] < MaxPlays
                /\ stats' = update(stats, arm, reward)
                /\ plays' = [plays EXCEPT ![arm] = @ + 1]
                /\ sums' = [sums EXCEPT ![arm] = @ + reward]
        /\ UNCHANGED <<vars, reportVars>>

AllNext == HoldAuctions \/ WriteReport \/ Play

AllSpec == AllInit /\ [][AllNext]_allVars

------------------------------------------------------------------------------
(* Treatment t has a greater rate of num per den than control c.           *)
Beats(t, c, num, den) == t[den] > 0 /\ t[num] * c[den] > c[num] * t[den]

(* The verdict follows the rates of the two variants and not their traffic *)
(* share: against a control with events of every kind, the treatment       *)
(* "outperforms" exactly when it earns more per impression and wins one of *)
(* the two other rates as well, and there is "no difference" exactly when  *)
(* it wins none.  Rows without a variant stand in for a missing control.   *)
(* (ab_report.py:166-213, 222-229, 318-329)                                *)
VerdictFollowsRates ==
    report # NoReport =>
        LET t == report.treatment
            c == IF "control" \in DOMAIN groups THEN groups["control"]
                 ELSE IF "" \in DOMAIN groups THEN groups[""] ELSE NoMetrics
            earns == Beats(t, c, "rev", "imps")
            wins == {n \in {"clicks", "convs"} :
                        Beats(t, c, n, IF n = "clicks" THEN "imps" ELSE "clicks")}
        IN c.imps > 0 /\ c.clicks > 0 /\ c.convs > 0 /\ c.rev > 0 =>
               /\ report.verdict = "outperforms" <=> earns /\ wins # {}
               /\ report.verdict = "no difference" <=> ~earns /\ wins = {}
               /\ \A i \in 1..3 : report.lifts[i] = "up" <=>
                      <<"clicks" \in wins, "convs" \in wins, earns>>[i]

(* Arm i has a smaller average than arm j; without a play it is zero.      *)
Worse(i, j) ==
    LET n(k) == IF plays[k] = 0 THEN 1 ELSE plays[k]
    IN sums[i] * n(j) < sums[j] * n(i)

(* The arm a campaign exploits is the first whose rewards have the greatest*)
(* average, an arm never played counting as zero: updating the mean in     *)
(* place loses nothing and the scan breaks ties towards the first arm.     *)
(* (mab.py:61-77, 79-98)                                                   *)
GreedyArmHasBestAverage ==
    stats # NoStats =>
        LET best == Greedy(stats)
        IN /\ \A i \in DOMAIN Arms : ~Worse(best, i)
           /\ \A i \in 1..(best - 1) : Worse(i, best)

==============================================================================
