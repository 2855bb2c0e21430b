---------------------------------- MODULE MAB ----------------------------------
(***************************************************************************)
(* The epsilon-greedy bandit (src/agents/mab.py), for one campaign.  The   *)
(* statistics of an arm are a count and the running mean of its rewards;   *)
(* rewards are scaled so that the mean of the few an arm earns is an integer. *)
(***************************************************************************)
EXTENDS Integers, Sequences

CONSTANT Arms           \* the bid multipliers in percent, in the order of the scan

ASSUME MABAssumption ==
    /\ Arms \in Seq(Nat) /\ Len(Arms) > 0
    /\ \A i, j \in DOMAIN Arms : Arms[i] = Arms[j] => i = j

(* No arm of a new campaign has been rewarded. *)
_init_campaign == [i \in DOMAIN Arms |-> [count |-> 0, mean |-> 0]]

(* Exploitation: the arms are scanned in order for a greater mean; best[i] *)
(* is the best arm after arm i.                                            *)
Greedy(stats) ==
    LET best[i \in DOMAIN Arms] ==
            IF i = 1 THEN 1
            ELSE IF stats[i].mean > stats[best[i - 1]].mean THEN i ELSE best[i - 1]
    IN best[Len(Arms)]

(* What select_arm may return: any arm while exploring, the greedy one     *)
(* otherwise.                                                              *)
select_arm(stats, explore) ==
    IF explore THEN DOMAIN Arms ELSE {Greedy(stats)}

MutantUpdate(stats, arm, reward) ==
    [stats EXCEPT ![arm] =
        [count |-> @.count + 1, mean |-> (@.mean + reward) \div 2]]

(* The running mean moves towards the reward by one part in count + 1.     *)
update(stats, arm, reward) ==
    [stats EXCEPT ![arm] =
        [count |-> @.count + 1,
         mean |-> @.mean + (reward - @.mean) \div (@.count + 1)]]

==============================================================================
