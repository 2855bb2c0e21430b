---------------------------- MODULE BiddingAgent -----------------------------
(***************************************************************************)
(* The hourly run of agents/bidding_agent.py over the budgets the bid path *)
(* checks and spends.  For each campaign the agent reads the budget, asks  *)
(* an LLM to explain what it is about to do, and only then writes.         *)
(*                                                                         *)
(* The container starts a new process for every run, so the bandit it      *)
(* chooses multipliers with has never seen a reward when it is asked: any  *)
(* arm may come out.                                                       *)
(***************************************************************************)
EXTENDS RedisFilter

CONSTANTS
    Arm,            \* DEFAULT_ARMS
    NoCampaign      \* no campaign is being looked at

ASSUME BiddingAssumption == FilterConstants /\ NoCampaign \notin Campaign

VARIABLES
    multiplier,     \* the texts under bid_multiplier:{campaign}, at most one each
    at,             \* where the run is
    todo,           \* campaigns of the answer that are still to come
    campaign,       \* campaign_id
    chosen,         \* the arm select_arm returned
    new_budget      \* what the budget is about to become

agentVars == <<multiplier, at, todo, campaign, chosen, new_budget>>
vars == <<filterVars, agentVars>>

TypeOK ==
    /\ FilterTypeOK
    /\ multiplier \in [Campaign -> SUBSET Arm]
    /\ at \in {"off", "head", "explain", "bid", "budget"}
    /\ todo \subseteq Campaign
    /\ campaign \in Campaign \cup {NoCampaign}
    /\ chosen \in SUBSET Arm
    /\ new_budget \in Amount

(* The query names no format.  Unless the server's default has a line of
   column names, the first campaign is taken for one, no row has a
   campaign_id, and every row is skipped. *)
_query_clickhouse ==
    /\ at = "off"
    /\ at' = "head"
    /\ \E S \in SUBSET Campaign, named \in BOOLEAN : todo' = IF named THEN S ELSE {}
    /\ UNCHANGED <<filterVars, multiplier, campaign, chosen, new_budget>>

(* Where _calculate_roas and the target put a campaign; no cost is no roas. *)
Roas == {"none", "below", "met", "above"}

(* Ten per cent more or less, of which only the direction is kept. *)
_adjust_budget(current, roas) ==
    CASE current <= 0 \/ roas \in {"none", "met"} -> {current}
      [] current > 0 /\ roas = "above" -> current..MaxAmount
      [] current > 0 /\ roas = "below" -> 1..current

(* select_arm, update and _get_current_budget, where no text is 0.0. *)
ReadBudget(c) ==
    /\ at = "head"
    /\ c \in todo
    /\ todo' = todo \ {c}
    /\ campaign' = c
    /\ \E a \in Arm : chosen' = {a}
    /\ \E roas \in Roas : new_budget' \in _adjust_budget(budget[c].amount, roas)
    /\ at' = "explain"
    /\ UNCHANGED <<filterVars, multiplier>>

(* The LLM answers, or a fallback does. *)
_explain_decision ==
    /\ at = "explain"
    /\ at' = "bid"
    /\ UNCHANGED <<filterVars, multiplier, todo, campaign, chosen, new_budget>>

_update_redis_bid ==
    /\ at = "bid"
    /\ multiplier' = [multiplier EXCEPT ![campaign] = chosen]
    /\ at' = "budget"
    /\ UNCHANGED <<filterVars, todo, campaign, chosen, new_budget>>

Forget ==
    /\ campaign' = NoCampaign
    /\ chosen' = {}
    /\ new_budget' = 0

\* Mutant: the budget is written as the exchange reads it.
MutantWriteWhole ==
    /\ at = "budget"
    /\ budget' = [budget EXCEPT ![campaign] = Whole(new_budget)]
    /\ at' = "head"
    /\ Forget
    /\ UNCHANGED <<frequency, multiplier, todo>>

\* Mutant: a sum above any budget is written.
MutantWriteMore ==
    /\ at = "budget"
    /\ budget' = [budget EXCEPT ![campaign] = Decimal(new_budget + MaxAmount)]
    /\ at' = "head"
    /\ Forget
    /\ UNCHANGED <<frequency, multiplier, todo>>

(* SET budget to str(float): "90.0", whatever is under the key by now. *)
_update_redis_budget ==
    /\ at = "budget"
    /\ budget' = [budget EXCEPT ![campaign] = Decimal(new_budget)]
    /\ at' = "head"
    /\ Forget
    /\ UNCHANGED <<frequency, multiplier, todo>>

(* The campaigns are done; or Redis, or an answer of the LLM without text,
   raises, and the rest of them is dropped. *)
RunEnds ==
    /\ at # "off"
    /\ at' = "off"
    /\ todo' = {}
    /\ Forget
    /\ UNCHANGED <<filterVars, multiplier>>

AgentStep ==
    \/ _query_clickhouse \/ _explain_decision \/ _update_redis_bid \/ _update_redis_budget
    \/ RunEnds
    \/ \E c \in Campaign : ReadBudget(c)

Init ==
    /\ FilterInit
    /\ multiplier = [c \in Campaign |-> {}]
    /\ at = "off"
    /\ todo = {}
    /\ campaign = NoCampaign
    /\ chosen = {}
    /\ new_budget = 0

Next ==
    \/ Filtering /\ UNCHANGED agentVars
    \/ AgentStep

Spec == Init /\ [][Next]_vars

FairSpec == Spec /\ FilterFairness

------------------------------------------------------------------------------
(* A campaign whose budget is refused stays refused until an operator gives it
   a budget: in particular a run that read the budget while there was some,
   and writes after others have spent it, revives nothing -- not because the
   agent looks again, but because the exchange cannot read what it writes. *)
RefusedStaysRefused ==
    [][\A c \in Campaign :
          ~CheckBudget(budget[c]) /\ CheckBudget(budget'[c]) =>
              /\ \E n \in 1..MaxAmount : SetBudget(c, n)
              /\ UNCHANGED agentVars]_vars
=============================================================================
