------------------------------- MODULE Agent -------------------------------
(***************************************************************************)
(* The decision rule of app/agents: given a wallet balance, a bill and the *)
(* number of whole days until its due date, pay it, schedule it or hold    *)
(* it.  make_decision_node and run_agent only carry the arguments of       *)
(* decide() in and out of a one-node graph, so the rule is the agent.      *)
(***************************************************************************)
EXTENDS Integers

\* The cutoff of nodes.py: a bill due in at most this many days is paid.
CutoffDays == 3

Decisions == {"pay_now", "schedule", "hold"}

Decide(userBalance, billAmount, fee, daysUntilDue) ==
  CASE userBalance < billAmount + fee -> "hold"
    [] userBalance >= billAmount + fee /\ daysUntilDue <= CutoffDays -> "pay_now"
    [] userBalance >= billAmount + fee /\ daysUntilDue > CutoffDays -> "schedule"
=============================================================================
