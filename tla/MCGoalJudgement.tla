-------------------------- MODULE MCGoalJudgement --------------------------
(***************************************************************************)
(* GoalJudgement for TLC: the ways a run can end that the judgement tells  *)
(* apart, under one plan or another.                                       *)
(***************************************************************************)
EXTENDS GoalJudgement

Run(failure, test, failing, gate, message, plan) ==
  [ failure |-> failure, test |-> test, failing |-> failing, gate |-> gate,
    message |-> message, plan |-> plan ]

MCOutcomes ==
  { Run("none", "passed", {}, "approved", "", "p1"),
    Run("none", "passed", {}, "rejected", "", "p1"),
    Run("none", "failed", {"t1"}, "rejected", "", "p1"),
    Run("none", "failed", {"t2"}, "rejected", "", "p2"),
    Run("none", "skipped", {}, "approved", "", "p1"),
    Run("none", "timeout", {}, "rejected", "", "p2"),
    Run("coding_failed", "none", {}, "none", "m1", "p1"),
    Run("coding_failed", "none", {}, "none", "m2", "p1"),
    Run("raised", "none", {}, "none", "m3", "") }

MCPolicies ==
  {[repair |-> TRUE, replan |-> TRUE, human |-> TRUE],
   [repair |-> FALSE, replan |-> TRUE, human |-> FALSE]}

MCLimits ==
  [ iterations |-> 3, replans |-> 1, repairs |-> 1, agent_calls |-> 50,
    llm_calls |-> 9, test_runs |-> 3 ]
=============================================================================
