---------------------------- MODULE RunReasoning ----------------------------
(***************************************************************************)
(* CollaborativeReasoningEngine (app/services/reasoning_service.py): what  *)
(* it concludes of a finished run from the run's record and its handoffs.  *)
(*                                                                         *)
(* A record r has the fields plan, patch, tests, failures, repair, report  *)
(* and gate.  Evidence of the code graph and of repository memory is left  *)
(* out: the analyzer is made without a graph and answers with nothing, and *)
(* nobody gives the service a memory.                                      *)
(***************************************************************************)
EXTENDS AgentHandoffs, Integers, Folds

(* Authority and confidence of a piece of evidence, in hundredths.         *)
Authority ==
  [ patch |-> 100, test_result |-> 95, quality_gate |-> 90, failure |-> 88,
    review_finding |-> 60, repair |-> 55, plan |-> 50, agent_claim |-> 10 ]
Weight ==
  [ patch |-> 100, test_result |-> 100, quality_gate |-> 100, failure |-> 100,
    review_finding |-> 80, repair |-> 90, plan |-> 60, agent_claim |-> 40 ]
Deterministic == {"patch", "test_result", "quality_gate", "failure"}

(* collect_evidence, the kinds found under one agent.                      *)
CollectEvidence(r) ==
  [ coding   |-> IF r.patch # "none" THEN <<"patch">> ELSE <<>>,
    testing  |-> (IF r.tests # "none" THEN <<"test_result">> ELSE <<>>)
                   \o (IF r.failures THEN <<"failure">> ELSE <<>>),
    repair   |-> IF r.repair # "none" THEN <<"repair">> ELSE <<>>,
    reviewer |-> IF r.report # "none" THEN <<"review_finding">> ELSE <<>>,
    gate     |-> IF r.gate # "none" THEN <<"quality_gate">> ELSE <<>> ]

(* compute_confidence, in thousandths: the mean weight by authority, and   *)
(* below one half when nothing deterministic is among the evidence.        *)
Total(refs, f(_)) == FoldLeft(LAMBDA acc, e : acc + f(e), 0, refs)
ComputeConfidence(refs) ==
  IF refs = <<>> THEN 0
  ELSE LET value == (10 * Total(refs, LAMBDA e : Authority[e] * Weight[e]))
                      \div Total(refs, LAMBDA e : Authority[e])
           claimsOnly == \A i \in DOMAIN refs : refs[i] \notin Deterministic
       IN IF claimsOnly /\ value > 490 THEN 490 ELSE value
-----------------------------------------------------------------------------
(* detect_contradictions: an agent that works on the code claims success   *)
(* and the tests failed; anybody claims to be ready and the gate rejected. *)
ClaimVsTest(list, r) ==
  {<<"claim_vs_test", From(list[i])>> : i \in {j \in DOMAIN list :
     /\ From(list[j]) \in {"coding", "testing", "repair"}
     /\ list[j].words \intersect {"pass", "done"} # {}
     /\ r.tests \notin {"none", "passed"}}}
ClaimVsGate(list, r) ==
  {<<"claim_vs_gate", From(list[i])>> : i \in {j \in DOMAIN list :
     /\ list[j].words \intersect {"ready", "done"} # {}
     /\ r.gate = "rejected"}}
DetectContradictions(list, r) == ClaimVsTest(list, r) \union ClaimVsGate(list, r)

(* Descriptions name the kind and the agent: those the engine already      *)
(* holds are not stored again.                                             *)
NewContradictions(held, found) == found \ held
-----------------------------------------------------------------------------
(* build_consensus, one record for each topic with evidence.               *)
Consensus(topic, decision, supporting, conflicting, basis) ==
  [ topic |-> topic, decision |-> decision, supporting |-> supporting,
    conflicting |-> conflicting, confidence |-> ComputeConfidence(basis) ]

TestConsensus(r, e) ==
  LET passes == IF r.tests = "passed" THEN <<"test_result">> ELSE <<>>
      supporting == passes \o e.repair
      conflicting == IF supporting = <<>> \/ r.tests # "passed"
                     THEN e.testing ELSE IF r.failures THEN <<"failure">> ELSE <<>>
  IN Consensus("test_status", IF r.tests = "passed" THEN "tests_passed" ELSE "tests_failing",
               supporting, conflicting,
               IF supporting # <<>> THEN supporting ELSE conflicting)

PatchConsensus(r, e) ==
  LET conflicting == IF r.failures THEN <<"failure">> ELSE <<>>
  IN Consensus("patch_complete",
               IF r.failures THEN "patch_conflicts_with_tests" ELSE "patch_consistent",
               e.coding, conflicting, e.coding \o conflicting)

GateConsensus(r, e) ==
  Consensus("quality_gate", r.gate, e.gate, e.reviewer, e.gate)

BuildConsensus(r) ==
  LET e == CollectEvidence(r)
  IN (IF e.testing # <<>> THEN {TestConsensus(r, e)} ELSE {})
       \union (IF e.coding # <<>> THEN {PatchConsensus(r, e)} ELSE {})
       \union (IF e.gate # <<>> THEN {GateConsensus(r, e)} ELSE {})

(* Topics the engine already holds are not stored again: the earlier       *)
(* record stays.                                                           *)
NewConsensus(held, built) ==
  {c \in built : \A h \in held : h.topic # c.topic}
=============================================================================
