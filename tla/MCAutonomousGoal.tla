-------------------------- MODULE MCAutonomousGoal --------------------------
(***************************************************************************)
(* AutonomousGoal for TLC: its requests are interchangeable.               *)
(***************************************************************************)
EXTENDS AutonomousGoal, TLC

Symmetry == Permutations(Requests)
=============================================================================
