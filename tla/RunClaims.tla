------------------------------ MODULE RunClaims ------------------------------
(***************************************************************************)
(* What the documentation of Dev-Pilot says of a run and the code does not *)
(* do: checked alone, TLC finds it violated.                               *)
(***************************************************************************)
EXTENDS RunLifecycle

(* docs/ORCHESTRATION.md, Cancellation: the request sets                   *)
(* cancellation_requested.  The next update of the execution writes back a *)
(* copy read before the request and clears the flag again.                 *)
AcceptedCancelKept == accepted => row.cancel
=============================================================================
