--------------------------- MODULE MCKnowledgeGraphs ---------------------------
(***************************************************************************)
(* KnowledgeGraphs with two runs that patch the same path, a third one     *)
(* that patches it in two more repositories, and manifests that link the   *)
(* repositories one way or not at all.                                     *)
(***************************************************************************)
EXTENDS KnowledgeGraphs

MCPatched == [r \in Runs |-> Files]
MCAuxiliary == [r \in Runs |-> IF r = "m" THEN <<"A", "B">> ELSE <<>>]
Work(r1, r2, m, acquisitions, losses, restarts) ==
  [ records |-> [r \in Runs |-> CASE r = "r1" -> r1 [] r = "r2" -> r2 [] r = "m" -> m],
    acquisitions |-> acquisitions, losses |-> losses, restarts |-> restarts ]
MCWorkloads ==
  {Work(2, 1, 0, 0, 1, 1), Work(1, 0, 1, 1, 0, 0), Work(1, 0, 1, 0, 1, 1), Work(0, 0, 1, 1, 1, 1),
   Work(0, 0, 2, 1, 0, 1)}
MCRecordedAgain == {Work(0, 0, 2, 1, 1, 2)}
MCManifests ==
  {[repos |-> <<"A", "B">>, links |-> {<<"A", "B">>}], [repos |-> <<"B">>, links |-> {}]}
===============================================================================
