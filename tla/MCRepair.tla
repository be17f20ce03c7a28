------------------------------- MODULE MCRepair -------------------------------
(***************************************************************************)
(* The two ways a run changes files, each in instances of its own: the     *)
(* repair loop on a source path that can become a directory, a path below  *)
(* it, and a test file; and the patches of a run over three repositories   *)
(* of one file each.                                                       *)
(***************************************************************************)
EXTENDS RepairLoop, RepositoryPatches

MCPaths == {"pkg", "pkg/mod", "test"}
MCParent == [q \in MCPaths |-> IF q = "pkg/mod" THEN "pkg" ELSE "root"]
MCKind == [q \in MCPaths |-> IF q = "test" THEN "test" ELSE "source"]
MCTexts == {"plain", "weak"}
MCTraits == [t \in MCTexts |-> IF t = "weak" THEN {"weakens_test"} ELSE {}]

Of(o, q, b, t) == [op |-> o, path |-> q, base |-> b, text |-> t]
Single(paths) ==
  {Of("create", q, "no_text", t) : q \in paths, t \in MCTexts}
    \union {Of("modify", q, "plain", "weak") : q \in paths}
    \union {Of("modify", q, "weak", "plain") : q \in paths}
    \union {Of("delete", q, b, "no_text") : q \in paths, b \in MCTexts}

PatchOf(s) == [changes |-> s, repo |-> "none", clean |-> TRUE]

(* Every patch of one change, every patch of two changes of the package,   *)
(* one of another repository and one the validator rejects by itself.      *)
CodingPatches ==
  {PatchOf(<<c>>) : c \in Single(MCPaths)}
    \union {PatchOf(<<c, d>>) : c \in Single(MCPaths \ {"test"}), d \in Single(MCPaths \ {"test"})}
    \union {[PatchOf(<<Of("create", "pkg", "no_text", "plain")>>) EXCEPT !.repo = "other"],
            PatchOf(<<>>)}

(* A few of them for the attempts of a session: an edit, a creation, an    *)
(* edit of a test, a deletion, two edits of one file, and the two that     *)
(* turn a path into a directory.                                           *)
MCRepairPatches ==
  {PatchOf(<<Of("create", "pkg/mod", "no_text", "plain")>>),
   PatchOf(<<Of("modify", "test", "plain", "weak"), Of("modify", "pkg", "weak", "plain")>>),
   PatchOf(<<Of("modify", "test", "weak", "plain")>>),
   PatchOf(<<Of("delete", "test", "plain", "no_text")>>),
   PatchOf(<<Of("create", "pkg/mod", "no_text", "weak"), Of("create", "pkg", "no_text", "plain"),
             Of("modify", "test", "weak", "plain")>>),
   PatchOf(<<Of("delete", "pkg", "plain", "no_text"), Of("create", "pkg/mod", "no_text", "plain"),
             Of("modify", "test", "plain", "plain")>>),
   PatchOf(<<>>)}

MCPatches == CodingPatches \union MCRepairPatches

R(s, n, d, p) == [status |-> s, failures |-> n, distinct |-> d, passed |-> p]
MCResults ==
  {R("passed", 0, 0, 1), R("failed", 2, 2, 0),
   R("failed", 1, 1, 1), R("error", 0, 0, 0),
   R("environment_not_ready", 1, 1, 0)}
-----------------------------------------------------------------------------
Edited(o, b) == [op |-> o, base |-> b, text |-> "new"]
SubmittedAs(i, r, a, w, c) ==
  [id |-> i, repo |-> r, at |-> a, owner |-> w, change |-> c]

MCCodingChanges ==
  {Edited(o, Unhashed) : o \in {"create", "modify", "delete"}}

(* No patch, one, two in their own checkouts, with and without a hash; one *)
(* in a directory that is not there, two of one repository, one with the   *)
(* id of the run's own repository, and one that another repository owns.   *)
MCSubmissions ==
  LET New == Edited("create", Unhashed)
      Mod == Edited("modify", Unhashed)
      Old == Edited("modify", "old")
      Del == Edited("delete", Unhashed)
  IN {<<>>,
      <<SubmittedAs(1, "lib", "lib", "unnamed", Mod)>>,
      <<SubmittedAs(1, "lib", "lib", "unnamed", Old),
        SubmittedAs(2, "app", "app", "app", New)>>,
      <<SubmittedAs(1, "lib", "lib", "unnamed", Del),
        SubmittedAs(2, "app", "app", "unnamed", Mod)>>,
      <<SubmittedAs(1, "lib", "app", "lib", New),
        SubmittedAs(2, "app", "lib", "lib", New)>>,
      <<SubmittedAs(1, "lib", "gone", "unnamed", New)>>,
      <<SubmittedAs(1, "lib", "lib", "unnamed", New),
        SubmittedAs(2, "lib", "app", "unnamed", New)>>,
      <<SubmittedAs(1, "main", "lib", "unnamed", New)>>}

MCSpecs == {<<>>, <<[repo |-> "lib", at |-> "lib"]>>,
            <<[repo |-> "lib", at |-> "app"]>>}

(* Either a session of the repair loop, or a run over several repositories *)
MCInit ==
  \/ Init /\ NoRepositoryPatches
  \/ /\ files = [q \in MCPaths |-> "absent"] /\ stray = {}
     /\ engine = EngineIdle /\ faults = 0
     /\ session = SessionIdle /\ loop = LoopIdle
     /\ RepositoryPatchesInit

InRepair == stage = "none"

MCNext ==
  \/ InRepair /\ Next /\ UNCHANGED repoVars
  \/ RepositoryPatchesNext /\ UNCHANGED repairVars

RepairStep ==
  InRepair /\ (Ask \/ Judge \/ Apply \/ Test) /\ UNCHANGED repoVars

MCSpec == MCInit /\ [][MCNext]_<<repairVars, repoVars>>
                 /\ WF_<<repairVars, repoVars>>(RepairStep)
=============================================================================
