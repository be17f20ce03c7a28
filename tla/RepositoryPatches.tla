--------------------------- MODULE RepositoryPatches ---------------------------
(***************************************************************************)
(* The patches of a run over several repositories                          *)
(* (services/orchestration_service.py, services/repository_scope.py): the  *)
(* auxiliary repositories are materialized, the patch of the coding agent  *)
(* and those submitted with the run are validated and then applied, each   *)
(* in the checkout it names, while other programs may edit the checkouts.  *)
(*                                                                         *)
(* A checkout stands for the file its patches name, so a patch is one      *)
(* change: what SafePatchEngine does with several is module SafePatch.  A  *)
(* hash is the text it was computed from.  A restart reads the run back    *)
(* from PostgresRunStore, which keeps what the run says about its patches  *)
(* and loses the patches submitted with it.                                *)
(***************************************************************************)
EXTENDS Naturals, Sequences, FiniteSets

CONSTANTS
  Checkouts,     \* directories
  NotThere,      \* paths of inputs that are not directories
  MainCheckout,  \* run.repository_path
  Repos,         \* repository ids
  MainRepo,      \* _primary_repository_id
  Versions,         \* contents of a file
  CodingChanges, \* what the coding agent may propose for the main checkout
  Submissions,   \* sequences of RepositoryPatchInput (source.repo_patches)
  Specs,         \* sequences of auxiliary repositories (source.repositories)
  MaxEdits,      \* bound on edits by other programs
  MaxRestarts    \* bound on restarts

Unhashed == "unhashed"
FileStates == Versions \union {"absent"}
RepoChange == [op : {"create", "modify", "delete"}, base : Versions \union {Unhashed},
           text : Versions]

(* RepositoryPatchInput: an id that stands for patch_id, the repository    *)
(* that is said to own it, the checkout, and the change.  The patch may    *)
(* name an owner itself.                                                   *)
Input == [id : Nat, repo : Repos, at : Checkouts \union NotThere,
          owner : Repos \union {"unnamed"}, change : RepoChange]

ASSUME RepositoryPatchesAssumption ==
  /\ MainRepo \in Repos /\ MainCheckout \in Checkouts
  /\ Versions \intersect {"absent", Unhashed} = {}
  /\ CodingChanges \subseteq RepoChange
  /\ Submissions \subseteq Seq(Input)
  /\ \A s \in Submissions :
       /\ \A i \in DOMAIN s : s[i].id # 0
       /\ \A i, j \in DOMAIN s : s[i].id = s[j].id => i = j
  /\ MaxEdits \in Nat /\ MaxRestarts \in Nat

VARIABLES
  disk,      \* the file below each path, a directory or not
  stage,     \* how far the patches of the run are
  source,    \* what was submitted and is still in memory
  run,       \* patch of the coding agent, in memory and as stored,
             \* auxiliary namespaces, repo_patches
  scopes,    \* the registry of repository scopes, kept for the run
  found,     \* results of the validation that is under way
  next,      \* the input or the result that is next
  call,      \* the call of SafePatchEngine.apply that is under way: how far
             \* it is, the checkout, what its snapshot holds, and whether
             \* another program has written there since the engine looked
  landed,    \* history: <<patch id, checkout, what it replaced, late>>
  undone,    \* history of the rollbacks: <<what it replaced, with what, late>>
  edits, restarts

repoVars == <<disk, stage, source, run, scopes, found, next, call, landed, undone,
              edits, restarts>>

Pick(S) == CHOOSE x \in S : TRUE
NoScopes == [q \in {} |-> MainCheckout]
NoCall == [at |-> "none", path |-> MainCheckout, copy |-> "absent", late |-> FALSE]
AgentPatch(c) == [id |-> 0, repo |-> MainRepo, at |-> MainCheckout,
                   owner |-> "unnamed", change |-> c]

(* RepositoryPatchResult: validation and application status.               *)
ResultOf(p, valid) ==
  [id |-> p.id, repo |-> p.repo, at |-> p.at,
   valid |-> valid, applied |-> "not_attempted"]

----------------------------------------------------------------------------
(* _build_repository_scopes: the primary, then the auxiliary namespaces,   *)
(* then the inputs; a later one of the same id replaces an earlier one,    *)
(* and a path that is no directory is not registered.                      *)
Declared == <<[repo |-> MainRepo, at |-> MainCheckout]>> \o run.aux
            \o source.patches

Registered(repo) == {i \in DOMAIN Declared :
                       Declared[i].repo = repo /\ Declared[i].at \in Checkouts}
LastOf(I) == CHOOSE i \in I : \A j \in I : j <= i

BuiltScopes ==
  [repo \in {q \in Repos : Registered(q) # {}} |->
     Declared[LastOf(Registered(repo))].at]

(* The registry of this run id is built once and kept.                     *)
ScopesNow == IF scopes = NoScopes THEN BuiltScopes ELSE scopes

(* check_repository_ownership: the repository is registered and the patch  *)
(* names no other.  (A patch without an owner was given its input's.)      *)
Owned(p, registry) ==
  p.repo \in DOMAIN registry /\ p.owner \in {"unnamed", p.repo}

(* _enrich_patch_hashes: a change without a hash gets the one of the file  *)
(* that is there now.                                                      *)
Enriched(p, d) ==
  IF p.change.op # "create" /\ p.change.base = Unhashed
     /\ d[p.at] # "absent"
  THEN [p EXCEPT !.change.base = d[p.at]] ELSE p

(* PatchValidator.validate: a change of an existing file has a hash.       *)
WellFormed(p) == p.change.op # "create" => p.change.base # Unhashed

(* validate_with_workspace, in the checkout at.                            *)
FitsAt(p, at, d) ==
  /\ WellFormed(p)
  /\ CASE p.change.op = "create" -> d[at] = "absent"
       [] p.change.op = "modify" -> d[at] = p.change.base
       [] p.change.op = "delete" -> d[at] # "absent"

----------------------------------------------------------------------------
Fail == stage' = "failed"

(* _materialize_auxiliary_repositories: all namespaces, or the run fails.  *)
Materialize ==
  /\ stage = "materializing"
  /\ IF source.specs = <<>> \/ run.aux # <<>>
     THEN stage' = "validating" /\ UNCHANGED run
     ELSE \/ stage' = "validating" /\ run' = [run EXCEPT !.aux = source.specs]
          \/ Fail /\ UNCHANGED run
  /\ UNCHANGED <<disk, source, scopes, found, next, call, landed, undone, edits, restarts>>

(* _stage_patch_validation, the patch of the coding agent: validate() does *)
(* not look at the checkout, only at the hash it was given just before.    *)
ValidateCoding ==
  /\ stage = "validating" /\ next = 0
  /\ LET p == Enriched(run.patch, disk)
     IN /\ run' = [run EXCEPT !.patch = p]
        /\ scopes' = IF WellFormed(p) THEN ScopesNow ELSE scopes
        /\ IF WellFormed(p)
           THEN /\ found' = <<ResultOf(p, Owned(p, ScopesNow))>>
                /\ next' = 1 /\ UNCHANGED stage
           ELSE Fail /\ UNCHANGED <<found, next>>
  /\ UNCHANGED <<disk, source, call, landed, undone, edits, restarts>>

(* _validate_single_repo_patch                                             *)
ValidateInput ==
  /\ stage = "validating" /\ next \in 1 .. Len(source.patches)
  /\ LET p == Enriched(source.patches[next], disk)
     IN /\ source' = [source EXCEPT !.patches[next] = p]
        /\ found' = Append(found,
             ResultOf(p, Owned(p, ScopesNow) /\ FitsAt(p, p.at, disk)))
  /\ next' = next + 1
  /\ scopes' = ScopesNow
  /\ UNCHANGED <<disk, stage, run, call, landed, undone, edits, restarts>>

(* The results are stored whether or not one of them was rejected; what    *)
(* was just validated is pending, so the application always follows.       *)
EndValidation ==
  /\ stage = "validating" /\ next = Len(source.patches) + 1
  /\ run' = [run EXCEPT !.results = found, !.stored = run.patch]
  /\ IF \A i \in DOMAIN found : found[i].valid
     THEN stage' = "applying" /\ next' = 0
     ELSE Fail /\ UNCHANGED next
  /\ UNCHANGED <<disk, source, scopes, found, call, landed, undone, edits, restarts>>

(* SafePatchEngine.apply reads the file three times and other programs may  *)
(* write to it in between: when it validates, when it takes its snapshot,  *)
(* and when it compares the hash right before the change.  A CREATE is     *)
(* looked at only by the validation.                                       *)

(* The input of a result is the first one of its repository.               *)
InputsOf(r) == {i \in DOMAIN source.patches : source.patches[i].repo = r.repo}
FirstOf(I) == CHOOSE i \in I : \A j \in I : i <= j

(* The patch whose turn it is, and the checkout it is applied in: the one  *)
(* of the coding agent, then the one of each result.                       *)
TurnPatch == IF next = 0 THEN run.patch
             ELSE source.patches[FirstOf(InputsOf(run.results[next]))]
TurnAt == IF next = 0 THEN MainCheckout ELSE run.results[next].at
HasTurn ==
  /\ stage = "applying"
  /\ next = 0 \/ (next \in 1 .. Len(run.results) /\ InputsOf(run.results[next]) # {})

(* apply lets the patch through: validated once more.                      *)
Look ==
  /\ HasTurn /\ call.at = "none"
  /\ Owned(TurnPatch, scopes) /\ FitsAt(TurnPatch, TurnAt, disk)
  /\ call' = [NoCall EXCEPT !.at = "looked", !.path = TurnAt]
  /\ UNCHANGED <<disk, stage, source, run, scopes, found, next, landed, undone, edits, restarts>>

(* _take_snapshot.  What a CREATE has been looked at stays behind.         *)
Copy ==
  /\ call.at = "looked"
  /\ call' = [call EXCEPT !.at = "copied", !.copy = disk[call.path],
                 !.late = call.late /\ TurnPatch.change.op = "create"]
  /\ UNCHANGED <<disk, stage, source, run, scopes, found, next, landed, undone, edits, restarts>>

(* Mutant: the hash is not compared again.                                 *)
HashTaken(p, at) == TRUE

(* _apply_modify and _apply_delete compare the hash, _apply_create looks   *)
(* at nothing.                                                             *)
HashAgrees(p, at) == p.change.op = "create" \/ disk[at] = p.change.base

Check ==
  /\ call.at = "copied"
  /\ HashAgrees(TurnPatch, call.path)
  /\ call' = [call EXCEPT !.at = "checked"]
  /\ UNCHANGED <<disk, stage, source, run, scopes, found, next, landed, undone, edits, restarts>>

(* How the call may end where it is: refused by the validation; a snapshot *)
(* that cannot be read; a hash that does not agree, or a refusal of the    *)
(* operating system, both rolled back if that succeeds ("raised" is an     *)
(* error that leaves apply); or made.  A file that is gone is not deleted. *)
ApplyOutcomes(p, at) ==
  CASE call.at = "none" ->
         IF Owned(p, scopes) /\ FitsAt(p, at, disk) THEN {} ELSE {"rejected"}
    [] call.at = "looked" -> {"raised"}
    [] call.at = "copied" -> {"rolled_back", "raised"}
    [] call.at = "checked" ->
         {"rolled_back", "raised"}
           \union (IF p.change.op = "delete" /\ disk[at] = "absent" THEN {} ELSE {"applied"})

After(p) == IF p.change.op = "delete" THEN "absent" ELSE p.change.text

(* The change is made whatever the file holds by then, and a rollback      *)
(* writes back what the snapshot held.                                     *)
Make(p, at, outcome) ==
  /\ disk' = CASE outcome = "applied" -> [disk EXCEPT ![at] = After(p)]
               [] outcome = "rolled_back" -> [disk EXCEPT ![at] = call.copy]
               [] OTHER -> disk
  /\ landed' = IF outcome = "applied"
               THEN landed \union {<<p.id, at, disk[at], call.late>>} ELSE landed
  /\ undone' = IF outcome = "rolled_back"
               THEN undone \union {<<disk[at], call.copy, call.late>>} ELSE undone
  /\ call' = NoCall

(* Mutant: a patch that was rolled back counts as applied.                 *)
ReportedLoosely(outcome) ==
  IF outcome = "rejected" THEN "rejected" ELSE "applied"

(* What a result says of an outcome.                                       *)
Reported(outcome) == IF outcome = "applied" THEN "applied" ELSE "rejected"

(* _stage_patch_application, the patch of the coding agent: rejected or    *)
(* rolled back is written down and the stage goes on.                      *)
ApplyCoding ==
  /\ stage = "applying" /\ next = 0
  /\ \E o \in ApplyOutcomes(run.patch, MainCheckout) :
       /\ Make(run.patch, MainCheckout, o)
       /\ IF o = "raised" THEN Fail /\ UNCHANGED <<run, next>>
          ELSE /\ run' = [run EXCEPT !.results[1].applied = Reported(o)]
               /\ next' = 1 /\ UNCHANGED stage
  /\ UNCHANGED <<source, scopes, found, edits, restarts>>

(* _apply_single_repo_patch: made in the checkout of the result; anything  *)
(* but an applied patch fails the stage.                                   *)
ApplyResult ==
  /\ stage = "applying" /\ next \in 1 .. Len(run.results)
  /\ LET r == run.results[next]
     IN IF InputsOf(r) = {}
        THEN next' = next + 1 /\ UNCHANGED <<disk, stage, run, call, landed, undone>>
        ELSE LET p == source.patches[FirstOf(InputsOf(r))]
             IN \E o \in ApplyOutcomes(p, r.at) :
                  /\ Make(p, r.at, o)
                  /\ run' = IF o = "raised" THEN run
                            ELSE [run EXCEPT
                                    !.results[next].applied = Reported(o)]
                  /\ IF o # "raised" /\ Reported(o) = "applied"
                     THEN next' = next + 1 /\ UNCHANGED stage
                     ELSE Fail /\ UNCHANGED next
  /\ UNCHANGED <<source, scopes, found, edits, restarts>>

EndApplication ==
  /\ stage = "applying" /\ next = Len(run.results) + 1
  /\ stage' = "testing"
  /\ UNCHANGED <<disk, source, run, scopes, found, next, call, landed, undone, edits,
                 restarts>>

----------------------------------------------------------------------------
(* Another program writes or removes a file of a checkout, at any moment,  *)
(* also while the engine is at work there.                                 *)
Edit ==
  /\ stage \in {"materializing", "validating", "applying"}
  /\ edits < MaxEdits /\ edits' = edits + 1
  /\ \E c \in Checkouts, t \in FileStates :
       /\ t # disk[c] /\ disk' = [disk EXCEPT ![c] = t]
       /\ call' = IF call.at # "none" /\ c = call.path
                  THEN [call EXCEPT !.late = TRUE] ELSE call
  /\ UNCHANGED <<stage, source, run, scopes, found, next, landed, undone, restarts>>

(* The process is restarted and the run resumed.  The stage map takes an   *)
(* execution back into validation only from there; a run that was applying *)
(* its patches fails.  Validation has stored its results before the stage  *)
(* changes.  _deserialize_run brings back what the run says of its         *)
(* patches; the submitted patches and repositories are gone.               *)
Restart ==
  /\ stage \in {"materializing", "validating", "applying"}
  /\ restarts < MaxRestarts /\ restarts' = restarts + 1
  /\ \/ (stage = "applying" => next = 0) /\ stage' = "materializing"
     \/ stage = "applying" /\ Fail
  /\ run' = [run EXCEPT !.patch = run.stored]
  /\ source' = [specs |-> <<>>, patches |-> <<>>]
  /\ scopes' = NoScopes /\ found' = <<>> /\ next' = 0 /\ call' = NoCall
  /\ UNCHANGED <<disk, landed, undone, edits>>

RepositoryPatchesInit ==
  /\ disk \in [Checkouts \union NotThere -> FileStates]
  /\ \A q \in NotThere : disk[q] = "absent"
  /\ stage = "materializing"
  /\ \E s \in Submissions, a \in Specs :
       source = [specs |-> a, patches |-> s]
  /\ \E c \in CodingChanges :
       run = [patch |-> AgentPatch(c), stored |-> AgentPatch(c),
              aux |-> <<>>, results |-> <<>>]
  /\ scopes = NoScopes /\ found = <<>> /\ next = 0
  /\ call = NoCall /\ landed = {} /\ undone = {}
  /\ edits = 0 /\ restarts = 0

(* A process that executes no run.                                         *)
NoRepositoryPatches ==
  /\ disk = [q \in Checkouts \union NotThere |-> "absent"]
  /\ stage = "none" /\ source = [specs |-> <<>>, patches |-> <<>>]
  /\ run = [patch |-> AgentPatch(Pick(CodingChanges)),
            stored |-> AgentPatch(Pick(CodingChanges)),
            aux |-> <<>>, results |-> <<>>]
  /\ scopes = NoScopes /\ found = <<>> /\ next = 0
  /\ call = NoCall /\ landed = {} /\ undone = {}
  /\ edits = 0 /\ restarts = 0

RepositoryPatchesNext ==
  \/ Materialize \/ ValidateCoding \/ ValidateInput \/ EndValidation
  \/ Look \/ Copy \/ Check \/ ApplyCoding \/ ApplyResult \/ EndApplication
  \/ Edit \/ Restart

----------------------------------------------------------------------------
RepositoryPatchesSpec ==
  RepositoryPatchesInit /\ [][RepositoryPatchesNext]_repoVars

(* The repositories of the submitted patches are told apart: no two share  *)
(* an id and none has the id of the run's own repository.                  *)
ToldApart ==
  /\ \A i \in DOMAIN source.patches :
       source.patches[i].repo # MainRepo
  /\ \A i, j \in DOMAIN source.patches :
       source.patches[i].repo = source.patches[j].repo => i = j

(* "Validated and applied against their own checkout only"                 *)
(* (models/orchestration.py:254-256): when the run goes on to its tests,   *)
(* every patch that was submitted and is still known was made in its own   *)
(* checkout and nowhere else and is reported so, and whatever is reported  *)
(* as applied was made there.                                              *)
PatchesLand ==
  stage = "testing" /\ ToldApart =>
    /\ \A i \in DOMAIN source.patches :
         LET p == source.patches[i]
         IN /\ \E r \in DOMAIN run.results :
                 run.results[r].id = p.id /\ run.results[r].applied = "applied"
            /\ {l[2] : l \in {k \in landed : k[1] = p.id}} = {p.at}
    /\ \A r \in DOMAIN run.results :
         run.results[r].applied = "applied" =>
           \E l \in landed : l[1] = run.results[r].id /\ l[2] = run.results[r].at

(* What another program writes between the validation of a patch and its   *)
(* application, however long that is and whatever is applied before it, is *)
(* not replaced: a patch that lands finds the file its hash was taken      *)
(* from, or none where it creates one, and a rollback brings back what it  *)
(* finds.  The exception is what is written while the engine is at work:   *)
(* late is an edit since the validation that lets a CREATE through, and    *)
(* since the snapshot for any other change.                                *)
KnownPatches == {run.patch} \union {source.patches[i] : i \in DOMAIN source.patches}
EditsKept ==
  /\ \A l \in landed, p \in KnownPatches :
       l[1] = p.id /\ ~l[4] =>
         l[3] = IF p.change.op = "create" THEN "absent" ELSE p.change.base
  /\ \A u \in undone : ~u[3] => u[1] = u[2]
=============================================================================
