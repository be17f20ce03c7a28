------------------------------ MODULE SafePatch ------------------------------
(***************************************************************************)
(* SafePatchEngine (services/safe_patch_engine.py) with PatchValidator     *)
(* (services/patch_validator.py) and the repository scopes                 *)
(* (services/repository_scope.py): a patch is validated against the        *)
(* workspace, the files it names are remembered, its changes are made one  *)
(* after the other, and a change that fails restores what was remembered.  *)
(*                                                                         *)
(* A file holds a text or is absent; a path with a file below it is a      *)
(* directory.  A hash is the text it was computed from.  The checks that   *)
(* only read the patch (number and size of changes, change ids, protected  *)
(* and escaping paths, missing text or hash) are the field clean.  A call  *)
(* that the operating system refuses is a fault; MaxFaults bounds them.    *)
(***************************************************************************)
EXTENDS Naturals, Sequences, FiniteSets

CONSTANTS
  Paths,           \* names in the workspace
  Texts,           \* contents a file can have
  Parent,          \* the directory of a path, or Root
  Root,
  Patches,         \* the PatchSets submitted
  AllowDelete,     \* PatchValidator.allow_delete (CODING_ALLOW_DELETE)
  EngineRepo,      \* repository_id the engine is bound to, or NoRepo
  Registry,        \* repositories of the scope registry
  NoRepo,
  MaxFaults        \* bound on refused system calls

Operations == {"create", "modify", "delete"}
Nodes == Texts \union {"absent", "directory"}
NoText == "no_text"

(* FileChange and PatchSet of models/coding.py.                            *)
Change == [op : Operations, path : Paths, base : Texts \union {NoText},
           text : Texts \union {NoText}]
PatchSet == [changes : Seq(Change), repo : {NoRepo} \union Registry,
             clean : BOOLEAN]

NoPatch == [changes |-> <<>>, repo |-> NoRepo, clean |-> TRUE]
NoSnapshot == [q \in {} |-> "absent"]

ASSUME SafePatchAssumption ==
  /\ Root \notin Paths
  /\ Parent \in [Paths -> Paths \union {Root}]
  /\ \A q \in Paths : Parent[q] # Root => Parent[Parent[q]] = Root
  /\ Texts \intersect {"absent", "directory", NoText} = {}
  /\ Patches \subseteq PatchSet
  /\ \A p \in Patches : p.clean =>
       \A i \in DOMAIN p.changes :
         p.changes[i].op # "delete" => p.changes[i].text \in Texts
  /\ AllowDelete \in BOOLEAN
  /\ EngineRepo \in {NoRepo} \union Registry
  /\ MaxFaults \in Nat

VARIABLES
  files,     \* what the workspace holds at each path
  stray,     \* directories in which a temporary file was left behind
  engine,    \* the call of the engine that is running, or ran last
  faults

patchVars == <<files, stray, engine, faults>>

EngineStatus == {"none", "rejected", "dry_run", "applied", "rolled_back",
                 "snapshot_error", "rollback_error"}

EngineIdle == [phase |-> "idle", patch |-> NoPatch, next |-> 1,
               snapshot |-> NoSnapshot, before |-> NoSnapshot,
               status |-> "none"]

Range(f) == {f[x] : x \in DOMAIN f}
Touched(p) == {c.path : c \in Range(p.changes)}

(* _ownership_errors: a patch that names a repository is only for the      *)
(* engine bound to that repository.                                        *)
OwnedPatch(p) == EngineRepo = NoRepo \/ p.repo \in {NoRepo, EngineRepo}

(* RepositoryScopeRegistry.validate_patch: the repository is registered    *)
(* and is the one of the patch; paths that leave the checkout are not in   *)
(* Paths.                                                                  *)
ScopeOk(p) ==
  EngineRepo # NoRepo /\ Registry # {} =>
    EngineRepo \in Registry /\ p.repo \in {NoRepo, EngineRepo}

(* check_repository_ownership                                              *)
OwnershipOk(p) == OwnedPatch(p) /\ ScopeOk(p)

(* _validate_change, what it compares with the changes before it: a path   *)
(* that was named already keeps its operation.                             *)
ValidChange(p, i) ==
  \A j \in 1 .. i - 1 :
    p.changes[j].path = p.changes[i].path => p.changes[j].op = p.changes[i].op

(* PatchValidator.validate                                                 *)
ValidPatch(p) ==
  /\ p.changes # <<>>
  /\ p.clean
  /\ \A i \in DOMAIN p.changes : ValidChange(p, i)
  /\ AllowDelete \/ \A c \in Range(p.changes) : c.op # "delete"

IsFile(q) == files[q] \in Texts

(* validate_with_workspace: a DELETE of a file that has changed is only    *)
(* warned about.                                                           *)
ValidWithWorkspace(p) ==
  /\ ValidPatch(p)
  /\ \A c \in Range(p.changes) :
       CASE c.op = "create" -> ~IsFile(c.path)
         [] c.op = "modify" -> IsFile(c.path) /\ files[c.path] = c.base
         [] c.op = "delete" -> IsFile(c.path)

(* Mutant: nothing is remembered of a path that does not exist yet.        *)
SnapshotOfFiles(p) == [q \in {t \in Touched(p) : IsFile(t)} |-> files[q]]

(* _take_snapshot reads every path that exists: a directory cannot be read *)
SnapshotOf(p) == [q \in Touched(p) |-> files[q]]
CanSnapshot(p) == \A q \in Touched(p) : files[q] # "directory"

----------------------------------------------------------------------------
Finish(p, status) ==
  engine' = [EngineIdle EXCEPT !.phase = "done", !.patch = p,
                               !.before = files, !.status = status]

(* dry_run changes no file.                                                *)
DryRun(p) ==
  /\ engine.phase # "applying"
  /\ Finish(p, IF OwnershipOk(p) /\ ValidWithWorkspace(p)
               THEN "dry_run" ELSE "rejected")
  /\ UNCHANGED <<files, stray, faults>>

(* apply up to its loop.                                                   *)
RejectPatch(p) ==
  /\ engine.phase # "applying"
  /\ ~OwnershipOk(p) \/ ~ValidWithWorkspace(p)
  /\ Finish(p, "rejected")
  /\ UNCHANGED <<files, stray, faults>>

(* The snapshot is taken outside the try: its error leaves apply before    *)
(* anything is changed.                                                    *)
SnapshotFails(p) ==
  /\ engine.phase # "applying"
  /\ OwnershipOk(p) /\ ValidWithWorkspace(p)
  /\ \/ ~CanSnapshot(p) /\ UNCHANGED faults
     \/ CanSnapshot(p) /\ faults < MaxFaults /\ faults' = faults + 1
  /\ Finish(p, "snapshot_error")
  /\ UNCHANGED <<files, stray>>

BeginApply(p) ==
  /\ engine.phase # "applying"
  /\ OwnershipOk(p) /\ ValidWithWorkspace(p) /\ CanSnapshot(p)
  /\ engine' = [phase |-> "applying", patch |-> p, next |-> 1,
                snapshot |-> SnapshotOf(p), before |-> files,
                status |-> "none"]
  /\ UNCHANGED <<files, stray, faults>>

Current == engine.patch.changes[engine.next]

(* mkdir(parents=True, exist_ok=True) refuses a parent that is a file.     *)
ParentUsable(q) == IF Parent[q] = Root THEN TRUE ELSE ~IsFile(Parent[q])
WithParent(q) ==
  IF Parent[q] = Root THEN files ELSE [files EXCEPT ![Parent[q]] = "directory"]

(* The checks of _apply_create, _apply_modify and _apply_delete.           *)
ChangeAllowed(c) ==
  IF c.op = "create" THEN ParentUsable(c.path) ELSE files[c.path] = c.base

(* _atomic_write moves its temporary file over the target; when the target *)
(* is a directory shutil.move puts the file into it instead.               *)
MakeChange ==
  LET c == Current
  IN /\ engine.phase = "applying"
     /\ engine.next <= Len(engine.patch.changes)
     /\ ChangeAllowed(c)
     /\ files' = IF c.op = "create" /\ files[c.path] = "directory" THEN files
                 ELSE IF c.op = "create" THEN [WithParent(c.path) EXCEPT ![c.path] = c.text]
                 ELSE IF c.op = "modify" THEN [files EXCEPT ![c.path] = c.text]
                 ELSE [files EXCEPT ![c.path] = "absent"]
     /\ stray' = IF c.op = "create" /\ files[c.path] = "directory"
                 THEN stray \union {c.path} ELSE stray
     /\ engine' = [engine EXCEPT !.next = engine.next + 1]
     /\ UNCHANGED faults

Applied ==
  /\ engine.phase = "applying"
  /\ engine.next > Len(engine.patch.changes)
  /\ engine' = [engine EXCEPT !.phase = "done", !.status = "applied"]
  /\ UNCHANGED <<files, stray, faults>>

(* _rollback tries every path of the snapshot: a text is written back, a   *)
(* path that did not exist is unlinked; neither can be done to a           *)
(* directory.  The paths of bad are refused by the operating system.       *)
Unrestorable(now, snap) == {q \in DOMAIN snap : now[q] = "directory"}

Restore(now, snap, bad) ==
  [q \in Paths |->
     IF q \in DOMAIN snap \ (Unrestorable(now, snap) \union bad)
     THEN snap[q] ELSE now[q]]

RollBackTo(now, spent) ==
  \E bad \in SUBSET DOMAIN engine.snapshot :
    /\ faults' = faults + spent + Cardinality(bad)
    /\ faults' <= MaxFaults
    /\ files' = Restore(now, engine.snapshot, bad)
    /\ engine' = [engine EXCEPT
         !.phase = "done",
         !.status = IF Unrestorable(now, engine.snapshot) \union bad = {}
                    THEN "rolled_back" ELSE "rollback_error"]

(* A change fails its own checks, and apply rolls back.                    *)
RefuseChange ==
  /\ engine.phase = "applying"
  /\ engine.next <= Len(engine.patch.changes)
  /\ ~ChangeAllowed(Current)
  /\ RollBackTo(files, 0)
  /\ UNCHANGED stray

(* A change fails in the operating system, or because the text is longer   *)
(* than the engine writes; the directory of a CREATE may exist by then.    *)
ChangeFault ==
  /\ engine.phase = "applying"
  /\ engine.next <= Len(engine.patch.changes)
  /\ ChangeAllowed(Current)
  /\ \/ RollBackTo(files, 1)
     \/ Current.op = "create" /\ RollBackTo(WithParent(Current.path), 1)
  /\ UNCHANGED stray

Submit(p) == RejectPatch(p) \/ SnapshotFails(p) \/ BeginApply(p)

EngineStep == MakeChange \/ Applied \/ RefuseChange \/ ChangeFault

----------------------------------------------------------------------------
PatchInit ==
  /\ files \in [Paths -> Nodes]
  /\ \A q \in Paths : Parent[q] # Root /\ files[q] # "absent"
                        => files[Parent[q]] = "directory"
  /\ stray = {}
  /\ engine = EngineIdle
  /\ faults = 0

----------------------------------------------------------------------------
(* What a path must hold after the changes of p: what its last change says *)
LastChange(p, q) ==
  LET last == CHOOSE i \in DOMAIN p.changes :
                /\ p.changes[i].path = q
                /\ \A j \in DOMAIN p.changes : p.changes[j].path = q => j <= i
  IN p.changes[last]

Intended(p, before) ==
  [q \in Paths |->
     IF q \notin Touched(p) THEN before[q]
     ELSE IF LastChange(p, q).op = "delete" THEN "absent"
     ELSE LastChange(p, q).text]

(* Two workspaces that hold the same files: directories that were made on  *)
(* the way do not count.                                                   *)
SameFiles(f, g) ==
  \A q \in Paths : f[q] = g[q] \/ {f[q], g[q]} \subseteq {"absent", "directory"}

(* A patch is all or nothing: when apply reports it applied, every file it *)
(* names is what its last change says and no other file has changed; when  *)
(* apply reports it rejected or rolled back, or could not take the         *)
(* snapshot, the files are what they were.  The exceptions are the ones    *)
(* apply itself reports (a rollback that failed) and a path that became a  *)
(* directory under the patch.                                              *)
AllOrNothing ==
  engine.phase = "done" =>
    /\ engine.status = "applied" =>
         \A q \in Paths :
           \/ files[q] = Intended(engine.patch, engine.before)[q]
           \/ files[q] = "directory"
    /\ engine.status \in {"rejected", "dry_run", "snapshot_error", "rolled_back"} =>
         SameFiles(files, engine.before)
=============================================================================
