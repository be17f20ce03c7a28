----------------------------- MODULE RepairProofs -----------------------------
(***************************************************************************)
(* Proofs about the two ways a run changes files.  RepairLoop: a patch is  *)
(* all or nothing, and the attempts of a repair session keep the tests.    *)
(* RepositoryPatches: the patches of several repositories land where they  *)
(* belong, and on what they were made for.                                 *)
(***************************************************************************)
EXTENDS RepairLoop, RepositoryPatches, TLAPS, NaturalsInduction, WellFoundedInduction

----------------------------------------------------------------------------
(* Patches.                                                                *)
Result(c) == IF c.op = "delete" THEN "absent" ELSE c.text

LEMMA ChangesTyped ==
  ASSUME NEW p \in Patches
  PROVE  /\ p.changes \in Seq(Change) /\ Len(p.changes) \in Nat
         /\ DOMAIN p.changes = 1 .. Len(p.changes)
         /\ \A i \in 1 .. Len(p.changes) : p.changes[i] \in Change
BY SafePatchAssumption DEF PatchSet

LEMMA TouchedPaths ==
  ASSUME NEW p \in Patches
  PROVE  /\ Touched(p) \subseteq Paths
         /\ \A q : q \in Touched(p) <=> \E i \in 1 .. Len(p.changes) : p.changes[i].path = q
<1>1. /\ DOMAIN p.changes = 1 .. Len(p.changes)
      /\ \A i \in 1 .. Len(p.changes) : p.changes[i] \in Change BY ChangesTyped
<1>2. QED BY <1>1 DEF Touched, Range, Change

(* A change of a valid patch leaves a file or nothing.                     *)
LEMMA ResultTyped ==
  ASSUME NEW p \in Patches, ValidPatch(p), NEW i \in 1 .. Len(p.changes)
  PROVE  /\ Result(p.changes[i]) \in Texts \union {"absent"}
         /\ p.changes[i].op # "delete" => p.changes[i].text \in Texts
<1>1. p.changes[i].op # "delete" => p.changes[i].text \in Texts
  BY ChangesTyped, SafePatchAssumption DEF ValidPatch
<1>2. QED BY <1>1 DEF Result

(* A bounded set of numbers has a greatest.                                *)
LEMMA GreatestIn ==
  ASSUME NEW n \in Nat, NEW K, K \subseteq 1 .. n, K # {}
  PROVE  \E k \in K : \A j \in K : j <= k
<1> DEFINE D == {n - k : k \in K}
<1>1. D \subseteq Nat OBVIOUS
<1>2. D # {} OBVIOUS
<1> HIDE DEF D
<1>3. PICK d \in D : \A e \in D : ~(<<e, d>> \in OpToRel(<, Nat))
  BY <1>1, <1>2, WFMin, NatLessThanWellFounded, Zenon
<1>4. \A e \in D : ~(e < d) BY <1>1, <1>3, Zenon DEF OpToRel
<1>5. \A e \in D : d <= e BY <1>1, <1>4
<1>6. PICK k \in K : d = n - k BY DEF D
<1>7. \A j \in K : n - k <= n - j BY <1>5, <1>6 DEF D
<1>8. \A j \in K : j <= k BY <1>7
<1>9. QED BY <1>8

(* A path that a patch touches has a last change, and it is what           *)
(* LastChange chooses.                                                     *)
LEMMA LastIs ==
  ASSUME NEW p \in Patches, NEW q \in Touched(p)
  PROVE  \E i \in 1 .. Len(p.changes) :
           /\ LastChange(p, q) = p.changes[i] /\ p.changes[i].path = q
           /\ \A j \in i + 1 .. Len(p.changes) : p.changes[j].path # q
<1> DEFINE K == {i \in 1 .. Len(p.changes) : p.changes[i].path = q}
           Last(i) == /\ p.changes[i].path = q
                      /\ \A j \in DOMAIN p.changes : p.changes[j].path = q => j <= i
<1>1. Len(p.changes) \in Nat /\ DOMAIN p.changes = 1 .. Len(p.changes) BY ChangesTyped
<1>2. K # {} BY TouchedPaths
<1>3. PICK k \in K : \A j \in K : j <= k BY <1>1, <1>2, GreatestIn
<1>4. \E i \in DOMAIN p.changes : Last(i) BY <1>1, <1>3
<1>5. Last(CHOOSE i \in DOMAIN p.changes : Last(i))
      /\ (CHOOSE i \in DOMAIN p.changes : Last(i)) \in DOMAIN p.changes
  BY <1>4
<1>6. LastChange(p, q) = p.changes[CHOOSE i \in DOMAIN p.changes : Last(i)]
  BY DEF LastChange
<1> DEFINE i == CHOOSE i \in DOMAIN p.changes : Last(i)
<1>7. i \in 1 .. Len(p.changes) /\ Last(i) /\ LastChange(p, q) = p.changes[i]
  BY <1>1, <1>5, <1>6
<1> HIDE DEF i
<1>8. \A j \in i + 1 .. Len(p.changes) : p.changes[j].path # q BY <1>1, <1>7
<1>9. QED BY <1>7, <1>8

----------------------------------------------------------------------------
(* The engine.                                                             *)
EngineTyped ==
  /\ files \in [Paths -> Nodes]
  /\ engine = [phase |-> engine.phase, patch |-> engine.patch, next |-> engine.next,
               snapshot |-> engine.snapshot, before |-> engine.before,
               status |-> engine.status]
  /\ engine.phase \in {"idle", "applying", "done"}
  /\ engine.patch \in Patches \union {NoPatch}
  /\ engine.next \in Nat \ {0}
  /\ engine.status \in EngineStatus
  /\ stray \subseteq Paths

(* What the engine remembers of the workspace.                             *)
Remembers ==
  /\ engine.patch \in Patches /\ ValidPatch(engine.patch)
  /\ engine.before \in [Paths -> Nodes]
  /\ engine.snapshot = [q \in Touched(engine.patch) |-> engine.before[q]]
  /\ \A q \in Touched(engine.patch) : engine.before[q] # "directory"

(* A path the patch does not name is as it was, or was made a directory.   *)
AsBefore(now, q) ==
  \/ now[q] = engine.before[q]
  \/ now[q] = "directory" /\ engine.before[q] \in {"absent", "directory"}
OthersKept(now) == \A q \in Paths \ Touched(engine.patch) : AsBefore(now, q)

(* A path is what the last of its changes so far says, or a directory.     *)
LastSoFar(i, n, q) ==
  /\ engine.patch.changes[i].path = q
  /\ \A j \in i + 1 .. n : engine.patch.changes[j].path # q
MadeUpTo(now, n) ==
  \A q \in Paths : \A i \in 1 .. n :
    LastSoFar(i, n, q) => now[q] \in {"directory", Result(engine.patch.changes[i])}

Underway ==
  engine.phase = "applying" =>
    /\ Remembers
    /\ engine.next <= Len(engine.patch.changes) + 1
    /\ OthersKept(files)
    /\ MadeUpTo(files, engine.next - 1)

EngineInv == EngineTyped /\ Underway /\ AllOrNothing

LEMMA Distinct ==
  /\ "absent" \notin Texts /\ "directory" \notin Texts /\ NoText \notin Texts
  /\ "absent" \in Nodes /\ "directory" \in Nodes /\ Texts \subseteq Nodes
  /\ \A q \in Paths : Parent[q] # Root => Parent[q] \in Paths /\ Parent[q] # q
  /\ \A p \in Patches : p \in PatchSet
BY SafePatchAssumption DEF Nodes

LEMMA EngineStarts == PatchInit => EngineInv
<1> SUFFICES ASSUME PatchInit PROVE EngineInv OBVIOUS
<1>1. engine = EngineIdle /\ stray = {} /\ faults = 0 /\ files \in [Paths -> Nodes]
  BY DEF PatchInit
<1>2. EngineTyped BY <1>1 DEF EngineTyped, EngineIdle, EngineStatus
<1>3. Underway BY <1>1 DEF Underway, EngineIdle
<1>4. AllOrNothing BY <1>1 DEF AllOrNothing, EngineIdle
<1>5. QED BY <1>2, <1>3, <1>4 DEF EngineInv

(* The engine at rest has nothing to answer for.                           *)
LEMMA RestKeeps ==
  ASSUME EngineInv, engine' = EngineIdle, files' \in [Paths -> Nodes],
         stray' = stray
  PROVE  EngineInv'
<1>1. EngineTyped' BY DEF EngineInv, EngineTyped, EngineIdle, EngineStatus
<1>2. Underway' BY DEF Underway, EngineIdle
<1>3. AllOrNothing' BY DEF AllOrNothing, EngineIdle
<1>4. QED BY <1>1, <1>2, <1>3 DEF EngineInv

(* A call that ends before it changes anything.                            *)
LEMMA FinishKeeps ==
  ASSUME EngineInv, NEW p \in Patches, NEW status, Finish(p, status),
         status \in {"rejected", "dry_run", "snapshot_error"},
         UNCHANGED <<files, stray>>
  PROVE  EngineInv'
<1>1. engine' = [phase |-> "done", patch |-> p, next |-> 1, snapshot |-> NoSnapshot,
                 before |-> files, status |-> status]
  BY DEF Finish, EngineIdle
<1>2. EngineTyped' BY <1>1 DEF EngineInv, EngineTyped, EngineStatus
<1>3. Underway' BY <1>1 DEF Underway
<1>4. AllOrNothing' BY <1>1 DEF AllOrNothing, SameFiles
<1>5. QED BY <1>2, <1>3, <1>4 DEF EngineInv

LEMMA BeginKeeps ==
  ASSUME EngineInv, NEW p \in Patches, BeginApply(p)
  PROVE  EngineInv'
<1>1. /\ engine' = [phase |-> "applying", patch |-> p, next |-> 1,
                    snapshot |-> SnapshotOf(p), before |-> files, status |-> "none"]
      /\ UNCHANGED <<files, stray, faults>> /\ CanSnapshot(p) /\ ValidPatch(p)
  BY DEF BeginApply, ValidWithWorkspace
<1>2. EngineTyped' BY <1>1 DEF EngineInv, EngineTyped, EngineStatus
<1>3. Remembers'
  <2>1. files \in [Paths -> Nodes] BY DEF EngineInv, EngineTyped
  <2>2. ValidPatch(p)' BY <1>1 DEF ValidPatch, ValidChange
  <2>3. SnapshotOf(p) = [q \in Touched(p) |-> files[q]]
        /\ \A q \in Touched(p) : files[q] # "directory"
    BY <1>1 DEF SnapshotOf, CanSnapshot
  <2>4. engine'.patch = p /\ engine'.before = files /\ engine'.snapshot = SnapshotOf(p)
    BY <1>1
  <2>5. QED BY <1>1, <2>1, <2>2, <2>3, <2>4 DEF Remembers
<1>4. Len(p.changes) \in Nat BY ChangesTyped
<1>5. OthersKept(files)' BY <1>1 DEF OthersKept, AsBefore
<1>6. MadeUpTo(files, engine.next - 1)' BY <1>1 DEF MadeUpTo
<1>7. Underway' BY <1>1, <1>3, <1>4, <1>5, <1>6 DEF Underway
<1>8. AllOrNothing' BY <1>1 DEF AllOrNothing
<1>9. QED BY <1>2, <1>7, <1>8 DEF EngineInv

LEMMA CallKeeps ==
  ASSUME EngineInv, NEW p \in Patches, DryRun(p) \/ Submit(p)
  PROVE  EngineInv'
<1>1. CASE DryRun(p)
  <2>1. \E status \in {"rejected", "dry_run"} : Finish(p, status) BY <1>1 DEF DryRun
  <2>2. QED BY <1>1, <2>1, FinishKeeps DEF DryRun
<1>2. CASE RejectPatch(p) BY <1>2, FinishKeeps DEF RejectPatch
<1>3. CASE SnapshotFails(p) BY <1>3, FinishKeeps DEF SnapshotFails
<1>4. CASE BeginApply(p) BY <1>4, BeginKeeps
<1>5. QED BY <1>1, <1>2, <1>3, <1>4 DEF Submit

(* The change that is next.                                                *)
LEMMA CurrentTyped ==
  ASSUME EngineInv, engine.phase = "applying", engine.next <= Len(engine.patch.changes)
  PROVE  /\ engine.patch \in Patches /\ ValidPatch(engine.patch)
         /\ engine.next \in 1 .. Len(engine.patch.changes)
         /\ Current \in Change /\ Current.path \in Touched(engine.patch)
         /\ Result(Current) \in Texts \union {"absent"}
         /\ Current.op # "delete" => Current.text \in Texts
<1>1. /\ engine.patch \in Patches /\ ValidPatch(engine.patch) /\ engine.next \in Nat \ {0}
  BY DEF EngineInv, EngineTyped, Underway, Remembers
<1>2. Len(engine.patch.changes) \in Nat BY <1>1, ChangesTyped
<1>3. engine.next \in 1 .. Len(engine.patch.changes) BY <1>1, <1>2
<1>4. QED BY <1>1, <1>3, ChangesTyped, TouchedPaths, ResultTyped DEF Current

(* The directory of a new file is made where no file is.                   *)
LEMMA WithParentIs ==
  ASSUME files \in [Paths -> Nodes], NEW q \in Paths, ParentUsable(q)
  PROVE  /\ WithParent(q) \in [Paths -> Nodes]
         /\ WithParent(q)[q] = files[q]
         /\ \A r \in Paths : WithParent(q)[r] = files[r]
              \/ (WithParent(q)[r] = "directory" /\ files[r] \notin Texts)
BY Distinct DEF WithParent, ParentUsable, IsFile

(* What a change does to the workspace.                                    *)
LEMMA MakeIs ==
  ASSUME EngineInv, MakeChange
  PROVE  /\ files' \in [Paths -> Nodes]
         /\ files'[Current.path] \in {"directory", Result(Current)}
         /\ Current.op # "create" => files'[Current.path] = Result(Current)
         /\ \A q \in Paths : q # Current.path =>
              \/ files'[q] = files[q]
              \/ files'[q] = "directory" /\ files[q] \notin Texts
<1> DEFINE c == Current
<1>1. /\ c \in Change /\ c.path \in Paths /\ c.op \in {"create", "modify", "delete"}
      /\ c.op # "delete" => c.text \in Texts
  BY CurrentTyped DEF MakeChange, Change, Operations
<1>2. files \in [Paths -> Nodes] BY DEF EngineInv, EngineTyped
<1>3. ChangeAllowed(c)
      /\ files' = IF c.op = "create" /\ files[c.path] = "directory" THEN files
                  ELSE IF c.op = "create" THEN [WithParent(c.path) EXCEPT ![c.path] = c.text]
                  ELSE IF c.op = "modify" THEN [files EXCEPT ![c.path] = c.text]
                  ELSE [files EXCEPT ![c.path] = "absent"]
  BY DEF MakeChange
<1>4. c.op = "create" => ParentUsable(c.path) BY <1>3 DEF ChangeAllowed
<1> HIDE DEF c
<1>5. CASE c.op = "create" /\ files[c.path] = "directory"
  <2>1. files' = files BY <1>3, <1>5
  <2>2. QED BY <1>2, <1>5, <2>1 DEF c
<1>6. CASE c.op = "create" /\ files[c.path] # "directory"
  <2> DEFINE f == WithParent(c.path)
  <2>1. /\ f \in [Paths -> Nodes]
        /\ \A r \in Paths : f[r] = files[r] \/ (f[r] = "directory" /\ files[r] \notin Texts)
    BY <1>1, <1>2, <1>4, <1>6, WithParentIs
  <2>2. files' = [f EXCEPT ![c.path] = c.text] BY <1>3, <1>6
  <2> HIDE DEF f
  <2>3. Result(c) = c.text /\ c.text \in Nodes BY <1>1, <1>6, Distinct DEF Result
  <2>4. QED BY <1>1, <2>1, <2>2, <2>3 DEF c
<1>7. CASE c.op = "modify"
  <2>1. files' = [files EXCEPT ![c.path] = c.text] BY <1>3, <1>7
  <2>2. Result(c) = c.text /\ c.text \in Nodes BY <1>1, <1>7, Distinct DEF Result
  <2>3. QED BY <1>1, <1>2, <2>1, <2>2 DEF c
<1>8. CASE c.op = "delete"
  <2>1. files' = [files EXCEPT ![c.path] = "absent"] BY <1>3, <1>8
  <2>2. Result(c) = "absent" BY <1>8 DEF Result
  <2>3. QED BY <1>1, <1>2, <2>1, <2>2, Distinct DEF c
<1>9. QED BY <1>1, <1>5, <1>6, <1>7, <1>8

(* A path the patch does not name stays as before through any such change. *)
LEMMA AsBeforeKept ==
  ASSUME Remembers, NEW q \in Paths, NEW now, NEW then, AsBefore(now, q),
         then[q] = now[q] \/ (then[q] = "directory" /\ now[q] \notin Texts)
  PROVE  AsBefore(then, q)
<1>1. engine.before[q] \in Texts \union {"absent", "directory"}
  BY DEF Remembers, Nodes
<1>2. QED BY <1>1 DEF AsBefore

LEMMA MakeKeeps == ASSUME EngineInv, MakeChange PROVE EngineInv'
<1> DEFINE p == engine.patch
           k == engine.next
<1>1. engine.phase = "applying" /\ k <= Len(p.changes) BY DEF MakeChange
<1>2. /\ p \in Patches /\ k \in 1 .. Len(p.changes) /\ Current = p.changes[k]
      /\ Current.path \in Touched(p) /\ Len(p.changes) \in Nat
  BY <1>1, CurrentTyped, ChangesTyped DEF Current
<1>3. Remembers /\ OthersKept(files) /\ MadeUpTo(files, k - 1)
  BY <1>1 DEF EngineInv, Underway
<1>4. /\ engine'.phase = "applying" /\ engine'.patch = p /\ engine'.next = k + 1
      /\ engine'.snapshot = engine.snapshot /\ engine'.before = engine.before
      /\ engine' = [engine EXCEPT !.next = k + 1]
  BY <1>1 DEF MakeChange, EngineInv, EngineTyped
<1>5. stray' \subseteq Paths
  BY <1>2, TouchedPaths DEF MakeChange, EngineInv, EngineTyped
<1>6. EngineTyped'
  <2>1. files' \in [Paths -> Nodes] BY MakeIs
  <2>2. engine' = [phase |-> engine'.phase, patch |-> engine'.patch, next |-> engine'.next,
                   snapshot |-> engine'.snapshot, before |-> engine'.before,
                   status |-> engine'.status] /\ engine'.status = engine.status
    BY <1>4 DEF EngineInv, EngineTyped
  <2>3. k + 1 \in Nat \ {0} BY <1>2
  <2>4. QED BY <1>2, <1>4, <1>5, <2>1, <2>2, <2>3 DEF EngineInv, EngineTyped
<1>7. Remembers' BY <1>3, <1>4 DEF Remembers, ValidPatch, ValidChange
<1>8. OthersKept(files)'
  <2> SUFFICES ASSUME NEW q \in Paths \ Touched(p)
               PROVE  engine.before[q] = files'[q]
                      \/ (files'[q] = "directory" /\ engine.before[q] \in {"absent", "directory"})
    BY <1>4 DEF OthersKept, AsBefore
  <2>1. q # Current.path BY <1>2
  <2>2. AsBefore(files, q) BY <1>3 DEF OthersKept
  <2>3. AsBefore(files', q) BY <1>3, <2>1, <2>2, MakeIs, AsBeforeKept
  <2>4. QED BY <2>3 DEF AsBefore
<1>9. MadeUpTo(files, engine.next - 1)'
  <2> SUFFICES ASSUME NEW q \in Paths, NEW i \in 1 .. k,
                      p.changes[i].path = q, \A j \in i + 1 .. k : p.changes[j].path # q
               PROVE  files'[q] \in {"directory", Result(p.changes[i])}
    BY <1>2, <1>4 DEF MadeUpTo, LastSoFar
  <2>1. CASE i = k BY <1>2, <2>1, MakeIs
  <2>2. CASE i # k
    <3>1. i \in 1 .. k - 1 /\ k \in i + 1 .. k BY <1>2, <2>2
    <3>2. q # Current.path BY <1>2, <3>1
    <3>3. files[q] \in {"directory", Result(p.changes[i])}
      BY <1>3, <3>1 DEF MadeUpTo, LastSoFar
    <3>4. QED BY <3>2, <3>3, MakeIs
  <2>3. QED BY <2>1, <2>2
<1>10. Underway' BY <1>2, <1>4, <1>7, <1>8, <1>9 DEF Underway
<1>11. AllOrNothing' BY <1>4 DEF AllOrNothing
<1>12. QED BY <1>6, <1>10, <1>11 DEF EngineInv

(* apply reports what it has made.                                         *)
LEMMA AppliedKeeps == ASSUME EngineInv, Applied PROVE EngineInv'
<1> DEFINE p == engine.patch
           n == Len(p.changes)
<1>1. /\ engine.phase = "applying" /\ engine.next > n
      /\ engine' = [engine EXCEPT !.phase = "done", !.status = "applied"]
      /\ UNCHANGED <<files, stray, faults>>
  BY DEF Applied
<1>2. Remembers /\ OthersKept(files) /\ MadeUpTo(files, engine.next - 1)
      /\ engine.next <= n + 1 /\ p \in Patches
  BY <1>1 DEF EngineInv, Underway, Remembers
<1>3. engine.next - 1 = n /\ n \in Nat
  BY <1>1, <1>2, ChangesTyped DEF EngineInv, EngineTyped
<1>4. EngineTyped'
  BY <1>1 DEF EngineInv, EngineTyped, EngineStatus
<1>5. engine'.phase = "done" /\ engine'.patch = p /\ engine'.before = engine.before
      /\ engine'.status = "applied"
  BY <1>1 DEF EngineInv, EngineTyped
<1>6. Underway' BY <1>5 DEF Underway
<1>7. ASSUME NEW q \in Paths
      PROVE  files[q] = Intended(p, engine.before)[q] \/ files[q] = "directory"
  <2>1. CASE q \notin Touched(p)
    <3>1. Intended(p, engine.before)[q] = engine.before[q] BY <2>1 DEF Intended
    <3>2. AsBefore(files, q) BY <1>2, <2>1 DEF OthersKept
    <3>3. QED BY <3>1, <3>2 DEF AsBefore
  <2>2. CASE q \in Touched(p)
    <3>1. PICK i \in 1 .. n :
            /\ LastChange(p, q) = p.changes[i] /\ p.changes[i].path = q
            /\ \A j \in i + 1 .. n : p.changes[j].path # q
      BY <1>2, <2>2, LastIs
    <3>2. LastSoFar(i, n, q) BY <3>1 DEF LastSoFar
    <3>3. files[q] \in {"directory", Result(p.changes[i])}
      BY <1>2, <1>3, <3>2 DEF MadeUpTo
    <3>4. Intended(p, engine.before)[q] = Result(p.changes[i])
      BY <2>2, <3>1 DEF Intended, Result
    <3>5. QED BY <3>3, <3>4
  <2>3. QED BY <2>1, <2>2
<1>8. AllOrNothing' BY <1>1, <1>5, <1>7 DEF AllOrNothing
<1>9. QED BY <1>4, <1>6, <1>8 DEF EngineInv

(* A rollback restores what was remembered.                                *)
LEMMA RollBackKeeps ==
  ASSUME EngineInv, engine.phase = "applying", NEW now \in [Paths -> Nodes],
         OthersKept(now), NEW spent, RollBackTo(now, spent), stray' = stray
  PROVE  EngineInv'
<1> DEFINE snap == engine.snapshot
<1>1. Remembers BY DEF EngineInv, Underway
<1>2. PICK bad \in SUBSET DOMAIN snap :
        /\ files' = Restore(now, snap, bad)
        /\ engine' = [engine EXCEPT
             !.phase = "done",
             !.status = IF Unrestorable(now, snap) \union bad = {}
                        THEN "rolled_back" ELSE "rollback_error"]
  BY DEF RollBackTo
<1>3. /\ DOMAIN snap = Touched(engine.patch) /\ Touched(engine.patch) \subseteq Paths
      /\ \A q \in Touched(engine.patch) : snap[q] = engine.before[q]
      /\ engine.before \in [Paths -> Nodes]
  BY <1>1, TouchedPaths DEF Remembers
<1>4. /\ engine'.phase = "done" /\ engine'.patch = engine.patch
      /\ engine'.before = engine.before
      /\ engine'.status \in {"rolled_back", "rollback_error"}
      /\ engine'.status = "rolled_back" => Unrestorable(now, snap) \union bad = {}
      /\ EngineTyped => engine' = [phase |-> engine'.phase, patch |-> engine'.patch,
             next |-> engine'.next, snapshot |-> engine'.snapshot,
             before |-> engine'.before, status |-> engine'.status]
      /\ engine'.next = engine.next
  BY <1>2 DEF EngineInv, EngineTyped
<1> HIDE DEF snap
<1>5. files' \in [Paths -> Nodes] BY <1>2, <1>3 DEF Restore
<1>6. EngineTyped' BY <1>4, <1>5 DEF EngineInv, EngineTyped, EngineStatus
<1>7. Underway' BY <1>4 DEF Underway
<1>8. ASSUME engine'.status = "rolled_back", NEW q \in Paths
      PROVE  \/ files'[q] = engine.before[q]
             \/ {files'[q], engine.before[q]} \subseteq {"absent", "directory"}
  <2>1. Unrestorable(now, snap) \union bad = {} BY <1>4, <1>8
  <2>2. CASE q \in Touched(engine.patch)
    <3>1. files'[q] = snap[q] BY <1>2, <1>3, <2>1, <2>2 DEF Restore
    <3>2. QED BY <1>3, <2>2, <3>1
  <2>3. CASE q \notin Touched(engine.patch)
    <3>1. files'[q] = now[q] BY <1>2, <1>3, <2>3 DEF Restore
    <3>2. AsBefore(now, q) BY <2>3 DEF OthersKept
    <3>3. QED BY <3>1, <3>2 DEF AsBefore
  <2>4. QED BY <2>2, <2>3
<1>9. AllOrNothing' BY <1>4, <1>8 DEF AllOrNothing, SameFiles
<1>10. QED BY <1>6, <1>7, <1>9 DEF EngineInv

(* What a failing change may have done: nothing, or a directory.           *)
LEMMA FailedChange ==
  ASSUME EngineInv, RefuseChange \/ ChangeFault
  PROVE  \E now \in [Paths -> Nodes], spent \in {0, 1} :
           /\ engine.phase = "applying" /\ stray' = stray
           /\ RollBackTo(now, spent)
           /\ \A q \in Paths : now[q] = files[q]
                \/ (now[q] = "directory" /\ files[q] \notin Texts)
<1>1. files \in [Paths -> Nodes] BY DEF EngineInv, EngineTyped
<1>2. CASE RefuseChange BY <1>1, <1>2 DEF RefuseChange
<1>3. CASE ChangeFault /\ RollBackTo(files, 1) BY <1>1, <1>3 DEF ChangeFault
<1>4. CASE ChangeFault /\ ~RollBackTo(files, 1)
  <2> DEFINE f == WithParent(Current.path)
  <2>1. /\ engine.phase = "applying" /\ stray' = stray /\ RollBackTo(f, 1)
        /\ engine.next <= Len(engine.patch.changes)
        /\ ChangeAllowed(Current) /\ Current.op = "create"
    BY <1>4 DEF ChangeFault
  <2>2. Current.path \in Paths BY <2>1, CurrentTyped DEF Change
  <2>3. ParentUsable(Current.path) BY <2>1 DEF ChangeAllowed
  <2>4. /\ f \in [Paths -> Nodes]
        /\ \A q \in Paths : f[q] = files[q] \/ (f[q] = "directory" /\ files[q] \notin Texts)
    BY <1>1, <2>2, <2>3, WithParentIs
  <2> HIDE DEF f
  <2>5. QED BY <2>1, <2>4
<1>5. QED BY <1>2, <1>3, <1>4

LEMMA StepKeeps == ASSUME EngineInv, EngineStep PROVE EngineInv'
<1>1. CASE MakeChange BY <1>1, MakeKeeps
<1>2. CASE Applied BY <1>2, AppliedKeeps
<1>3. CASE RefuseChange \/ ChangeFault
  <2>1. PICK now \in [Paths -> Nodes], spent \in {0, 1} :
          /\ engine.phase = "applying" /\ stray' = stray
          /\ RollBackTo(now, spent)
          /\ \A q \in Paths : now[q] = files[q]
               \/ (now[q] = "directory" /\ files[q] \notin Texts)
    BY <1>3, FailedChange
  <2>2. Remembers /\ OthersKept(files) BY <2>1 DEF EngineInv, Underway
  <2>3. OthersKept(now) BY <2>1, <2>2, AsBeforeKept DEF OthersKept
  <2>4. QED BY <2>1, <2>3, RollBackKeeps
<1>4. QED BY <1>1, <1>2, <1>3 DEF EngineStep

----------------------------------------------------------------------------
(* The loop.                                                               *)
LoopTyped ==
  /\ loop = [at |-> loop.at, fits |-> loop.fits, attempt |-> loop.attempt,
             stalled |-> loop.stalled, seen |-> loop.seen, patch |-> loop.patch,
             saved |-> loop.saved, start |-> loop.start]
  /\ session = [status |-> session.status, attempts |-> session.attempts,
                last |-> session.last, best |-> session.best,
                bestAttempt |-> session.bestAttempt, final |-> session.final,
                tests |-> session.tests]
  /\ loop.at \in {"idle", "ask", "validate", "apply", "test", "ended"}
  /\ DOMAIN loop.saved \subseteq Paths
  /\ \A q \in DOMAIN loop.saved : loop.saved[q] \in Nodes

(* The loop has the engine to itself, and hands it only what RepairPolicy  *)
(* has allowed.                                                            *)
EngineLent ==
  /\ loop.at \notin {"idle", "apply"} => engine = EngineIdle
  /\ loop.at \in {"validate", "apply"} =>
       loop.patch \in RepairPatches /\ PolicyAllows(loop.patch)
  /\ loop.at = "apply" => engine.patch = loop.patch

(* What a test file may hold after the session began.                      *)
Kept(text, q) ==
  session.tests[q] \in Texts =>
    text = session.tests[q] \/ (text \in Texts /\ "weakens_test" \notin Traits[text])

(* The tests are kept in the workspace and in both snapshots a rollback    *)
(* may write back, and the patch that is being applied can only modify     *)
(* them.                                                                   *)
TestKept(q) ==
  /\ Kept(files[q], q)
  /\ q \in DOMAIN loop.saved => Kept(loop.saved[q], q)
  /\ loop.at = "apply" /\ engine.phase = "applying" =>
       /\ q \in Touched(engine.patch) => Kept(engine.snapshot[q], q)
       /\ session.tests[q] \in Texts =>
            \A c \in Range(engine.patch.changes) : c.path = q => c.op = "modify"

TestsInv ==
  loop.at # "idle" /\ ~AllowTestEdits => \A q \in TestFiles : TestKept(q)

RepairInv == EngineInv /\ LoopTyped /\ EngineLent /\ TestsInv

LEMMA RepairStarts == Init => RepairInv
<1> SUFFICES ASSUME Init PROVE RepairInv OBVIOUS
<1>1. EngineInv BY EngineStarts DEF Init
<1>2. session = SessionIdle /\ loop = LoopIdle BY DEF Init
<1>3. LoopTyped BY <1>2 DEF LoopTyped, SessionIdle, LoopIdle, NoSnapshot
<1>4. EngineLent BY <1>2 DEF EngineLent, LoopIdle
<1>5. TestsInv BY <1>2 DEF TestsInv, LoopIdle
<1>6. QED BY <1>1, <1>3, <1>4, <1>5 DEF RepairInv

(* The end of a pass, whatever its outcome.                                *)
PassClosed ==
  /\ LoopTyped' /\ loop'.at \in {"ask", "ended"}
  /\ loop'.saved = NoSnapshot /\ session'.tests = session.tests

LEMMA PassCloses ==
  ASSUME LoopTyped, NEW outcome, NEW stop, NEW continued, NEW stalled,
         NEW best, NEW attempt,
         ClosePass(outcome, stop, continued, stalled, best, attempt)
  PROVE  PassClosed
BY DEF ClosePass, PassClosed, LoopTyped, NoSnapshot

LEMMA UnchangedCloses ==
  ASSUME LoopTyped, NEW outcome, NEW stop, NEW continued, NEW stalled,
         Unchanged(outcome, stop, continued, stalled)
  PROVE  PassClosed
<1>1. ClosePass(outcome, stop, continued, stalled, session.best, session.bestAttempt)
  BY DEF Unchanged
<1>2. QED BY <1>1, PassCloses

LEMMA CloseKeeps ==
  ASSUME RepairInv, PassClosed, loop.at # "idle", engine' = EngineIdle,
         stray' = stray, files' \in [Paths -> Nodes],
         ~AllowTestEdits => \A q \in TestFiles : Kept(files[q], q) => Kept(files'[q], q)
  PROVE  RepairInv'
<1>1. EngineInv' BY RestKeeps DEF RepairInv
<1>2. LoopTyped' BY DEF PassClosed
<1>3. EngineLent' BY DEF PassClosed, EngineLent
<1>4. TestsInv'
  <2> SUFFICES ASSUME ~AllowTestEdits, NEW q \in TestFiles PROVE TestKept(q)'
    BY DEF TestsInv
  <2>1. Kept(files[q], q) BY DEF RepairInv, TestsInv, TestKept
  <2>2. Kept(files'[q], q) BY <2>1
  <2>3. Kept(files[q], q)' BY <2>2 DEF Kept, PassClosed
  <2>4. QED BY <2>3 DEF TestKept, PassClosed, NoSnapshot
<1>5. QED BY <1>1, <1>2, <1>3, <1>4 DEF RepairInv

(* A pass that ends without the engine.                                    *)
LEMMA QuietCloseKeeps ==
  ASSUME RepairInv, PassClosed, loop.at \in {"ask", "validate", "test"},
         UNCHANGED <<files, stray, engine>>
  PROVE  RepairInv'
<1>1. engine' = EngineIdle BY DEF RepairInv, EngineLent
<1>2. files' \in [Paths -> Nodes] BY DEF RepairInv, EngineInv, EngineTyped
<1>3. QED BY <1>1, <1>2, CloseKeeps

(* A step within a pass.                                                   *)
PassStays(at, saved) ==
  /\ loop' = [at |-> at, fits |-> loop'.fits, attempt |-> loop'.attempt,
              stalled |-> loop'.stalled, seen |-> loop'.seen, patch |-> loop'.patch,
              saved |-> saved, start |-> loop'.start]
  /\ session' = session

LEMMA NothingSaved == DOMAIN NoSnapshot = {}
BY DEF NoSnapshot

LEMMA StaysTyped ==
  ASSUME LoopTyped, NEW at \in {"ask", "validate", "apply", "test"}, NEW saved,
         DOMAIN saved \subseteq Paths, \A q \in DOMAIN saved : saved[q] \in Nodes,
         PassStays(at, saved)
  PROVE  LoopTyped'
<1>1. loop'.at = at /\ loop'.saved = saved BY DEF PassStays
<1>2. QED BY <1>1 DEF LoopTyped, PassStays

LEMMA CodingKeeps == ASSUME RepairInv, Coding PROVE RepairInv'
<1>1. PICK p \in Patches : CodingPatch(p) BY DEF Coding
<1>2. /\ loop.at = "idle" /\ UNCHANGED <<session, loop>> /\ (DryRun(p) \/ Submit(p))
  BY <1>1 DEF CodingPatch
<1>3. EngineInv' BY <1>2, CallKeeps DEF RepairInv
<1>4. LoopTyped' BY <1>2 DEF RepairInv, LoopTyped
<1>5. EngineLent' BY <1>2 DEF EngineLent
<1>6. TestsInv' BY <1>2 DEF TestsInv
<1>7. QED BY <1>3, <1>4, <1>5, <1>6 DEF RepairInv

LEMMA StartKeeps == ASSUME RepairInv, Start PROVE RepairInv'
<1>1. PICK r \in Results : StartRepair(r) BY DEF Start
<1>2. /\ engine' = EngineIdle /\ UNCHANGED <<files, stray, faults>>
      /\ \E status, fits :
           /\ session' = [SessionIdle EXCEPT !.status = status, !.best = r,
                              !.tests = [q \in TestFiles |-> files[q]]]
           /\ loop' = [LoopIdle EXCEPT
                         !.fits = fits,
                         !.at = IF status = "running" THEN "ask" ELSE "ended",
                         !.attempt = IF status = "running" THEN 1 ELSE 0]
  BY <1>1 DEF StartRepair
<1>3. EngineInv' BY <1>2, RestKeeps DEF RepairInv, EngineInv, EngineTyped
<1>4. /\ LoopTyped' /\ loop'.at \in {"ask", "ended"} /\ loop'.saved = NoSnapshot
      /\ session'.tests = [q \in TestFiles |-> files[q]]
  <2> DEFINE tests == [q \in TestFiles |-> files[q]]
  <2>1. PICK status, fits :
          /\ session' = [SessionIdle EXCEPT !.status = status, !.best = r, !.tests = tests]
          /\ loop' = [LoopIdle EXCEPT
                        !.fits = fits,
                        !.at = IF status = "running" THEN "ask" ELSE "ended",
                        !.attempt = IF status = "running" THEN 1 ELSE 0]
    BY <1>2
  <2> HIDE DEF tests
  <2>2. /\ session'.tests = tests
        /\ session' = [status |-> session'.status, attempts |-> session'.attempts,
             last |-> session'.last, best |-> session'.best,
             bestAttempt |-> session'.bestAttempt, final |-> session'.final,
             tests |-> session'.tests]
    BY <2>1 DEF SessionIdle
  <2>3. /\ loop'.at \in {"ask", "ended"} /\ loop'.saved = NoSnapshot
        /\ loop' = [at |-> loop'.at, fits |-> loop'.fits, attempt |-> loop'.attempt,
             stalled |-> loop'.stalled, seen |-> loop'.seen, patch |-> loop'.patch,
             saved |-> loop'.saved, start |-> loop'.start]
    BY <2>1 DEF LoopIdle
  <2>4. DOMAIN NoSnapshot = {} BY DEF NoSnapshot
  <2>5. QED BY <2>2, <2>3, <2>4 DEF LoopTyped, tests
<1>5. EngineLent' BY <1>2, <1>4 DEF EngineLent
<1>6. TestsInv' BY <1>2, <1>4 DEF TestsInv, TestKept, Kept, NoSnapshot
<1>7. QED BY <1>3, <1>4, <1>5, <1>6 DEF RepairInv

LEMMA AskKeeps == ASSUME RepairInv, Ask PROVE RepairInv'
<1>1. loop.at = "ask" /\ LoopTyped /\ engine = EngineIdle
  BY DEF RepairInv, EngineLent, Ask, AgentFails, AgentDeclines, AgentProposesNothing,
         RepeatedPatch, UnsafePatch, ValidatePatch
<1>2. CASE AgentFails \/ AgentDeclines
           \/ \E p \in RepairPatches : RepeatedPatch(p) \/ UnsafePatch(p)
  <2>1. PassClosed /\ UNCHANGED patchVars
    BY <1>1, <1>2, UnchangedCloses
       DEF AgentFails, AgentDeclines, RepeatedPatch, UnsafePatch
  <2>2. QED BY <1>1, <2>1, QuietCloseKeeps DEF patchVars
<1>3. CASE AgentProposesNothing
  <2>1. /\ UNCHANGED <<patchVars, session>>
        /\ loop' = [loop EXCEPT !.at = "test", !.patch = NoPatch,
                                !.saved = NoSnapshot, !.start = files]
    BY <1>3 DEF AgentProposesNothing
  <2>2. PassStays("test", NoSnapshot) BY <1>1, <2>1 DEF PassStays, LoopTyped
  <2>3. EngineInv' BY <1>1, <2>1, RestKeeps DEF patchVars, RepairInv, EngineInv, EngineTyped
  <2>4. LoopTyped' BY <1>1, <2>2, StaysTyped, NothingSaved
  <2>5. EngineLent' BY <1>1, <2>1, <2>2 DEF EngineLent, PassStays, patchVars
  <2>6. TestsInv'
    BY <1>1, <2>1, <2>2 DEF RepairInv, TestsInv, TestKept, Kept, PassStays, patchVars, NoSnapshot
  <2>7. QED BY <2>3, <2>4, <2>5, <2>6 DEF RepairInv
<1>4. CASE \E p \in RepairPatches : ValidatePatch(p)
  <2>1. PICK p \in RepairPatches : ValidatePatch(p) BY <1>4
  <2>2. /\ UNCHANGED <<patchVars, session>> /\ PolicyAllows(p)
        /\ loop' = [loop EXCEPT !.at = "validate", !.patch = p,
                                !.seen = loop.seen \union {Fingerprint(p)}]
    BY <2>1 DEF ValidatePatch
  <2>3. PassStays("validate", loop.saved) /\ loop'.patch = p
    BY <1>1, <2>2 DEF PassStays, LoopTyped
  <2>4. EngineInv' BY <1>1, <2>2, RestKeeps DEF patchVars, RepairInv, EngineInv, EngineTyped
  <2>5. LoopTyped' BY <1>1, <2>3, StaysTyped DEF LoopTyped
  <2>6. EngineLent' BY <1>1, <2>2, <2>3 DEF EngineLent, PassStays, patchVars, PolicyAllows
  <2>7. TestsInv'
    BY <1>1, <2>2, <2>3 DEF RepairInv, TestsInv, TestKept, Kept, PassStays, patchVars
  <2>8. QED BY <2>4, <2>5, <2>6, <2>7 DEF RepairInv
<1>5. QED BY <1>2, <1>3, <1>4 DEF Ask

(* What the loop hands to the engine does not delete a test file, and a    *)
(* file that exists is not created.                                        *)
LEMMA OnlyModified ==
  ASSUME ~AllowTestEdits, NEW p \in RepairPatches, PolicyAllows(p),
         ValidWithWorkspace(p), NEW q \in TestFiles, files[q] \in Texts,
         NEW c \in Range(p.changes), c.path = q
  PROVE  c.op = "modify"
<1>1. TamperingOk(c) BY DEF PolicyAllows
<1>2. c.op # "delete" BY <1>1 DEF TamperingOk, TestFiles
<1>3. c.op # "create" BY DEF ValidWithWorkspace, IsFile
<1>4. c \in Change
  <2>1. p \in Patches BY RepairAssumption
  <2>2. QED BY <2>1, ChangesTyped DEF Range
<1>5. QED BY <1>2, <1>3, <1>4 DEF Change, Operations

LEMMA ApplyRepairKeeps == ASSUME RepairInv, ApplyRepair PROVE RepairInv'
<1> DEFINE p == loop.patch
           saved == SnapshotOf(p)
<1>1. /\ loop.at = "validate" /\ Submit(p) /\ CanSnapshot(p) /\ session' = session
      /\ loop' = [loop EXCEPT !.at = "apply", !.saved = saved, !.start = files]
  BY DEF ApplyRepair
<1>2. /\ LoopTyped /\ p \in RepairPatches /\ PolicyAllows(p) /\ p \in Patches
      /\ files \in [Paths -> Nodes]
  BY <1>1, RepairAssumption DEF RepairInv, EngineLent, EngineInv, EngineTyped
<1>3. /\ DOMAIN saved = Touched(p) /\ Touched(p) \subseteq Paths
      /\ \A q \in Touched(p) : saved[q] = files[q]
  BY <1>2, TouchedPaths DEF SnapshotOf
<1>4. /\ engine'.patch = p /\ files' = files
      /\ \/ engine'.phase = "done"
         \/ engine'.phase = "applying" /\ engine'.snapshot = saved /\ ValidWithWorkspace(p)
  <2>1. CASE RejectPatch(p) \/ SnapshotFails(p)
    BY <2>1 DEF RejectPatch, SnapshotFails, Finish, EngineIdle
  <2>2. CASE BeginApply(p) BY <2>2 DEF BeginApply
  <2>3. QED BY <1>1, <2>1, <2>2 DEF Submit
<1> HIDE DEF saved
<1>5. PassStays("apply", saved) /\ loop'.patch = p
  BY <1>1, <1>2 DEF PassStays, LoopTyped
<1>6. EngineInv' BY <1>1, <1>2, CallKeeps DEF RepairInv
<1>7. LoopTyped'
  <2>1. \A q \in DOMAIN saved : saved[q] \in Nodes BY <1>2, <1>3
  <2>2. QED BY <1>2, <1>3, <1>5, <2>1, StaysTyped
<1>8. EngineLent' BY <1>2, <1>4, <1>5 DEF EngineLent, PassStays, PolicyAllows
<1>9. TestsInv'
  <2> SUFFICES ASSUME ~AllowTestEdits, NEW q \in TestFiles PROVE TestKept(q)'
    BY DEF TestsInv
  <2>1. Kept(files[q], q) BY <1>1 DEF RepairInv, TestsInv, TestKept
  <2>2. loop'.at = "apply" /\ loop'.saved = saved /\ session' = session
    BY <1>5 DEF PassStays
  <2>3. q \in DOMAIN saved => Kept(saved[q], q) BY <1>3, <2>1
  <2>4. ASSUME engine'.phase = "applying"
        PROVE  /\ q \in Touched(p) => Kept(engine'.snapshot[q], q)
               /\ session.tests[q] \in Texts =>
                    \A c \in Range(p.changes) : c.path = q => c.op = "modify"
    <3>1. engine'.snapshot = saved /\ ValidWithWorkspace(p) BY <1>4, <2>4
    <3>2. session.tests[q] \in Texts => files[q] \in Texts BY <2>1 DEF Kept
    <3>3. QED BY <1>2, <1>3, <2>3, <3>1, <3>2, OnlyModified
  <2>5. Kept(files[q], q)' BY <1>4, <2>1, <2>2 DEF Kept
  <2>6. (q \in DOMAIN loop.saved => Kept(loop.saved[q], q))'
    BY <2>2, <2>3 DEF Kept
  <2>7. (engine.phase = "applying" =>
           /\ q \in Touched(engine.patch) => Kept(engine.snapshot[q], q)
           /\ session.tests[q] \in Texts =>
                \A c \in Range(engine.patch.changes) : c.path = q => c.op = "modify")'
    BY <1>4, <2>2, <2>4 DEF Kept
  <2>8. QED BY <2>5, <2>6, <2>7 DEF TestKept
<1>10. QED BY <1>6, <1>7, <1>8, <1>9 DEF RepairInv

LEMMA JudgeKeeps == ASSUME RepairInv, Judge PROVE RepairInv'
<1>1. loop.at = "validate" /\ LoopTyped
  BY DEF RepairInv, Judge, ValidatorRaises, ValidatorRejects, ApplyRepair, SnapshotRaises
<1>2. CASE ValidatorRaises \/ ValidatorRejects
  <2>1. PassClosed /\ UNCHANGED patchVars
    BY <1>1, <1>2, UnchangedCloses DEF ValidatorRaises, ValidatorRejects
  <2>2. QED BY <1>1, <2>1, QuietCloseKeeps DEF patchVars
<1>3. CASE SnapshotRaises
  <2>1. PassClosed /\ UNCHANGED <<files, stray, engine>>
    BY <1>1, <1>3, UnchangedCloses DEF SnapshotRaises
  <2>2. QED BY <1>1, <2>1, QuietCloseKeeps
<1>4. CASE ApplyRepair BY <1>4, ApplyRepairKeeps
<1>5. QED BY <1>2, <1>3, <1>4 DEF Judge

(* A step of the engine leaves a test file kept.                           *)
LEMMA EngineKeepsTest ==
  ASSUME RepairInv, EngineStep, loop.at = "apply", ~AllowTestEdits,
         NEW q \in TestFiles, engine.phase = "applying"
  PROVE  Kept(files'[q], q)
<1>1. /\ TestKept(q) /\ Kept(files[q], q) /\ q \in Paths /\ EngineInv
      /\ files \in [Paths -> Nodes]
  BY DEF RepairInv, TestsInv, TestKept, TestFiles, EngineInv, EngineTyped
<1> SUFFICES ASSUME session.tests[q] \in Texts
             PROVE  files'[q] = session.tests[q]
                    \/ (files'[q] \in Texts /\ "weakens_test" \notin Traits[files'[q]])
  BY DEF Kept
<1>2. files[q] \in Texts BY <1>1 DEF Kept
<1>3. CASE MakeChange
  <2>1. CASE q # Current.path
    <3>1. files'[q] = files[q] BY <1>1, <1>2, <1>3, <2>1, MakeIs
    <3>2. QED BY <1>1, <3>1 DEF Kept
  <2>2. CASE q = Current.path
    <3>1. engine.next <= Len(engine.patch.changes) BY <1>3 DEF MakeChange
    <3>2. /\ engine.patch \in Patches /\ engine.next \in 1 .. Len(engine.patch.changes)
          /\ Current.op # "delete" => Current.text \in Texts
      BY <1>1, <3>1, CurrentTyped
    <3>3. DOMAIN engine.patch.changes = 1 .. Len(engine.patch.changes)
      BY <3>2, ChangesTyped
    <3>4. Current \in Range(engine.patch.changes) BY <3>2, <3>3 DEF Current, Range
    <3>5. Current.op = "modify" BY <1>1, <2>2, <3>4 DEF TestKept
    <3>6. PolicyAllows(engine.patch) BY DEF RepairInv, EngineLent
    <3>7. "weakens_test" \notin Traits[Current.text]
      BY <2>2, <3>4, <3>5, <3>6 DEF PolicyAllows, TamperingOk, TestFiles
    <3>8. files'[q] = Current.text BY <1>1, <1>3, <2>2, <3>5, MakeIs DEF Result
    <3>9. QED BY <3>2, <3>5, <3>7, <3>8
  <2>3. QED BY <2>1, <2>2
<1>4. CASE Applied BY <1>1, <1>4 DEF Applied, Kept
<1>5. CASE RefuseChange \/ ChangeFault
  <2>1. PICK now \in [Paths -> Nodes], spent \in {0, 1} :
          /\ RollBackTo(now, spent)
          /\ \A r \in Paths : now[r] = files[r]
               \/ (now[r] = "directory" /\ files[r] \notin Texts)
    BY <1>1, <1>5, FailedChange
  <2>2. PICK bad \in SUBSET DOMAIN engine.snapshot :
          files' = Restore(now, engine.snapshot, bad)
    BY <2>1 DEF RollBackTo
  <2>3. now[q] = files[q] BY <1>1, <1>2, <2>1
  <2>4. q \in DOMAIN engine.snapshot => q \in Touched(engine.patch)
    BY <1>1 DEF EngineInv, Underway, Remembers
  <2>5. files'[q] = files[q]
        \/ (q \in Touched(engine.patch) /\ files'[q] = engine.snapshot[q])
    BY <1>1, <2>2, <2>3, <2>4 DEF Restore
  <2>6. QED BY <1>1, <2>5 DEF TestKept, Kept
<1>6. QED BY <1>3, <1>4, <1>5 DEF EngineStep

LEMMA EngineRunsKeeps == ASSUME RepairInv, EngineRuns PROVE RepairInv'
<1>1. EngineStep /\ UNCHANGED <<session, loop>> BY DEF EngineRuns
<1>2. /\ engine.phase = "applying" /\ engine'.patch = engine.patch
      /\ engine'.snapshot = engine.snapshot
  BY <1>1 DEF EngineStep, MakeChange, Applied, RefuseChange, ChangeFault, RollBackTo,
              RepairInv, EngineInv, EngineTyped
<1>3. loop.at \in {"idle", "apply"} BY <1>2 DEF RepairInv, EngineLent, EngineIdle
<1>4. EngineInv' BY <1>1, StepKeeps DEF RepairInv
<1>5. LoopTyped' BY <1>1 DEF RepairInv, LoopTyped
<1>6. EngineLent' BY <1>1, <1>2, <1>3 DEF RepairInv, EngineLent, PolicyAllows
<1>7. TestsInv'
  <2> SUFFICES ASSUME loop.at = "apply", ~AllowTestEdits, NEW q \in TestFiles
               PROVE  TestKept(q)'
    BY <1>1, <1>3 DEF TestsInv
  <2>1. Kept(files'[q], q) BY <1>1, <1>2, EngineKeepsTest
  <2>2. TestKept(q) BY DEF RepairInv, TestsInv
  <2>3. QED BY <1>1, <1>2, <2>1, <2>2 DEF TestKept, Kept
<1>8. QED BY <1>4, <1>5, <1>6, <1>7 DEF RepairInv

LEMMA ApplyKeeps == ASSUME RepairInv, Apply PROVE RepairInv'
<1>1. CASE EngineRuns BY <1>1, EngineRunsKeeps
<1>2. CASE ApplyReturns
  <2>1. /\ loop.at = "apply" /\ engine' = EngineIdle
        /\ UNCHANGED <<files, stray, faults, session>>
        /\ loop' = [loop EXCEPT
                      !.at = "test",
                      !.saved = IF engine.status = "rolled_back" THEN NoSnapshot
                                ELSE loop.saved]
    BY <1>2 DEF ApplyReturns
  <2>2. LoopTyped BY DEF RepairInv
  <2>3. PICK saved \in {NoSnapshot, loop.saved} : PassStays("test", saved)
    BY <2>1, <2>2 DEF PassStays, LoopTyped
  <2>4. EngineInv' BY <2>1, RestKeeps DEF RepairInv, EngineInv, EngineTyped
  <2>5. LoopTyped'
    <3>1. DOMAIN saved \subseteq Paths /\ \A q \in DOMAIN saved : saved[q] \in Nodes
      BY <2>2, <2>3, NothingSaved DEF LoopTyped
    <3>2. QED BY <2>2, <2>3, <3>1, StaysTyped
  <2>6. EngineLent' BY <2>1, <2>3 DEF EngineLent, PassStays
  <2>7. TestsInv'
    <3> SUFFICES ASSUME ~AllowTestEdits, NEW q \in TestFiles PROVE TestKept(q)'
      BY DEF TestsInv
    <3>1. TestKept(q) BY <2>1 DEF RepairInv, TestsInv
    <3>2. loop'.at = "test" /\ loop'.saved = saved BY <2>3 DEF PassStays
    <3>3. q \in DOMAIN saved => Kept(saved[q], q)
      BY <2>3, <3>1, NothingSaved DEF TestKept
    <3>4. QED BY <2>1, <3>1, <3>2, <3>3 DEF TestKept, Kept
  <2>8. QED BY <2>4, <2>5, <2>6, <2>7 DEF RepairInv
<1>3. CASE ApplyRaises
  <2>1. LoopTyped /\ files \in [Paths -> Nodes]
    BY DEF RepairInv, EngineInv, EngineTyped
  <2>2. /\ loop.at = "apply" /\ PassClosed /\ engine' = EngineIdle
        /\ UNCHANGED <<files, stray>>
    BY <1>3, <2>1, UnchangedCloses DEF ApplyRaises
  <2>3. QED BY <2>1, <2>2, CloseKeeps
<1>4. QED BY <1>1, <1>2, <1>3 DEF Apply

LEMMA TestKeeps == ASSUME RepairInv, Test PROVE RepairInv'
<1>1. loop.at = "test" /\ LoopTyped /\ files \in [Paths -> Nodes]
  BY DEF RepairInv, EngineInv, EngineTyped, Test, TestRaises, TestsPass, TestsWorse,
         TestsBetter, TestsSame
<1>2. CASE TestRaises
  <2>1. PassClosed /\ UNCHANGED patchVars BY <1>1, <1>2, UnchangedCloses DEF TestRaises
  <2>2. QED BY <1>1, <2>1, QuietCloseKeeps DEF patchVars
<1>3. CASE \E r \in Results : TestsPass(r)
  <2>1. PICK r \in Results : TestsPass(r) BY <1>3
  <2>2. UNCHANGED patchVars BY <2>1 DEF TestsPass
  <2>3. PassClosed
    <3>1. /\ session' = [session EXCEPT !.attempts = session.attempts + 1,
                           !.last = "passed", !.status = "success", !.final = r,
                           !.bestAttempt = loop.attempt]
          /\ loop' = [loop EXCEPT !.at = "ended", !.patch = NoPatch,
                       !.saved = NoSnapshot, !.start = NoSnapshot]
      BY <2>1 DEF TestsPass
    <3>2. QED BY <1>1, <3>1, NothingSaved DEF PassClosed, LoopTyped
  <2>4. QED BY <1>1, <2>2, <2>3, QuietCloseKeeps DEF patchVars
<1>4. CASE \E r \in Results : TestsBetter(r) \/ TestsSame(r)
  <2>1. PassClosed /\ UNCHANGED patchVars
    BY <1>1, <1>4, PassCloses, UnchangedCloses DEF TestsBetter, TestsSame
  <2>2. QED BY <1>1, <2>1, QuietCloseKeeps DEF patchVars
<1>5. CASE \E r \in Results : TestsWorse(r)
  <2>1. PICK r \in Results : TestsWorse(r) BY <1>5
  <2>2. PICK bad \in SUBSET DOMAIN loop.saved :
          /\ files' = Restore(files, loop.saved, bad)
          /\ ClosePass(IF Undone(bad) THEN "rolled_back" ELSE "rollback_noted",
                       Stop(Stalled), FALSE, Stalled, session.best, session.bestAttempt)
    BY <2>1 DEF TestsWorse
  <2>3. UNCHANGED <<stray, engine>> BY <2>1 DEF TestsWorse
  <2>4. PassClosed BY <1>1, <2>2, PassCloses
  <2>5. engine' = EngineIdle BY <1>1, <2>3 DEF RepairInv, EngineLent
  <2>6. files' \in [Paths -> Nodes] BY <1>1, <2>2 DEF Restore, LoopTyped
  <2>7. ASSUME ~AllowTestEdits, NEW q \in TestFiles PROVE Kept(files'[q], q)
    <3>1. TestKept(q) /\ q \in Paths
      BY <1>1, <2>7 DEF RepairInv, TestsInv, TestFiles
    <3>2. files'[q] = files[q] \/ (q \in DOMAIN loop.saved /\ files'[q] = loop.saved[q])
      BY <2>2, <3>1 DEF Restore
    <3>3. QED BY <3>1, <3>2 DEF TestKept
  <2>8. QED BY <1>1, <2>3, <2>4, <2>5, <2>6, <2>7, CloseKeeps
<1>6. QED BY <1>2, <1>3, <1>4, <1>5 DEF Test

LEMMA RepairInductive == Spec => []RepairInv
<1>1. ASSUME RepairInv, [Next]_repairVars PROVE RepairInv'
  <2>1. CASE Next
    BY <1>1, <2>1, CodingKeeps, StartKeeps, AskKeeps, JudgeKeeps, ApplyKeeps, TestKeeps
       DEF Next
  <2>2. CASE UNCHANGED repairVars
    BY <1>1, <2>2
       DEF repairVars, patchVars, RepairInv, EngineInv, EngineTyped, Underway, Remembers,
           OthersKept, AsBefore, MadeUpTo, LastSoFar, AllOrNothing, SameFiles, LoopTyped,
           EngineLent, TestsInv, TestKept, Kept, ValidPatch, ValidChange, PolicyAllows
  <2>3. QED BY <1>1, <2>1, <2>2
<1>2. QED BY <1>1, RepairStarts, PTL DEF Spec

(* A patch is all or nothing, in whatever order its changes touch a path,  *)
(* and whichever of them fails: SafePatchEngine.apply and _rollback, in    *)
(* every call a run makes before and within a repair session.              *)
THEOREM PatchWhole == Spec => []AllOrNothing
<1>1. RepairInv => AllOrNothing BY DEF RepairInv, EngineInv
<1>2. QED BY <1>1, RepairInductive, PTL

(* No sequence of attempts removes or weakens a test file that was there   *)
(* when run_repair began, although rollbacks may fail and a snapshot of an *)
(* earlier attempt is written back.                                        *)
THEOREM TestsSurvive == Spec => []TestsKept
<1>1. RepairInv => TestsKept BY DEF RepairInv, TestsInv, TestKept, Kept, TestsKept
<1>2. QED BY <1>1, RepairInductive, PTL

----------------------------------------------------------------------------
(* The patches of several repositories.                                    *)
SubmittedResult ==
  [id : Nat, repo : Repos, at : Checkouts \union NotThere, valid : BOOLEAN,
   applied : {"not_attempted", "applied", "rejected"}]

RepoTyped ==
  /\ disk \in [Checkouts \union NotThere -> FileStates]
  /\ source = [specs |-> source.specs, patches |-> source.patches]
  /\ source.patches \in Seq(Input)
  /\ run = [patch |-> run.patch, stored |-> run.stored, aux |-> run.aux,
            results |-> run.results]
  /\ run.patch \in Input /\ run.stored \in Input
  /\ run.results \in Seq(SubmittedResult) /\ found \in Seq(SubmittedResult)
  /\ next \in Nat
  /\ call = [at |-> call.at, path |-> call.path, copy |-> call.copy, late |-> call.late]
  /\ call.at \in {"none", "looked", "copied", "checked"}
  /\ call.copy \in FileStates /\ call.late \in BOOLEAN

(* Patch ids are names, and 0 is the coding agent's.                       *)
Named ==
  /\ \A i \in DOMAIN source.patches : source.patches[i].id # 0
  /\ \A i, j \in DOMAIN source.patches :
       source.patches[i].id = source.patches[j].id => i = j
  /\ run.patch.id = 0 /\ run.stored.id = 0
  /\ run.patch.repo = MainRepo /\ run.stored.repo = MainRepo
  /\ run.patch.at = MainCheckout /\ run.stored.at = MainCheckout

(* Nothing lands before the coding agent's patch is tried, and from then   *)
(* on no patch changes.                                                    *)
Settled ==
  /\ stage \in {"materializing", "validating"} \/ (stage = "applying" /\ next = 0)
       => landed = {}
  /\ stage = "applying" => run.stored = run.patch

(* What the engine has seen of the checkout holds as long as no other      *)
(* program writes there.                                                   *)
Seen ==
  call.at # "none" =>
    /\ HasTurn /\ call.path = TurnAt
    /\ ~call.late =>
         /\ TurnPatch.change.op = "create" => disk[call.path] = "absent"
         /\ call.at # "looked" => disk[call.path] = call.copy
         /\ call.at = "checked" /\ TurnPatch.change.op # "create" =>
              disk[call.path] = TurnPatch.change.base

RepoInv == RepoTyped /\ Named /\ Settled /\ Seen /\ EditsKept

LEMMA NoCallTyped ==
  /\ NoCall = [at |-> NoCall.at, path |-> NoCall.path, copy |-> NoCall.copy,
               late |-> NoCall.late]
  /\ NoCall.at = "none" /\ NoCall.copy \in FileStates /\ NoCall.late \in BOOLEAN
BY DEF NoCall, FileStates

LEMMA EnrichedIs ==
  ASSUME NEW p \in Input, disk \in [Checkouts \union NotThere -> FileStates]
  PROVE  /\ Enriched(p, disk) \in Input
         /\ Enriched(p, disk).id = p.id /\ Enriched(p, disk).repo = p.repo
         /\ Enriched(p, disk).at = p.at
<1>1. /\ p.change \in RepoChange /\ p.at \in Checkouts \union NotThere BY DEF Input
<1>2. CASE p.change.op # "create" /\ p.change.base = Unhashed /\ disk[p.at] # "absent"
  <2> DEFINE c == [p.change EXCEPT !.base = disk[p.at]]
  <2>1. Enriched(p, disk) = [p EXCEPT !.change = c] BY <1>2 DEF Enriched
  <2>2. c \in RepoChange BY <1>1, <1>2 DEF RepoChange, FileStates
  <2> HIDE DEF c
  <2>3. QED BY <2>1, <2>2 DEF Input
<1>3. CASE ~(p.change.op # "create" /\ p.change.base = Unhashed /\ disk[p.at] # "absent")
  BY <1>3 DEF Enriched
<1>4. QED BY <1>2, <1>3

LEMMA AgentPatchTyped ==
  ASSUME NEW c \in CodingChanges
  PROVE  /\ AgentPatch(c) \in Input /\ AgentPatch(c).id = 0
         /\ AgentPatch(c).repo = MainRepo /\ AgentPatch(c).at = MainCheckout
BY RepositoryPatchesAssumption DEF AgentPatch, Input

LEMMA ResultOfTyped ==
  ASSUME NEW p \in Input, NEW valid \in BOOLEAN
  PROVE  /\ ResultOf(p, valid) \in SubmittedResult
         /\ ResultOf(p, valid).id = p.id /\ ResultOf(p, valid).repo = p.repo
         /\ ResultOf(p, valid).at = p.at
         /\ ResultOf(p, valid).applied = "not_attempted"
BY DEF ResultOf, SubmittedResult, Input

LEMMA RepoStarts == RepositoryPatchesInit => RepoInv
<1> SUFFICES ASSUME RepositoryPatchesInit PROVE RepoInv OBVIOUS
<1>1. PICK s \in Submissions, a \in Specs : source = [specs |-> a, patches |-> s]
  BY DEF RepositoryPatchesInit
<1>2. PICK c \in CodingChanges :
        run = [patch |-> AgentPatch(c), stored |-> AgentPatch(c),
               aux |-> <<>>, results |-> <<>>]
  BY DEF RepositoryPatchesInit
<1>3. /\ disk \in [Checkouts \union NotThere -> FileStates]
      /\ found = <<>> /\ next = 0 /\ landed = {} /\ stage = "materializing"
      /\ call = NoCall /\ undone = {}
  BY DEF RepositoryPatchesInit
<1>4. RepoTyped
  BY <1>1, <1>2, <1>3, AgentPatchTyped, NoCallTyped, RepositoryPatchesAssumption
     DEF RepoTyped
<1>5. Named BY <1>1, <1>2, AgentPatchTyped, RepositoryPatchesAssumption DEF Named
<1>6. Seen BY <1>3, NoCallTyped DEF Seen
<1>7. QED BY <1>3, <1>4, <1>5, <1>6 DEF RepoInv, Settled, EditsKept

(* What the engine replaces when nobody has written there meanwhile.       *)
LEMMA MadeOnBase ==
  ASSUME RepoInv, HasTurn, NEW o \in ApplyOutcomes(TurnPatch, TurnAt), ~call.late
  PROVE  /\ o = "applied" =>
              disk[TurnAt] = IF TurnPatch.change.op = "create" THEN "absent"
                             ELSE TurnPatch.change.base
         /\ o = "rolled_back" => disk[TurnAt] = call.copy
<1>1. call.at \in {"none", "looked", "copied", "checked"} BY DEF RepoInv, RepoTyped
<1>2. /\ o = "applied" => call.at = "checked"
      /\ o = "rolled_back" => call.at \in {"copied", "checked"}
  BY <1>1 DEF ApplyOutcomes
<1>3. QED BY <1>2 DEF RepoInv, Seen

LEMMA MakeTyped ==
  ASSUME RepoTyped, NEW p \in Input, NEW at, NEW o, Make(p, at, o)
  PROVE  /\ disk' \in [Checkouts \union NotThere -> FileStates]
         /\ landed' = landed
              \/ (o = "applied" /\ landed' = landed \union {<<p.id, at, disk[at], call.late>>})
         /\ undone' = undone
              \/ /\ o = "rolled_back"
                 /\ undone' = undone \union {<<disk[at], call.copy, call.late>>}
         /\ call' = NoCall
<1>1. After(p) \in FileStates BY DEF After, Input, RepoChange, FileStates
<1>2. disk \in [Checkouts \union NotThere -> FileStates] /\ call.copy \in FileStates
  BY DEF RepoTyped
<1>3. /\ disk' = [disk EXCEPT ![at] = After(p)] \/ disk' = [disk EXCEPT ![at] = call.copy]
           \/ disk' = disk
      /\ call' = NoCall
  BY DEF Make
<1>4. disk' \in [Checkouts \union NotThere -> FileStates] BY <1>1, <1>2, <1>3
<1>5. QED BY <1>3, <1>4 DEF Make

(* The patches that landed before, and the one that lands or is undone.    *)
LEMMA MakeEdits ==
  ASSUME RepoInv, HasTurn, NEW o \in ApplyOutcomes(TurnPatch, TurnAt),
         TurnPatch \in Input, Make(TurnPatch, TurnAt, o), KnownPatches' = KnownPatches,
         \A q \in KnownPatches : q.id = TurnPatch.id => q = TurnPatch
  PROVE  EditsKept'
<1>1. ASSUME NEW l \in landed', NEW q \in KnownPatches', l[1] = q.id, ~l[4]
      PROVE  l[3] = IF q.change.op = "create" THEN "absent" ELSE q.change.base
  <2>1. CASE l \in landed BY <1>1, <2>1 DEF RepoInv, EditsKept
  <2>2. CASE l \notin landed
    <3>1. o = "applied" /\ l = <<TurnPatch.id, TurnAt, disk[TurnAt], call.late>>
      BY <1>1, <2>2, MakeTyped DEF RepoInv
    <3>2. q = TurnPatch /\ ~call.late BY <1>1, <3>1
    <3>3. QED BY <3>1, <3>2, MadeOnBase
  <2>3. QED BY <2>1, <2>2
<1>2. ASSUME NEW u \in undone', ~u[3] PROVE u[1] = u[2]
  <2>1. CASE u \in undone BY <1>2, <2>1 DEF RepoInv, EditsKept
  <2>2. CASE u \notin undone
    <3>1. o = "rolled_back" /\ u = <<disk[TurnAt], call.copy, call.late>>
      BY <1>2, <2>2, MakeTyped DEF RepoInv
    <3>2. ~call.late BY <1>2, <3>1
    <3>3. QED BY <3>1, <3>2, MadeOnBase
  <2>3. QED BY <2>1, <2>2
<1>3. QED BY <1>1, <1>2 DEF EditsKept

(* What is written into a result keeps the rest of the run.                *)
LEMMA ReportTyped ==
  ASSUME RepoTyped, NEW k \in Nat, NEW o,
         run' = run \/ run' = [run EXCEPT !.results[k].applied = Reported(o)]
  PROVE  /\ run' = [patch |-> run.patch, stored |-> run.stored, aux |-> run.aux,
                    results |-> run'.results]
         /\ run'.results \in Seq(SubmittedResult)
         /\ Len(run'.results) = Len(run.results)
<1>1. CASE run' = run BY <1>1 DEF RepoTyped
<1>2. CASE run' = [run EXCEPT !.results[k].applied = Reported(o)]
  <2> DEFINE rs == run.results
             r == [rs[k] EXCEPT !.applied = Reported(o)]
  <2>1. /\ run' = [patch |-> run.patch, stored |-> run.stored, aux |-> run.aux,
                   results |-> [rs EXCEPT ![k] = r]]
        /\ rs \in Seq(SubmittedResult)
    BY <1>2 DEF RepoTyped
  <2>2. k \in DOMAIN rs => r \in SubmittedResult
    <3>1. k \in DOMAIN rs => rs[k] \in SubmittedResult BY <2>1
    <3>2. QED BY <3>1 DEF SubmittedResult, Reported
  <2> HIDE DEF rs, r
  <2> DEFINE n == Len(rs)
             g == [rs EXCEPT ![k] = r]
  <2>3. n \in Nat /\ rs \in [1 .. n -> SubmittedResult] BY <2>1
  <2>4. g \in [1 .. n -> SubmittedResult] BY <2>2, <2>3
  <2>5. g \in Seq(SubmittedResult) /\ Len(g) = n
    <3> HIDE DEF g, n
    <3>1. QED BY <2>3, <2>4
  <2>6. run'.results = g BY <2>1
  <2>7. QED BY <2>1, <2>5, <2>6 DEF rs
<1>3. QED BY <1>1, <1>2

LEMMA FirstIs ==
  ASSUME NEW n \in Nat, NEW I, I \subseteq 1 .. n, I # {}
  PROVE  FirstOf(I) \in I /\ \A j \in I : FirstOf(I) <= j
<1>1. I \subseteq Nat OBVIOUS
<1>2. PICK i \in I : \A j \in I : ~(<<j, i>> \in OpToRel(<, Nat))
  BY <1>1, WFMin, NatLessThanWellFounded, Zenon
<1>3. \A j \in I : ~(j < i) BY <1>1, <1>2, Zenon DEF OpToRel
<1>4. \A j \in I : i <= j BY <1>1, <1>3
<1>5. \E k \in I : \A j \in I : k <= j BY <1>4
<1>6. QED BY <1>5, Zenon DEF FirstOf

(* A step that neither makes a patch nor changes one.                      *)
LEMMA QuietKeeps ==
  ASSUME RepoInv, UNCHANGED <<source, run, landed, undone, call>>,
         disk' \in [Checkouts \union NotThere -> FileStates],
         found' \in Seq(SubmittedResult), next' \in Nat,
         call.at # "none" => UNCHANGED <<disk, stage, next>>,
         stage' \in {"materializing", "validating"} => stage \in {"materializing", "validating"},
         stage' = "applying" => stage = "applying",
         stage' = "applying" /\ next' = 0 => next = 0
  PROVE  RepoInv'
<1>1. RepoTyped' BY DEF RepoInv, RepoTyped
<1>2. Named' BY DEF RepoInv, Named
<1>3. Settled' BY DEF RepoInv, Settled
<1>4. EditsKept' BY DEF RepoInv, EditsKept, KnownPatches
<1>5. Seen' BY DEF RepoInv, Seen, HasTurn, TurnPatch, TurnAt, InputsOf
<1>6. QED BY <1>1, <1>2, <1>3, <1>4, <1>5 DEF RepoInv

(* A step inside the call of the engine, or of another program.            *)
LEMMA CallKept ==
  ASSUME RepoInv, UNCHANGED <<stage, source, run, found, next, landed, undone>>,
         disk' \in [Checkouts \union NotThere -> FileStates], RepoTyped', Seen'
  PROVE  RepoInv'
<1>1. Named' BY DEF RepoInv, Named
<1>2. Settled' BY DEF RepoInv, Settled
<1>3. EditsKept' BY DEF RepoInv, EditsKept, KnownPatches
<1>4. QED BY <1>1, <1>2, <1>3 DEF RepoInv

(* A step before anything has landed.                                      *)
LEMMA EarlyKeeps ==
  ASSUME RepoInv, RepoTyped', Named', landed = {}, UNCHANGED <<landed, undone>>,
         call'.at = "none", stage' = "applying" => run'.stored = run'.patch
  PROVE  RepoInv'
BY DEF RepoInv, Settled, EditsKept, Seen

LEMMA MaterializeKeeps == ASSUME RepoInv, Materialize PROVE RepoInv'
<1>1. /\ stage = "materializing" /\ landed = {} /\ RepoTyped /\ Named /\ call.at = "none"
  BY DEF RepoInv, Settled, Materialize, Seen, HasTurn
<1>2. /\ UNCHANGED <<disk, source, scopes, found, next, landed, undone, call>>
      /\ stage' \in {"validating", "failed"}
      /\ run' = run \/ run' = [run EXCEPT !.aux = source.specs]
  BY DEF Materialize, Fail
<1>3. RepoTyped' /\ run'.patch = run.patch /\ run'.stored = run.stored
  BY <1>1, <1>2 DEF RepoTyped
<1>4. Named' BY <1>1, <1>2, <1>3 DEF Named
<1>5. QED BY <1>1, <1>2, <1>3, <1>4, EarlyKeeps

LEMMA ValidateCodingKeeps == ASSUME RepoInv, ValidateCoding PROVE RepoInv'
<1> DEFINE p == Enriched(run.patch, disk)
           valid == Owned(p, ScopesNow)
<1>1. stage = "validating" /\ landed = {} /\ RepoTyped /\ Named /\ call.at = "none"
  BY DEF RepoInv, Settled, ValidateCoding, Seen, HasTurn
<1>2. /\ p \in Input /\ p.id = 0 /\ p.repo = MainRepo /\ p.at = MainCheckout
  BY <1>1, EnrichedIs DEF RepoTyped, Named
<1>3. valid \in BOOLEAN BY DEF Owned
<1>4. /\ run' = [run EXCEPT !.patch = p] /\ UNCHANGED <<disk, source, landed, undone, call>>
      /\ \/ /\ found' = <<ResultOf(p, valid)>> /\ next' = 1 /\ stage' = stage
         \/ stage' = "failed" /\ UNCHANGED <<found, next>>
  BY DEF ValidateCoding, Fail
<1> HIDE DEF p, valid
<1>5. ResultOf(p, valid) \in SubmittedResult BY <1>2, <1>3, ResultOfTyped
<1>6. found' \in Seq(SubmittedResult) /\ next' \in Nat
  <2> DEFINE only == <<ResultOf(p, valid)>>
  <2>1. only \in Seq(SubmittedResult) BY <1>5
  <2>2. found' = only \/ found' = found BY <1>4
  <2>3. next' = 1 \/ next' = next BY <1>4
  <2>4. found \in Seq(SubmittedResult) /\ next \in Nat BY <1>1 DEF RepoTyped
  <2> HIDE DEF only
  <2>5. QED BY <2>1, <2>2, <2>3, <2>4
<1>7. RepoTyped' /\ run'.patch = p /\ run'.stored = run.stored
  BY <1>1, <1>2, <1>4, <1>6 DEF RepoTyped
<1>8. Named' BY <1>1, <1>2, <1>4, <1>7 DEF Named
<1>9. QED BY <1>1, <1>4, <1>7, <1>8, EarlyKeeps

LEMMA ValidateInputKeeps == ASSUME RepoInv, ValidateInput PROVE RepoInv'
<1> DEFINE p == Enriched(source.patches[next], disk)
           valid == Owned(p, ScopesNow) /\ FitsAt(p, p.at, disk)
<1>1. stage = "validating" /\ landed = {} /\ RepoTyped /\ Named
      /\ next \in 1 .. Len(source.patches) /\ call.at = "none"
  BY DEF RepoInv, Settled, ValidateInput, Seen, HasTurn
<1>2. /\ source.patches[next] \in Input /\ DOMAIN source.patches = 1 .. Len(source.patches)
  BY <1>1 DEF RepoTyped
<1>3. p \in Input /\ p.id = source.patches[next].id
  BY <1>1, <1>2, EnrichedIs DEF RepoTyped
<1>4. valid \in BOOLEAN OBVIOUS
<1>5. /\ source' = [source EXCEPT !.patches[next] = p]
      /\ found' = Append(found, ResultOf(p, valid)) /\ next' = next + 1
      /\ UNCHANGED <<disk, stage, run, landed, undone, call>>
  BY DEF ValidateInput
<1> HIDE DEF p, valid
<1>6. ResultOf(p, valid) \in SubmittedResult BY <1>3, <1>4, ResultOfTyped
<1>7. found' \in Seq(SubmittedResult) /\ next' \in Nat
  BY <1>1, <1>5, <1>6 DEF RepoTyped
<1>8. /\ source' = [specs |-> source'.specs, patches |-> source'.patches]
      /\ source'.patches = [source.patches EXCEPT ![next] = p]
  BY <1>1, <1>5 DEF RepoTyped
<1>9. /\ source'.patches \in Seq(Input) /\ DOMAIN source'.patches = DOMAIN source.patches
      /\ \A i \in DOMAIN source.patches : source'.patches[i].id = source.patches[i].id
  BY <1>1, <1>2, <1>3, <1>8 DEF RepoTyped
<1>10. RepoTyped' BY <1>1, <1>5, <1>7, <1>8, <1>9 DEF RepoTyped
<1>11. Named' BY <1>1, <1>5, <1>9 DEF Named
<1>12. QED BY <1>1, <1>5, <1>10, <1>11, EarlyKeeps

LEMMA EndValidationKeeps == ASSUME RepoInv, EndValidation PROVE RepoInv'
<1>1. stage = "validating" /\ landed = {} /\ RepoTyped /\ Named /\ call.at = "none"
  BY DEF RepoInv, Settled, EndValidation, Seen, HasTurn
<1>2. /\ run' = [run EXCEPT !.results = found, !.stored = run.patch]
      /\ UNCHANGED <<disk, source, found, landed, undone, call>>
      /\ next' = 0 \/ next' = next
  BY DEF EndValidation
<1>3. run' = [patch |-> run.patch, stored |-> run.patch, aux |-> run.aux,
              results |-> found]
  BY <1>1, <1>2 DEF RepoTyped
<1>4. next' \in Nat BY <1>1, <1>2 DEF RepoTyped
<1>5. RepoTyped' /\ run'.patch = run.patch /\ run'.stored = run.patch
  BY <1>1, <1>2, <1>3, <1>4 DEF RepoTyped
<1>6. Named' BY <1>1, <1>2, <1>5 DEF Named
<1>7. QED BY <1>1, <1>2, <1>5, <1>6, EarlyKeeps

LEMMA TurnTyped ==
  ASSUME RepoTyped, HasTurn
  PROVE  TurnAt \in Checkouts \union NotThere
<1>1. CASE next = 0 BY <1>1, RepositoryPatchesAssumption DEF TurnAt
<1>2. CASE next # 0
  <2>1. run.results[next] \in SubmittedResult BY <1>2 DEF HasTurn, RepoTyped
  <2>2. QED BY <1>2, <2>1 DEF TurnAt, SubmittedResult
<1>3. QED BY <1>1, <1>2

LEMMA LookKeeps == ASSUME RepoInv, Look PROVE RepoInv'
<1>1. /\ HasTurn /\ FitsAt(TurnPatch, TurnAt, disk)
      /\ call' = [NoCall EXCEPT !.at = "looked", !.path = TurnAt]
      /\ UNCHANGED <<disk, stage, source, run, found, next, landed, undone>> /\ RepoTyped
  BY DEF Look, RepoInv
<1>2. call' = [at |-> "looked", path |-> TurnAt, copy |-> "absent", late |-> FALSE]
  BY <1>1 DEF NoCall
<1>3. call'.at = "looked" /\ call'.path = TurnAt /\ call'.late = FALSE
      /\ call'.copy \in FileStates
      /\ call' = [at |-> call'.at, path |-> call'.path, copy |-> call'.copy,
                  late |-> call'.late]
  BY <1>2 DEF FileStates
<1>4. RepoTyped' BY <1>1, <1>3 DEF RepoTyped
<1>5. TurnPatch' = TurnPatch /\ TurnAt' = TurnAt /\ HasTurn'
  BY <1>1 DEF TurnPatch, TurnAt, HasTurn, InputsOf
<1>6. TurnPatch.change.op = "create" => disk[TurnAt] = "absent" BY <1>1 DEF FitsAt
<1>7. Seen' BY <1>1, <1>3, <1>5, <1>6 DEF Seen
<1>8. QED BY <1>1, <1>4, <1>7, CallKept DEF RepoTyped

LEMMA CopyKeeps == ASSUME RepoInv, Copy PROVE RepoInv'
<1> DEFINE late == call.late /\ TurnPatch.change.op = "create"
<1>1. /\ call.at = "looked" /\ RepoTyped /\ Seen
      /\ call' = [call EXCEPT !.at = "copied", !.copy = disk[call.path], !.late = late]
      /\ UNCHANGED <<disk, stage, source, run, found, next, landed, undone>>
  BY DEF Copy, RepoInv
<1>2. late \in BOOLEAN OBVIOUS
<1>3. TurnPatch.change.op = "create" /\ ~late => ~call.late OBVIOUS
<1> HIDE DEF late
<1>4. call'.at = "copied" /\ call'.path = call.path /\ call'.copy = disk[call.path]
      /\ call'.late = late
      /\ call' = [at |-> call'.at, path |-> call'.path, copy |-> call'.copy,
                  late |-> call'.late]
  BY <1>1 DEF RepoTyped
<1>5. disk[call.path] \in FileStates
  BY <1>1, TurnTyped DEF Seen, RepoTyped
<1>6. RepoTyped' BY <1>1, <1>2, <1>4, <1>5 DEF RepoTyped
<1>7. TurnPatch' = TurnPatch /\ TurnAt' = TurnAt /\ (HasTurn' <=> HasTurn)
  BY <1>1 DEF TurnPatch, TurnAt, HasTurn, InputsOf
<1>8. Seen' BY <1>1, <1>3, <1>4, <1>7 DEF Seen
<1>9. QED BY <1>1, <1>6, <1>8, CallKept DEF RepoTyped

LEMMA CheckKeeps == ASSUME RepoInv, Check PROVE RepoInv'
<1>1. /\ call.at = "copied" /\ RepoTyped /\ Seen /\ HashAgrees(TurnPatch, call.path)
      /\ call' = [call EXCEPT !.at = "checked"]
      /\ UNCHANGED <<disk, stage, source, run, found, next, landed, undone>>
  BY DEF Check, RepoInv
<1>2. call'.at = "checked" /\ call'.path = call.path /\ call'.copy = call.copy
      /\ call'.late = call.late
      /\ call' = [at |-> call'.at, path |-> call'.path, copy |-> call'.copy,
                  late |-> call'.late]
  BY <1>1 DEF RepoTyped
<1>3. RepoTyped' BY <1>1, <1>2 DEF RepoTyped
<1>4. TurnPatch' = TurnPatch /\ TurnAt' = TurnAt /\ (HasTurn' <=> HasTurn)
  BY <1>1 DEF TurnPatch, TurnAt, HasTurn, InputsOf
<1>5. Seen' BY <1>1, <1>2, <1>4 DEF Seen, HashAgrees
<1>6. QED BY <1>1, <1>3, <1>5, CallKept DEF RepoTyped

LEMMA EditKeeps == ASSUME RepoInv, Edit PROVE RepoInv'
<1>1. PICK c \in Checkouts, t \in FileStates :
        /\ disk' = [disk EXCEPT ![c] = t]
        /\ call' = IF call.at # "none" /\ c = call.path THEN [call EXCEPT !.late = TRUE]
                   ELSE call
  BY DEF Edit
<1>2. /\ UNCHANGED <<stage, source, run, found, next, landed, undone>> /\ RepoTyped /\ Seen
      /\ disk' \in [Checkouts \union NotThere -> FileStates]
  BY <1>1 DEF Edit, RepoInv, RepoTyped
<1>3. /\ call'.at = call.at /\ call'.path = call.path /\ call'.copy = call.copy
      /\ call'.late \in BOOLEAN
      /\ call' = [at |-> call'.at, path |-> call'.path, copy |-> call'.copy,
                  late |-> call'.late]
      /\ ~call'.late => ~call.late /\ (call.at = "none" \/ c # call.path)
  BY <1>1, <1>2 DEF RepoTyped
<1>4. RepoTyped' BY <1>2, <1>3 DEF RepoTyped
<1>5. TurnPatch' = TurnPatch /\ TurnAt' = TurnAt /\ (HasTurn' <=> HasTurn)
  BY <1>2 DEF TurnPatch, TurnAt, HasTurn, InputsOf
<1>6. call.at # "none" /\ ~call'.late => disk'[call.path] = disk[call.path]
  BY <1>1, <1>2, <1>3 DEF RepoTyped
<1>7. Seen' BY <1>2, <1>3, <1>5, <1>6 DEF Seen
<1>8. QED BY <1>2, <1>4, <1>7, CallKept

LEMMA ApplyCodingKeeps == ASSUME RepoInv, ApplyCoding PROVE RepoInv'
<1> DEFINE p == run.patch
<1>1. /\ stage = "applying" /\ next = 0 /\ landed = {} /\ RepoTyped /\ Named
      /\ run.stored = p /\ p \in Input /\ p.id = 0
  BY DEF RepoInv, Settled, ApplyCoding, RepoTyped, Named
<1>2. PICK o \in ApplyOutcomes(p, MainCheckout) :
        /\ Make(p, MainCheckout, o)
        /\ IF o = "raised" THEN stage' = "failed" /\ UNCHANGED <<run, next>>
           ELSE /\ run' = [run EXCEPT !.results[1].applied = Reported(o)]
                /\ next' = 1 /\ UNCHANGED stage
  BY DEF ApplyCoding, Fail
<1>3. UNCHANGED <<source, found>> BY DEF ApplyCoding
<1>4. disk' \in [Checkouts \union NotThere -> FileStates] /\ call' = NoCall
  BY <1>1, <1>2, MakeTyped
<1>5. /\ run' = [patch |-> p, stored |-> p, aux |-> run.aux, results |-> run'.results]
      /\ run'.results \in Seq(SubmittedResult)
  <2>1. run' = run \/ run' = [run EXCEPT !.results[1].applied = Reported(o)] BY <1>2
  <2>2. QED BY <1>1, <2>1, ReportTyped
<1>6. RepoTyped' BY <1>1, <1>2, <1>3, <1>4, <1>5, NoCallTyped DEF RepoTyped
<1>7. Named' BY <1>1, <1>3, <1>5 DEF Named
<1>8. Settled' BY <1>1, <1>2, <1>5 DEF Settled
<1>9. HasTurn /\ TurnPatch = p /\ TurnAt = MainCheckout
  BY <1>1 DEF HasTurn, TurnPatch, TurnAt
<1>10. \A q \in KnownPatches : q.id = p.id => q = p BY <1>1 DEF KnownPatches, Named
<1>11. KnownPatches' = KnownPatches BY <1>3, <1>5 DEF KnownPatches
<1>12. EditsKept' BY <1>1, <1>2, <1>9, <1>10, <1>11, MakeEdits
<1>13. Seen' BY <1>4, NoCallTyped DEF Seen
<1>14. QED BY <1>6, <1>7, <1>8, <1>12, <1>13 DEF RepoInv

LEMMA ApplyResultKeeps == ASSUME RepoInv, ApplyResult PROVE RepoInv'
<1> DEFINE r == run.results[next]
<1>1. /\ stage = "applying" /\ next \in 1 .. Len(run.results) /\ RepoTyped /\ Named
      /\ EditsKept /\ run.stored = run.patch /\ UNCHANGED <<source, found>>
  BY DEF RepoInv, Settled, ApplyResult
<1>2. CASE InputsOf(r) = {}
  <2>1. next' = next + 1 /\ UNCHANGED <<disk, stage, run, landed, undone, call>>
    BY <1>2 DEF ApplyResult
  <2>2. call.at = "none" BY <1>1, <1>2 DEF RepoInv, Seen, HasTurn
  <2>3. QED BY <1>1, <2>1, <2>2, QuietKeeps DEF RepoTyped
<1>3. CASE InputsOf(r) # {}
  <2> DEFINE k == FirstOf(InputsOf(r))
             p == source.patches[k]
  <2>1. PICK o \in ApplyOutcomes(p, r.at) :
          /\ Make(p, r.at, o)
          /\ run' = IF o = "raised" THEN run
                    ELSE [run EXCEPT !.results[next].applied = Reported(o)]
          /\ IF o # "raised" /\ Reported(o) = "applied"
             THEN next' = next + 1 /\ UNCHANGED stage
             ELSE stage' = "failed" /\ UNCHANGED next
    BY <1>3 DEF ApplyResult, Fail
  <2>2. k \in DOMAIN source.patches /\ p \in Input
    <3>1. /\ DOMAIN source.patches = 1 .. Len(source.patches) /\ Len(source.patches) \in Nat
          /\ InputsOf(r) \subseteq DOMAIN source.patches
      BY <1>1 DEF RepoTyped, InputsOf
    <3>2. k \in InputsOf(r) BY <1>3, <3>1, FirstIs
    <3>3. QED BY <1>1, <3>1, <3>2 DEF RepoTyped
  <2> HIDE DEF k
  <2>3. disk' \in [Checkouts \union NotThere -> FileStates] /\ call' = NoCall
    BY <1>1, <2>1, <2>2, MakeTyped
  <2>4. /\ run' = [patch |-> run.patch, stored |-> run.stored, aux |-> run.aux,
                   results |-> run'.results]
        /\ run'.results \in Seq(SubmittedResult)
    <3>1. run' = run \/ run' = [run EXCEPT !.results[next].applied = Reported(o)] BY <2>1
    <3>2. next \in Nat BY <1>1 DEF RepoTyped
    <3>3. QED BY <1>1, <3>1, <3>2, ReportTyped
  <2>5. RepoTyped'
    <3>1. next' \in Nat BY <1>1, <2>1 DEF RepoTyped
    <3>2. QED BY <1>1, <2>3, <2>4, <3>1, NoCallTyped DEF RepoTyped
  <2>6. Named' BY <1>1, <2>4 DEF Named
  <2>7. Settled' BY <1>1, <2>1, <2>4 DEF Settled, RepoTyped
  <2>8. HasTurn /\ TurnPatch = p /\ TurnAt = r.at
    <3>1. next # 0 BY <1>1
    <3>2. QED BY <1>1, <1>3, <3>1 DEF HasTurn, TurnPatch, TurnAt, k
  <2>9. \A q \in KnownPatches : q.id = p.id => q = p
    BY <1>1, <2>2 DEF KnownPatches, Named
  <2>10. KnownPatches' = KnownPatches BY <1>1, <2>4 DEF KnownPatches
  <2>11. EditsKept'
    <3>1. o \in ApplyOutcomes(TurnPatch, TurnAt) /\ Make(TurnPatch, TurnAt, o)
      BY <2>1, <2>8
    <3>2. QED BY <2>2, <2>8, <2>9, <2>10, <3>1, MakeEdits
  <2>12. Seen' BY <2>3, NoCallTyped DEF Seen
  <2>13. QED BY <2>5, <2>6, <2>7, <2>11, <2>12 DEF RepoInv
<1>4. QED BY <1>2, <1>3

LEMMA RestartKeeps == ASSUME RepoInv, Restart PROVE RepoInv'
<1>1. /\ run' = [run EXCEPT !.patch = run.stored]
      /\ source' = [specs |-> <<>>, patches |-> <<>>] /\ found' = <<>> /\ next' = 0
      /\ UNCHANGED <<disk, landed, undone>> /\ call' = NoCall
      /\ RepoTyped /\ Named /\ Settled /\ EditsKept
  BY DEF Restart, RepoInv
<1>2. /\ RepoTyped' /\ run'.patch = run.stored /\ run'.stored = run.stored
      /\ source'.patches = <<>>
  <2>1. run' = [patch |-> run.stored, stored |-> run.stored, aux |-> run.aux,
                results |-> run.results]
    BY <1>1 DEF RepoTyped
  <2>2. /\ source' = [specs |-> source'.specs, patches |-> source'.patches]
        /\ source'.patches = <<>> /\ <<>> \in Seq(Input) /\ <<>> \in Seq(SubmittedResult)
    BY <1>1
  <2>3. run'.patch = run.stored /\ run'.stored = run.stored /\ run'.results = run.results
    BY <2>1
  <2>4. run' = [patch |-> run'.patch, stored |-> run'.stored, aux |-> run'.aux,
                results |-> run'.results]
    BY <2>1
  <2>5. QED BY <1>1, <2>2, <2>3, <2>4, NoCallTyped DEF RepoTyped
<1>3. Named' BY <1>1, <1>2 DEF Named
<1>4. CASE stage \in {"materializing", "validating"} \/ next = 0
  <2>1. landed = {} BY <1>1, <1>4 DEF Settled, Restart
  <2>2. QED BY <1>1, <1>2, <1>3, <2>1, NoCallTyped, EarlyKeeps
<1>5. CASE stage = "applying" /\ next # 0
  <2>1. stage' = "failed" BY <1>5 DEF Restart, Fail
  <2>2. KnownPatches' \subseteq KnownPatches
    BY <1>1, <1>2, <1>5 DEF KnownPatches, Settled
  <2>3. EditsKept' BY <1>1, <2>2 DEF EditsKept
  <2>4. Settled' BY <2>1 DEF Settled
  <2>5. Seen' BY <1>1, NoCallTyped DEF Seen
  <2>6. QED BY <1>2, <1>3, <2>3, <2>4, <2>5 DEF RepoInv
<1>6. QED BY <1>4, <1>5 DEF Restart

LEMMA RepoInductive == RepositoryPatchesSpec => []RepoInv
<1>1. ASSUME RepoInv, [RepositoryPatchesNext]_repoVars PROVE RepoInv'
  <2>1. CASE EndApplication
    <3>1. call.at = "none"
      BY <1>1, <2>1 DEF EndApplication, RepoInv, RepoTyped, Seen, HasTurn
    <3>2. QED BY <1>1, <2>1, <3>1, QuietKeeps DEF EndApplication, RepoInv, RepoTyped
  <2>2. CASE UNCHANGED repoVars
    BY <1>1, <2>2, QuietKeeps DEF repoVars, RepoInv, RepoTyped
  <2>3. QED
    BY <1>1, <2>1, <2>2, MaterializeKeeps, ValidateCodingKeeps, ValidateInputKeeps,
       EndValidationKeeps, LookKeeps, CopyKeeps, CheckKeeps, EditKeeps, ApplyCodingKeeps,
       ApplyResultKeeps, RestartKeeps
       DEF RepositoryPatchesNext
<1>2. QED BY <1>1, RepoStarts, PTL DEF RepositoryPatchesSpec

(* An edit of another program is replaced only if it is made while the     *)
(* engine is at work in that checkout: after the validation that lets a    *)
(* CREATE through, after the snapshot for another change.  However long    *)
(* ago the patch was validated, one that lands otherwise finds what its    *)
(* hash was taken from, and a rollback brings back what is there.          *)
(* (_stage_patch_application, SafePatchEngine.apply)                       *)
THEOREM EditsSurvive == RepositoryPatchesSpec => []EditsKept
<1>1. RepoInv => EditsKept BY DEF RepoInv
<1>2. QED BY <1>1, RepoInductive, PTL

(* What has been written into a result.                                    *)
Matches(r, p) == r.id = p.id /\ r.repo = p.repo /\ r.at = p.at

LEMMA ReportIs ==
  ASSUME RepoTyped, NEW k \in 1 .. Len(run.results), NEW o,
         run' = [run EXCEPT !.results[k].applied = Reported(o)]
  PROVE  /\ Len(run'.results) = Len(run.results)
         /\ \A i \in 1 .. Len(run.results) : Matches(run'.results[i], run.results[i])
         /\ run'.results[k].applied = Reported(o)
         /\ \A i \in 1 .. Len(run.results) :
              i # k => run'.results[i].applied = run.results[i].applied
<1> DEFINE rs == run.results
           r == [rs[k] EXCEPT !.applied = Reported(o)]
<1>1. rs \in Seq(SubmittedResult) /\ rs[k] \in SubmittedResult BY DEF RepoTyped
<1>2. run'.results = [rs EXCEPT ![k] = r] BY DEF RepoTyped
<1>3. Matches(r, rs[k]) /\ r.applied = Reported(o)
  BY <1>1 DEF SubmittedResult, Matches
<1>4. Len(run'.results) = Len(rs)
  <2>1. k \in Nat BY <1>1
  <2>2. QED BY <2>1, ReportTyped
<1> HIDE DEF r
<1>5. QED BY <1>1, <1>2, <1>3, <1>4 DEF Matches

(* The results belong to the patches, in their order, and as long as the   *)
(* repositories are told apart every patch before next has landed where it *)
(* belongs.                                                                *)
ResultsBelong(results, n) ==
  /\ Matches(results[1], run.patch)
  /\ \A i \in 2 .. n : Matches(results[i], source.patches[i - 1])

LandedWell ==
  /\ \A i \in 1 .. Len(run.results) :
       run.results[i].applied = "applied" =>
         \E l \in landed : l[1] = run.results[i].id /\ l[2] = run.results[i].at
  /\ \A i \in 2 .. Len(run.results) :
       i < next => run.results[i].applied = "applied"
  /\ \A l \in landed : \A i \in DOMAIN source.patches :
       l[1] = source.patches[i].id => l[2] = source.patches[i].at

LandInv ==
  /\ stage = "materializing" => next = 0
  /\ stage = "validating" =>
       /\ next <= Len(source.patches) + 1
       /\ next > 0 =>
            /\ Len(found) = next /\ ResultsBelong(found, next)
            /\ \A i \in 1 .. next : found[i].applied = "not_attempted"
  /\ stage \in {"applying", "testing"} =>
       /\ Len(run.results) = Len(source.patches) + 1
       /\ next <= Len(run.results) + 1
       /\ ResultsBelong(run.results, Len(run.results))
       /\ ToldApart => LandedWell
  /\ stage = "testing" => next = Len(run.results) + 1

LEMMA LandStarts == RepositoryPatchesInit => LandInv
BY DEF RepositoryPatchesInit, LandInv

LEMMA LandValidateCoding ==
  ASSUME RepoInv, LandInv, ValidateCoding PROVE LandInv'
<1> DEFINE p == Enriched(run.patch, disk)
           valid == Owned(p, ScopesNow)
           only == ResultOf(p, valid)
<1>1. /\ stage = "validating" /\ RepoTyped
      /\ Len(source.patches) \in Nat
  BY DEF RepoInv, ValidateCoding, RepoTyped
<1>2. p \in Input BY <1>1, EnrichedIs DEF RepoTyped
<1>3. valid \in BOOLEAN BY DEF Owned
<1>4. /\ run' = [run EXCEPT !.patch = p] /\ UNCHANGED source /\ next = 0
      /\ \/ /\ found' = <<only>> /\ next' = 1 /\ stage' = stage
         \/ stage' = "failed"
  BY DEF ValidateCoding, Fail
<1> HIDE DEF p, valid
<1>5. Matches(only, p) /\ only.applied = "not_attempted"
  BY <1>2, <1>3, ResultOfTyped DEF Matches
<1> HIDE DEF only
<1>6. run'.patch = p BY <1>1, <1>4 DEF RepoTyped
<1>7. CASE stage' = "failed" BY <1>7 DEF LandInv
<1>8. CASE found' = <<only>> /\ next' = 1 /\ stage' = stage
  <2>1. found'[1] = only /\ Len(found') = 1 BY <1>8
  <2>2. ResultsBelong(found, next)' BY <1>5, <1>6, <1>8, <2>1 DEF ResultsBelong, Matches
  <2>3. QED BY <1>1, <1>4, <1>5, <1>8, <2>1, <2>2 DEF LandInv
<1>9. QED BY <1>4, <1>7, <1>8

LEMMA LandValidateInput ==
  ASSUME RepoInv, LandInv, ValidateInput PROVE LandInv'
<1> DEFINE ps == source.patches
           p == Enriched(ps[next], disk)
           valid == Owned(p, ScopesNow) /\ FitsAt(p, p.at, disk)
           found2 == ResultOf(p, valid)
<1>1. /\ stage = "validating" /\ RepoTyped /\ next \in 1 .. Len(ps)
      /\ Len(found) = next /\ ResultsBelong(found, next)
      /\ \A i \in 1 .. next : found[i].applied = "not_attempted"
  BY DEF RepoInv, LandInv, ValidateInput
<1>2. ps[next] \in Input /\ ps \in Seq(Input) /\ found \in Seq(SubmittedResult)
  BY <1>1 DEF RepoTyped
<1>3. p \in Input /\ Matches(p, ps[next])
  BY <1>1, <1>2, EnrichedIs DEF RepoTyped, Matches
<1>4. valid \in BOOLEAN OBVIOUS
<1>5. /\ source' = [source EXCEPT !.patches[next] = p]
      /\ found' = Append(found, found2) /\ next' = next + 1
      /\ UNCHANGED <<disk, stage, run, landed>>
  BY DEF ValidateInput
<1> HIDE DEF p, valid
<1>6. Matches(found2, p) /\ found2.applied = "not_attempted"
  BY <1>3, <1>4, ResultOfTyped DEF Matches
<1>7. source'.patches = [ps EXCEPT ![next] = p] BY <1>1, <1>5 DEF RepoTyped
<1> HIDE DEF found2
<1>8. /\ Len(source'.patches) = Len(ps) /\ source'.patches[next] = p
      /\ \A i \in 1 .. Len(ps) : Matches(source'.patches[i], ps[i])
  BY <1>1, <1>2, <1>3, <1>7 DEF Matches
<1>9. /\ Len(found') = next + 1 /\ found'[next + 1] = found2
      /\ \A i \in 1 .. next : found'[i] = found[i]
  BY <1>1, <1>2, <1>5
<1>10. \A i \in 1 .. next + 1 : found'[i].applied = "not_attempted"
  BY <1>1, <1>6, <1>9
<1>11. ResultsBelong(found, next)'
  <2>1. Matches(found'[1], run.patch) BY <1>1, <1>9 DEF ResultsBelong
  <2>2. ASSUME NEW i \in 2 .. next + 1
        PROVE  Matches(found'[i], source'.patches[i - 1])
    <3>1. CASE i = next + 1
      <4>1. i - 1 = next BY <1>1, <3>1
      <4>2. QED BY <1>6, <1>8, <1>9, <3>1, <4>1
    <3>2. CASE i # next + 1
      <4>1. i \in 2 .. next /\ i \in 1 .. next /\ i - 1 \in 1 .. Len(ps) BY <1>1, <3>2
      <4>2. Matches(found[i], ps[i - 1]) BY <1>1, <4>1 DEF ResultsBelong
      <4>3. QED BY <1>8, <1>9, <4>1, <4>2 DEF Matches
    <3>3. QED BY <3>1, <3>2
  <2>3. QED BY <1>5, <2>1, <2>2 DEF ResultsBelong, Matches
<1>12. next + 1 <= Len(ps) + 1 BY <1>1
<1>13. QED BY <1>1, <1>5, <1>8, <1>9, <1>10, <1>11, <1>12 DEF LandInv

LEMMA LandEndValidation ==
  ASSUME RepoInv, LandInv, EndValidation PROVE LandInv'
<1>1. /\ stage = "validating" /\ RepoTyped /\ landed = {}
      /\ next = Len(source.patches) + 1 /\ Len(source.patches) \in Nat
  BY DEF RepoInv, Settled, EndValidation, RepoTyped
<1>2. /\ Len(found) = next /\ ResultsBelong(found, next)
      /\ \A i \in 1 .. next : found[i].applied = "not_attempted"
  BY <1>1 DEF LandInv
<1>3. /\ run' = [run EXCEPT !.results = found, !.stored = run.patch]
      /\ UNCHANGED <<source, landed>>
      /\ \/ stage' = "applying" /\ next' = 0
         \/ stage' = "failed"
  BY DEF EndValidation, Fail
<1>4. run'.results = found /\ run'.patch = run.patch BY <1>1, <1>3 DEF RepoTyped
<1>5. CASE stage' = "failed" BY <1>5 DEF LandInv
<1>6. CASE stage' = "applying" /\ next' = 0
  <2>1. ResultsBelong(run.results, Len(run.results))'
    BY <1>2, <1>3, <1>4 DEF ResultsBelong, Matches
  <2>2. LandedWell'
    <3>1. \A i \in 1 .. Len(found) : found[i].applied # "applied" BY <1>2
    <3>2. landed' = {} /\ \A i \in 2 .. Len(found) : ~(i < 0) BY <1>1, <1>3
    <3>3. QED BY <1>4, <1>6, <3>1, <3>2 DEF LandedWell
  <2>3. QED BY <1>1, <1>2, <1>3, <1>4, <1>6, <2>1, <2>2 DEF LandInv
<1>7. QED BY <1>3, <1>5, <1>6

(* The repositories stay told apart while the patches are applied.         *)
LEMMA ApartStays == ASSUME UNCHANGED source PROVE ToldApart' <=> ToldApart
BY DEF ToldApart

LEMMA BelongKept ==
  ASSUME NEW n \in Nat \ {0}, ResultsBelong(run.results, n), UNCHANGED source,
         run'.patch = run.patch, Len(run'.results) = n,
         \A i \in 1 .. n : Matches(run'.results[i], run.results[i])
  PROVE  ResultsBelong(run.results, Len(run.results))'
<1>1. Matches(run'.results[1], run'.patch) BY DEF ResultsBelong, Matches
<1>2. ASSUME NEW i \in 2 .. n PROVE Matches(run'.results[i], source'.patches[i - 1])
  <2>1. i \in 1 .. n OBVIOUS
  <2>2. Matches(run.results[i], source.patches[i - 1]) BY DEF ResultsBelong
  <2>3. QED BY <2>1, <2>2 DEF Matches
<1>3. QED BY <1>1, <1>2 DEF ResultsBelong, Matches

LEMMA LandApplyCoding ==
  ASSUME RepoInv, LandInv, ApplyCoding PROVE LandInv'
<1> DEFINE p == run.patch
           n == Len(run.results)
<1>1. /\ stage = "applying" /\ next = 0 /\ landed = {} /\ RepoTyped /\ Named
      /\ n = Len(source.patches) + 1 /\ Len(source.patches) \in Nat
      /\ ResultsBelong(run.results, n) /\ (ToldApart => LandedWell)
      /\ p \in Input /\ p.id = 0 /\ p.at = MainCheckout
  BY DEF RepoInv, LandInv, Settled, ApplyCoding, RepoTyped, Named
<1>2. PICK o \in ApplyOutcomes(p, MainCheckout) :
        /\ Make(p, MainCheckout, o)
        /\ IF o = "raised" THEN stage' = "failed" /\ UNCHANGED <<run, next>>
           ELSE /\ run' = [run EXCEPT !.results[1].applied = Reported(o)]
                /\ next' = 1 /\ UNCHANGED stage
  BY DEF ApplyCoding, Fail
<1>3. UNCHANGED <<source, found>> BY DEF ApplyCoding
<1>4. CASE o = "raised" BY <1>2, <1>4 DEF LandInv
<1>5. CASE o # "raised"
  <2>1. run' = [run EXCEPT !.results[1].applied = Reported(o)] /\ next' = 1 /\ stage' = stage
    BY <1>2, <1>5
  <2>2. 1 \in 1 .. n BY <1>1
  <2>3. /\ Len(run'.results) = n
        /\ \A i \in 1 .. n : Matches(run'.results[i], run.results[i])
        /\ run'.results[1].applied = Reported(o)
        /\ \A i \in 1 .. n : i # 1 => run'.results[i].applied = run.results[i].applied
    BY <1>1, <2>1, <2>2, ReportIs
  <2>4. run'.patch = p
    <3>1. run' = run \/ run' = [run EXCEPT !.results[1].applied = Reported(o)] BY <2>1
    <3>2. run' = [patch |-> run.patch, stored |-> run.stored, aux |-> run.aux,
                  results |-> run'.results]
      BY <1>1, <3>1, ReportTyped
    <3>3. QED BY <3>2
  <2>5. ResultsBelong(run.results, Len(run.results))'
    <3>1. n \in Nat \ {0} BY <1>1
    <3>2. QED BY <1>1, <1>3, <2>3, <2>4, <3>1, BelongKept
  <2>6. ASSUME ToldApart PROVE LandedWell'
    <3>1. LandedWell BY <1>1, <2>6
    <3>2. ASSUME NEW i \in 1 .. n, run'.results[i].applied = "applied"
          PROVE  \E l \in landed' : l[1] = run'.results[i].id /\ l[2] = run'.results[i].at
      <4>1. i = 1 BY <1>1, <2>3, <3>1, <3>2 DEF LandedWell
      <4>2. o = "applied" BY <2>3, <3>2, <4>1 DEF Reported
      <4>3. <<p.id, MainCheckout, disk[MainCheckout], call.late>> \in landed' BY <1>2, <4>2 DEF Make
      <4>4. run'.results[1].id = p.id /\ run'.results[1].at = MainCheckout
        BY <1>1, <2>4, <2>5 DEF ResultsBelong, Matches
      <4>5. QED BY <4>1, <4>3, <4>4
    <3>3. \A i \in 2 .. n : ~(i < 1) BY <1>1
    <3>4. ASSUME NEW l \in landed', NEW i \in DOMAIN source.patches,
                 l[1] = source.patches[i].id
          PROVE  l[2] = source.patches[i].at
      <4>1. l = <<p.id, MainCheckout, disk[MainCheckout], call.late>> BY <1>1, <1>2, <3>4 DEF Make
      <4>2. QED BY <1>1, <3>4, <4>1 DEF Named
    <3>5. QED BY <1>3, <2>1, <2>3, <3>2, <3>3, <3>4 DEF LandedWell
  <2>7. QED BY <1>1, <1>3, <2>1, <2>3, <2>5, <2>6, ApartStays DEF LandInv
<1>6. QED BY <1>4, <1>5

(* The input of a result, when the repositories are told apart.            *)
LEMMA InputIs ==
  ASSUME RepoTyped, Named, ToldApart, NEW k \in 1 .. Len(source.patches) + 1,
         NEW r, Matches(r, IF k = 1 THEN run.patch ELSE source.patches[k - 1])
  PROVE  /\ k = 1 => InputsOf(r) = {}
         /\ k # 1 => FirstOf(InputsOf(r)) = k - 1 /\ InputsOf(r) # {}
<1>1. /\ DOMAIN source.patches = 1 .. Len(source.patches) /\ Len(source.patches) \in Nat
  BY DEF RepoTyped
<1>2. CASE k = 1 BY <1>2 DEF InputsOf, ToldApart, Named, Matches
<1>3. CASE k # 1
  <2>1. k - 1 \in DOMAIN source.patches BY <1>1, <1>3
  <2>2. InputsOf(r) = {k - 1} BY <1>3, <2>1 DEF InputsOf, ToldApart, Matches
  <2>3. FirstOf({k - 1}) = k - 1 BY <1>1, <2>1 DEF FirstOf
  <2>4. QED BY <1>3, <2>2, <2>3
<1>4. QED BY <1>2, <1>3

LEMMA LandApplyResult ==
  ASSUME RepoInv, LandInv, ApplyResult PROVE LandInv'
<1> DEFINE n == Len(run.results)
           r == run.results[next]
<1>1. /\ stage = "applying" /\ next \in 1 .. n /\ RepoTyped /\ Named
      /\ n = Len(source.patches) + 1 /\ Len(source.patches) \in Nat
      /\ ResultsBelong(run.results, n) /\ (ToldApart => LandedWell)
      /\ UNCHANGED <<source, found>>
  BY DEF RepoInv, LandInv, ApplyResult, RepoTyped
<1>2. Matches(r, IF next = 1 THEN run.patch ELSE source.patches[next - 1])
  <2>1. next = 1 \/ next \in 2 .. n BY <1>1
  <2>2. next = 1 => Matches(r, run.patch) BY <1>1 DEF ResultsBelong
  <2>3. next \in 2 .. n => Matches(r, source.patches[next - 1])
    BY <1>1 DEF ResultsBelong
  <2>4. next \in 2 .. n => next # 1 OBVIOUS
  <2>5. QED BY <2>1, <2>2, <2>3, <2>4
<1>3. next + 1 <= n + 1 BY <1>1
<1>4. CASE InputsOf(r) = {}
  <2>1. next' = next + 1 /\ UNCHANGED <<disk, stage, run, landed>>
    BY <1>4 DEF ApplyResult
  <2>2. ResultsBelong(run.results, Len(run.results))'
    <3>1. n \in Nat \ {0} BY <1>1
    <3>2. QED BY <1>1, <2>1, <3>1, BelongKept DEF Matches
  <2>3. ASSUME ToldApart PROVE LandedWell'
    <3>1. next = 1 BY <1>1, <1>2, <1>4, <2>3, InputIs
    <3>2. \A i \in 2 .. n : ~(i < 2) OBVIOUS
    <3>3. QED BY <1>1, <2>1, <2>3, <3>1, <3>2 DEF LandedWell
  <2>4. QED BY <1>1, <1>3, <2>1, <2>2, <2>3, ApartStays DEF LandInv
<1>5. CASE InputsOf(r) # {}
  <2> DEFINE p == source.patches[FirstOf(InputsOf(r))]
  <2>1. PICK o \in ApplyOutcomes(p, r.at) :
          /\ Make(p, r.at, o)
          /\ run' = IF o = "raised" THEN run
                    ELSE [run EXCEPT !.results[next].applied = Reported(o)]
          /\ IF o # "raised" /\ Reported(o) = "applied"
             THEN next' = next + 1 /\ UNCHANGED stage
             ELSE stage' = "failed" /\ UNCHANGED next
    BY <1>5 DEF ApplyResult, Fail
  <2>2. CASE ~(o # "raised" /\ Reported(o) = "applied") BY <2>1, <2>2 DEF LandInv
  <2>3. CASE o # "raised" /\ Reported(o) = "applied"
    <3>1. /\ run' = [run EXCEPT !.results[next].applied = Reported(o)]
          /\ next' = next + 1 /\ stage' = stage /\ o = "applied"
      BY <2>1, <2>3 DEF Reported
    <3>2. landed' = landed \union {<<p.id, r.at, disk[r.at], call.late>>} BY <2>1, <3>1 DEF Make
    <3>3. /\ Len(run'.results) = n
          /\ \A i \in 1 .. n : Matches(run'.results[i], run.results[i])
          /\ run'.results[next].applied = "applied"
          /\ \A i \in 1 .. n : i # next => run'.results[i].applied = run.results[i].applied
      BY <1>1, <2>3, <3>1, ReportIs
    <3>4. run'.patch = run.patch
      <4>1. next \in Nat BY <1>1
      <4>2. run' = [patch |-> run.patch, stored |-> run.stored, aux |-> run.aux,
                    results |-> run'.results]
        <5>1. run' = run \/ run' = [run EXCEPT !.results[next].applied = Reported(o)]
          BY <3>1
        <5>2. QED BY <1>1, <4>1, <5>1, ReportTyped
      <4>3. QED BY <4>2
    <3>5. ResultsBelong(run.results, Len(run.results))'
      <4>1. n \in Nat \ {0} BY <1>1
      <4>2. QED BY <1>1, <3>3, <3>4, <4>1, BelongKept
    <3>6. ASSUME ToldApart PROVE LandedWell'
      <4>1. LandedWell BY <1>1, <3>6
      <4>2. next # 1 /\ FirstOf(InputsOf(r)) = next - 1 /\ next - 1 \in DOMAIN source.patches
        <5>1. DOMAIN source.patches = 1 .. Len(source.patches) BY <1>1 DEF RepoTyped
        <5>2. next \in 1 .. Len(source.patches) + 1 BY <1>1
        <5>3. next # 1 /\ FirstOf(InputsOf(r)) = next - 1
          BY <1>1, <1>2, <1>5, <3>6, <5>2, InputIs
        <5>4. QED BY <1>1, <5>1, <5>2, <5>3
      <4>3. p = source.patches[next - 1] /\ Matches(r, p) BY <1>2, <4>2
      <4>4. ASSUME NEW i \in 1 .. n, run'.results[i].applied = "applied"
            PROVE  \E l \in landed' : l[1] = run'.results[i].id /\ l[2] = run'.results[i].at
        <5>1. CASE i = next
          <6>1. run'.results[i].id = p.id /\ run'.results[i].at = r.at
            BY <3>3, <4>3, <5>1 DEF Matches
          <6> DEFINE l == <<p.id, r.at, disk[r.at], call.late>>
          <6>2. l \in landed' /\ l[1] = p.id /\ l[2] = r.at BY <3>2
          <6> HIDE DEF l
          <6>3. QED BY <6>1, <6>2
        <5>2. CASE i # next
          <6>1. PICK l \in landed : l[1] = run.results[i].id /\ l[2] = run.results[i].at
            BY <3>3, <4>1, <4>4, <5>2 DEF LandedWell
          <6>2. QED BY <3>2, <3>3, <6>1 DEF Matches
        <5>3. QED BY <5>1, <5>2
      <4>5. ASSUME NEW i \in 2 .. n, i < next + 1
            PROVE  run'.results[i].applied = "applied"
        <5>1. i = next \/ i < next BY <1>1, <4>5
        <5>2. QED BY <1>1, <3>3, <4>1, <5>1 DEF LandedWell
      <4>6. ASSUME NEW l \in landed', NEW i \in DOMAIN source.patches,
                   l[1] = source.patches[i].id
            PROVE  l[2] = source.patches[i].at
        <5>1. CASE l \in landed BY <4>1, <4>6, <5>1 DEF LandedWell
        <5>2. CASE l \notin landed
          <6>1. l[1] = p.id /\ l[2] = r.at BY <3>2, <4>6, <5>2
          <6>2. i = next - 1 BY <1>1, <4>2, <4>3, <4>6, <6>1 DEF Named
          <6>3. QED BY <4>3, <6>1, <6>2 DEF Matches
        <5>3. QED BY <5>1, <5>2
      <4>7. QED BY <1>1, <3>1, <3>3, <4>4, <4>5, <4>6 DEF LandedWell
    <3>7. QED BY <1>1, <1>3, <3>1, <3>3, <3>5, <3>6, ApartStays DEF LandInv
  <2>4. QED BY <2>2, <2>3
<1>6. QED BY <1>4, <1>5

LEMMA LandInductive == RepositoryPatchesSpec => []LandInv
<1>1. ASSUME RepoInv, LandInv, [RepositoryPatchesNext]_repoVars PROVE LandInv'
  <2>1. CASE Materialize BY <1>1, <2>1 DEF Materialize, Fail, LandInv, RepoInv, RepoTyped
  <2>2. CASE EndApplication \/ Look \/ Copy \/ Check \/ Edit \/ UNCHANGED repoVars
    <3>1. /\ UNCHANGED <<source, run, found, next, landed>>
          /\ \/ stage' = stage
             \/ stage = "applying" /\ stage' = "testing" /\ next = Len(run.results) + 1
      BY <2>2 DEF EndApplication, Look, Copy, Check, Edit, repoVars
    <3>2. ResultsBelong(run.results, Len(run.results))' <=> ResultsBelong(run.results, Len(run.results))
      BY <3>1 DEF ResultsBelong, Matches
    <3>3. ResultsBelong(found, next)' <=> ResultsBelong(found, next)
      BY <3>1 DEF ResultsBelong, Matches
    <3>4. LandedWell' <=> LandedWell BY <3>1 DEF LandedWell
    <3>5. QED BY <1>1, <3>1, <3>2, <3>3, <3>4, ApartStays DEF LandInv
  <2>3. CASE Restart BY <2>3 DEF Restart, Fail, LandInv
  <2>4. QED
    BY <1>1, <2>1, <2>2, <2>3, LandValidateCoding, LandValidateInput, LandEndValidation,
       LandApplyCoding, LandApplyResult
       DEF RepositoryPatchesNext
<1>2. QED BY <1>1, LandStarts, RepoInductive, PTL DEF RepositoryPatchesSpec

(* Every submitted patch is made in its own checkout, nowhere else, and    *)
(* reported under its own id, when the repositories are told apart: the    *)
(* results of the validation and the inputs are matched again by           *)
(* repository id. (_stage_patch_application)                               *)
THEOREM PatchesBelong == RepositoryPatchesSpec => []PatchesLand
<1>1. ASSUME RepoInv, LandInv PROVE PatchesLand
  <2> SUFFICES ASSUME stage = "testing", ToldApart
      PROVE  /\ \A i \in DOMAIN source.patches :
                  /\ \E k \in DOMAIN run.results :
                       run.results[k].id = source.patches[i].id
                       /\ run.results[k].applied = "applied"
                  /\ {l[2] : l \in {k \in landed : k[1] = source.patches[i].id}}
                       = {source.patches[i].at}
             /\ \A k \in DOMAIN run.results :
                  run.results[k].applied = "applied" =>
                    \E l \in landed : l[1] = run.results[k].id /\ l[2] = run.results[k].at
    BY DEF PatchesLand
  <2> DEFINE n == Len(run.results)
  <2>1. /\ n = Len(source.patches) + 1 /\ Len(source.patches) \in Nat /\ next = n + 1
        /\ DOMAIN source.patches = 1 .. Len(source.patches) /\ DOMAIN run.results = 1 .. n
        /\ ResultsBelong(run.results, n) /\ LandedWell
    BY <1>1 DEF LandInv, RepoInv, RepoTyped
  <2>2. \A k \in DOMAIN run.results :
          run.results[k].applied = "applied" =>
            \E l \in landed : l[1] = run.results[k].id /\ l[2] = run.results[k].at
    BY <2>1 DEF LandedWell
  <2>3. ASSUME NEW i \in DOMAIN source.patches
        PROVE  /\ \E k \in DOMAIN run.results :
                    run.results[k].id = source.patches[i].id
                    /\ run.results[k].applied = "applied"
               /\ {l[2] : l \in {k \in landed : k[1] = source.patches[i].id}}
                    = {source.patches[i].at}
    <3>1. i + 1 \in 2 .. n /\ i + 1 \in 1 .. n /\ i + 1 < next /\ (i + 1) - 1 = i
      BY <2>1
    <3>2. Matches(run.results[i + 1], source.patches[i]) /\ run.results[i + 1].applied = "applied"
      BY <2>1, <3>1 DEF ResultsBelong, LandedWell
    <3>3. PICK l \in landed : l[1] = source.patches[i].id /\ l[2] = source.patches[i].at
      BY <2>1, <2>2, <3>1, <3>2 DEF Matches
    <3>4. \A k \in landed : k[1] = source.patches[i].id => k[2] = source.patches[i].at
      BY <2>1 DEF LandedWell
    <3>5. QED BY <2>1, <3>1, <3>2, <3>3, <3>4 DEF Matches
  <2>4. QED BY <2>2, <2>3
<1>2. QED BY <1>1, RepoInductive, LandInductive, PTL
=============================================================================
