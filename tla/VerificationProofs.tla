------------------------- MODULE VerificationProofs -------------------------
(***************************************************************************)
(* Proofs about Verification: what the records of a test run say of the    *)
(* commands, and what an approval says of the evidence.                    *)
(***************************************************************************)
EXTENDS Verification, TLAPS, SequenceTheorems, FiniteSetTheorems

----------------------------------------------------------------------------
(* The test run.                                                           *)
Exits == {"none", "zero", "nonzero", "killed"}
Outcome == [status : {"passed", "failed", "timeout", "error", "rejected"},
            truth : {"rejected", "missing", "cut"} \union Exits,
            required : BOOLEAN]

(* A plan is a sequence; what its steps are plays no part.                 *)
AsFunction(plan) == plan = [i \in DOMAIN plan |-> plan[i]]
Planned(plan) == Len(plan) \in Nat /\ DOMAIN plan = 1 .. Len(plan) /\ AsFunction(plan)

CallTyped ==
  /\ tests = [at |-> tests.at, plan |-> tests.plan, ran |-> tests.ran,
              status |-> tests.status]
  /\ tests.at \in {"idle", "running", "done", "no_result", "raised"}
  /\ Planned(tests.plan)
  /\ tests.ran \in Seq(Outcome)
  /\ tests.status \in {"none"} \union ExecutionStatus

CommandTyped ==
  /\ child \in [left : Nat, pipe : Nat, alive : BOOLEAN, code : Exits, is : Child]
  /\ watch \in [at : {"off", "running", "killing", "draining"}, got : Nat,
                reading : BOOLEAN, cut : BOOLEAN, late : BOOLEAN, code : Exits]
  /\ slips \in Nat

(* The state of the engine agrees with the child: the exit code was taken  *)
(* from a child that has ended, and one that was signalled counts as late. *)
Watched ==
  /\ watch.at = "killing" => watch.late
  /\ watch.at = "draining" => ~child.alive /\ (watch.late \/ watch.code = child.code)

(* A command is watched for the next step of a running call, and a call    *)
(* that is done has an outcome for every step of its plan.                 *)
InStep ==
  /\ Len(tests.ran) <= Len(tests.plan)
  /\ watch.at # "off" => tests.at = "running" /\ Len(tests.ran) < Len(tests.plan)
  /\ tests.at = "done" =>
       \/ tests.status = "environment_not_ready"
       \/ Len(tests.ran) = Len(tests.plan) /\ tests.status = RunStatus(tests.ran)

(* Only a command that ended by itself with 0 has passed, and only one     *)
(* that was refused has not been run.                                      *)
Honest(o) ==
  /\ o.status = "passed" => o.truth = "zero"
  /\ (o.status = "rejected") = (o.truth = "rejected")

HonestRecord == \A i \in DOMAIN tests.ran : Honest(tests.ran[i])

TestInv == CallTyped /\ CommandTyped /\ Watched /\ InStep /\ HonestRecord

----------------------------------------------------------------------------
(* Plans.                                                                  *)

(* A function on 1 .. n is a sequence of length n.                         *)
LEMMA FunctionPlanned ==
  ASSUME NEW n \in Nat, NEW f, DOMAIN f = 1 .. n, AsFunction(f)
  PROVE  Planned(f)
<1> DEFINE S == {f[i] : i \in 1 .. n}
<1>1. \A i \in 1 .. n : f[i] \in S OBVIOUS
<1> HIDE DEF S
<1>2. [i \in 1 .. n |-> f[i]] \in [1 .. n -> S] BY <1>1
<1>3. f \in [1 .. n -> S] BY <1>2, Zenon DEF AsFunction
<1>4. f \in Seq(S) BY <1>3, SeqDef
<1>5. Len(f) = n BY <1>3, <1>4, LenProperties
<1>6. QED BY <1>5 DEF Planned

(* A sequence is a plan, and a plan a sequence of its elements.            *)
LEMMA SeqPlanned ==
  ASSUME NEW S, NEW p \in Seq(S)
  PROVE  Planned(p)
<1>1. Len(p) \in Nat /\ p \in [1 .. Len(p) -> S] BY LenProperties, SeqDef
<1>2. DOMAIN p = 1 .. Len(p) BY <1>1
<1>3. AsFunction(p) BY <1>1 DEF AsFunction
<1>4. QED BY <1>1, <1>2, <1>3 DEF Planned

LEMMA PlannedSeq ==
  ASSUME NEW p, Planned(p), NEW S, \A i \in DOMAIN p : p[i] \in S
  PROVE  p \in Seq(S)
<1>1. [i \in DOMAIN p |-> p[i]] \in [DOMAIN p -> S] OBVIOUS
<1>2. p \in [1 .. Len(p) -> S] BY <1>1, Zenon DEF Planned, AsFunction
<1>3. QED BY <1>2, SeqDef DEF Planned

(* The elements picked at finitely many positions make a plan.             *)
LEMMA PickedPlanned ==
  ASSUME NEW s, NEW K, IsFiniteSet(K)
  PROVE  Planned(Picked(s, K))
<1>1. Cardinality(K) \in Nat BY FS_CardinalityType
<1>2. DOMAIN Picked(s, K) = 1 .. Cardinality(K) BY DEF Picked
<1>3. AsFunction(Picked(s, K)) BY DEF Picked, AsFunction
<1>4. QED BY <1>1, <1>2, <1>3, FunctionPlanned

(* Plans that are joined make a plan.                                      *)
LEMMA JoinedPlanned ==
  ASSUME NEW p, NEW q, Planned(p), Planned(q)
  PROVE  Planned(p \o q)
<1> DEFINE S == {p[i] : i \in DOMAIN p} \union {q[i] : i \in DOMAIN q}
<1>1. (\A i \in DOMAIN p : p[i] \in S) /\ (\A i \in DOMAIN q : q[i] \in S)
  OBVIOUS
<1> HIDE DEF S
<1>2. p \in Seq(S) /\ q \in Seq(S) BY <1>1, PlannedSeq
<1>3. p \o q \in Seq(S) BY <1>2, ConcatProperties
<1>4. QED BY <1>3, SeqPlanned

(* discover_commands finds a sequence of candidates.                       *)
LEMMA DiscoveredPlanned ==
  ASSUME NEW ws \in Workspaces
  PROVE  Planned(DiscoverCommands(ws))
<1> DEFINE usable == {i \in DOMAIN ws.scripts : ScriptCategory(ws.scripts[i].name) # "none"}
           guess == IF FromConfig(ws) = <<>> /\ "python" \in ws.config
                    THEN <<Pytest(50, ws)>> ELSE <<>>
<1>1. \A c : <<c>> \in Seq({c}) /\ <<>> \in Seq({c}) OBVIOUS
<1>2. Planned(<<>>) /\ \A c : Planned(<<c>>) BY <1>1, SeqPlanned
<1>3. Planned(FromConfig(ws)) BY <1>2 DEF FromConfig
<1>4. ws.scripts \in Seq([name : ScriptNames, content : {"none", "clean", "harmful"}])
  BY TestRunAssumption DEF Workspace
<1>5. IsFiniteSet(usable)
  <2>1. DOMAIN ws.scripts = 1 .. Len(ws.scripts) /\ Len(ws.scripts) \in Nat
    BY <1>4, LenProperties
  <2>2. IsFiniteSet(1 .. Len(ws.scripts)) BY <2>1, FS_Interval
  <2>3. usable \subseteq 1 .. Len(ws.scripts) BY <2>1
  <2>4. QED BY <2>2, <2>3, FS_Subset
<1> HIDE DEF usable
<1>6. Planned(FromPackage(ws)) BY <1>5, PickedPlanned DEF FromPackage, usable
<1>7. Planned(guess) BY <1>2
<1> HIDE DEF guess
<1>8. Planned((FromConfig(ws) \o FromPackage(ws)) \o guess)
  BY <1>3, <1>6, <1>7, JoinedPlanned
<1>9. QED BY <1>8, Zenon DEF DiscoverCommands, guess

(* build_plan gives a plan.                                                *)
LEMMA BuiltPlanned ==
  ASSUME NEW ws \in Workspaces
  PROVE  Planned(BuildPlan(DiscoverCommands(ws)))
<1> DEFINE found == DiscoverCommands(ws)
<1>1. Len(found) \in Nat /\ DOMAIN found = 1 .. Len(found)
  BY DiscoveredPlanned DEF Planned
<1> HIDE DEF found
<1>2. \A K : K \subseteq DOMAIN found => IsFiniteSet(K)
  <2>1. IsFiniteSet(DOMAIN found) BY <1>1, FS_Interval
  <2>2. QED BY <2>1, FS_Subset
<1>3. Planned(BuildPlan(found)) BY <1>2, PickedPlanned DEF BuildPlan
<1>4. QED BY <1>3 DEF found

----------------------------------------------------------------------------
(* Every step keeps TestInv.                                               *)
LEMMA TestStarts == TestInit => TestInv
<1> SUFFICES ASSUME TestInit PROVE TestInv OBVIOUS
<1> USE DEF TestInit, NoTests, NoChild, NotWatching
<1>1. CallTyped
  <2>1. <<>> \in Seq(Outcome) OBVIOUS
  <2>2. Planned(<<>>) BY <2>1, SeqPlanned
  <2>3. QED BY <2>1, <2>2 DEF CallTyped
<1>2. CommandTyped BY DEF CommandTyped, Child, Exits
<1>3. Watched BY DEF Watched
<1>4. InStep BY DEF InStep
<1>5. HonestRecord BY DEF HonestRecord
<1>6. QED BY <1>1, <1>2, <1>3, <1>4, <1>5 DEF TestInv

(* A call that begins with a plan, or ends at once.                        *)
LEMMA BeginKeeps ==
  ASSUME TestInv, tests.at = "idle", NEW plan, Planned(plan), Begin(plan),
         UNCHANGED <<child, watch, slips>>
  PROVE  TestInv'
<1>0. watch.at = "off" BY DEF TestInv, InStep
<1>1. tests' = [at |-> "running", plan |-> plan, ran |-> <<>>, status |-> "none"]
  BY DEF Begin, NoTests
<1>2. CallTyped'
  <2>1. <<>> \in Seq(Outcome) OBVIOUS
  <2>2. QED BY <1>1, <2>1 DEF CallTyped
<1>3. CommandTyped' BY DEF TestInv, CommandTyped
<1>4. Watched' BY DEF TestInv, Watched
<1>5. InStep' BY <1>0, <1>1 DEF InStep, Planned
<1>6. HonestRecord' BY <1>1 DEF HonestRecord
<1>7. QED BY <1>2, <1>3, <1>4, <1>5, <1>6 DEF TestInv

LEMMA EndKeeps ==
  ASSUME TestInv, tests.at = "idle", NEW at, NEW status, EndAs(at, status),
         <<at, status>> \in {<<"done", "environment_not_ready">>, <<"no_result", "none">>},
         UNCHANGED <<child, watch, slips>>
  PROVE  TestInv'
<1>0. watch.at = "off" BY DEF TestInv, InStep
<1>1. tests' = [at |-> at, plan |-> <<>>, ran |-> <<>>, status |-> status]
  BY DEF EndAs, NoTests
<1>2. CallTyped'
  <2>1. <<>> \in Seq(Outcome) OBVIOUS
  <2>2. Planned(<<>>) BY <2>1, SeqPlanned
  <2>3. QED BY <1>1, <2>1, <2>2 DEF CallTyped, ExecutionStatus
<1>3. CommandTyped' BY DEF TestInv, CommandTyped
<1>4. Watched' BY DEF TestInv, Watched
<1>5. InStep' BY <1>0, <1>1 DEF InStep
<1>6. HonestRecord' BY <1>1 DEF HonestRecord
<1>7. QED BY <1>2, <1>3, <1>4, <1>5, <1>6 DEF TestInv

LEMMA StartKeeps ==
  ASSUME TestInv, StartTests
  PROVE  TestInv'
<1>1. CASE \E ws \in Workspaces : StageTests(ws) \/ WorkflowTests(ws)
  <2>1. PICK ws \in Workspaces : StageTests(ws) \/ WorkflowTests(ws) BY <1>1
  <2> DEFINE plan == BuildPlan(DiscoverCommands(ws))
  <2>2. Planned(plan) BY BuiltPlanned
  <2> HIDE DEF plan
  <2>3. /\ tests.at = "idle" /\ UNCHANGED <<child, watch, slips>>
        /\ Begin(plan) \/ EndAs("done", "environment_not_ready") \/ EndAs("no_result", "none")
    BY <2>1 DEF StageTests, WorkflowTests, plan
  <2>4. QED BY <2>2, <2>3, BeginKeeps, EndKeeps
<1>2. CASE \E plan \in Requests : RequestTests(plan)
  <2>1. PICK plan \in Requests : RequestTests(plan) BY <1>2
  <2>2. Planned(plan) BY TestRunAssumption, SeqPlanned
  <2>3. QED BY <2>1, <2>2, BeginKeeps DEF RequestTests
<1>3. QED BY <1>1, <1>2 DEF StartTests

(* A step of the plan is recorded.                                         *)
LEMMA RecordKeeps ==
  ASSUME CallTyped, HonestRecord, NEW status, NEW truth,
         status \in {"passed", "failed", "timeout", "error", "rejected"},
         truth \in {"rejected", "missing", "cut"} \union Exits,
         status = "passed" => truth = "zero",
         (status = "rejected") = (truth = "rejected")
  PROVE  /\ Record(status, truth) \in Seq(Outcome)
         /\ Len(Record(status, truth)) = Len(tests.ran) + 1
         /\ \A i \in DOMAIN Record(status, truth) : Honest(Record(status, truth)[i])
<1> DEFINE o == [status |-> status, truth |-> truth,
                 required |-> Required(tests.plan[Index])]
<1>1. o \in Outcome /\ Honest(o) BY DEF Outcome, Honest, Required
<1>2. Record(status, truth) = Append(tests.ran, o) BY DEF Record
<1> HIDE DEF o
<1>3. tests.ran \in Seq(Outcome) BY DEF CallTyped
<1>4. \A i \in 1 .. Len(tests.ran) : Honest(tests.ran[i])
  BY <1>3, LenProperties DEF HonestRecord
<1>5. /\ Append(tests.ran, o) \in Seq(Outcome)
      /\ Len(Append(tests.ran, o)) = Len(tests.ran) + 1
  BY <1>1, <1>3, AppendProperties
<1>6. \A i \in 1 .. Len(tests.ran) + 1 : Honest(Append(tests.ran, o)[i])
  BY <1>1, <1>3, <1>4, AppendProperties
<1>7. QED BY <1>2, <1>5, <1>6, LenProperties

(* A call that is not touched.                                             *)
LEMMA CallStands ==
  ASSUME CallTyped, HonestRecord, tests' = tests
  PROVE  CallTyped' /\ HonestRecord'
<1>1. CallTyped' BY DEF CallTyped
<1>2. HonestRecord' BY DEF HonestRecord
<1>3. QED BY <1>1, <1>2

LEMMA RejectKeeps == ASSUME TestInv, RejectStep PROVE TestInv'
<1> DEFINE ran == Record("rejected", "rejected")
<1>1. /\ ran \in Seq(Outcome) /\ Len(ran) = Len(tests.ran) + 1
      /\ \A i \in DOMAIN ran : Honest(ran[i])
  BY RecordKeeps DEF TestInv
<1>2. tests.ran \in Seq(Outcome) /\ Len(tests.ran) \in Nat /\ Len(tests.plan) \in Nat
  BY LenProperties DEF TestInv, CallTyped, Planned
<1>3. /\ tests.at = "running" /\ watch.at = "off" /\ Len(tests.ran) + 1 <= Len(tests.plan)
      /\ tests' = [tests EXCEPT !.ran = ran] /\ UNCHANGED <<child, watch, slips>>
  BY DEF RejectStep, HasStep, Index
<1> HIDE DEF ran
<1>4. CallTyped' BY <1>1, <1>3 DEF TestInv, CallTyped
<1>5. CommandTyped' /\ Watched' BY <1>3 DEF TestInv, CommandTyped, Watched
<1>6. tests'.at = tests.at /\ tests'.plan = tests.plan /\ tests'.ran = ran
  BY <1>3 DEF TestInv, CallTyped
<1>7. InStep' BY <1>1, <1>2, <1>3, <1>6 DEF InStep
<1>8. HonestRecord' BY <1>1, <1>6 DEF HonestRecord
<1>9. QED BY <1>4, <1>5, <1>7, <1>8 DEF TestInv

LEMMA SpawnFailsKeeps == ASSUME TestInv, SpawnFails PROVE TestInv'
<1> DEFINE ran == Record("error", "missing")
<1>1. /\ ran \in Seq(Outcome) /\ Len(ran) = Len(tests.ran) + 1
      /\ \A i \in DOMAIN ran : Honest(ran[i])
  BY RecordKeeps DEF TestInv
<1>2. tests.ran \in Seq(Outcome) /\ Len(tests.ran) \in Nat /\ Len(tests.plan) \in Nat
  BY LenProperties DEF TestInv, CallTyped, Planned
<1>3. /\ tests.at = "running" /\ watch.at = "off" /\ Len(tests.ran) + 1 <= Len(tests.plan)
      /\ tests' = [tests EXCEPT !.at = "raised", !.ran = ran]
      /\ UNCHANGED <<child, watch, slips>>
  BY DEF SpawnFails, HasStep, Index
<1> HIDE DEF ran
<1>4. CallTyped' BY <1>1, <1>3 DEF TestInv, CallTyped
<1>5. CommandTyped' /\ Watched' BY <1>3 DEF TestInv, CommandTyped, Watched
<1>6. tests'.at = "raised" /\ tests'.plan = tests.plan /\ tests'.ran = ran
  BY <1>3 DEF TestInv, CallTyped
<1>7. InStep' BY <1>1, <1>2, <1>3, <1>6 DEF InStep
<1>8. HonestRecord' BY <1>1, <1>6 DEF HonestRecord
<1>9. QED BY <1>4, <1>5, <1>7, <1>8 DEF TestInv

LEMMA SpawnKeeps == ASSUME TestInv, NEW c \in Children, Spawn(c) PROVE TestInv'
<1>1. c \in Child BY TestRunAssumption
<1>2. /\ tests.at = "running" /\ Len(tests.ran) + 1 <= Len(tests.plan)
      /\ child' = [left |-> c.writes, pipe |-> 0, alive |-> TRUE, code |-> "none", is |-> c]
      /\ watch' = [at |-> "running", got |-> 0, reading |-> TRUE, cut |-> FALSE,
                   late |-> FALSE, code |-> "none"]
      /\ UNCHANGED <<tests, slips>>
  BY DEF Spawn, HasStep, Index, NotWatching
<1>3. tests.ran \in Seq(Outcome) /\ Len(tests.ran) \in Nat /\ Len(tests.plan) \in Nat
  BY LenProperties DEF TestInv, CallTyped, Planned
<1>4. CallTyped' /\ HonestRecord' BY <1>2, CallStands DEF TestInv
<1>5. CommandTyped' BY <1>1, <1>2 DEF TestInv, CommandTyped, Child, Exits
<1>6. Watched' BY <1>2 DEF Watched
<1>7. InStep' BY <1>2, <1>3 DEF InStep, TestInv
<1>8. QED BY <1>4, <1>5, <1>6, <1>7 DEF TestInv

LEMMA FinishKeeps == ASSUME TestInv, FinishTests PROVE TestInv'
<1> DEFINE status == RunStatus(tests.ran)
<1>1. status \in ExecutionStatus BY DEF RunStatus, ExecutionStatus
<1>2. tests.ran \in Seq(Outcome) /\ Len(tests.ran) \in Nat /\ Len(tests.plan) \in Nat
  BY LenProperties DEF TestInv, CallTyped, Planned
<1>3. /\ watch.at = "off" /\ Len(tests.ran) + 1 > Len(tests.plan)
      /\ tests' = [tests EXCEPT !.at = "done", !.status = status]
      /\ UNCHANGED <<child, watch, slips>>
  BY DEF FinishTests, Index
<1> HIDE DEF status
<1>4. CallTyped' BY <1>1, <1>3 DEF TestInv, CallTyped
<1>5. CommandTyped' /\ Watched' BY <1>3 DEF TestInv, CommandTyped, Watched
<1>6. tests'.at = "done" /\ tests'.plan = tests.plan /\ tests'.ran = tests.ran
      /\ tests'.status = status
  BY <1>3 DEF TestInv, CallTyped
<1>7. Len(tests.ran) = Len(tests.plan) BY <1>2, <1>3 DEF TestInv, InStep
<1>8. InStep' BY <1>2, <1>3, <1>6, <1>7 DEF InStep, status
<1>9. HonestRecord' BY <1>6 DEF TestInv, HonestRecord
<1>10. QED BY <1>4, <1>5, <1>8, <1>9 DEF TestInv

(* The child and the engine move without touching the call.                *)
LEMMA CallKept ==
  ASSUME TestInv, tests' = tests, CommandTyped', Watched',
         watch'.at # "off" => watch.at # "off"
  PROVE  TestInv'
<1>1. CallTyped' /\ HonestRecord' BY CallStands DEF TestInv
<1>2. InStep' BY DEF TestInv, InStep
<1>3. QED BY <1>1, <1>2 DEF TestInv

LEMMA ChildKeeps == ASSUME TestInv, ChildMoves PROVE TestInv'
<1> USE DEF CommandTyped, Watched, Child, Exits
<1>1. CASE ChildWrites
  <2>1. child.left - 1 \in Nat /\ child.pipe + 1 \in Nat
    BY <1>1 DEF TestInv, ChildWrites
  <2>2. CommandTyped' BY <1>1, <2>1 DEF TestInv, ChildWrites
  <2>3. Watched' BY <1>1 DEF TestInv, ChildWrites
  <2>4. QED BY <1>1, <2>2, <2>3, CallKept DEF ChildWrites
<1>2. CASE ChildExits
  <2>1. CommandTyped' /\ Watched' BY <1>2 DEF TestInv, ChildExits
  <2>2. QED BY <1>2, <2>1, CallKept DEF ChildExits
<1>3. CASE ChildObeys
  <2>1. CommandTyped' /\ Watched' BY <1>3 DEF TestInv, ChildObeys
  <2>2. QED BY <1>3, <2>1, CallKept DEF ChildObeys
<1>4. CASE HeirEnds
  <2>1. CommandTyped' /\ Watched' BY <1>4 DEF TestInv, HeirEnds
  <2>2. QED BY <1>4, <2>1, CallKept DEF HeirEnds
<1>5. QED BY <1>1, <1>2, <1>3, <1>4 DEF ChildMoves

LEMMA CollectKeeps == ASSUME TestInv, Collect PROVE TestInv'
<1> DEFINE truth == IF watch.late THEN "cut" ELSE child.code
           ran == Record(ProcessStatus, truth)
<1>1. /\ ProcessStatus \in {"passed", "failed", "timeout"}
      /\ truth \in {"cut"} \union Exits
      /\ ProcessStatus = "passed" => truth = "zero"
      /\ truth # "rejected"
  BY DEF ProcessStatus, TestInv, CommandTyped, Watched, Collect, Exits
<1>2. /\ watch.at = "draining" /\ tests' = [tests EXCEPT !.ran = ran]
      /\ child' = NoChild /\ watch' = NotWatching /\ slips' = slips
  BY DEF Collect
<1> HIDE DEF truth
<1>3. /\ ran \in Seq(Outcome) /\ Len(ran) = Len(tests.ran) + 1
      /\ \A i \in DOMAIN ran : Honest(ran[i])
  BY <1>1, RecordKeeps DEF TestInv
<1> HIDE DEF ran
<1>4. tests.at = "running" /\ Len(tests.ran) < Len(tests.plan)
  BY <1>2 DEF TestInv, InStep
<1>5. tests.ran \in Seq(Outcome) /\ Len(tests.ran) \in Nat /\ Len(tests.plan) \in Nat
  BY LenProperties DEF TestInv, CallTyped, Planned
<1>6. CallTyped' BY <1>2, <1>3 DEF TestInv, CallTyped
<1>7. CommandTyped' /\ Watched'
  BY <1>2 DEF TestInv, CommandTyped, Watched, NoChild, NotWatching, Child, Exits
<1>8. tests'.at = "running" /\ tests'.plan = tests.plan /\ tests'.ran = ran
      /\ watch'.at = "off"
  BY <1>2, <1>4 DEF TestInv, CallTyped, NotWatching
<1>9. InStep' BY <1>3, <1>4, <1>5, <1>8 DEF InStep
<1>10. HonestRecord' BY <1>3, <1>8 DEF HonestRecord
<1>11. QED BY <1>6, <1>7, <1>9, <1>10 DEF TestInv

LEMMA EngineKeeps == ASSUME TestInv, EngineMoves PROVE TestInv'
<1> USE DEF CommandTyped, Watched, Child, Exits
<1>1. CASE ReadChunk
  <2>1. PICK n \in 1 .. child.pipe :
          /\ child' = [child EXCEPT !.pipe = child.pipe - n]
          /\ watch' = IF watch.got = MaxOutput
                      THEN [watch EXCEPT !.reading = FALSE, !.cut = TRUE]
                      ELSE [watch EXCEPT !.got = LeastOf(watch.got + n, MaxOutput)]
          /\ UNCHANGED <<tests, slips>>
    BY <1>1 DEF ReadChunk
  <2>2. child.pipe - n \in Nat /\ LeastOf(watch.got + n, MaxOutput) \in Nat
    BY TestRunAssumption DEF TestInv, LeastOf
  <2>3. CommandTyped' BY <2>1, <2>2 DEF TestInv
  <2>4. Watched' /\ watch'.at = watch.at BY <2>1 DEF TestInv
  <2>5. QED BY <2>1, <2>3, <2>4, CallKept
<1>2. CASE EndOfStream
  <2>1. CommandTyped' /\ Watched' /\ watch'.at = watch.at BY <1>2 DEF TestInv, EndOfStream
  <2>2. QED BY <1>2, <2>1, CallKept DEF EndOfStream
<1>3. CASE ReadTimeout
  <2>1. CommandTyped' /\ Watched' /\ watch'.at = watch.at BY <1>3 DEF TestInv, ReadTimeout
  <2>2. QED BY <1>3, <2>1, CallKept DEF ReadTimeout
<1>4. CASE WaitReturns
  <2>1. CommandTyped' /\ Watched' BY <1>4 DEF TestInv, WaitReturns
  <2>2. QED BY <1>4, <2>1, CallKept DEF WaitReturns
<1>5. CASE Deadline
  <2>1. CommandTyped' /\ Watched' BY <1>5 DEF TestInv, Deadline
  <2>2. QED BY <1>5, <2>1, CallKept DEF Deadline
<1>6. CASE Kill
  <2>1. CommandTyped' /\ Watched' BY <1>6 DEF TestInv, Kill
  <2>2. QED BY <1>6, <2>1, CallKept DEF Kill
<1>7. CASE WatchFails
  <2>1. slips' \in Nat BY <1>7 DEF TestInv, WatchFails
  <2>2. CommandTyped' BY <1>7, <2>1 DEF TestInv, WatchFails
  <2>3. Watched' BY <1>7 DEF TestInv, WatchFails
  <2>4. QED BY <1>7, <2>2, <2>3, CallKept DEF WatchFails
<1>8. CASE Collect BY <1>8, CollectKeeps
<1>9. QED BY <1>1, <1>2, <1>3, <1>4, <1>5, <1>6, <1>7, <1>8 DEF EngineMoves

LEMMA TestStep == ASSUME TestInv, TestNext PROVE TestInv'
<1>1. CASE PlanMoves
  BY <1>1, RejectKeeps, SpawnFailsKeeps, SpawnKeeps, FinishKeeps DEF PlanMoves
<1>2. QED BY <1>1, StartKeeps, EngineKeeps, ChildKeeps DEF TestNext

LEMMA TestStands == ASSUME TestInv, UNCHANGED testVars PROVE TestInv'
<1>1. CallTyped' /\ HonestRecord'
  BY CallStands DEF TestInv, testVars
<1>2. CommandTyped' /\ Watched' /\ InStep'
  BY DEF TestInv, CommandTyped, Watched, InStep, testVars
<1>3. QED BY <1>1, <1>2 DEF TestInv

----------------------------------------------------------------------------
(* The review.                                                             *)
Det(e) == DeterministicReview(e, e.marks)

(* The report was made from the evidence: it holds at least what the       *)
(* evidence says of the requirements, the tests and the repair.            *)
Rests(report, e) ==
  /\ RequirementCoverage(e) \subseteq report.coverage
  /\ report.executed = (e.tests # "none")
  /\ report.repair = e.repair

(* A report made without a model: nothing but the checks and what the      *)
(* deterministic reviewer has to say.                                      *)
Agentless(report, e) ==
  /\ report.coverage = RequirementCoverage(e)
  /\ \E fs \in AgentDeterministic(e) : Det(e) \union report.findings = Det(e) \union fs

(* What the report of a review is worth.                                   *)
Grounded ==
  IF review.broken THEN ~review.report.executed
  ELSE /\ Rests(review.report, evidence)
       /\ ~review.model => Agentless(review.report, evidence)

ReviewTyped ==
  /\ review = [at |-> review.at, model |-> review.model, broken |-> review.broken,
               report |-> review.report, lost |-> review.lost,
               decision |-> review.decision]
  /\ review.at \in {"idle", "reviewed", "decided"}
  /\ review.model \in BOOLEAN /\ review.broken \in BOOLEAN /\ review.lost \in BOOLEAN
  /\ evidence \in Evidence

Decided ==
  /\ review.at # "decided" => review.decision = "none"
  /\ review.at = "reviewed" =>
       IF review.lost THEN ~review.model /\ ~review.broken ELSE Grounded
  /\ review.at = "decided" =>
       Grounded /\ review.decision = Decide(review.report, Det(evidence), evidence.tests)

(* The evidence that is reviewed holds the result of the test run.         *)
SameTests ==
  review.at # "idle" =>
    tests.at = "idle" \/ (tests.at = "done" /\ evidence.tests = tests.status)

ReviewInv == ReviewTyped /\ Decided /\ SameTests

(* Found puts its finding among the findings.                              *)
LEMMA FoundIn ==
  ASSUME NEW condition, NEW c, NEW s, NEW b, condition
  PROVE  Found(c, s, b) \in FoundIf(condition, c, s, b)
BY DEF FoundIf

(* More marks, more findings.                                              *)
LEMMA DetGrows ==
  ASSUME NEW e, NEW few, NEW many, few \subseteq many
  PROVE  DeterministicReview(e, few) \subseteq DeterministicReview(e, many)
<1>1. CheckScope(e, few) \subseteq CheckScope(e, many)
  <2>1. few \intersect {"repo_rejected", "escapes"} # {}
          => many \intersect {"repo_rejected", "escapes"} # {} OBVIOUS
  <2>2. QED BY <2>1 DEF CheckScope, FoundIf
<1>2. CheckTampering(e, few) \subseteq CheckTampering(e, many)
  <2>1. few \intersect {"test_weakened", "attempt_tampers"} # {}
          => many \intersect {"test_weakened", "attempt_tampers"} # {} OBVIOUS
  <2>2. QED BY <2>1 DEF CheckTampering, FoundIf
<1>3. CheckSecurity(e, few) \subseteq CheckSecurity(e, many)
  BY DEF CheckSecurity, FoundIf
<1>4. CheckWorkspace(e, few) \subseteq CheckWorkspace(e, many)
  BY DEF CheckWorkspace, FoundIf
<1>5. QED BY <1>1, <1>2, <1>3, <1>4 DEF DeterministicReview

(* What the deterministic reviewer finds names no file, so the validator   *)
(* keeps it whatever files it knows.                                       *)
LEMMA AgentKept ==
  ASSUME NEW e, NEW fs \in AgentDeterministic(e), NEW files
  PROVE  Validate(fs, files) = fs
<1>1. \A f \in fs : f.file = NoFile
  BY DEF AgentDeterministic, Found, FoundIf
<1>2. QED BY <1>1 DEF Validate

(* A gate that rejects rejects on more findings and a wider coverage too.  *)
LEMMA RejectsGrows ==
  ASSUME NEW r, NEW s, NEW found, NEW more, NEW t, found \subseteq more,
         r.coverage \subseteq s.coverage, r.repair = s.repair,
         r.executed = s.executed, Rejects(r, found, t)
  PROVE  Rejects(s, more, t)
BY DEF Rejects, Blocking

LEMMA HumanGrows ==
  ASSUME NEW r, NEW s, NEW det, r.coverage \subseteq s.coverage, NeedsHuman(r, det)
  PROVE  NeedsHuman(s, det)
<1>1. CASE RequireHuman /\ r.coverage \intersect {"unverified", "not_applicable"} # {}
  <2>1. s.coverage \intersect {"unverified", "not_applicable"} # {} BY <1>1
  <2>2. QED BY <1>1, <2>1 DEF NeedsHuman
<1>2. CASE Blocking(det) # {} BY <1>2 DEF NeedsHuman
<1>3. QED BY <1>1, <1>2 DEF NeedsHuman

LEMMA StrictnessOf ==
  /\ Strictness("approved") = 0
  /\ Strictness("needs_human_review") = 1
  /\ Strictness("rejected") = 2
BY DEF Strictness

(* A decision on a grounded report is as strict as the evidence makes it.  *)
LEMMA AtLeastAsStrict ==
  ASSUME NEW e, NEW report, Rests(report, e) \/ ~report.executed
  PROVE  Strictness(Decide(report, Det(e), e.tests)) >= Strictness(EvidenceDecision(e))
<1> DEFINE silent == [findings |-> {}, assessments |-> {}]
           own == Report(e, e.marks, silent, e.files)
<1>1. /\ own.findings = Det(e) /\ own.coverage = RequirementCoverage(e)
      /\ own.executed = (e.tests # "none") /\ own.repair = e.repair
  BY DEF Report, Validate, Det
<1>2. EvidenceDecision(e) = Decide(own, Det(e), e.tests)
  BY DEF EvidenceDecision, Det
<1> HIDE DEF own
<1>3. Det(e) \union own.findings = Det(e) BY <1>1
<1>4. CASE Rejects(report, Det(e) \union report.findings, e.tests)
  <2>1. Decide(report, Det(e), e.tests) = "rejected" BY <1>4 DEF Decide
  <2>2. EvidenceDecision(e) \in {"approved", "needs_human_review", "rejected"}
    BY <1>2 DEF Decide
  <2>3. QED BY <2>1, <2>2, StrictnessOf
<1>5. CASE ~Rejects(report, Det(e) \union report.findings, e.tests)
  <2>1. Rests(report, e) BY <1>5 DEF Rejects
  <2>2. ~Rejects(own, Det(e), e.tests)
    BY <1>1, <1>5, <2>1, RejectsGrows DEF Rests
  <2>3. NeedsHuman(own, Det(e)) => NeedsHuman(report, Det(e))
    BY <1>1, <2>1, HumanGrows DEF Rests
  <2>4. EvidenceDecision(e) = IF NeedsHuman(own, Det(e)) THEN "needs_human_review" ELSE "approved"
    BY <1>2, <1>3, <2>2 DEF Decide
  <2>5. Decide(report, Det(e), e.tests)
          = IF NeedsHuman(report, Det(e)) THEN "needs_human_review" ELSE "approved"
    BY <1>5 DEF Decide
  <2>6. QED BY <2>3, <2>4, <2>5, StrictnessOf
<1>6. QED BY <1>4, <1>5

(* Of what the deterministic reviewer may find only the missing text can   *)
(* turn the decision.                                                      *)
Textless(e) == FoundIf(~HasText(e), "requirement", "high", TRUE)

LEMMA AgentIndifferent ==
  ASSUME NEW e, NEW r, NEW t, NEW det, NEW fs \in AgentDeterministic(e)
  PROVE  Rejects(r, det \union fs, t) <=> Rejects(r, det \union Textless(e), t)
<1>1. PICK g : /\ fs = g \union Textless(e)
               /\ \A f \in g : ~f.blocking /\ f.category \in {"requirement", "quality"}
  <2>1. PICK g \in {{}, {Found("requirement", "medium", FALSE)},
                     {Found("quality", "medium", FALSE)}} : fs = g \union Textless(e)
    BY DEF AgentDeterministic, Textless
  <2>2. \A f \in g : ~f.blocking /\ f.category \in {"requirement", "quality"}
    BY <2>1 DEF Found
  <2>3. QED BY <2>1, <2>2
<1>2. Rejects(r, det \union Textless(e), t) => Rejects(r, det \union fs, t)
  BY <1>1, RejectsGrows
<1>3. ASSUME Rejects(r, det \union fs, t) PROVE Rejects(r, det \union Textless(e), t)
  <2>1. CASE \E f \in Blocking(det \union fs) : f.severity \in {"critical", "high"}
    <3>1. PICK f \in Blocking(det \union fs) : f.severity \in {"critical", "high"} BY <2>1
    <3>2. f \in Blocking(det \union Textless(e)) BY <1>1, <3>1 DEF Blocking
    <3>3. QED BY <3>1, <3>2 DEF Rejects
  <2>2. CASE \E f \in det \union fs : f.category = "tampering"
    BY <1>1, <2>2 DEF Rejects
  <2>3. CASE \E f \in det \union fs : f.category = "security" /\ f.severity \in {"critical", "high"}
    BY <1>1, <2>3 DEF Rejects
  <2>4. QED BY <1>3, <2>1, <2>2, <2>3 DEF Rejects
<1>4. QED BY <1>2, <1>3

(* Rejects and NeedsHuman read nothing of a report but its coverage, its   *)
(* repair and whether tests were executed.                                 *)
LEMMA SameReport ==
  ASSUME NEW r, NEW s, NEW found, NEW det, NEW t, r.coverage = s.coverage,
         r.repair = s.repair, r.executed = s.executed
  PROVE  /\ Rejects(r, found, t) <=> Rejects(s, found, t)
         /\ NeedsHuman(r, det) <=> NeedsHuman(s, det)
BY DEF Rejects, NeedsHuman

(* Two reports made without a model decide alike.                          *)
LEMMA SameDecision ==
  ASSUME NEW e, NEW r, NEW s, Rests(r, e), Rests(s, e), Agentless(r, e), Agentless(s, e)
  PROVE  Decide(r, Det(e), e.tests) = Decide(s, Det(e), e.tests)
<1>1. PICK fs \in AgentDeterministic(e) : Det(e) \union r.findings = Det(e) \union fs
  BY DEF Agentless
<1>2. PICK gs \in AgentDeterministic(e) : Det(e) \union s.findings = Det(e) \union gs
  BY DEF Agentless
<1>3. r.coverage = s.coverage /\ r.repair = s.repair /\ r.executed = s.executed
  BY DEF Agentless, Rests
<1>4. Rejects(r, Det(e) \union fs, e.tests) <=> Rejects(s, Det(e) \union gs, e.tests)
  <2>1. Rejects(r, Det(e) \union fs, e.tests) <=> Rejects(r, Det(e) \union Textless(e), e.tests)
    BY AgentIndifferent
  <2>2. Rejects(s, Det(e) \union gs, e.tests) <=> Rejects(s, Det(e) \union Textless(e), e.tests)
    BY AgentIndifferent
  <2>3. Rejects(r, Det(e) \union Textless(e), e.tests) <=> Rejects(s, Det(e) \union Textless(e), e.tests)
    BY <1>3, SameReport
  <2>4. QED BY <2>1, <2>2, <2>3, Zenon
<1>5. NeedsHuman(r, Det(e)) <=> NeedsHuman(s, Det(e)) BY <1>3, SameReport
<1>6. QED BY <1>1, <1>2, <1>4, <1>5 DEF Decide

(* What run_review makes, with all its marks or without those of the       *)
(* repositories.                                                           *)
LEMMA ReportRests ==
  ASSUME NEW e, NEW marks, marks \subseteq e.marks, NEW agent, NEW files
  PROVE  /\ Rests(Report(e, marks, agent, files), e)
         /\ agent.findings \in AgentDeterministic(e) /\ agent.assessments = {}
              => Agentless(Report(e, marks, agent, files), e)
<1> DEFINE r == Report(e, marks, agent, files)
<1>1. /\ r.findings = DeterministicReview(e, marks) \union Validate(agent.findings, files)
      /\ r.coverage = RequirementCoverage(e) \union agent.assessments
      /\ r.executed = (e.tests # "none") /\ r.repair = e.repair
  BY DEF Report
<1> HIDE DEF r
<1>2. Rests(r, e) BY <1>1 DEF Rests
<1>3. ASSUME agent.findings \in AgentDeterministic(e), agent.assessments = {}
      PROVE  Agentless(r, e)
  <2>1. Validate(agent.findings, files) = agent.findings BY <1>3, AgentKept
  <2>2. DeterministicReview(e, marks) \subseteq Det(e) BY DetGrows DEF Det
  <2>3. Det(e) \union r.findings = Det(e) \union agent.findings BY <1>1, <2>1, <2>2
  <2>4. QED BY <1>1, <1>3, <2>3 DEF Agentless
<1>4. QED BY <1>2, <1>3 DEF r

----------------------------------------------------------------------------
(* Every step keeps ReviewInv.                                             *)
LEMMA ReviewStarts == ReviewInit => ReviewInv
<1> SUFFICES ASSUME ReviewInit PROVE ReviewInv OBVIOUS
<1>1. NoEvidence \in Evidence
  BY DEF NoEvidence, Evidence, TestStatus, RepairStatus
<1>2. QED BY <1>1 DEF ReviewInit, ReviewInv, ReviewTyped, Decided, SameTests, NoReview

(* A review of e, given its report.                                        *)
LEMMA ReviewedKeeps ==
  ASSUME ReviewInv, NEW e \in Cases, Reviewable(e), evidence' = e,
         NEW model \in BOOLEAN, NEW broken \in BOOLEAN, NEW report,
         review' = [at |-> "reviewed", model |-> model, broken |-> broken,
                    report |-> report, lost |-> FALSE, decision |-> "none"],
         IF broken THEN ~report.executed
         ELSE Rests(report, e) /\ (~model => Agentless(report, e)),
         UNCHANGED testVars
  PROVE  ReviewInv'
<1>1. ReviewTyped' BY CasesAssumption DEF ReviewTyped
<1>2. Grounded' BY DEF Grounded
<1>3. Decided' BY <1>2 DEF Decided
<1>4. SameTests' BY DEF SameTests, Reviewable, testVars
<1>5. QED BY <1>1, <1>3, <1>4 DEF ReviewInv

LEMMA RunReviewKeeps ==
  ASSUME ReviewInv, NEW e \in Cases, Reviewable(e), NEW a \in Answers,
         RunReview(e, a), UNCHANGED testVars
  PROVE  ReviewInv'
<1>1. PICK agent \in AgentReviews(a, e) :
        review' = [NoReview EXCEPT !.at = "reviewed", !.model = a.kind # "unavailable",
                                   !.report = Report(e, e.marks, agent, known')]
  BY DEF RunReview
<1> DEFINE report == Report(e, e.marks, agent, known')
           model == a.kind # "unavailable"
<1>2. Rests(report, e) BY ReportRests
<1>3. ~model => Agentless(report, e)
  <2>1. SUFFICES ASSUME a.kind = "unavailable" PROVE Agentless(report, e) OBVIOUS
  <2>2. agent.findings \in AgentDeterministic(e) /\ agent.assessments = {}
    BY <1>1, <2>1 DEF AgentReviews
  <2>3. QED BY <2>2, ReportRests
<1>4. review' = [at |-> "reviewed", model |-> model, broken |-> FALSE,
                 report |-> report, lost |-> FALSE, decision |-> "none"]
  BY <1>1 DEF NoReview
<1>5. evidence' = e BY DEF RunReview
<1> HIDE DEF report, model
<1>6. model \in BOOLEAN BY DEF model
<1>7. QED BY <1>2, <1>3, <1>4, <1>5, <1>6, ReviewedKeeps

LEMMA BreaksKeeps ==
  ASSUME ReviewInv, NEW e \in Cases, Reviewable(e), ReviewBreaks(e), UNCHANGED testVars
  PROVE  ReviewInv'
<1>1. review' = [at |-> "reviewed", model |-> FALSE, broken |-> TRUE,
                 report |-> NoReport, lost |-> FALSE, decision |-> "none"]
  BY DEF ReviewBreaks, NoReview
<1>2. ~NoReport.executed BY DEF NoReport
<1>3. QED BY <1>1, <1>2, ReviewedKeeps DEF ReviewBreaks

LEMMA LoseKeeps == ASSUME ReviewInv, LoseReport, UNCHANGED testVars PROVE ReviewInv'
<1>1. review' = [at |-> "reviewed", model |-> FALSE, broken |-> FALSE,
                 report |-> NoReport, lost |-> TRUE, decision |-> review.decision]
      /\ evidence' = evidence /\ review.at = "reviewed"
  BY DEF LoseReport, ReviewInv, ReviewTyped
<1>2. ReviewTyped' BY <1>1 DEF ReviewInv, ReviewTyped
<1>3. Decided' BY <1>1 DEF ReviewInv, Decided
<1>4. SameTests' BY <1>1 DEF ReviewInv, SameTests, testVars
<1>5. QED BY <1>2, <1>3, <1>4 DEF ReviewInv

LEMMA GateKeeps == ASSUME ReviewInv, GateDecides, UNCHANGED testVars PROVE ReviewInv'
<1> DEFINE marks == evidence.marks \ {"repo_rejected", "escapes"}
<1>1. PICK agent \in {[findings |-> fs, assessments |-> {}] : fs \in AgentDeterministic(evidence)} :
        LET report == IF review.lost THEN Report(evidence, marks, agent, evidence.files)
                      ELSE review.report
        IN review' = [review EXCEPT !.at = "decided", !.report = report,
                        !.decision = Decide(report, Det(evidence), evidence.tests)]
  BY DEF GateDecides, Det
<1>2. agent.findings \in AgentDeterministic(evidence) /\ agent.assessments = {}
  BY <1>1
<1>3. marks \subseteq evidence.marks OBVIOUS
<1> HIDE DEF marks
<1> DEFINE again == Report(evidence, marks, agent, evidence.files)
           report == IF review.lost THEN again ELSE review.report
           decision == Decide(report, Det(evidence), evidence.tests)
<1>4. Rests(again, evidence) /\ Agentless(again, evidence)
  BY <1>2, <1>3, ReportRests
<1> HIDE DEF again
<1>5. review.at = "reviewed" /\ evidence' = evidence BY DEF GateDecides
<1>6. IF review.broken THEN ~report.executed
      ELSE Rests(report, evidence) /\ (~review.model => Agentless(report, evidence))
  BY <1>4, <1>5 DEF ReviewInv, Decided, Grounded
<1>7. review' = [at |-> "decided", model |-> review.model, broken |-> review.broken,
                 report |-> report, lost |-> review.lost, decision |-> decision]
  BY <1>1 DEF ReviewInv, ReviewTyped, again
<1> HIDE DEF report, decision
<1>8. ReviewTyped' BY <1>5, <1>7 DEF ReviewInv, ReviewTyped
<1>9. Grounded' BY <1>5, <1>6, <1>7 DEF Grounded
<1>10. Decided' BY <1>5, <1>7, <1>9 DEF Decided, decision
<1>11. SameTests' BY <1>5, <1>7 DEF ReviewInv, SameTests, testVars
<1>12. QED BY <1>8, <1>10, <1>11 DEF ReviewInv

LEMMA ReviewStands ==
  ASSUME ReviewInv, evidence' = evidence, review' = review,
         tests' = tests \/ review.at = "idle"
  PROVE  ReviewInv'
BY DEF ReviewInv, ReviewTyped, Decided, Grounded, SameTests

----------------------------------------------------------------------------
(* The whole.                                                              *)
Inv == TestInv /\ ReviewInv

LEMMA InvStarts == Init => Inv
BY TestStarts, ReviewStarts DEF Init, Inv

LEMMA InvStep == Inv /\ [Next]_vars => Inv'
<1> SUFFICES ASSUME Inv, [Next]_vars PROVE Inv' OBVIOUS
<1>1. CASE Testing
  <2>1. TestInv' BY <1>1, TestStep DEF Inv, Testing
  <2>2. ReviewInv' BY <1>1, ReviewStands DEF Inv, Testing, reviewVars
  <2>3. QED BY <2>1, <2>2 DEF Inv
<1>2. CASE Reviewing
  <2>1. UNCHANGED testVars BY <1>2 DEF Reviewing
  <2>2. TestInv' BY <2>1, TestStands DEF Inv
  <2>3. CASE OtherReview
    BY <2>1, <2>2, <2>3, ReviewStands DEF Inv, OtherReview, testVars
  <2>4. CASE LoseReport BY <2>1, <2>2, <2>4, LoseKeeps DEF Inv
  <2>5. CASE GateDecides BY <2>1, <2>2, <2>5, GateKeeps DEF Inv
  <2>6. CASE \E e \in {c \in Cases : Reviewable(c)} :
               ReviewBreaks(e) \/ \E a \in Answers : RunReview(e, a)
    <3>1. PICK e \in Cases : Reviewable(e) /\ (ReviewBreaks(e) \/ \E a \in Answers : RunReview(e, a))
      BY <2>6
    <3>2. ReviewInv' BY <2>1, <3>1, BreaksKeeps, RunReviewKeeps DEF Inv
    <3>3. QED BY <2>2, <3>2 DEF Inv
  <2>7. QED BY <1>2, <2>3, <2>4, <2>5, <2>6 DEF Reviewing
<1>3. CASE UNCHANGED vars
  <2>1. UNCHANGED testVars /\ UNCHANGED reviewVars BY <1>3 DEF vars
  <2>2. QED BY <2>1, TestStands, ReviewStands DEF Inv, testVars, reviewVars
<1>4. QED BY <1>1, <1>2, <1>3 DEF Next

LEMMA InvHolds == Spec => []Inv
BY InvStarts, InvStep, PTL DEF Spec

(* TestInv holds in every state: the records of a test run have the type   *)
(* of ExecutionStep results, a command is watched only for the next step   *)
(* of a running plan, the exit code that is read is the child's own, and   *)
(* only a command that ended by itself with 0 is recorded as passed.       *)
THEOREM RecordsHonest == Spec => []TestInv
<1>1. Inv => TestInv BY DEF Inv
<1>2. QED BY <1>1, InvHolds, PTL

(* Whatever a model answers and whatever files the validator knows, the    *)
(* gate decides at least as strictly as the evidence alone makes it.       *)
THEOREM Tightens == Spec => []ModelOnlyTightens
<1>1. Inv => ModelOnlyTightens
  <2> SUFFICES ASSUME Inv, review.at = "decided"
               PROVE  Strictness(review.decision) >= Strictness(EvidenceDecision(evidence))
    BY DEF ModelOnlyTightens
  <2>1. Grounded /\ review.decision = Decide(review.report, Det(evidence), evidence.tests)
    BY DEF Inv, ReviewInv, Decided
  <2>2. Rests(review.report, evidence) \/ ~review.report.executed BY <2>1 DEF Grounded
  <2>3. QED BY <2>1, <2>2, AtLeastAsStrict
<1>2. QED BY <1>1, InvHolds, PTL

(* Without a model the decision is the same whether the stored report      *)
(* survived or was made again at the gate without the repositories.        *)
THEOREM LostReport == Spec => []LostReportSameDecision
<1>1. Inv => LostReportSameDecision
  <2> SUFFICES ASSUME Inv, review.at = "decided", ~review.model, ~review.broken,
                      NEW agent \in {[findings |-> fs, assessments |-> {}] :
                                       fs \in AgentDeterministic(evidence)}
               PROVE  review.decision
                        = Decide(Report(evidence, evidence.marks, agent, evidence.files),
                                 DeterministicReview(evidence, evidence.marks), evidence.tests)
    BY DEF LostReportSameDecision
  <2> DEFINE again == Report(evidence, evidence.marks, agent, evidence.files)
  <2>1. Grounded /\ review.decision = Decide(review.report, Det(evidence), evidence.tests)
    BY DEF Inv, ReviewInv, Decided
  <2>2. Rests(review.report, evidence) /\ Agentless(review.report, evidence)
    BY <2>1 DEF Grounded
  <2>3. agent.findings \in AgentDeterministic(evidence) /\ agent.assessments = {} OBVIOUS
  <2>4. Rests(again, evidence) /\ Agentless(again, evidence) BY <2>3, ReportRests
  <2> HIDE DEF again
  <2>5. Decide(review.report, Det(evidence), evidence.tests) = Decide(again, Det(evidence), evidence.tests)
    BY <2>2, <2>4, SameDecision
  <2>6. QED BY <2>1, <2>5 DEF Det, again
<1>2. QED BY <1>1, InvHolds, PTL

----------------------------------------------------------------------------
(* What an approval rests on.                                              *)

(* What the gate approves neither rejects nor is left to a human.          *)
LEMMA ApprovedMeans ==
  ASSUME NEW r, NEW det, NEW t, Decide(r, det, t) = "approved"
  PROVE  ~Rejects(r, det \union r.findings, t) /\ ~NeedsHuman(r, det)
BY DEF Decide

(* No check has found anything that blocks an approval.                    *)
LEMMA NothingFound ==
  ASSUME NEW r, NEW e, NEW t, ~Rejects(r, Det(e) \union r.findings, t)
  PROVE  \A f \in Det(e) \union r.findings :
           /\ f.blocking => f.severity \notin {"critical", "high"}
           /\ f.category # "tampering"
           /\ f.category = "security" => f.severity \notin {"critical", "high"}
BY DEF Rejects, Blocking

LEMMA MarksAbsent ==
  ASSUME NEW e,
         \A f \in Det(e) :
           /\ f.blocking => f.severity \notin {"critical", "high"}
           /\ f.category # "tampering"
           /\ f.category = "security" => f.severity \notin {"critical", "high"}
  PROVE  /\ e.tests # "environment_not_ready"
         /\ "touches_original" \notin e.marks
         /\ e.patch => e.marks \intersect
              {"test_deleted", "test_weakened", "attempt_tampers", "dangerous"} = {}
         /\ e.patch /\ e.plan => e.marks \intersect {"repo_rejected", "escapes"} = {}
         /\ ~(2 * Cardinality(e.reqs \ e.mapped) > Cardinality(e.reqs))
<1> DEFINE det == Det(e)
<1>0. /\ CheckVerification(e) \subseteq det /\ CheckCoverage(e) \subseteq det
      /\ CheckScope(e, e.marks) \subseteq det /\ CheckTampering(e, e.marks) \subseteq det
      /\ CheckSecurity(e, e.marks) \subseteq det /\ CheckWorkspace(e, e.marks) \subseteq det
  BY DEF Det, DeterministicReview
<1> HIDE DEF det
<1>1. \A c, s, b : Found(c, s, b) \in det =>
        (b => s \notin {"critical", "high"}) /\ c # "tampering"
          /\ (c = "security" => s \notin {"critical", "high"})
  BY DEF Found, det
<1>2. e.tests # "environment_not_ready"
  <2>1. e.tests = "environment_not_ready" => Found("testing", "high", TRUE) \in det
    BY <1>0 DEF CheckVerification, FoundIf
  <2>2. QED BY <1>1, <2>1
<1>3. "touches_original" \notin e.marks
  <2>1. "touches_original" \in e.marks => Found("security", "critical", TRUE) \in det
    BY <1>0 DEF CheckWorkspace, FoundIf
  <2>2. QED BY <1>1, <2>1
<1>4. ASSUME e.patch
      PROVE  e.marks \intersect
               {"test_deleted", "test_weakened", "attempt_tampers", "dangerous"} = {}
  <2>1. "test_deleted" \in e.marks => Found("tampering", "critical", TRUE) \in det
    BY <1>0, <1>4 DEF CheckTampering, FoundIf
  <2>2. e.marks \intersect {"test_weakened", "attempt_tampers"} # {}
          => Found("tampering", "high", TRUE) \in det
    BY <1>0, <1>4 DEF CheckTampering, FoundIf
  <2>3. "dangerous" \in e.marks => Found("security", "critical", TRUE) \in det
    BY <1>0, <1>4 DEF CheckSecurity, FoundIf
  <2>4. QED BY <1>1, <2>1, <2>2, <2>3
<1>5. ASSUME e.patch, e.plan
      PROVE  e.marks \intersect {"repo_rejected", "escapes"} = {}
  <2>1. e.marks \intersect {"repo_rejected", "escapes"} # {}
          => Found("scope", "critical", TRUE) \in det
    BY <1>0, <1>5 DEF CheckScope, FoundIf
  <2>2. QED BY <1>1, <2>1
<1>6. ~(2 * Cardinality(e.reqs \ e.mapped) > Cardinality(e.reqs))
  <2>1. 2 * Cardinality(e.reqs \ e.mapped) > Cardinality(e.reqs)
          => Found("requirement", "high", TRUE) \in det
    BY <1>0 DEF CheckCoverage, FoundIf
  <2>2. QED BY <1>1, <2>1
<1>7. QED BY <1>2, <1>3, <1>4, <1>5, <1>6

LEMMA ApprovedStands ==
  ASSUME RequireHuman, Inv, review.decision = "approved"
  PROVE  StandsByItself
<1> DEFINE e == evidence
           r == review.report
<1>1. /\ Grounded /\ e \in Evidence
      /\ Decide(r, Det(e), e.tests) = "approved"
  BY DEF Inv, ReviewInv, Decided, ReviewTyped
<1>2. ~Rejects(r, Det(e) \union r.findings, e.tests) /\ ~NeedsHuman(r, Det(e))
  BY <1>1, ApprovedMeans
<1>3. \A f \in Det(e) \union r.findings :
        /\ f.blocking => f.severity \notin {"critical", "high"}
        /\ f.category # "tampering"
        /\ f.category = "security" => f.severity \notin {"critical", "high"}
  BY <1>2, NothingFound
<1>4. Rests(r, e) /\ (~review.model => Agentless(r, e))
  BY <1>1, <1>2 DEF Grounded, Rejects
<1>5. /\ e.tests # "environment_not_ready"
      /\ "touches_original" \notin e.marks
      /\ e.patch => e.marks \intersect
           {"test_deleted", "test_weakened", "attempt_tampers", "dangerous"} = {}
      /\ e.patch /\ e.plan => e.marks \intersect {"repo_rejected", "escapes"} = {}
      /\ ~(2 * Cardinality(e.reqs \ e.mapped) > Cardinality(e.reqs))
  BY <1>3, MarksAbsent
<1>6. e.repair \notin {"max_attempts", "failed", "no_progress", "unsafe_repair"}
  BY <1>2, <1>4 DEF Rejects, Rests
<1>7. e.tests \in {"passed", "skipped"}
  BY <1>1, <1>2, <1>4, <1>5 DEF Rejects, Rests, Evidence, TestStatus
<1>8. e.tests = "skipped" => e.reqs = {}
  <2> SUFFICES ASSUME e.tests = "skipped", NEW q \in e.reqs PROVE FALSE OBVIOUS
  <2>1. CoverageOf(e, q) = "unverified" BY DEF CoverageOf
  <2>2. "unverified" \in r.coverage BY <1>4, <2>1 DEF Rests, RequirementCoverage
  <2>3. QED BY <1>2, <2>2 DEF NeedsHuman
<1>9. review.model \/ HasText(e)
  <2> SUFFICES ASSUME ~review.model, ~HasText(e) PROVE FALSE OBVIOUS
  <2>1. PICK fs \in AgentDeterministic(e) : Det(e) \union r.findings = Det(e) \union fs
    BY <1>4 DEF Agentless
  <2>2. Found("requirement", "high", TRUE) \in fs BY DEF AgentDeterministic, FoundIf
  <2>3. Found("requirement", "high", TRUE) \in Det(e) \union r.findings BY <2>1, <2>2
  <2>4. QED BY <1>3, <2>3 DEF Found
<1>10. 2 * Cardinality(e.reqs \ e.mapped) <= Cardinality(e.reqs)
  <2>1. e.reqs \subseteq Reqs BY <1>1 DEF Evidence
  <2>2. IsFiniteSet(e.reqs) /\ IsFiniteSet(e.reqs \ e.mapped)
    BY <2>1, ReviewAssumption, FS_Subset
  <2>3. Cardinality(e.reqs) \in Nat /\ Cardinality(e.reqs \ e.mapped) \in Nat
    BY <2>2, FS_CardinalityType
  <2>4. QED BY <1>5, <2>3
<1>11. e.tests = "passed" \/ Unrequired BY <1>7, <1>8, <1>9 DEF Unrequired
<1>12. QED BY <1>5, <1>6, <1>10, <1>11 DEF StandsByItself

(* A test run that passed ran every command that was not refused, each of  *)
(* them ended by itself with 0, and none that was refused was required.    *)
LEMMA PassedWasRun ==
  ASSUME TestInv, tests.at = "done", tests.status = "passed",
         NEW i \in DOMAIN tests.plan
  PROVE  IF tests.ran[i].truth = "rejected" THEN ~tests.ran[i].required
         ELSE tests.ran[i].truth = "zero"
<1>1. Len(tests.ran) = Len(tests.plan) /\ RunStatus(tests.ran) = "passed"
  BY DEF TestInv, InStep
<1>2. i \in DOMAIN tests.ran /\ tests.ran[i] \in Outcome
  BY <1>1, LenProperties, ElementOfSeq DEF TestInv, CallTyped, Planned
<1>3. tests.ran[i].status \notin {"timeout", "error", "failed"}
      /\ ~(tests.ran[i].required /\ tests.ran[i].status = "rejected")
  BY <1>1, <1>2 DEF RunStatus
<1>4. tests.ran[i].status \in {"passed", "rejected"} BY <1>2, <1>3 DEF Outcome
<1>5. Honest(tests.ran[i]) BY <1>2 DEF TestInv, HonestRecord
<1>6. QED BY <1>3, <1>4, <1>5 DEF Honest

(* And unless nothing was planned, one of them was not refused: a run      *)
(* whose commands were all refused is SKIPPED.                             *)
LEMMA PassedRanOne ==
  ASSUME TestInv, tests.at = "done", tests.status = "passed", ~NothingPlanned
  PROVE  \E i \in DOMAIN tests.plan : tests.ran[i].truth = "zero"
<1>1. Len(tests.ran) = Len(tests.plan) /\ RunStatus(tests.ran) = "passed"
  BY DEF TestInv, InStep
<1>2. /\ DOMAIN tests.plan = 1 .. Len(tests.plan) /\ DOMAIN tests.ran = DOMAIN tests.plan
      /\ Len(tests.plan) \in Nat
      /\ \A i \in DOMAIN tests.ran : tests.ran[i] \in Outcome
  BY <1>1, LenProperties, ElementOfSeq DEF TestInv, CallTyped, Planned
<1>3. Len(tests.plan) # 0
  BY EmptySeq DEF NothingPlanned, TestInv, CallTyped, Planned
<1>4. 1 \in DOMAIN tests.ran BY <1>2, <1>3
<1>5. \A i \in DOMAIN tests.ran : tests.ran[i].status \notin {"timeout", "error", "failed"}
  BY <1>1 DEF RunStatus
<1>6. (\E i \in DOMAIN tests.ran : tests.ran[i].status = "rejected")
        => \E i \in DOMAIN tests.ran : tests.ran[i].status = "passed"
  BY <1>1 DEF RunStatus
<1>7. tests.ran[1].status \in {"passed", "rejected"} BY <1>2, <1>4, <1>5 DEF Outcome
<1>8. PICK i \in DOMAIN tests.ran : tests.ran[i].status = "passed" BY <1>4, <1>6, <1>7
<1>9. Honest(tests.ran[i]) BY <1>8 DEF TestInv, HonestRecord
<1>10. QED BY <1>2, <1>8, <1>9 DEF Honest

(* With the gate of the pipeline, which leaves unverified requirements to  *)
(* a human, an approval rests on tests of which at least one was really    *)
(* run and all that ran passed, on a workspace without any command, or on  *)
(* a run with nothing required and nothing allowed, and on evidence        *)
(* without a mark.                                                         *)
THEOREM ApprovalEarned == ASSUME RequireHuman PROVE Spec => []ApprovedOnEvidence
<1>1. Inv => ApprovedOnEvidence
  <2> SUFFICES ASSUME Inv, review.decision = "approved"
               PROVE  WasRun /\ StandsByItself
    BY DEF ApprovedOnEvidence, WasRun, StandsByItself
  <2>1. StandsByItself BY ApprovedStands
  <2>2. WasRun
    <3> SUFFICES ASSUME tests.at = "done", ~Unrequired, ~NothingPlanned
                 PROVE  /\ \E i \in DOMAIN tests.plan : tests.ran[i].truth = "zero"
                        /\ \A i \in DOMAIN tests.plan :
                             IF tests.ran[i].truth = "rejected" THEN ~tests.ran[i].required
                             ELSE tests.ran[i].truth = "zero"
      BY DEF WasRun
    <3>1. evidence.tests = "passed" BY <2>1 DEF StandsByItself
    <3>2. review.at # "idle" BY DEF Inv, ReviewInv, Decided
    <3>3. tests.status = "passed" BY <3>1, <3>2 DEF Inv, ReviewInv, SameTests
    <3>4. TestInv BY DEF Inv
    <3>5. \E i \in DOMAIN tests.plan : tests.ran[i].truth = "zero"
      BY <3>3, <3>4, PassedRanOne
    <3>6. \A i \in DOMAIN tests.plan :
            IF tests.ran[i].truth = "rejected" THEN ~tests.ran[i].required
            ELSE tests.ran[i].truth = "zero"
      BY <3>3, <3>4, PassedWasRun
    <3>7. QED BY <3>5, <3>6
  <2>3. QED BY <2>1, <2>2
<1>2. QED BY <1>1, InvHolds, PTL
=============================================================================
