------------------------- MODULE RunLifecycleProofs -------------------------
(***************************************************************************)
(* Proofs about RunLifecycle for any number of executions and cancel       *)
(* requests, any bounds, and both run stores: types, earned approvals,     *)
(* the gate's verdicts, the refinement of RunPromise, and what is not done *)
(* twice; and about RunFeed for any number of sockets and publishers.      *)
(***************************************************************************)
EXTENDS RunLifecycle, RunFeed, TLAPS

Place == [at : Points, pos : Positions]

TypeInv == TypeOK /\ \A e \in Executors : Placed(pc[e])
-----------------------------------------------------------------------------
(* Lemmas about the stage map and the route through the pipeline.          *)

(* The stages whose end is followed by a move have a next stage.           *)
LEMMA NextStageType ==
  ASSUME NEW s \in WorkStages \ {"quality_gate"}
  PROVE  NextStage(s) \in Stages
BY DEF NextStage, Forward, WorkStages, Stages, TerminalStages

(* Validation is always to do, so there is always a first missing stage.   *)
LEMMA FirstMissing ==
  ASSUME NEW p \in Positions, p # "validating_patch", NEW r
  PROVE  \E i \in After(p) :
           /\ NextMissing(p, r) = Pipeline[i]
           /\ Missing(Pipeline[i], r)
           /\ \A j \in After(p) : j < i => ~Missing(Pipeline[j], r)
<1> DEFINE todo == {i \in After(p) : Missing(Pipeline[i], r)}
<1>1. 6 \in todo
  BY DEF After, Missing, Pipeline
<1>2. todo \subseteq 1 .. 6
  BY DEF After
<1>3. \E i \in todo : \A j \in todo : i <= j
  BY <1>1, <1>2
<1>4. PICK i \in todo : i = CHOOSE k \in todo : \A j \in todo : k <= j
  BY <1>3
<1>5. \A j \in todo : i <= j
  BY <1>3, <1>4
<1>6. NextMissing(p, r) = Pipeline[i]
  BY <1>4 DEF NextMissing
<1>7. \A j \in After(p) : j < i => ~Missing(Pipeline[j], r)
  BY <1>2, <1>5 DEF After
<1> QED BY <1>6, <1>7

LEMMA NextMissingType ==
  ASSUME NEW p \in Positions, p # "validating_patch", NEW r
  PROVE  NextMissing(p, r) \in WorkStages \ Branching
BY FirstMissing DEF After, Pipeline, WorkStages, Branching

LEMMA RouteType ==
  ASSUME NEW p \in Positions, NEW r
  PROVE  Route(p, r) \in Place /\ Placed(Route(p, r))
BY NextMissingType
   DEF Route, At, Place, Placed, Points, Positions, Stages, WorkStages,
       Branching, TerminalStages
-----------------------------------------------------------------------------
(* Type correctness.                                                       *)

LEMMA CreatedType == ASSUME NEW k PROVE Created(k) \in Run
BY DEF Created, Run, Statuses, Stages, WorkStages, Records, PatchOutcomes,
       TestOutcomes, RepairOutcomes, Failures

LEMMA CopyType == ASSUME TypeOK, NEW e \in Executors PROVE Copy(e) \in Run
BY DEF TypeOK, Copy

LEMMA WithType ==
  ASSUME NEW r \in Run, NEW a \in Artefacts PROVE With(r, a) \in Run
BY DEF With, Run

LEMMA RecordedType ==
  ASSUME NEW r \in Run, NEW s \in Stages,
         NEW o \in {"succeeded", "failed", "skipped"}
  PROVE  Recorded(r, s, o) \in Run
BY DEF Recorded, Run, Records

LEMMA StageOfType ==
  ASSUME NEW p \in WorkStages \union {"retest"}
  PROVE  StageOf(p) \in WorkStages
BY DEF StageOf, WorkStages

LEMMA CaughtType ==
  ASSUME NEW r \in Run, NEW p PROVE Caught(p, r) \in Run
BY DEF Caught, Run, Failures

(* The three ways an execution takes a step keep the types.                *)
LEMMA AssignType ==
  ASSUME TypeInv, NEW e \in Executors, NEW r \in Run, NEW next \in Place,
         Placed(next), Assign(e, r, next),
         UNCHANGED <<source, cpc, ccopy, accepted, resumes, crashes>>,
         applies' \in Nat
  PROVE  TypeInv'
BY DEF TypeInv, TypeOK, Assign, Place

LEMMA WriteThenType ==
  ASSUME TypeInv, NEW e \in Executors, NEW r \in Run, NEW after \in Run,
         NEW next \in Place, Placed(next), WriteThen(e, r, after, next),
         UNCHANGED others
  PROVE  TypeInv'
BY DEF TypeInv, TypeOK, WriteThen, others, Place

LEMMA WriteOkType ==
  ASSUME TypeInv, NEW e \in Executors, NEW r \in Run,
         NEW next \in Place, Placed(next), WriteOk(e, r, next),
         UNCHANGED others
  PROVE  TypeInv'
BY WriteThenType DEF WriteOk

LEMMA WriteFailsType ==
  ASSUME TypeInv, NEW e \in Executors, NEW r \in Run,
         NEW next \in Place, Placed(next), WriteFails(e, r, next),
         UNCHANGED others
  PROVE  TypeInv'
BY DEF TypeInv, TypeOK, WriteFails, others, Place

LEMMA LeaveType ==
  ASSUME TypeInv, NEW e \in Executors, Leave(e), row' \in Run,
         faults' \in Nat, UNCHANGED others
  PROVE  TypeInv'
<1>1. Idle \in Place /\ Placed(Idle)
  BY DEF Idle, At, Place, Placed, Points, Positions, Stages
<1> QED BY <1>1, CreatedType DEF TypeInv, TypeOK, Leave, others, Place

USE DEF Place

(* Every place an action goes to is a place.                               *)
LEMMA Places ==
  ASSUME NEW p \in WorkStages \union {"retest"}
  PROVE  /\ \A a \in {"work", "complete", "refuse", "fail", "enter"} :
              At(a, p) \in Place /\ Placed(At(a, p))
         /\ \A a \in {"raised", "capture", "seal", "load"} :
              At(a, p) \in Place /\ Placed(At(a, p))
BY DEF At, Placed, Points, Positions, Stages, WorkStages

LEMMA BeginType ==
  ASSUME NEW r PROVE Begin(r) \in Place /\ Placed(Begin(r))
<1>1. "initializing" \in Positions
  BY DEF Positions, Stages
<1>2. Route("initializing", r) \in Place /\ Placed(Route("initializing", r))
  BY <1>1, RouteType
<1> QED
  BY <1>2 DEF Begin, At, Placed, Points, Positions, Stages, WorkStages

LEMMA AfterHopType ==
  ASSUME NEW p \in {"acquiring_repository", "analyzing_repository",
                    "reviewing"}, NEW r
  PROVE  AfterHop(p, r) \in Place /\ Placed(AfterHop(p, r))
<1>1. "initializing" \in Positions
  BY DEF Positions, Stages
<1>2. Route("initializing", r) \in Place /\ Placed(Route("initializing", r))
  BY <1>1, RouteType
<1> QED
  BY <1>2 DEF AfterHop, At, Placed, Points, Positions, Stages, WorkStages

LEMMA LoadType ==
  ASSUME TypeInv, NEW e \in Executors, Load(e) PROVE TypeInv'
<1> DEFINE r == [row EXCEPT !.status = "running"]
<1>1. r \in Run
  BY DEF TypeInv, TypeOK, Run, Statuses
<1>2. Begin(r) \in Place /\ Placed(Begin(r))
  BY BeginType
<1> QED BY <1>1, <1>2, AssignType DEF Load, others, TypeInv, TypeOK

LEMMA HopType ==
  ASSUME TypeInv, NEW e \in Executors, Hop(e) PROVE TypeInv'
<1> DEFINE p == pc[e].pos
           r == [Copy(e) EXCEPT !.stage = p]
<1>1. p \in {"acquiring_repository", "analyzing_repository", "reviewing"}
  BY DEF Hop, TypeInv, Placed
<1>2. Copy(e) \in Run /\ r \in Run
  BY <1>1, CopyType DEF TypeInv, Run, Stages, WorkStages
<1>3. AfterHop(p, r) \in Place /\ Placed(AfterHop(p, r))
  BY <1>1, AfterHopType
<1>4. At("raised", p) \in Place /\ Placed(At("raised", p))
  BY <1>1, Places DEF WorkStages
<1>5. \/ WriteOk(e, r, AfterHop(p, r))
      \/ WriteFails(e, r, At("raised", p))
      \/ Assign(e, Copy(e), At("raised", p))
  BY DEF Hop
<1>6. UNCHANGED others /\ applies' \in Nat
  BY DEF Hop, others, TypeInv, TypeOK
<1> QED
  BY <1>2, <1>3, <1>4, <1>5, <1>6, WriteOkType, WriteFailsType, AssignType
     DEF others

LEMMA EnterType ==
  ASSUME TypeInv, NEW e \in Executors, Enter(e) PROVE TypeInv'
<1> DEFINE p == pc[e].pos
           s == StageOf(p)
           r == [Copy(e) EXCEPT !.stage = s]
<1>1. p \in WorkStages \union {"retest"}
  BY DEF Enter, TypeInv, Placed
<1>2. Copy(e) \in Run /\ r \in Run
  BY <1>1, CopyType, StageOfType DEF TypeInv, Run, Stages
<1>3. \A a \in {"work", "raised"} : At(a, p) \in Place /\ Placed(At(a, p))
  BY <1>1, Places
<1>4. \E a \in {"work", "raised"} :
         \/ WriteOk(e, r, At(a, p))
         \/ WriteFails(e, r, At(a, p))
         \/ Assign(e, Copy(e), At(a, p))
  BY DEF Enter
<1>5. UNCHANGED others /\ applies' \in Nat
  BY DEF Enter, others, TypeInv, TypeOK
<1> QED
  BY <1>2, <1>3, <1>4, <1>5, WriteOkType, WriteFailsType, AssignType
     DEF others

LEMMA ReturnsType ==
  ASSUME TypeInv, NEW e \in Executors, NEW r \in Run, NEW a,
         At(a, pc[e].pos) \in Place, Placed(At(a, pc[e].pos)),
         Returns(e, r, a)
  PROVE  TypeInv'
BY AssignType DEF Returns, others, TypeInv, TypeOK

LEMMA RaisesType ==
  ASSUME TypeInv, NEW e \in Executors, pc[e].at = "work", Raises(e)
  PROVE  TypeInv'
<1>1. pc[e].pos \in WorkStages \union {"retest"}
  BY DEF TypeInv, Placed
<1>2. Caught(pc[e].pos, Copy(e)) \in Run
  BY CopyType, CaughtType DEF TypeInv
<1> QED BY <1>1, <1>2, Places, ReturnsType DEF Raises

LEMMA WorkType ==
  ASSUME TypeInv, NEW e \in Executors, Work(e) PROVE TypeInv'
<1> DEFINE p == pc[e].pos
<1>1. pc[e].at = "work"
  BY DEF Work, Acquire, Analyze, Produce, Retrieve, Validate, Apply,
         RunTests, Repair, Review, Gate, Is, At
<1>2. p \in WorkStages \union {"retest"}
  BY <1>1 DEF TypeInv, Placed
<1>3. Copy(e) \in Run
  BY CopyType DEF TypeInv
<1>4. \A a \in {"complete", "refuse", "fail"} :
         At(a, p) \in Place /\ Placed(At(a, p))
  BY <1>2, Places
<1>5. CASE Acquire(e)
  <2>2. At("give_up", p) \in Place /\ Placed(At("give_up", p))
    BY <1>5 DEF Acquire, Is, At, Placed, Points, Positions, Stages,
                WorkStages
  <2>1. With(Copy(e), "profile") \in Run
        /\ [Copy(e) EXCEPT !.failure = "stage"] \in Run
    BY <1>3, WithType DEF Artefacts, Run, Failures
  <2> QED
    BY <1>1, <1>4, <1>5, <2>1, <2>2, ReturnsType, RaisesType
       DEF Acquire, Refuses
<1>6. CASE Analyze(e)
  <2>1. With(Copy(e), "profile") \in Run
    BY <1>3, WithType DEF Artefacts
  <2> QED
    BY <1>1, <1>3, <1>4, <1>6, <2>1, ReturnsType, RaisesType
       DEF Analyze, Refuses
<1>7. CASE Produce(e)
  <2>1. \A a \in {"requirements", "plan", "patch"} : With(Copy(e), a) \in Run
    BY <1>3, WithType DEF Artefacts
  <2> QED
    BY <1>1, <1>3, <1>4, <1>7, <2>1, ReturnsType, RaisesType
       DEF Produce, Refuses
<1>8. CASE Retrieve(e)
  <2>1. With(Copy(e), "context") \in Run
    BY <1>3, WithType DEF Artefacts
  <2>2. p = "retrieving_context"
    BY <1>8 DEF Retrieve, Is, At
  <2>3. \A a \in {"bypass", "skip"} : At(a, p) \in Place /\ Placed(At(a, p))
    BY <2>2 DEF At, Placed, Points, Positions, Stages, WorkStages
  <2> QED
    BY <1>3, <1>4, <1>8, <2>1, <2>3, ReturnsType DEF Retrieve, Refuses
<1>9. CASE Validate(e)
  <2>1. p = "validating_patch"
    BY <1>9 DEF Validate, Is, At
  <2>2. At("save", p) \in Place /\ Placed(At("save", p))
    BY <2>1 DEF At, Placed, Points, Positions, Stages, WorkStages
  <2> QED
    BY <1>1, <1>3, <1>4, <1>9, <2>2, ReturnsType, RaisesType
       DEF Validate, Refuses
<1>10. CASE Apply(e)
  <2>1. CASE Raises(e)
    BY <1>1, <2>1, RaisesType
  <2>2. CASE ~Raises(e)
    <3>1. PICK o \in PatchOutcomes :
            /\ Assign(e, [Copy(e) EXCEPT !.applied = o],
                         At("save", "applying_patch"))
            /\ applies' = applies + (IF o = "applied" THEN 1 ELSE 0)
            /\ UNCHANGED <<source, cpc, ccopy, accepted, resumes, crashes>>
      BY <1>10, <2>2 DEF Apply
    <3>2. [Copy(e) EXCEPT !.applied = o] \in Run
      BY <1>3 DEF Run
    <3>3. At("save", "applying_patch") \in Place
          /\ Placed(At("save", "applying_patch"))
      BY DEF At, Placed, Points, Positions, Stages, WorkStages
    <3>4. applies' \in Nat
      BY <3>1 DEF TypeInv, TypeOK
    <3> QED BY <3>1, <3>2, <3>3, <3>4, AssignType
  <2> QED BY <2>1, <2>2
<1>11. CASE RunTests(e)
  <2>1. \A o \in TestOutcomes : [Copy(e) EXCEPT !.tests = o] \in Run
    BY <1>3 DEF Run
  <2> QED
    BY <1>1, <1>4, <1>11, <2>1, ReturnsType, RaisesType
       DEF RunTests, Refuses, TestOutcomes
<1>12. CASE Repair(e)
  <2>1. \A o \in RepairOutcomes : [Copy(e) EXCEPT !.repair = o] \in Run
    BY <1>3 DEF Run
  <2>2. p = "repairing"
    BY <1>12 DEF Repair, Is, At
  <2>3. At("bypass", p) \in Place /\ Placed(At("bypass", p))
    BY <2>2 DEF At, Placed, Points, Positions, Stages, WorkStages
  <2> QED
    BY <1>1, <1>3, <1>4, <1>12, <2>1, <2>3, ReturnsType, RaisesType
       DEF Repair, Refuses, RepairOutcomes
<1>13. CASE Review(e)
  <2>1. With(Copy(e), "review") \in Run
    BY <1>3, WithType DEF Artefacts
  <2> QED BY <1>1, <1>4, <1>13, <2>1, ReturnsType, RaisesType DEF Review
<1>14. CASE Gate(e)
  <2>1. \A d \in GateDecisions(Copy(e)) : [Copy(e) EXCEPT !.gate = d] \in Run
    BY <1>3 DEF Run, GateDecisions, Decisions
  <2>2. p = "quality_gate"
    BY <1>14 DEF Gate, Is, At
  <2>3. At("decide", p) \in Place /\ Placed(At("decide", p))
    BY <2>2 DEF At, Placed, Points, Positions, Stages, WorkStages
  <2> QED
    BY <1>1, <1>14, <2>1, <2>3, ReturnsType, RaisesType DEF Gate
<1> QED
  BY <1>5, <1>6, <1>7, <1>8, <1>9, <1>10, <1>11, <1>12, <1>13, <1>14 DEF Work

LEMMA FinishType ==
  ASSUME TypeInv, NEW e \in Executors, Finish(e) PROVE TypeInv'
<1> DEFINE p == pc[e].pos
           c == Copy(e)
<1>1. c \in Run
  BY CopyType DEF TypeInv
<1>2. applies' \in Nat /\ UNCHANGED others
  BY DEF Finish, Save, Decide, Complete, Advance, Bypass, Skip, Refuse, Fail,
         GiveUp, others, TypeInv, TypeOK
<1>3. \A r \in Run, next \in Place :
         Placed(next) /\ (Assign(e, r, next) \/ WriteOk(e, r, next)
                           \/ WriteFails(e, r, next)) => TypeInv'
  BY <1>2, AssignType, WriteOkType, WriteFailsType DEF others
<1>4. \A q \in WorkStages \union {"retest"}, r \in Run :
         /\ Recorded(r, StageOf(q), "succeeded") \in Run
         /\ Recorded(r, StageOf(q), "failed") \in Run
         /\ Recorded(r, StageOf(q), "skipped") \in Run
  BY StageOfType, RecordedType DEF Stages
<1>5. \A q \in WorkStages \union {"retest"} :
         \A a \in {"complete", "fail", "capture", "raised"} :
            At(a, q) \in Place /\ Placed(At(a, q))
  BY Places
<1>6. CASE Save(e)
  <2>1. p \in WorkStages
    BY <1>6 DEF Save, TypeInv, Placed, WorkStages
  <2> QED BY <1>1, <1>3, <1>5, <1>6, <2>1 DEF Save
<1>7. CASE Decide(e)
  <2> DEFINE d == c.gate
             r == [c EXCEPT !.stage = "completed",
                            !.status = IF d \in Decisions THEN d
                                       ELSE "failed"]
  <2>1. r \in Run
    BY <1>1 DEF Run, Stages, TerminalStages, Statuses, Decisions
  <2>2. "quality_gate" \in WorkStages
    BY DEF WorkStages
  <2>3. \E a \in {"complete", "fail"} :
          \/ WriteOk(e, r, At(a, "quality_gate"))
          \/ WriteFails(e, r, At(a, "quality_gate"))
          \/ Assign(e, c, At(a, "quality_gate"))
    BY <1>7 DEF Decide
  <2> QED BY <1>1, <1>3, <1>5, <2>1, <2>2, <2>3
<1>8. CASE Complete(e)
  <2> DEFINE o == IF p = "retest" /\ c.tests # "passed"
                  THEN "failed" ELSE "succeeded"
             r == Recorded(c, StageOf(p), o)
             bad == At(IF p = "retrieving_context" THEN "skip"
                                                   ELSE "fail", p)
             next == IF p \in Branching
                     THEN Route(p, r) ELSE At("advance", p)
  <2>1. p \in WorkStages \union {"retest"}
    BY <1>8 DEF Complete, TypeInv, Placed
  <2>2. r \in Run /\ Caught(p, r) \in Run
    BY <1>1, <1>4, <2>1, CaughtType
  <2>3. bad \in Place /\ Placed(bad)
    BY <2>1 DEF At, Placed, Points, Positions, Stages, WorkStages
  <2>4. next \in Place /\ Placed(next)
    <3>1. CASE p \in Branching
      <4>1. p \in Positions
        BY <2>1 DEF Positions, Stages
      <4> QED BY <3>1, <4>1, RouteType
    <3>2. CASE p \notin Branching
      BY <2>1, <3>2 DEF At, Placed, Points, Positions, Stages, WorkStages,
                        Branching
    <3> QED BY <3>1, <3>2
  <2>5. WriteOk(e, r, next) \/ WriteFails(e, Caught(p, r), bad)
    BY <1>8 DEF Complete, Branching
  <2> QED BY <1>3, <2>2, <2>3, <2>4, <2>5
<1>9. CASE Advance(e)
  <2> DEFINE s == NextStage(p)
             r == [c EXCEPT !.stage = s]
             bad == At(IF p = "retrieving_context" THEN "skip"
                                                   ELSE "fail", p)
  <2>1. p \in WorkStages \ Branching
    BY <1>9 DEF Advance, TypeInv, Placed
  <2>2. r \in Run
    BY <1>1, <2>1, NextStageType DEF Run, Branching
  <2>3. Caught(p, r) \in Run /\ Caught(p, c) \in Run
    BY <1>1, <2>2, CaughtType
  <2>4. bad \in Place /\ Placed(bad)
    BY <2>1 DEF At, Placed, Points, Positions, Stages, WorkStages
  <2>5. Route(p, r) \in Place /\ Placed(Route(p, r))
    BY <2>1, RouteType DEF Positions, Stages
  <2>6. \/ WriteOk(e, r, Route(p, r))
        \/ WriteFails(e, Caught(p, r), bad)
        \/ Assign(e, Caught(p, c), bad)
    BY <1>9 DEF Advance
  <2> QED BY <1>3, <2>2, <2>3, <2>4, <2>5, <2>6
<1>10. CASE Bypass(e)
  <2> DEFINE r == Recorded(c, p, "skipped")
             bad == At(IF p = "retrieving_context" THEN "skip"
                                                   ELSE "fail", p)
  <2>1. p \in {"retrieving_context", "repairing"}
    BY <1>10 DEF Bypass, TypeInv, Placed
  <2>2. r \in Run
    BY <1>1, <2>1, RecordedType DEF Stages, WorkStages
  <2>3. bad \in Place /\ Placed(bad)
    BY <2>1 DEF At, Placed, Points, Positions, Stages, WorkStages
  <2>4. Route(p, r) \in Place /\ Placed(Route(p, r))
    BY <2>1, RouteType DEF Positions, Stages, WorkStages
  <2>5. WriteOk(e, r, Route(p, r)) \/ WriteFails(e, r, bad)
    BY <1>10 DEF Bypass
  <2> QED BY <1>3, <2>2, <2>3, <2>4, <2>5
<1>11. CASE Skip(e)
  <2> DEFINE r == Recorded(c, p, "skipped")
  <2>1. p \in {"acquiring_repository", "retrieving_context"}
    BY <1>11 DEF Skip, TypeInv, Placed
  <2>2. r \in Run
    BY <1>1, <2>1, RecordedType DEF Stages, WorkStages
  <2>3. At("raised", p) \in Place /\ Placed(At("raised", p))
    BY <1>5, <2>1 DEF WorkStages
  <2>4. Route(p, r) \in Place /\ Placed(Route(p, r))
    BY <2>1, RouteType DEF Positions, Stages, WorkStages
  <2>5. WriteOk(e, r, Route(p, r)) \/ WriteFails(e, r, At("raised", p))
    BY <1>11 DEF Skip
  <2> QED BY <1>3, <2>2, <2>3, <2>4, <2>5
<1>12. CASE Refuse(e)
  <2> DEFINE r == Recorded(c, StageOf(p), "failed")
             after == IF StageOf(p) = "testing" THEN r
                      ELSE [r EXCEPT !.failure = "stage"]
  <2>1. p \in WorkStages \union {"retest"}
    BY <1>12 DEF Refuse, TypeInv, Placed
  <2>2. r \in Run /\ after \in Run
    BY <1>1, <1>4, <2>1 DEF Run, Failures
  <2>3. WriteThen(e, r, after, At("capture", p))
        \/ WriteFails(e, r, At("fail", p))
    BY <1>12 DEF Refuse
  <2>4. \A a \in {"capture", "fail", "raised"} :
           At(a, p) \in Place /\ Placed(At(a, p))
    BY <1>5, <2>1
  <2>5. CASE WriteThen(e, r, after, At("capture", p))
    BY <1>2, <2>2, <2>4, <2>5, WriteThenType
  <2> QED BY <1>3, <2>2, <2>3, <2>4, <2>5
<1>13. CASE Fail(e)
  <2> DEFINE r == Recorded(c, StageOf(p), "failed")
             after == IF p \in FailsLast THEN [r EXCEPT !.failure = "stage"]
                      ELSE r
  <2>1. p \in WorkStages \union {"retest"}
    BY <1>13 DEF Fail, TypeInv, Placed
  <2>2. r \in Run /\ after \in Run
    BY <1>1, <1>4, <2>1 DEF Run, Failures
  <2>3. WriteThen(e, r, after, At("capture", p))
        \/ WriteFails(e, r, At("raised", p))
    BY <1>13 DEF Fail
  <2>4. \A a \in {"capture", "fail", "raised"} :
           At(a, p) \in Place /\ Placed(At(a, p))
    BY <1>5, <2>1
  <2>5. CASE WriteThen(e, r, after, At("capture", p))
    BY <1>2, <2>2, <2>4, <2>5, WriteThenType
  <2> QED BY <1>3, <2>2, <2>3, <2>4, <2>5
<1>14. CASE GiveUp(e)
  <2> DEFINE r == [c EXCEPT !.stage = "failed", !.status = "failed"]
  <2>1. r \in Run
    BY <1>1 DEF Run, Stages, TerminalStages, Statuses
  <2>2. p \in WorkStages
    BY <1>14 DEF GiveUp, TypeInv, Placed, WorkStages
  <2>3. \E a \in {"capture", "fail"} :
          \/ WriteOk(e, r, At(a, p))
          \/ WriteFails(e, r, At(a, p))
          \/ Assign(e, c, At(a, p))
    BY <1>14 DEF GiveUp
  <2> QED BY <1>1, <1>3, <1>5, <2>1, <2>2, <2>3
<1> QED
  BY <1>6, <1>7, <1>8, <1>9, <1>10, <1>11, <1>12, <1>13, <1>14 DEF Finish

LEMMA CloseType ==
  ASSUME TypeInv, NEW e \in Executors, Close(e) PROVE TypeInv'
<1> DEFINE p == pc[e].pos
           c == Copy(e)
<1>1. c \in Run
  BY CopyType DEF TypeInv
<1>2. applies' \in Nat /\ UNCHANGED others
  BY DEF Close, Handle, Capture, Seal, others, TypeInv, TypeOK
<1>3. \A a \in {"capture", "seal"} : At(a, p) \in Place /\ Placed(At(a, p))
  BY DEF TypeInv, TypeOK, At, Placed, Points
<1>4. CASE Handle(e)
  <2> DEFINE noted == [c EXCEPT !.failure = "unknown"]
             r == [noted EXCEPT !.stage = "failed", !.status = "failed"]
             told == [r EXCEPT !.events = @ \union {"run_failed"}]
  <2>1. noted \in Run /\ r \in Run /\ told \in Run
    BY <1>1 DEF Run, Failures, Stages, TerminalStages, Statuses
  <2>2. \/ WriteThen(e, r, told, At("capture", p))
        \/ Leave(e) /\ row' \in {row, noted} /\ faults' \in {faults, faults + 1}
    BY <1>4 DEF Handle
  <2>3. CASE WriteThen(e, r, told, At("capture", p))
    BY <1>2, <1>3, <2>1, <2>3, WriteThenType
  <2>4. CASE Leave(e) /\ row' \in {row, noted}
             /\ faults' \in {faults, faults + 1}
    BY <1>2, <2>1, <2>4, LeaveType DEF TypeInv, TypeOK
  <2> QED BY <2>2, <2>3, <2>4
<1>5. CASE Capture(e)
  <2>1. \/ Assign(e, c, At("seal", p))
        \/ WriteOk(e, c, At("seal", p))
        \/ WriteFails(e, c, At("seal", p))
    BY <1>5 DEF Capture
  <2> QED
    BY <1>1, <1>2, <1>3, <2>1, AssignType, WriteOkType, WriteFailsType
       DEF others
<1>6. CASE Seal(e)
  <2> DEFINE r == [c EXCEPT !.status = IF @ = "running" THEN "failed" ELSE @]
             told == [r EXCEPT !.events = @ \union
                        (CASE r.status = "failed"   -> {"run_failed"}
                           [] r.status = "approved" -> {"run_completed"}
                           [] OTHER                 -> {})]
  <2>1. r \in Run
    BY <1>1 DEF Run, Statuses
  <2>2. told \in Run
    BY <2>1 DEF Run
  <2>3. /\ Leave(e) /\ row' \in {row, r, told}
        /\ faults' \in {faults, faults + 1}
    BY <1>6 DEF Seal
  <2> QED BY <1>2, <2>1, <2>2, <2>3, LeaveType DEF TypeInv, TypeOK
<1> QED BY <1>4, <1>5, <1>6 DEF Close

LEMMA CancelType ==
  ASSUME TypeInv, NEW c \in Cancellers, Cancel(c) PROVE TypeInv'
<1>1. \A r \in Run : [r EXCEPT !.cancel = TRUE] \in Run
  BY DEF Run
<1>2. ccopy[c] \in Run /\ row \in Run
  BY DEF TypeInv, TypeOK
<1>3. ASSUME CancelLoad(c) PROVE TypeInv'
  BY <1>3 DEF CancelLoad, TypeInv, TypeOK
<1>4. ASSUME CancelStore(c) PROVE TypeInv'
  <2>1. row' \in Run
    BY <1>1, <1>2, <1>4 DEF CancelStore
  <2>4. faults' \in Nat
    BY <1>4 DEF CancelStore, TypeInv, TypeOK
  <2>5. accepted' \in BOOLEAN
    BY <1>4, Zenon DEF CancelStore, TypeInv, TypeOK
  <2>2. ccopy' \in [Cancellers -> Run]
        /\ cpc' \in [Cancellers -> {"start", "store", "done"}]
    BY <1>4, CreatedType DEF CancelStore, TypeInv, TypeOK
  <2>3. UNCHANGED <<source, local, pc, applies, resumes, crashes>>
    BY <1>4 DEF CancelStore
  <2> QED BY <2>1, <2>2, <2>3, <2>4, <2>5 DEF TypeInv, TypeOK
<1>5. ASSUME CancelShared(c) PROVE TypeInv'
  BY <1>1, <1>2, <1>5 DEF CancelShared, TypeInv, TypeOK
<1>6. ASSUME CancelRefused(c) PROVE TypeInv'
  BY <1>6 DEF CancelRefused, TypeInv, TypeOK
<1> QED BY <1>3, <1>4, <1>5, <1>6 DEF Cancel

LEMMA CrashType == ASSUME TypeInv, Crash PROVE TypeInv'
<1>1. Idle \in Place /\ Placed(Idle)
  BY DEF Idle, At, Placed, Points, Positions, Stages
<1>2. row' \in Run
  <2>1. row \in Run
    BY DEF TypeInv, TypeOK
  <2> QED BY <2>1 DEF Crash, Run, Statuses, Failures
<1> QED BY <1>1, <1>2, CreatedType DEF Crash, TypeInv, TypeOK

(* TypeOK holds in every reachable state, and every execution is at a      *)
(* place its code can be at.                                               *)
THEOREM Typing == Spec => []TypeInv
<1>1. Init => TypeInv
  <2> SUFFICES ASSUME Init PROVE TypeInv
    OBVIOUS
  <2>1. Idle \in Place /\ Placed(Idle)
        /\ At("load", "initializing") \in Place
        /\ Placed(At("load", "initializing"))
    BY DEF Idle, At, Placed, Points, Positions, Stages
  <2> QED BY <2>1, CreatedType DEF Init, TypeInv, TypeOK
<1>2. TypeInv /\ [Next]_vars => TypeInv'
  <2> SUFFICES ASSUME TypeInv, [Next]_vars PROVE TypeInv'
    OBVIOUS
  <2>1. ASSUME NEW e \in Executors, Resume(e) PROVE TypeInv'
    <3>1. At("load", "initializing") \in Place
          /\ Placed(At("load", "initializing"))
      BY DEF At, Placed, Points, Positions, Stages
    <3> QED BY <2>1, <3>1 DEF Resume, TypeInv, TypeOK
  <2>2. ASSUME NEW e \in Executors, Execute(e) PROVE TypeInv'
    BY <2>2, LoadType, HopType, EnterType, WorkType, FinishType, CloseType
       DEF Execute
  <2>3. ASSUME NEW c \in Cancellers, Cancel(c) PROVE TypeInv'
    BY <2>3, CancelType
  <2>4. CASE Crash
    BY <2>4, CrashType
  <2>5. CASE UNCHANGED vars
    BY <2>5 DEF vars, TypeInv, TypeOK
  <2> QED BY <2>1, <2>2, <2>3, <2>4, <2>5 DEF Next
<1> QED BY <1>1, <1>2, PTL DEF Spec

THEOREM TypeCorrect == Spec => []TypeOK
BY Typing, PTL DEF TypeInv
-----------------------------------------------------------------------------
(* Approvals are earned.                                                   *)

(* An execution that takes a backed copy to its next place, and leaves at  *)
(* most earned approvals in the store, keeps the evidence.                 *)
LEMMA EvidenceStep ==
  ASSUME TypeInv, TypeInv', Evidence, NEW e \in Executors,
         NEW r \in Run, NEW next, Backed(next, r),
         pc' = [pc EXCEPT ![e] = next], ccopy' = ccopy,
         \/ Durable /\ local' = [local EXCEPT ![e] = r] /\ OnlyEarned(row')
         \/ ~Durable /\ row' = r
  PROVE  Evidence'
<1>1. \A f \in Executors : Placed(pc[f])'
  BY DEF TypeInv
<1>2. OnlyEarned(row')
  BY DEF Backed
<1>3. ASSUME NEW f \in Executors PROVE Backed(pc[f], Copy(f))'
  <2>1. pc'[e] = next /\ Copy(e)' = r
    BY DEF TypeInv, TypeOK, Copy
  <2>2. CASE f = e
    BY <2>1, <2>2
  <2>3. CASE f # e
    <3>1. Durable
      BY <2>3, StoreAssumption
    <3>2. pc'[f] = pc[f] /\ Copy(f)' = Copy(f)
      BY <2>3, <3>1 DEF TypeInv, TypeOK, Copy
    <3> QED BY <3>2 DEF Evidence
  <2> QED BY <2>2, <2>3
<1> QED BY <1>1, <1>2, <1>3 DEF Evidence

LEMMA AssignBacked ==
  ASSUME TypeInv, TypeInv', Evidence, NEW e \in Executors, NEW r \in Run,
         NEW next, Backed(next, r), Assign(e, r, next), ccopy' = ccopy
  PROVE  Evidence'
BY EvidenceStep, StoreAssumption DEF Assign, Evidence

LEMMA WriteThenBacked ==
  ASSUME TypeInv, TypeInv', Evidence, NEW e \in Executors, NEW r \in Run,
         NEW after \in Run, NEW next, Backed(next, after), OnlyEarned(r),
         WriteThen(e, r, after, next), ccopy' = ccopy
  PROVE  Evidence'
BY EvidenceStep, StoreAssumption DEF WriteThen

LEMMA WriteOkBacked ==
  ASSUME TypeInv, TypeInv', Evidence, NEW e \in Executors, NEW r \in Run,
         NEW next, Backed(next, r), WriteOk(e, r, next), ccopy' = ccopy
  PROVE  Evidence'
BY WriteThenBacked DEF WriteOk, Backed

LEMMA WriteFailsBacked ==
  ASSUME TypeInv, TypeInv', Evidence, NEW e \in Executors, NEW r \in Run,
         NEW next, Backed(next, r), WriteFails(e, r, next), ccopy' = ccopy
  PROVE  Evidence'
BY EvidenceStep DEF WriteFails, Evidence

(* The route never leads past a stage whose output is missing.             *)
LEMMA RouteBacked ==
  ASSUME NEW p \in Positions, NEW r \in Run, Behind(p, r), OnlyEarned(r),
         p # "quality_gate" => r.status # "approved"
  PROVE  Backed(Route(p, r), r)
<1>1. CASE p \in FromValidation
  BY <1>1 DEF Route, At, Backed, OnItsWay, Behind, Done, Ready, FromPlanning,
              FromValidation, FromApplying, FromTesting, FromRepair, Run,
              TestOutcomes
<1>2. CASE p \notin FromValidation
  <2>1. Route(p, r) = At("enter", NextMissing(p, r))
    BY <1>2 DEF Route, FromValidation
  <2>2. PICK i \in After(p) :
          /\ NextMissing(p, r) = Pipeline[i]
          /\ \A j \in After(p) : j < i => ~Missing(Pipeline[j], r)
    BY <1>2, FirstMissing DEF FromValidation
  <2>3. i \in 1 .. 6
    BY DEF After
  <2>4. i > 2 => "requirements" \in r.has
    <3>1. CASE 2 \in After(p)
      BY <2>2, <3>1 DEF Missing, Pipeline
    <3>2. CASE 2 \notin After(p)
      <4>1. \E j \in 2 .. 6 : Pipeline[j] = p
        BY <3>2 DEF After
      <4>2. p \in {"analyzing_task"} \union FromPlanning \union FromValidation
        BY <4>1 DEF Pipeline, FromPlanning, FromValidation
      <4> QED BY <4>2 DEF Behind, Done, Ready
    <3> QED BY <3>1, <3>2
  <2>5. i > 3 => "plan" \in r.has
    <3>1. CASE 3 \in After(p)
      BY <2>2, <3>1 DEF Missing, Pipeline
    <3>2. CASE 3 \notin After(p)
      <4>1. \E j \in 3 .. 6 : Pipeline[j] = p
        BY <3>2 DEF After
      <4>2. p \in FromPlanning \union FromValidation
        BY <4>1 DEF Pipeline, FromPlanning, FromValidation
      <4> QED BY <4>2 DEF Behind, Done, Ready, FromPlanning
    <3> QED BY <3>1, <3>2
  <2>6. i > 5 => "patch" \in r.has
    <3>1. CASE 5 \in After(p)
      BY <2>2, <3>1 DEF Missing, Pipeline
    <3>2. CASE 5 \notin After(p)
      <4>1. \E j \in 5 .. 6 : Pipeline[j] = p
        BY <3>2 DEF After
      <4>2. p \in {"coding"} \union FromValidation
        BY <4>1 DEF Pipeline, FromValidation
      <4> QED BY <4>2 DEF Behind, Done, Ready
    <3> QED BY <3>1, <3>2
  <2>7. Ready(Pipeline[i], r)
    BY <2>3, <2>4, <2>5, <2>6
       DEF Ready, Pipeline, FromPlanning, FromValidation, FromApplying,
           FromTesting, FromRepair
  <2> QED
    BY <1>2, <2>1, <2>2, <2>7 DEF Backed, At, OnItsWay, FromValidation
<1> QED BY <1>1, <1>2

(* A fresh execution has nothing behind it, so nothing to rely on.         *)
LEMMA FreshBacked ==
  ASSUME NEW r \in Run, r.status # "approved"
  PROVE  Backed(Route("initializing", r), r)
<1>1. "initializing" \in Positions
  BY DEF Positions, Stages
<1>2. Behind("initializing", r)
  BY DEF Behind, Done, Ready, FromPlanning, FromValidation, FromApplying,
         FromTesting, FromRepair
<1> QED BY <1>1, <1>2, RouteBacked DEF OnlyEarned

LEMMA LoadBacked ==
  ASSUME TypeInv, TypeInv', Evidence, NEW e \in Executors, Load(e)
  PROVE  Evidence'
<1> DEFINE r == [row EXCEPT !.status = "running"]
<1>1. r \in Run /\ r.status # "approved"
  BY DEF TypeInv, TypeOK, Run, Statuses
<1>2. Backed(Begin(r), r)
  BY <1>1, FreshBacked
     DEF Begin, Backed, OnlyEarned, Ready, At, FromPlanning,
         FromValidation, FromApplying, FromTesting, FromRepair
<1> QED BY <1>1, <1>2, AssignBacked DEF Load, others

(* Away from the pipeline a copy need only hold earned approvals.          *)
LEMMA OffBacked ==
  ASSUME NEW r, OnlyEarned(r), NEW p,
         NEW a \in {"load", "refuse", "fail", "give_up", "raised", "capture",
                    "seal"}
  PROVE  Backed(At(a, p), r)
BY DEF Backed, At, OnItsWay

LEMMA HopBacked ==
  ASSUME TypeInv, TypeInv', Evidence, NEW e \in Executors, Hop(e)
  PROVE  Evidence'
<1> DEFINE p == pc[e].pos
           c == Copy(e)
           r == [c EXCEPT !.stage = p]
<1>1. p \in {"acquiring_repository", "analyzing_repository", "reviewing"}
  BY DEF Hop, TypeInv, Placed
<1>2. c \in Run /\ r \in Run
  BY <1>1, CopyType DEF TypeInv, Run, Stages, WorkStages
<1>3. Ready(p, c) /\ c.status # "approved"
  BY DEF Hop, Evidence, Backed, OnItsWay, At
<1>4. Ready(p, r) /\ r.status # "approved"
  BY <1>2, <1>3 DEF Ready, Run
<1>5. Backed(AfterHop(p, r), r)
  BY <1>1, <1>2, <1>4, FreshBacked
     DEF AfterHop, At, Backed, OnItsWay, OnlyEarned, Ready, FromPlanning,
         FromValidation, FromApplying, FromTesting, FromRepair
<1>6. Backed(At("raised", p), r) /\ Backed(At("raised", p), c)
  BY <1>3, <1>4, OffBacked DEF OnlyEarned
<1>7. \/ WriteOk(e, r, AfterHop(p, r))
      \/ WriteFails(e, r, At("raised", p))
      \/ Assign(e, c, At("raised", p))
  BY DEF Hop
<1>8. ccopy' = ccopy
  BY DEF Hop, others
<1> QED
  BY <1>2, <1>5, <1>6, <1>7, <1>8, WriteOkBacked, WriteFailsBacked,
     AssignBacked

LEMMA EnterBacked ==
  ASSUME TypeInv, TypeInv', Evidence, NEW e \in Executors, Enter(e)
  PROVE  Evidence'
<1> DEFINE p == pc[e].pos
           c == Copy(e)
           r == [c EXCEPT !.stage = StageOf(p)]
<1>1. p \in WorkStages \union {"retest"}
  BY DEF Enter, TypeInv, Placed
<1>2. c \in Run /\ r \in Run
  BY <1>1, CopyType, StageOfType DEF TypeInv, Run, Stages
<1>3. Ready(p, c) /\ c.status # "approved"
  BY DEF Enter, Evidence, Backed, OnItsWay, At
<1>4. Ready(p, r) /\ r.status # "approved"
  BY <1>2, <1>3 DEF Ready, Run
<1>5. \A a \in {"work", "raised"} : Backed(At(a, p), c) /\ Backed(At(a, p), r)
  BY <1>3, <1>4 DEF Backed, At, OnItsWay, OnlyEarned
<1>6. \E a \in {"work", "raised"} :
         \/ WriteOk(e, r, At(a, p))
         \/ WriteFails(e, r, At(a, p))
         \/ Assign(e, c, At(a, p))
  BY DEF Enter
<1>7. ccopy' = ccopy
  BY DEF Enter, others
<1> QED
  BY <1>2, <1>5, <1>6, <1>7, WriteOkBacked, WriteFailsBacked, AssignBacked

LEMMA ReturnsBacked ==
  ASSUME TypeInv, TypeInv', Evidence, NEW e \in Executors, NEW r \in Run,
         NEW a, Backed(At(a, pc[e].pos), r), Returns(e, r, a)
  PROVE  Evidence'
BY AssignBacked DEF Returns, others

(* Adding an output, or anything but an approval, leaves a copy ready.     *)
LEMMA WorkBacked ==
  ASSUME TypeInv, TypeInv', Evidence, NEW e \in Executors, Work(e)
  PROVE  Evidence'
<1> DEFINE p == pc[e].pos
           c == Copy(e)
<1>1. pc[e].at = "work"
  BY DEF Work, Acquire, Analyze, Produce, Retrieve, Validate, Apply,
         RunTests, Repair, Review, Gate, Is, At
<1>2. p \in WorkStages \union {"retest"} /\ c \in Run
  BY <1>1, CopyType DEF TypeInv, Placed
<1>3. Ready(p, c) /\ c.status # "approved"
  BY <1>1 DEF Evidence, Backed, OnItsWay, At
<1>4. \A r \in Run, a \in {"refuse", "fail", "give_up"} :
         r.status # "approved" => Backed(At(a, p), r)
  BY OffBacked DEF OnlyEarned
<1>5. \A r \in Run, a \in {"bypass", "skip"} :
         r.status # "approved" /\ Ready(p, r) => Backed(At(a, p), r)
  BY DEF Backed, At, OnItsWay, OnlyEarned
<1>6. \A r \in Run, a \in {"save", "complete"} :
         r.status # "approved" /\ Done(p, r) => Backed(At(a, p), r)
  BY DEF Backed, At, OnItsWay, OnlyEarned, Done
<1>7. ASSUME Raises(e) PROVE Evidence'
  <2>1. Caught(p, c) \in Run /\ Caught(p, c).status # "approved"
    BY <1>2, <1>3, CaughtType DEF Caught, Run
  <2> QED BY <1>4, <1>7, <2>1, ReturnsBacked DEF Raises
<1>8. \A a \in Artefacts :
         /\ With(c, a) \in Run /\ With(c, a).status # "approved"
         /\ Ready(p, With(c, a)) /\ a \in With(c, a).has
         /\ With(c, a).applied = c.applied
  BY <1>2, <1>3, WithType DEF With, Ready, Run
<1>9. CASE Acquire(e)
  <2>1. p = "acquiring_repository"
    BY <1>9 DEF Acquire, Is, At
  <2>2. Done(p, With(c, "profile"))
    BY <1>8, <2>1 DEF Done, Artefacts
  <2>3. [c EXCEPT !.failure = "stage"] \in Run
        /\ [c EXCEPT !.failure = "stage"].status # "approved"
    BY <1>2, <1>3 DEF Run, Failures
  <2> QED
    BY <1>4, <1>6, <1>7, <1>8, <1>9, <2>2, <2>3, ReturnsBacked
       DEF Acquire, Refuses, Artefacts
<1>10. CASE Analyze(e)
  <2>1. p = "analyzing_repository"
    BY <1>10 DEF Analyze, Is, At
  <2>2. Done(p, With(c, "profile")) /\ Done(p, c)
    BY <1>3, <1>8, <2>1 DEF Done, Artefacts
  <2> QED
    BY <1>2, <1>3, <1>6, <1>7, <1>8, <1>10, <2>2, ReturnsBacked
       DEF Analyze, Refuses, Artefacts
<1>11. CASE Produce(e)
  <2>1. p = "analyzing_task" => Done(p, With(c, "requirements"))
    BY <1>8 DEF Done, Artefacts
  <2>2. p = "planning" => Done(p, With(c, "plan"))
    BY <1>8 DEF Done, Artefacts
  <2>3. p = "coding" => Done(p, With(c, "patch"))
    BY <1>8 DEF Done, Artefacts
  <2> QED
    BY <1>2, <1>3, <1>4, <1>6, <1>7, <1>8, <1>11, <2>1, <2>2, <2>3,
       ReturnsBacked
       DEF Produce, Refuses, Artefacts
<1>12. CASE Retrieve(e)
  <2>1. p = "retrieving_context"
    BY <1>12 DEF Retrieve, Is, At
  <2>2. Done(p, With(c, "context"))
    BY <1>8, <2>1 DEF Done, Artefacts
  <2> QED
    BY <1>2, <1>3, <1>5, <1>6, <1>8, <1>12, <2>2, ReturnsBacked
       DEF Retrieve, Refuses, Artefacts
<1>13. CASE Validate(e)
  <2>1. p = "validating_patch"
    BY <1>13 DEF Validate, Is, At
  <2>2. Done(p, c)
    BY <1>3, <2>1 DEF Done
  <2> QED
    BY <1>2, <1>3, <1>4, <1>6, <1>7, <1>13, <2>2, ReturnsBacked
       DEF Validate, Refuses
<1>14. CASE Apply(e)
  <2>1. CASE ~Raises(e)
    <3>1. PICK o \in PatchOutcomes \ {"none"} :
            /\ Assign(e, [c EXCEPT !.applied = o],
                         At("save", "applying_patch"))
            /\ ccopy' = ccopy
      BY <1>14, <2>1 DEF Apply
    <3>2. p = "applying_patch"
      BY <1>14 DEF Apply, Is, At
    <3> DEFINE r == [c EXCEPT !.applied = o]
    <3>3. r \in Run /\ r.status # "approved" /\ r.applied # "none"
      BY <1>2, <1>3 DEF Run
    <3>4. Done(p, r)
      BY <1>2, <1>3, <3>2, <3>3 DEF Done, Ready, Run, FromTesting
    <3> QED BY <1>6, <3>1, <3>2, <3>3, <3>4, AssignBacked
  <2> QED BY <1>7, <2>1
<1>15. CASE RunTests(e)
  <2>1. p \in {"testing", "retest"}
    BY <1>2, <1>15 DEF RunTests, StageOf
  <2>2. \A o \in TestOutcomes :
           /\ [c EXCEPT !.tests = o] \in Run
           /\ [c EXCEPT !.tests = o].status # "approved"
           /\ Done(p, [c EXCEPT !.tests = o])
    BY <1>2, <1>3, <2>1 DEF Done, Ready, Run
  <2> QED
    BY <1>4, <1>6, <1>7, <1>15, <2>2, ReturnsBacked
       DEF RunTests, Refuses, TestOutcomes
<1>16. CASE Repair(e)
  <2>1. p = "repairing"
    BY <1>16 DEF Repair, Is, At
  <2>2. \A o \in RepairOutcomes :
           /\ [c EXCEPT !.repair = o] \in Run
           /\ [c EXCEPT !.repair = o].status # "approved"
           /\ Done(p, [c EXCEPT !.repair = o])
    BY <1>2, <1>3, <2>1 DEF Done, Ready, Run
  <2> QED
    BY <1>2, <1>3, <1>4, <1>5, <1>6, <1>7, <1>16, <2>2, ReturnsBacked
       DEF Repair, Refuses, RepairOutcomes
<1>17. CASE Review(e)
  <2>1. p = "reviewing"
    BY <1>17 DEF Review, Is, At
  <2>2. Done(p, With(c, "review"))
    BY <1>8, <2>1 DEF Done, Artefacts
  <2> QED
    BY <1>6, <1>7, <1>8, <1>17, <2>2, ReturnsBacked DEF Review, Artefacts
<1>18. CASE Gate(e)
  <2>1. p = "quality_gate"
    BY <1>18 DEF Gate, Is, At
  <2>2. ASSUME NEW d \in GateDecisions(c),
               Returns(e, [c EXCEPT !.gate = d], "decide")
        PROVE  Evidence'
    <3> DEFINE r == [c EXCEPT !.gate = d]
    <3>1. d \in Decisions /\ (d = "approved" => c.tests \in {"passed", "skipped"})
      BY <1>2 DEF GateDecisions, Decisions, Run, TestOutcomes
    <3>2. r \in Run /\ r.status # "approved" /\ Ready(p, r)
      BY <1>2, <1>3, <3>1 DEF Run, Ready
    <3>3. r.gate = "approved" => r.tests \in {"passed", "skipped"}
      BY <1>2, <3>1 DEF Run
    <3>4. Backed(At("decide", p), r)
      BY <3>2, <3>3 DEF Backed, At, OnItsWay, OnlyEarned
    <3> QED BY <2>2, <3>2, <3>4, ReturnsBacked
  <2> QED BY <1>7, <1>18, <2>2 DEF Gate
<1> QED
  BY <1>9, <1>10, <1>11, <1>12, <1>13, <1>14, <1>15, <1>16, <1>17, <1>18
     DEF Work

(* Records, a failure and events never take an earned approval back.       *)
LEMMA EarnedKept ==
  ASSUME NEW r \in Run, NEW q \in Run, OnlyEarned(r),
         q.status = "approved" => r.status = "approved",
         q.gate = r.gate, q.stage = r.stage, q.tests = r.tests,
         q.has = r.has, q.applied = r.applied, r.recs \subseteq q.recs
  PROVE  OnlyEarned(q)
BY DEF OnlyEarned, Earned

LEMMA FinishBacked ==
  ASSUME TypeInv, TypeInv', Evidence, NEW e \in Executors, Finish(e)
  PROVE  Evidence'
<1> DEFINE p == pc[e].pos
           c == Copy(e)
<1>1. c \in Run /\ OnlyEarned(c)
  BY CopyType DEF TypeInv, Evidence, Backed
<1>2. ccopy' = ccopy
  BY DEF Finish, Save, Decide, Complete, Advance, Bypass, Skip, Refuse, Fail,
         GiveUp, others
<1>3. \A r \in Run : \A next :
         Backed(next, r) /\ (Assign(e, r, next) \/ WriteOk(e, r, next)
                              \/ WriteFails(e, r, next)) => Evidence'
  BY <1>2, AssignBacked, WriteOkBacked, WriteFailsBacked
<1>4. \A r \in Run, a \in {"fail", "raised", "capture"} :
         OnlyEarned(r) => Backed(At(a, p), r)
  BY OffBacked
<1>5. \A s \in Stages, o \in {"succeeded", "failed", "skipped"} :
         /\ Recorded(c, s, o) \in Run /\ OnlyEarned(Recorded(c, s, o))
         /\ Recorded(c, s, o).status = c.status
         /\ Ready(p, c) => Ready(p, Recorded(c, s, o))
         /\ Done(p, c) => Done(p, Recorded(c, s, o))
         /\ <<s, o>> \in Recorded(c, s, o).recs
  <2> SUFFICES ASSUME NEW s \in Stages,
                      NEW o \in {"succeeded", "failed", "skipped"}
               PROVE  /\ Recorded(c, s, o) \in Run
                      /\ OnlyEarned(Recorded(c, s, o))
                      /\ Recorded(c, s, o).status = c.status
                      /\ Ready(p, c) => Ready(p, Recorded(c, s, o))
                      /\ Done(p, c) => Done(p, Recorded(c, s, o))
                      /\ <<s, o>> \in Recorded(c, s, o).recs
    OBVIOUS
  <2> DEFINE q == Recorded(c, s, o)
  <2>1. q \in Run
    BY <1>1, RecordedType
  <2>2. /\ q.status = c.status /\ q.gate = c.gate /\ q.stage = c.stage
        /\ q.tests = c.tests /\ q.has = c.has /\ q.applied = c.applied
        /\ c.recs \subseteq q.recs /\ <<s, o>> \in q.recs
    BY <1>1 DEF Recorded, Run
  <2>3. OnlyEarned(q)
    BY <1>1, <2>1, <2>2, EarnedKept
  <2>4. Ready(p, c) => Ready(p, q)
    BY <2>2 DEF Ready
  <2>5. Done(p, c) => Done(p, q)
    BY <2>2, <2>4 DEF Done
  <2> QED BY <2>1, <2>2, <2>3, <2>4, <2>5
<1>6. \A r \in Run :
         /\ Caught(p, r) \in Run
         /\ OnlyEarned(r) => OnlyEarned(Caught(p, r))
         /\ Caught(p, r).status = r.status
         /\ Ready(p, r) => Ready(p, Caught(p, r))
  <2> SUFFICES ASSUME NEW r \in Run
               PROVE  /\ Caught(p, r) \in Run
                      /\ OnlyEarned(r) => OnlyEarned(Caught(p, r))
                      /\ Caught(p, r).status = r.status
                      /\ Ready(p, r) => Ready(p, Caught(p, r))
    OBVIOUS
  <2> DEFINE q == Caught(p, r)
  <2>1. q \in Run
    BY CaughtType
  <2>2. /\ q.status = r.status /\ q.gate = r.gate /\ q.stage = r.stage
        /\ q.tests = r.tests /\ q.has = r.has /\ q.applied = r.applied
        /\ q.recs = r.recs
    BY DEF Caught, Run
  <2> QED BY <2>1, <2>2, EarnedKept DEF Ready
<1>7. \A r \in Run :
         r.status # "approved" /\ Ready(p, r) /\ p = "retrieving_context" =>
           Backed(At("skip", p), r)
  BY DEF Backed, At, OnItsWay, OnlyEarned
<1>8. CASE Save(e)
  <2>1. p \in {"validating_patch", "applying_patch"}
    BY <1>8 DEF Save, TypeInv, Placed
  <2>2. Done(p, c) /\ Ready(p, c) /\ c.status # "approved"
    BY <1>8 DEF Save, Evidence, Backed, OnItsWay, At
  <2>3. Backed(At("complete", p), c)
    BY <1>1, <2>2 DEF Backed, At, OnItsWay
  <2> QED BY <1>1, <1>3, <1>4, <1>8, <2>3 DEF Save
<1>9. CASE Decide(e)
  <2> DEFINE d == c.gate
             r == [c EXCEPT !.stage = "completed",
                            !.status = IF d \in Decisions THEN d
                                       ELSE "failed"]
  <2>1. p = "quality_gate"
    BY <1>9 DEF Decide, TypeInv, Placed
  <2>2. /\ Ready("quality_gate", c)
        /\ d = "approved" => c.tests \in {"passed", "skipped"}
    BY <1>9, <2>1 DEF Decide, Evidence, Backed, OnItsWay
  <2>3. r \in Run
    BY <1>1 DEF Run, Stages, TerminalStages, Statuses, Decisions
  <2>4. OnlyEarned(r)
    BY <1>1, <2>2 DEF OnlyEarned, Earned, Ready, Run, FromPlanning,
       FromValidation, FromApplying, FromTesting, FromRepair
  <2>5. Ready("quality_gate", r)
    BY <1>1, <2>2 DEF Ready, Run
  <2>6. Backed(At("complete", "quality_gate"), r)
    BY <2>4, <2>5 DEF Backed, At, Done, OnItsWay
  <2>7. Backed(At("fail", "quality_gate"), r)
        /\ Backed(At("fail", "quality_gate"), c)
    BY <1>1, <2>4, OffBacked
  <2>8. \/ WriteOk(e, r, At("complete", "quality_gate"))
        \/ WriteFails(e, r, At("fail", "quality_gate"))
        \/ Assign(e, c, At("fail", "quality_gate"))
    BY <1>9 DEF Decide
  <2> QED BY <1>1, <1>3, <2>3, <2>6, <2>7, <2>8
<1>10. CASE Complete(e)
  <2> DEFINE o == IF p = "retest" /\ c.tests # "passed"
                  THEN "failed" ELSE "succeeded"
             r == Recorded(c, StageOf(p), o)
             bad == At(IF p = "retrieving_context" THEN "skip"
                                                   ELSE "fail", p)
             next == IF p \in Branching
                     THEN Route(p, r) ELSE At("advance", p)
  <2>1. p \in WorkStages \union {"retest"}
    BY <1>10 DEF Complete, TypeInv, Placed
  <2>2. /\ Done(p, c) /\ Ready(p, c)
        /\ p # "quality_gate" => c.status # "approved"
    BY <1>10 DEF Complete, Evidence, Backed, OnItsWay, At
  <2>3. StageOf(p) \in Stages
    BY <2>1, StageOfType DEF Stages
  <2>4. /\ r \in Run /\ OnlyEarned(r) /\ Done(p, r) /\ Ready(p, r)
        /\ p # "quality_gate" => r.status # "approved"
        /\ <<StageOf(p), o>> \in r.recs
    <3>1. o \in {"succeeded", "failed", "skipped"}
      OBVIOUS
    <3>2. /\ r \in Run /\ OnlyEarned(r) /\ r.status = c.status
          /\ Ready(p, c) => Ready(p, r)
          /\ Done(p, c) => Done(p, r)
          /\ <<StageOf(p), o>> \in r.recs
      BY <1>5, <2>3, <3>1
    <3> QED BY <2>2, <3>2
  <2>5. Behind(p, r)
    BY <2>4 DEF Behind, StageOf
  <2>6. Backed(next, r)
    <3>1. CASE p \in Branching
      <4>1. p \in Positions
        BY <2>1 DEF Positions, Stages
      <4> QED BY <2>4, <2>5, <3>1, <4>1, RouteBacked
    <3>2. CASE p \notin Branching
      BY <2>4, <2>5, <3>2 DEF Backed, At, OnItsWay, Branching
    <3> QED BY <3>1, <3>2
  <2>7. Backed(bad, Caught(p, r))
    BY <1>4, <1>6, <1>7, <2>4
  <2>8. Caught(p, r) \in Run
    BY <1>6, <2>4
  <2>9. WriteOk(e, r, next) \/ WriteFails(e, Caught(p, r), bad)
    BY <1>10 DEF Complete, Branching
  <2> QED BY <1>3, <2>4, <2>6, <2>7, <2>8, <2>9
<1>11. CASE Advance(e)
  <2> DEFINE s == NextStage(p)
             r == [c EXCEPT !.stage = s]
             bad == At(IF p = "retrieving_context" THEN "skip"
                                                   ELSE "fail", p)
  <2>1. p \in WorkStages \ Branching
    BY <1>11 DEF Advance, TypeInv, Placed
  <2>2. Behind(p, c) /\ Ready(p, c) /\ c.status # "approved"
    BY <1>11, <2>1 DEF Advance, Evidence, Backed, OnItsWay, At, Branching
  <2>3. r \in Run
    BY <1>1, <2>1, NextStageType DEF Run, Branching
  <2>4. Behind(p, r) /\ Ready(p, r) /\ r.status # "approved"
    BY <1>1, <2>2 DEF Behind, Done, Ready, Run
  <2>5. Backed(Route(p, r), r)
    BY <2>1, <2>3, <2>4, RouteBacked DEF Positions, Stages, OnlyEarned
  <2>6. Backed(bad, Caught(p, r)) /\ Backed(bad, Caught(p, c))
    BY <1>1, <1>4, <1>6, <1>7, <2>2, <2>3, <2>4 DEF OnlyEarned
  <2>7. Caught(p, r) \in Run /\ Caught(p, c) \in Run
    BY <1>1, <1>6, <2>3
  <2>8. \/ WriteOk(e, r, Route(p, r))
        \/ WriteFails(e, Caught(p, r), bad)
        \/ Assign(e, Caught(p, c), bad)
    BY <1>11 DEF Advance
  <2> QED BY <1>3, <2>3, <2>5, <2>6, <2>7, <2>8
<1>12. CASE Bypass(e) \/ Skip(e)
  <2> DEFINE r == Recorded(c, p, "skipped")
  <2>1. p \in {"acquiring_repository", "retrieving_context", "repairing"}
    BY <1>12 DEF Bypass, Skip, TypeInv, Placed
  <2>2. Ready(p, c) /\ c.status # "approved"
    BY <1>12 DEF Bypass, Skip, Evidence, Backed, OnItsWay, At
  <2>3. r \in Run /\ OnlyEarned(r) /\ Ready(p, r) /\ r.status # "approved"
    <3>1. p \in Stages
      BY <2>1 DEF Stages, WorkStages
    <3>2. /\ r \in Run /\ OnlyEarned(r) /\ r.status = c.status
          /\ Ready(p, c) => Ready(p, r)
      BY <1>5, <3>1
    <3> QED BY <2>2, <3>2
  <2>4. Behind(p, r)
    BY <2>1, <2>3 DEF Behind, Done
  <2>5. Backed(Route(p, r), r)
    BY <2>1, <2>3, <2>4, RouteBacked DEF Positions, Stages, WorkStages
  <2>6. \E a \in {"skip", "fail", "raised"} :
          /\ a = "skip" => p = "retrieving_context"
          /\ WriteOk(e, r, Route(p, r)) \/ WriteFails(e, r, At(a, p))
    BY <1>12 DEF Bypass, Skip
  <2> QED BY <1>3, <1>4, <1>7, <2>3, <2>5, <2>6
<1>13. CASE Refuse(e) \/ Fail(e)
  <2> DEFINE r == Recorded(c, StageOf(p), "failed")
             told == [r EXCEPT !.failure = "stage"]
  <2>1. p \in WorkStages \union {"retest"}
    BY <1>13 DEF Refuse, Fail, TypeInv, Placed
  <2>2. r \in Run /\ OnlyEarned(r)
    BY <1>5, <2>1, StageOfType DEF Stages
  <2>3. told \in Run /\ OnlyEarned(told)
    <3>1. told \in Run
      BY <2>2 DEF Run, Failures
    <3> QED BY <2>2, <3>1, EarnedKept DEF Run
  <2>4. \/ \E after \in {r, told} : WriteThen(e, r, after, At("capture", p))
        \/ \E a \in {"fail", "raised"} : WriteFails(e, r, At(a, p))
    BY <1>13 DEF Refuse, Fail
  <2>5. CASE \E after \in {r, told} : WriteThen(e, r, after, At("capture", p))
    BY <1>2, <1>4, <2>2, <2>3, <2>5, WriteThenBacked
  <2>6. CASE \E a \in {"fail", "raised"} : WriteFails(e, r, At(a, p))
    BY <1>3, <1>4, <2>2, <2>6
  <2> QED BY <2>4, <2>5, <2>6
<1>14. CASE GiveUp(e)
  <2> DEFINE r == [c EXCEPT !.stage = "failed", !.status = "failed"]
  <2>1. r \in Run /\ OnlyEarned(r)
    BY <1>1 DEF Run, Stages, TerminalStages, Statuses, OnlyEarned
  <2>2. \E a \in {"capture", "fail"} :
          \/ WriteOk(e, r, At(a, p))
          \/ WriteFails(e, r, At(a, p))
          \/ Assign(e, c, At(a, p))
    BY <1>14 DEF GiveUp
  <2> QED BY <1>1, <1>3, <1>4, <2>1, <2>2
<1> QED
  BY <1>8, <1>9, <1>10, <1>11, <1>12, <1>13, <1>14 DEF Finish

LEMMA CloseBacked ==
  ASSUME TypeInv, TypeInv', Evidence, NEW e \in Executors, Close(e)
  PROVE  Evidence'
<1> DEFINE p == pc[e].pos
           c == Copy(e)
<1>1. c \in Run /\ OnlyEarned(c) /\ OnlyEarned(row)
  BY CopyType DEF TypeInv, Evidence, Backed
<1>2. ccopy' = ccopy
  BY DEF Close, Handle, Capture, Seal, others
<1>3. \A r \in Run, a \in {"capture", "seal"} :
         OnlyEarned(r) => Backed(At(a, p), r)
  BY OffBacked
<1>4. ASSUME Leave(e), OnlyEarned(row') PROVE Evidence'
  <2>1. Created(source) \in Run /\ row' \in Run
    BY CreatedType DEF TypeInv, TypeOK
  <2>2. Backed(Idle, Created(source)) /\ Backed(Idle, row')
    BY <1>4 DEF Backed, Idle, At, OnItsWay, OnlyEarned, Created
  <2> QED BY <1>2, <1>4, <2>1, <2>2, EvidenceStep, StoreAssumption DEF Leave
<1>5. CASE Handle(e)
  <2> DEFINE noted == [c EXCEPT !.failure = "unknown"]
             r == [noted EXCEPT !.stage = "failed", !.status = "failed"]
             told == [r EXCEPT !.events = @ \union {"run_failed"}]
  <2>1. noted \in Run /\ r \in Run /\ told \in Run
    BY <1>1 DEF Run, Failures, Stages, TerminalStages, Statuses
  <2>2. OnlyEarned(noted)
    BY <1>1, <2>1, EarnedKept DEF Run
  <2>3. OnlyEarned(r) /\ OnlyEarned(told)
    BY <1>1 DEF OnlyEarned, Run
  <2>4. \/ WriteThen(e, r, told, At("capture", p))
        \/ Leave(e) /\ row' \in {row, noted}
    BY <1>5 DEF Handle
  <2>5. CASE WriteThen(e, r, told, At("capture", p))
    <3>1. Backed(At("capture", p), told)
      BY <1>3, <2>1, <2>3
    <3> QED BY <1>2, <2>1, <2>3, <2>5, <3>1, WriteThenBacked
  <2>6. CASE Leave(e) /\ row' \in {row, noted}
    <3>1. OnlyEarned(row')
      BY <1>1, <2>2, <2>6
    <3> QED BY <1>4, <2>6, <3>1
  <2> QED BY <2>4, <2>5, <2>6
<1>6. CASE Capture(e)
  <2>1. \/ Assign(e, c, At("seal", p))
        \/ WriteOk(e, c, At("seal", p))
        \/ WriteFails(e, c, At("seal", p))
    BY <1>6 DEF Capture
  <2> QED
    BY <1>1, <1>2, <1>3, <2>1, AssignBacked, WriteOkBacked, WriteFailsBacked
<1>7. CASE Seal(e)
  <2> DEFINE r == [c EXCEPT !.status = IF @ = "running" THEN "failed" ELSE @]
             ending == CASE r.status = "failed"   -> {"run_failed"}
                          [] r.status = "approved" -> {"run_completed"}
                          [] OTHER                 -> {}
             told == [r EXCEPT !.events = @ \union ending]
  <2>1. r \in Run
    BY <1>1 DEF Run, Statuses
  <2>2. ending \subseteq {"run_failed", "run_completed"}
    OBVIOUS
  <2>3. OnlyEarned(r)
    BY <1>1, <2>1, EarnedKept DEF Run
  <2> HIDE DEF ending
  <2>4. OnlyEarned(told)
    <3> HIDE DEF r
    <3>1. told \in Run
      BY <2>1, <2>2 DEF Run
    <3> QED BY <2>1, <2>3, <3>1, EarnedKept DEF Run
  <2>5. Leave(e) /\ row' \in {row, r, told}
    BY <1>7 DEF Seal, ending
  <2> HIDE DEF r, told
  <2>6. OnlyEarned(row')
    BY <1>1, <2>3, <2>4, <2>5
  <2> QED BY <1>4, <2>5, <2>6
<1> QED BY <1>5, <1>6, <1>7 DEF Close

LEMMA CancelBacked ==
  ASSUME TypeInv, TypeInv', Evidence, NEW c \in Cancellers, Cancel(c)
  PROVE  Evidence'
<1>1. OnlyEarned(row) /\ \A d \in Cancellers : OnlyEarned(ccopy[d])
  BY DEF Evidence
<1>2. \A e \in Executors : Placed(pc[e])'
  BY DEF TypeInv
<1>3. OnlyEarned(Created(source))
  BY DEF OnlyEarned, Created
<1>4. \A r \in Run : OnlyEarned(r) => OnlyEarned([r EXCEPT !.cancel = TRUE])
  BY DEF OnlyEarned, Earned, Run
<1>5. ccopy[c] \in Run /\ row \in Run
  BY DEF TypeInv, TypeOK
<1>6. CASE Durable
  <2>1. OnlyEarned(row')
    BY <1>1, <1>4, <1>5, <1>6
       DEF Cancel, CancelLoad, CancelStore, CancelShared, CancelRefused
  <2>2. \A d \in Cancellers : OnlyEarned(ccopy[d])'
    BY <1>1, <1>3, <1>6
       DEF Cancel, CancelLoad, CancelStore, CancelShared, CancelRefused,
           TypeInv, TypeOK
  <2>3. pc' = pc /\ local' = local
    BY DEF Cancel, CancelLoad, CancelStore, CancelShared, CancelRefused
  <2> QED BY <1>2, <1>6, <2>1, <2>2, <2>3 DEF Evidence, Copy
<1>7. CASE ~Durable
  <2>1. pc' = pc /\ local' = local /\ row' \in {row, [row EXCEPT !.cancel = TRUE]}
    BY <1>7 DEF Cancel, CancelLoad, CancelStore, CancelShared, CancelRefused
  <2>2. \A d \in Cancellers : OnlyEarned(ccopy[d])'
    BY <1>1, <1>3, <1>7
       DEF Cancel, CancelLoad, CancelStore, CancelShared, CancelRefused,
           TypeInv, TypeOK
  <2>3. OnlyEarned(row')
    BY <1>1, <1>4, <1>5, <2>1
  <2>4. \A q : Backed(q, row) => Backed(q, [row EXCEPT !.cancel = TRUE])
    BY <1>4, <1>5
       DEF Backed, Ready, Done, Behind, Run
  <2>5. \A e \in Executors : Backed(pc[e], row')
    BY <1>7, <2>1, <2>4 DEF Evidence, Copy
  <2> QED BY <1>2, <1>7, <2>1, <2>2, <2>3, <2>5 DEF Evidence, Copy
<1> QED BY <1>6, <1>7

LEMMA CrashBacked ==
  ASSUME TypeInv, TypeInv', Evidence, Crash
  PROVE  Evidence'
<1>1. OnlyEarned(Created(source))
  BY DEF OnlyEarned, Created
<1>2. OnlyEarned(row')
  BY DEF Crash, Evidence, OnlyEarned, TypeInv, TypeOK, Run
<1>3. \A c \in Cancellers : OnlyEarned(ccopy'[c])
  BY <1>1 DEF Crash
<1>4. \A r : OnlyEarned(r) => Backed(Idle, r)
  BY DEF Backed, Idle, At, OnItsWay
<1>5. \A e \in Executors : Backed(pc'[e], Copy(e)')
  BY <1>1, <1>2, <1>4 DEF Crash, Copy
<1>6. \A e \in Executors : Placed(pc'[e])
  BY DEF TypeInv
<1> QED BY <1>2, <1>3, <1>5, <1>6 DEF Evidence, Copy

(* Every step keeps the evidence: the executions by the lemmas above, a    *)
(* resumed execution because it starts before it has read anything.        *)
LEMMA NextBacked ==
  ASSUME TypeInv, TypeInv', Evidence, [Next]_vars
  PROVE  Evidence'
<1>1. CASE UNCHANGED vars
  BY <1>1 DEF vars, Evidence, Copy
<1>2. ASSUME NEW e \in Executors, Resume(e) PROVE Evidence'
  <2>1. row' = row /\ local' = local /\ ccopy' = ccopy
    BY <1>2 DEF Resume
  <2>2. \A f \in Executors : Copy(f)' = Copy(f) /\ OnlyEarned(Copy(f))
    BY <2>1 DEF Copy, Evidence, Backed
  <2>3. Backed(At("load", "initializing"), Copy(e))
    BY <2>2 DEF Backed, At, OnItsWay
  <2>4. \A f \in Executors : Backed(pc'[f], Copy(f))
    BY <1>2, <2>3 DEF Resume, Evidence, TypeInv, TypeOK
  <2>5. \A f \in Executors : Placed(pc'[f])
    BY DEF TypeInv
  <2> QED BY <2>1, <2>2, <2>4, <2>5 DEF Evidence
<1>3. ASSUME NEW e \in Executors, Execute(e) PROVE Evidence'
  BY <1>3, LoadBacked, HopBacked, EnterBacked, WorkBacked, FinishBacked,
     CloseBacked DEF Execute
<1>4. CASE \E c \in Cancellers : Cancel(c)
  BY <1>4, CancelBacked
<1>5. CASE Crash
  BY <1>5, CrashBacked
<1> QED BY <1>1, <1>2, <1>3, <1>4, <1>5 DEF Next

LEMMA InitBacked == Init => Evidence
<1> SUFFICES ASSUME Init PROVE Evidence
  OBVIOUS
<1>1. OnlyEarned(Created(source))
  BY DEF OnlyEarned, Created
<1>2. \A e \in Executors :
         /\ pc[e] \in {At("load", "initializing"), Idle}
         /\ Copy(e) = Created(source)
  BY DEF Init, Copy
<1>3. \A q \in {At("load", "initializing"), Idle} :
         Placed(q) /\ Backed(q, Created(source))
  BY <1>1 DEF Placed, Backed, Idle, At, OnItsWay
<1>4. OnlyEarned(row) /\ \A c \in Cancellers : OnlyEarned(ccopy[c])
  BY <1>1 DEF Init
<1> QED BY <1>2, <1>3, <1>4 DEF Evidence

(* Whatever executions, cancel requests, failed updates and crashes do to  *)
(* the row in between, every execution at work holds a copy that is backed *)
(* by the outputs and records of the stages behind it.                     *)
THEOREM EvidenceHolds == Spec => []Evidence
<1>1. Init => Evidence
  BY InitBacked
<1>2. Evidence /\ TypeInv /\ TypeInv' /\ [Next]_vars => Evidence'
  BY NextBacked
<1> QED BY <1>1, <1>2, Typing, PTL DEF Spec

(* A run is stored as APPROVED only if the quality gate approved it on     *)
(* tests that did not fail, after a review, with its patch validated and   *)
(* handed to the patch engine: for any number of concurrent executions and *)
(* cancel requests, any crashes and any updates that raise.                *)
THEOREM Approval == Spec => []ApprovedIsEarned
<1>1. Evidence => ApprovedIsEarned
  BY DEF Evidence, OnlyEarned, ApprovedIsEarned
<1> QED BY <1>1, EvidenceHolds, PTL
-----------------------------------------------------------------------------
(* Verdicts are the gate's.                                                *)

(* An execution that takes a copy it may hold to its next place, and       *)
(* leaves at most the gate's verdict in the store, keeps the invariant.    *)
LEMMA VerdictStep ==
  ASSUME TypeInv, Verdicts, NEW e \in Executors,
         NEW r \in Run, NEW next, Held(next, r),
         pc' = [pc EXCEPT ![e] = next], ccopy' = ccopy,
         \/ Durable /\ local' = [local EXCEPT ![e] = r] /\ Sealed(row')
         \/ ~Durable /\ row' = r
  PROVE  Verdicts'
<1>1. Sealed(row')
  BY DEF Held
<1>2. ASSUME NEW f \in Executors PROVE Held(pc'[f], Copy(f)')
  <2>1. pc'[e] = next /\ Copy(e)' = r
    BY DEF TypeInv, TypeOK, Copy
  <2>2. CASE f = e
    BY <2>1, <2>2
  <2>3. CASE f # e
    <3>1. Durable
      BY <2>3, StoreAssumption
    <3>2. pc'[f] = pc[f] /\ Copy(f)' = Copy(f)
      BY <2>3, <3>1 DEF TypeInv, TypeOK, Copy
    <3> QED BY <3>2 DEF Verdicts
  <2> QED BY <2>2, <2>3
<1> QED BY <1>1, <1>2 DEF Verdicts

LEMMA AssignHeld ==
  ASSUME TypeInv, Verdicts, NEW e \in Executors, NEW r \in Run,
         NEW next, Held(next, r), Assign(e, r, next), ccopy' = ccopy
  PROVE  Verdicts'
BY VerdictStep, StoreAssumption DEF Assign, Verdicts

LEMMA WriteThenHeld ==
  ASSUME TypeInv, Verdicts, NEW e \in Executors, NEW r \in Run,
         NEW after \in Run, NEW next, Held(next, after), Sealed(r),
         WriteThen(e, r, after, next), ccopy' = ccopy
  PROVE  Verdicts'
BY VerdictStep, StoreAssumption DEF WriteThen

LEMMA WriteOkHeld ==
  ASSUME TypeInv, Verdicts, NEW e \in Executors, NEW r \in Run,
         NEW next, Held(next, r), WriteOk(e, r, next), ccopy' = ccopy
  PROVE  Verdicts'
BY WriteThenHeld DEF WriteOk, Held

LEMMA WriteFailsHeld ==
  ASSUME TypeInv, Verdicts, NEW e \in Executors, NEW r \in Run,
         NEW next, Held(next, r), WriteFails(e, r, next), ccopy' = ccopy
  PROVE  Verdicts'
BY VerdictStep DEF WriteFails, Verdicts

(* A copy without a verdict may be held anywhere but before the decision,  *)
(* and away from the pipeline any copy without a foreign verdict may.      *)
LEMMA OpenHeld ==
  ASSUME NEW q, NEW r, q.at # "decide", r.status \notin Decisions
  PROVE  Held(q, r)
BY DEF Held, Sealed

LEMMA OpenAt ==
  ASSUME NEW a, a # "decide", NEW p, NEW r, r.status \notin Decisions
  PROVE  Held(At(a, p), r)
BY DEF Held, Sealed, At

LEMMA OffHeld ==
  ASSUME NEW p, NEW r, Sealed(r),
         NEW a \in {"load", "refuse", "fail", "give_up", "raised", "capture",
                    "seal"}
  PROVE  Held(At(a, p), r)
BY DEF Held, At, OnItsWay

(* What the records, the failure and the events leave alone.               *)
LEMMA SealedKept ==
  ASSUME NEW r \in Run, NEW q \in Run, Sealed(r),
         q.status \in Decisions => q.status = r.status,
         q.gate = r.gate, q.stage = r.stage, q.tests = r.tests
  PROVE  Sealed(q)
BY DEF Sealed

LEMMA RouteOpen ==
  ASSUME NEW p \in Positions, NEW r
  PROVE  Route(p, r).at # "decide"
BY DEF Route, At

LEMMA BeginOpen == ASSUME NEW r PROVE Begin(r).at # "decide"
BY RouteOpen DEF Begin, At, Positions, Stages

LEMMA AfterHopOpen == ASSUME NEW p, NEW r PROVE AfterHop(p, r).at # "decide"
BY RouteOpen DEF AfterHop, At, Positions, Stages

LEMMA StartHeld ==
  ASSUME TypeInv, Verdicts, NEW e \in Executors,
         Load(e) \/ Hop(e) \/ Enter(e)
  PROVE  Verdicts'
<1> DEFINE p == pc[e].pos
           c == Copy(e)
<1>1. ccopy' = ccopy
  BY DEF Load, Hop, Enter, others
<1>2. c \in Run
  BY CopyType DEF TypeInv
<1>3. CASE Load(e)
  <2> DEFINE r == [row EXCEPT !.status = "running"]
  <2>1. r \in Run /\ r.status \notin Decisions
    BY DEF TypeInv, TypeOK, Run, Statuses, Decisions
  <2> QED BY <1>1, <1>3, <2>1, BeginOpen, OpenHeld, AssignHeld DEF Load
<1>4. CASE Hop(e)
  <2> DEFINE r == [c EXCEPT !.stage = p]
  <2>1. p \in {"acquiring_repository", "analyzing_repository", "reviewing"}
    BY <1>4 DEF Hop, TypeInv, Placed
  <2>2. c.status \notin Decisions
    BY <1>4 DEF Hop, Verdicts, Held, OnItsWay, At
  <2>3. r \in Run /\ r.status \notin Decisions
    BY <1>2, <2>1, <2>2 DEF Run, Stages, WorkStages
  <2>4. /\ Held(AfterHop(p, r), r)
        /\ Held(At("raised", p), r) /\ Held(At("raised", p), c)
    <3>1. AfterHop(p, r).at # "decide"
      BY AfterHopOpen
    <3>2. Held(AfterHop(p, r), r)
      BY <2>3, <3>1, OpenHeld
    <3> HIDE DEF r
    <3> QED BY <2>2, <2>3, <3>2, OpenAt
  <2>5. \/ WriteOk(e, r, AfterHop(p, r))
        \/ WriteFails(e, r, At("raised", p))
        \/ Assign(e, c, At("raised", p))
    BY <1>4 DEF Hop
  <2> QED
    BY <1>1, <1>2, <2>3, <2>4, <2>5, WriteOkHeld, WriteFailsHeld, AssignHeld
<1>5. CASE Enter(e)
  <2> DEFINE r == [c EXCEPT !.stage = StageOf(p)]
  <2>1. p \in WorkStages \union {"retest"}
    BY <1>5 DEF Enter, TypeInv, Placed
  <2>2. c.status \notin Decisions
    BY <1>5 DEF Enter, Verdicts, Held, OnItsWay, At
  <2>3. r \in Run /\ r.status \notin Decisions
    BY <1>2, <2>1, <2>2, StageOfType DEF Run, Stages
  <2>4. \A a \in {"work", "raised"} : Held(At(a, p), c) /\ Held(At(a, p), r)
    <3> HIDE DEF r
    <3> QED BY <2>2, <2>3, OpenAt
  <2>5. \E a \in {"work", "raised"} :
           \/ WriteOk(e, r, At(a, p))
           \/ WriteFails(e, r, At(a, p))
           \/ Assign(e, c, At(a, p))
    BY <1>5 DEF Enter
  <2> QED
    BY <1>1, <1>2, <2>3, <2>4, <2>5, WriteOkHeld, WriteFailsHeld, AssignHeld
<1> QED BY <1>3, <1>4, <1>5

(* A service changes anything but the status, and the gate rejects tests   *)
(* that failed.                                                            *)
LEMMA WorkHeld ==
  ASSUME TypeInv, Verdicts, NEW e \in Executors, Work(e)
  PROVE  Verdicts'
<1> DEFINE p == pc[e].pos
           c == Copy(e)
<1>1. pc[e].at = "work"
  BY DEF Work, Acquire, Analyze, Produce, Retrieve, Validate, Apply,
         RunTests, Repair, Review, Gate, Is, At
<1>2. p \in WorkStages \union {"retest"} /\ c \in Run
  BY <1>1, CopyType DEF TypeInv, Placed
<1>3. c.status \notin Decisions
  BY <1>1 DEF Verdicts, Held, OnItsWay, At
<1>4. \A r \in Run : \A a : Returns(e, r, a) /\ a # "decide" /\ r.status = c.status
                          => Verdicts'
  BY <1>3, OpenHeld, AssignHeld DEF Returns, others, At
<1>5. ASSUME Raises(e) PROVE Verdicts'
  <2>1. Caught(p, c) \in Run /\ Caught(p, c).status = c.status
    BY <1>2, CaughtType DEF Caught, Run
  <2> QED BY <1>4, <1>5, <2>1 DEF Raises
<1>6. \A a \in Artefacts :
         With(c, a) \in Run /\ With(c, a).status = c.status
  BY <1>2, WithType DEF With, Run
<1>7. [c EXCEPT !.failure = "stage"] \in Run
      /\ [c EXCEPT !.failure = "stage"].status = c.status
  BY <1>2 DEF Run, Failures
<1>8. \A o \in TestOutcomes :
         [c EXCEPT !.tests = o] \in Run /\ [c EXCEPT !.tests = o].status = c.status
  BY <1>2 DEF Run
<1>9. \A o \in RepairOutcomes :
         [c EXCEPT !.repair = o] \in Run /\ [c EXCEPT !.repair = o].status = c.status
  BY <1>2 DEF Run
<1>10. CASE Acquire(e)
  BY <1>4, <1>5, <1>6, <1>7, <1>10 DEF Acquire, Refuses, Artefacts
<1>11. CASE Analyze(e)
  BY <1>2, <1>4, <1>5, <1>6, <1>11 DEF Analyze, Refuses, Artefacts
<1>12. CASE Produce(e)
  BY <1>2, <1>4, <1>5, <1>6, <1>12 DEF Produce, Refuses, Artefacts
<1>13. CASE Retrieve(e)
  BY <1>2, <1>4, <1>6, <1>13 DEF Retrieve, Refuses, Artefacts
<1>14. CASE Validate(e)
  BY <1>2, <1>4, <1>5, <1>14 DEF Validate, Refuses
<1>15. CASE Apply(e)
  <2>1. ASSUME NEW o \in PatchOutcomes,
               Assign(e, [c EXCEPT !.applied = o], At("save", "applying_patch")),
               ccopy' = ccopy
        PROVE  Verdicts'
    <3> DEFINE r == [c EXCEPT !.applied = o]
    <3>1. r \in Run /\ r.status = c.status
      BY <1>2 DEF Run
    <3> HIDE DEF r
    <3>2. Held(At("save", "applying_patch"), r)
      BY <1>3, <3>1, OpenAt
    <3> QED BY <2>1, <3>1, <3>2, AssignHeld DEF r
  <2> QED BY <1>5, <1>15, <2>1 DEF Apply
<1>16. CASE RunTests(e)
  BY <1>4, <1>5, <1>8, <1>16 DEF RunTests, Refuses, TestOutcomes
<1>17. CASE Repair(e)
  BY <1>2, <1>4, <1>5, <1>9, <1>17 DEF Repair, Refuses, RepairOutcomes
<1>18. CASE Review(e)
  BY <1>4, <1>5, <1>6, <1>18 DEF Review, Artefacts
<1>19. CASE Gate(e)
  <2>1. ASSUME NEW d \in GateDecisions(c),
               Returns(e, [c EXCEPT !.gate = d], "decide")
        PROVE  Verdicts'
    <3> DEFINE r == [c EXCEPT !.gate = d]
    <3>1. /\ d \in Decisions
          /\ c.tests \in {"failed", "unparsed"} => d = "rejected"
      BY DEF GateDecisions, Decisions
    <3>2. /\ r \in Run /\ r.status = c.status
          /\ r.tests = c.tests /\ r.gate = d
      BY <1>2, <3>1 DEF Run
    <3>3. Held(At("decide", p), r)
      BY <1>3, <3>1, <3>2 DEF Held, Sealed
    <3> QED BY <2>1, <3>2, <3>3, AssignHeld DEF Returns, others
  <2> QED BY <1>5, <1>19, <2>1 DEF Gate
<1> QED
  BY <1>10, <1>11, <1>12, <1>13, <1>14, <1>15, <1>16, <1>17, <1>18, <1>19
     DEF Work

(* Only the decision gives a copy its verdict, and with it the stage.      *)
LEMMA DecideHeld ==
  ASSUME TypeInv, Verdicts, NEW e \in Executors, Decide(e)
  PROVE  Verdicts'
<1> DEFINE c == Copy(e)
           d == c.gate
           r == [c EXCEPT !.stage = "completed",
                          !.status = IF d \in Decisions THEN d ELSE "failed"]
<1>1. c \in Run
  BY CopyType DEF TypeInv
<1>2. /\ Sealed(c)
      /\ c.tests \in {"failed", "unparsed"} => d = "rejected"
  BY DEF Decide, Verdicts, Held
<1>3. /\ r \in Run /\ r.stage = "completed" /\ r.gate = d /\ r.tests = c.tests
      /\ r.status = IF d \in Decisions THEN d ELSE "failed"
  BY <1>1 DEF Run, Stages, TerminalStages, Statuses, Decisions
<1>4. Sealed(r)
  BY <1>2, <1>3 DEF Sealed, Decisions
<1>5. Held(At("complete", "quality_gate"), r)
  BY <1>4 DEF Held, At
<1>6. Held(At("fail", "quality_gate"), r) /\ Held(At("fail", "quality_gate"), c)
  BY <1>2, <1>4, OffHeld
<1>7. \/ WriteOk(e, r, At("complete", "quality_gate"))
      \/ WriteFails(e, r, At("fail", "quality_gate"))
      \/ Assign(e, c, At("fail", "quality_gate"))
  BY DEF Decide
<1>8. ccopy' = ccopy
  BY DEF Decide, others
<1> QED
  BY <1>1, <1>3, <1>5, <1>6, <1>7, <1>8, WriteOkHeld, WriteFailsHeld,
     AssignHeld

LEMMA FinishHeld ==
  ASSUME TypeInv, Verdicts, NEW e \in Executors, Finish(e)
  PROVE  Verdicts'
<1> DEFINE p == pc[e].pos
           c == Copy(e)
<1>1. c \in Run /\ Sealed(c)
  BY CopyType DEF TypeInv, Verdicts, Held
<1>2. ccopy' = ccopy
  BY DEF Finish, Save, Decide, Complete, Advance, Bypass, Skip, Refuse, Fail,
         GiveUp, others
<1>3. \A r \in Run : \A next :
         Held(next, r) /\ (Assign(e, r, next) \/ WriteOk(e, r, next)
                            \/ WriteFails(e, r, next)) => Verdicts'
  BY <1>2, AssignHeld, WriteOkHeld, WriteFailsHeld
<1>4. \A r \in Run, a \in {"fail", "raised", "capture"} :
         Sealed(r) => Held(At(a, p), r)
  BY OffHeld
<1>5. \A s \in Stages, o \in {"succeeded", "failed", "skipped"} :
         /\ Recorded(c, s, o) \in Run /\ Sealed(Recorded(c, s, o))
         /\ Recorded(c, s, o).status = c.status
  <2> SUFFICES ASSUME NEW s \in Stages,
                      NEW o \in {"succeeded", "failed", "skipped"}
               PROVE  /\ Recorded(c, s, o) \in Run /\ Sealed(Recorded(c, s, o))
                      /\ Recorded(c, s, o).status = c.status
    OBVIOUS
  <2>1. Recorded(c, s, o) \in Run
    BY <1>1, RecordedType
  <2>2. /\ Recorded(c, s, o).status = c.status
        /\ Recorded(c, s, o).gate = c.gate
        /\ Recorded(c, s, o).stage = c.stage
        /\ Recorded(c, s, o).tests = c.tests
    BY <1>1 DEF Recorded, Run
  <2> QED BY <1>1, <2>1, <2>2, SealedKept
<1>6. \A r \in Run :
         /\ Caught(p, r) \in Run /\ Caught(p, r).status = r.status
         /\ Sealed(r) => Sealed(Caught(p, r))
  <2> SUFFICES ASSUME NEW r \in Run
               PROVE  /\ Caught(p, r) \in Run /\ Caught(p, r).status = r.status
                      /\ Sealed(r) => Sealed(Caught(p, r))
    OBVIOUS
  <2>1. Caught(p, r) \in Run
    BY CaughtType
  <2>2. /\ Caught(p, r).status = r.status /\ Caught(p, r).gate = r.gate
        /\ Caught(p, r).stage = r.stage /\ Caught(p, r).tests = r.tests
    BY DEF Caught, Run
  <2> QED BY <2>1, <2>2, SealedKept
<1>7. CASE Save(e)
  <2>1. c.status \notin Decisions
    BY <1>7 DEF Save, Verdicts, Held, OnItsWay, At, TypeInv, Placed
  <2>2. Held(At("complete", p), c) /\ Held(At("fail", p), c)
    BY <2>1, OpenHeld DEF At
  <2> QED BY <1>1, <1>3, <1>7, <2>2 DEF Save
<1>8. CASE Decide(e)
  BY <1>8, DecideHeld
<1>9. CASE Complete(e)
  <2> DEFINE o == IF p = "retest" /\ c.tests # "passed"
                  THEN "failed" ELSE "succeeded"
             r == Recorded(c, StageOf(p), o)
             bad == At(IF p = "retrieving_context" THEN "skip"
                                                   ELSE "fail", p)
             next == IF p \in Branching
                     THEN Route(p, r) ELSE At("advance", p)
  <2>1. p \in WorkStages \union {"retest"}
    BY <1>9 DEF Complete, TypeInv, Placed
  <2>2. p # "quality_gate" => c.status \notin Decisions
    BY <1>9 DEF Complete, Verdicts, Held, OnItsWay, At
  <2>3. r \in Run /\ Sealed(r) /\ r.status = c.status
    <3>1. StageOf(p) \in Stages /\ o \in {"succeeded", "failed", "skipped"}
      BY <2>1, StageOfType DEF Stages
    <3> QED BY <1>5, <3>1
  <2>4. Caught(p, r) \in Run /\ Sealed(Caught(p, r))
        /\ Caught(p, r).status = c.status
    BY <1>6, <2>3
  <2>5. Held(next, r)
    <3>1. CASE p = "quality_gate"
      <4>1. next = At("capture", "quality_gate")
        BY <3>1 DEF Route, Branching
      <4> QED BY <2>3, <4>1, OffHeld
    <3>2. CASE p # "quality_gate"
      <4>1. next.at # "decide"
        BY <2>1, RouteOpen DEF At, Positions, Stages
      <4> QED BY <2>2, <2>3, <3>2, <4>1, OpenHeld
    <3> QED BY <3>1, <3>2
  <2>6. Held(bad, Caught(p, r))
    <3>1. CASE p = "retrieving_context"
      BY <2>2, <2>4, <3>1, OpenHeld DEF At
    <3>2. CASE p # "retrieving_context"
      BY <1>4, <2>4, <3>2
    <3> QED BY <3>1, <3>2
  <2>7. WriteOk(e, r, next) \/ WriteFails(e, Caught(p, r), bad)
    BY <1>9 DEF Complete, Branching
  <2> HIDE DEF next, bad, r
  <2> QED BY <1>3, <2>3, <2>4, <2>5, <2>6, <2>7
<1>10. CASE Advance(e)
  <2> DEFINE s == NextStage(p)
             r == [c EXCEPT !.stage = s]
             bad == At(IF p = "retrieving_context" THEN "skip"
                                                   ELSE "fail", p)
  <2>1. p \in WorkStages \ Branching
    BY <1>10 DEF Advance, TypeInv, Placed
  <2>2. c.status \notin Decisions
    BY <1>10, <2>1 DEF Advance, Verdicts, Held, OnItsWay, At
  <2>3. r \in Run /\ r.status \notin Decisions
    BY <1>1, <2>1, <2>2, NextStageType DEF Run, Branching
  <2>4. /\ Caught(p, r) \in Run /\ Caught(p, r).status \notin Decisions
        /\ Caught(p, c) \in Run /\ Caught(p, c).status \notin Decisions
    BY <1>1, <1>6, <2>2, <2>3
  <2>5. Route(p, r).at # "decide" /\ bad.at # "decide"
    BY <2>1, RouteOpen DEF At, Positions, Stages
  <2>6. /\ Held(Route(p, r), r)
        /\ Held(bad, Caught(p, r)) /\ Held(bad, Caught(p, c))
    <3> HIDE DEF bad, r
    <3> QED BY <2>3, <2>4, <2>5, OpenHeld
  <2>7. \/ WriteOk(e, r, Route(p, r))
        \/ WriteFails(e, Caught(p, r), bad)
        \/ Assign(e, Caught(p, c), bad)
    BY <1>10 DEF Advance
  <2> HIDE DEF bad, r
  <2> QED BY <1>3, <2>3, <2>4, <2>6, <2>7
<1>11. CASE Bypass(e) \/ Skip(e)
  <2> DEFINE r == Recorded(c, p, "skipped")
  <2>1. p \in {"acquiring_repository", "retrieving_context", "repairing"}
    BY <1>11 DEF Bypass, Skip, TypeInv, Placed
  <2>2. c.status \notin Decisions
    BY <1>11 DEF Bypass, Skip, Verdicts, Held, OnItsWay, At
  <2>3. r \in Run /\ r.status \notin Decisions
    BY <1>5, <2>1, <2>2 DEF Stages, WorkStages
  <2>4. Route(p, r).at # "decide"
    BY <2>1, RouteOpen DEF Positions, Stages, WorkStages
  <2>5. /\ Held(Route(p, r), r)
        /\ \A a \in {"skip", "fail", "raised"} : Held(At(a, p), r)
    BY <2>3, <2>4, OpenHeld DEF At
  <2>6. \/ WriteOk(e, r, Route(p, r))
        \/ \E a \in {"skip", "fail", "raised"} : WriteFails(e, r, At(a, p))
    BY <1>11 DEF Bypass, Skip
  <2> HIDE DEF r
  <2> QED BY <1>3, <2>3, <2>5, <2>6
<1>12. CASE Refuse(e) \/ Fail(e)
  <2> DEFINE r == Recorded(c, StageOf(p), "failed")
             told == [r EXCEPT !.failure = "stage"]
  <2>1. p \in WorkStages \union {"retest"}
    BY <1>12 DEF Refuse, Fail, TypeInv, Placed
  <2>2. r \in Run /\ Sealed(r)
    BY <1>5, <2>1, StageOfType DEF Stages
  <2>3. told \in Run /\ Sealed(told)
    BY <2>2, SealedKept DEF Run, Failures
  <2>4. \/ \E after \in {r, told} : WriteThen(e, r, after, At("capture", p))
        \/ \E a \in {"fail", "raised"} : WriteFails(e, r, At(a, p))
    BY <1>12 DEF Refuse, Fail
  <2> HIDE DEF r, told
  <2>5. CASE \E after \in {r, told} : WriteThen(e, r, after, At("capture", p))
    BY <1>2, <1>4, <2>2, <2>3, <2>5, WriteThenHeld
  <2>6. CASE \E a \in {"fail", "raised"} : WriteFails(e, r, At(a, p))
    BY <1>3, <1>4, <2>2, <2>6
  <2> QED BY <2>4, <2>5, <2>6
<1>13. CASE GiveUp(e)
  <2> DEFINE r == [c EXCEPT !.stage = "failed", !.status = "failed"]
  <2>1. r \in Run /\ Sealed(r)
    BY <1>1 DEF Run, Stages, TerminalStages, Statuses, Sealed, Decisions
  <2>2. \E a \in {"capture", "fail"} :
          \/ WriteOk(e, r, At(a, p))
          \/ WriteFails(e, r, At(a, p))
          \/ Assign(e, c, At(a, p))
    BY <1>13 DEF GiveUp
  <2> QED BY <1>1, <1>3, <1>4, <2>1, <2>2
<1> QED
  BY <1>7, <1>8, <1>9, <1>10, <1>11, <1>12, <1>13 DEF Finish

(* The end of an execution fails a run, or leaves its status alone.        *)
LEMMA CloseHeld ==
  ASSUME TypeInv, Verdicts, NEW e \in Executors, Close(e)
  PROVE  Verdicts'
<1> DEFINE p == pc[e].pos
           c == Copy(e)
<1>1. c \in Run /\ Sealed(c) /\ Sealed(row)
  BY CopyType DEF TypeInv, Verdicts, Held
<1>2. ccopy' = ccopy
  BY DEF Close, Handle, Capture, Seal, others
<1>3. ASSUME Leave(e), row' \in Run, Sealed(row') PROVE Verdicts'
  <2>1. Created(source) \in Run
    BY CreatedType
  <2>2. Held(Idle, Created(source)) /\ Held(Idle, row')
    BY <1>3 DEF Held, Idle, At, OnItsWay, Sealed, Created, Decisions
  <2> QED BY <1>2, <1>3, <2>1, <2>2, VerdictStep DEF Leave
<1>4. CASE Handle(e)
  <2> DEFINE noted == [c EXCEPT !.failure = "unknown"]
             r == [noted EXCEPT !.stage = "failed", !.status = "failed"]
             told == [r EXCEPT !.events = @ \union {"run_failed"}]
  <2>1. noted \in Run /\ r \in Run /\ told \in Run
    BY <1>1 DEF Run, Failures, Stages, TerminalStages, Statuses
  <2>2. Sealed(noted)
    BY <1>1, <2>1, SealedKept DEF Run
  <2>3. Sealed(r) /\ Sealed(told)
    BY <1>1 DEF Sealed, Run, Decisions
  <2>4. \/ WriteThen(e, r, told, At("capture", p))
        \/ Leave(e) /\ row' \in {row, noted}
    BY <1>4 DEF Handle
  <2>5. Held(At("capture", p), told)
    BY <2>3, OffHeld
  <2>6. row \in Run
    BY DEF TypeInv, TypeOK
  <2> HIDE DEF noted, r, told
  <2> QED BY <1>1, <1>2, <1>3, <2>1, <2>2, <2>3, <2>4, <2>5, <2>6, WriteThenHeld
<1>5. CASE Capture(e)
  <2>1. \/ Assign(e, c, At("seal", p))
        \/ WriteOk(e, c, At("seal", p))
        \/ WriteFails(e, c, At("seal", p))
    BY <1>5 DEF Capture
  <2>2. Held(At("seal", p), c)
    BY <1>1, OffHeld
  <2> QED BY <1>1, <1>2, <2>1, <2>2, AssignHeld, WriteOkHeld, WriteFailsHeld
<1>6. CASE Seal(e)
  <2> DEFINE r == [c EXCEPT !.status = IF @ = "running" THEN "failed" ELSE @]
             ending == CASE r.status = "failed"   -> {"run_failed"}
                          [] r.status = "approved" -> {"run_completed"}
                          [] OTHER                 -> {}
             told == [r EXCEPT !.events = @ \union ending]
  <2>1. /\ r \in Run /\ r.gate = c.gate /\ r.stage = c.stage
        /\ r.tests = c.tests /\ r.status \in {c.status, "failed"}
    BY <1>1 DEF Run, Statuses
  <2>2. ending \subseteq {"run_failed", "run_completed"}
    OBVIOUS
  <2>3. Sealed(r)
    BY <1>1, <2>1, SealedKept DEF Decisions
  <2> HIDE DEF ending, r
  <2>4. told \in Run /\ Sealed(told)
    BY <2>1, <2>2, <2>3, SealedKept DEF Run
  <2>5. Leave(e) /\ row' \in {row, r, told}
    BY <1>6 DEF Seal, ending, r
  <2>6. row \in Run
    BY DEF TypeInv, TypeOK
  <2> HIDE DEF told
  <2> QED BY <1>1, <1>3, <2>1, <2>3, <2>4, <2>5, <2>6
<1> QED BY <1>4, <1>5, <1>6 DEF Close

(* A cancel request writes back what it read, with the flag set.           *)
LEMMA CancelHeld ==
  ASSUME TypeInv, Verdicts, NEW c \in Cancellers, Cancel(c)
  PROVE  Verdicts'
<1>1. Sealed(row) /\ \A d \in Cancellers : Sealed(ccopy[d])
  BY DEF Verdicts
<1>2. Sealed(Created(source))
  BY DEF Sealed, Created, Decisions
<1>3. \A r \in Run : /\ Sealed(r) => Sealed([r EXCEPT !.cancel = TRUE])
                     /\ \A q : Held(q, r) => Held(q, [r EXCEPT !.cancel = TRUE])
  BY DEF Sealed, Held, Run
<1>4. ccopy[c] \in Run /\ row \in Run
  BY DEF TypeInv, TypeOK
<1>5. pc' = pc /\ local' = local
  BY DEF Cancel, CancelLoad, CancelStore, CancelShared, CancelRefused
<1>6. \A d \in Cancellers : Sealed(ccopy'[d])
  BY <1>1, <1>2
     DEF Cancel, CancelLoad, CancelStore, CancelShared, CancelRefused,
         TypeInv, TypeOK
<1>7. Sealed(row')
  BY <1>1, <1>3, <1>4
     DEF Cancel, CancelLoad, CancelStore, CancelShared, CancelRefused
<1>8. ~Durable => row' \in {row, [row EXCEPT !.cancel = TRUE]}
  BY DEF Cancel, CancelLoad, CancelStore, CancelShared, CancelRefused
<1>9. \A e \in Executors : Held(pc[e], Copy(e)')
  BY <1>3, <1>4, <1>5, <1>8 DEF Verdicts, Copy
<1> QED BY <1>5, <1>6, <1>7, <1>9 DEF Verdicts

LEMMA CrashHeld ==
  ASSUME TypeInv, Verdicts, Crash
  PROVE  Verdicts'
<1>1. Sealed(Created(source))
  BY DEF Sealed, Created, Decisions
<1>2. Sealed(row')
  BY DEF Crash, Verdicts, Sealed, TypeInv, TypeOK, Run, Decisions
<1>3. \A c \in Cancellers : Sealed(ccopy'[c])
  BY <1>1 DEF Crash
<1>4. \A r : Sealed(r) => Held(Idle, r)
  BY DEF Held, Idle, At, OnItsWay
<1>5. \A e \in Executors : Held(pc'[e], Copy(e)')
  BY <1>1, <1>2, <1>4 DEF Crash, Copy
<1> QED BY <1>2, <1>3, <1>5 DEF Verdicts

LEMMA NextHeld ==
  ASSUME TypeInv, Verdicts, [Next]_vars
  PROVE  Verdicts'
<1>1. CASE UNCHANGED vars
  BY <1>1 DEF vars, Verdicts, Copy
<1>2. ASSUME NEW e \in Executors, Resume(e) PROVE Verdicts'
  <2>1. row' = row /\ local' = local /\ ccopy' = ccopy
    BY <1>2 DEF Resume
  <2>2. \A f \in Executors : Copy(f)' = Copy(f) /\ Sealed(Copy(f))
    BY <2>1 DEF Copy, Verdicts, Held
  <2>3. Held(At("load", "initializing"), Copy(e))
    BY <2>2, OffHeld
  <2>4. \A f \in Executors : Held(pc'[f], Copy(f))
    BY <1>2, <2>3 DEF Resume, Verdicts, TypeInv, TypeOK
  <2> QED BY <2>1, <2>2, <2>4 DEF Verdicts
<1>3. ASSUME NEW e \in Executors, Execute(e) PROVE Verdicts'
  BY <1>3, StartHeld, WorkHeld, FinishHeld, CloseHeld DEF Execute
<1>4. CASE \E c \in Cancellers : Cancel(c)
  BY <1>4, CancelHeld
<1>5. CASE Crash
  BY <1>5, CrashHeld
<1> QED BY <1>1, <1>2, <1>3, <1>4, <1>5 DEF Next

(* A verdict in the store is the one the quality gate gave to the very     *)
(* copy that was stored, at the end of the pipeline, and a run whose tests *)
(* failed is never stored as better than rejected: whatever concurrent     *)
(* executions, cancel requests, crashes and failing updates overwrite.     *)
THEOREM Verdict == Spec => []VerdictIsTheGates
<1>1. Init => Verdicts
  <2> SUFFICES ASSUME Init PROVE Verdicts
    OBVIOUS
  <2>1. Sealed(Created(source))
    BY DEF Sealed, Created, Decisions
  <2>2. \A e \in Executors :
           /\ pc[e] \in {At("load", "initializing"), Idle}
           /\ Copy(e) = Created(source)
    BY DEF Init, Copy
  <2>3. \A q \in {At("load", "initializing"), Idle} : Held(q, Created(source))
    BY <2>1 DEF Held, Idle, At, OnItsWay
  <2>4. Sealed(row) /\ \A c \in Cancellers : Sealed(ccopy[c])
    BY <2>1 DEF Init
  <2> QED BY <2>2, <2>3, <2>4 DEF Verdicts
<1>2. Verdicts /\ TypeInv /\ [Next]_vars => Verdicts'
  BY NextHeld
<1>3. Verdicts => VerdictIsTheGates
  BY DEF Verdicts, VerdictIsTheGates
<1> QED BY <1>1, <1>2, <1>3, Typing, PTL DEF Spec
-----------------------------------------------------------------------------
(* The promise to the clients of a run, by an execution that is alone.     *)

Alone == Cancellers = {} /\ \A e, f \in Executors : e = f

(* The map never leads back to the beginning, only the gate completes a    *)
(* run, and the stage that follows a stage is work.                        *)
LEMMA MapFacts ==
  /\ \A s \in Stages : \A t : CanTransition(s, t) =>
       t # "initializing" /\ s \notin TerminalStages
  /\ \A s \in Stages : CanTransition(s, "completed") => s = "quality_gate"
  /\ \A s \in WorkStages \ Branching :
       NextStage(s) \in WorkStages \union {"no_stage"}
  /\ \A s \in WorkStages \ {"quality_gate"} : NextStage(s) \in WorkStages
BY DEF CanTransition, Allowed, Forward, Stages, WorkStages, TerminalStages,
       NextStage, Branching, NoStage

LEMMA NothingAhead ==
  ASSUME NEW w, Sane(w), w.status = "running"
  PROVE  Ahead(w, w)
BY DEF Ahead, Sane, Alive, Legal

LEMMA AheadSane ==
  ASSUME NEW w, NEW r, Ahead(w, r)
  PROVE  Sane(r) /\ Alive(r) /\ Ahead(r, r)
BY DEF Ahead, Sane, Alive, Legal

LEMMA MayBecomeSane ==
  ASSUME NEW w, NEW r, Sane(w), MayBecome(w, r)
  PROVE  Sane(r)
BY AheadSane
   DEF MayBecome, Decided, Broken, Settled, Sane, Alive, Decisions

(* Every permitted change of the row is a step of the promise.             *)
LEMMA PromiseStep ==
  ASSUME Sane(row), MayBecome(row, row'), row.stage \in Stages
  PROVE  [Promise!Next]_<<row.status, row.stage>>
<1>1. CASE Ahead(row, row')
  BY <1>1
     DEF Ahead, Alive, Promise!Next, Promise!Proceed, Promise!Live, Legal,
         CanTransition, Allowed, Forward, TerminalStages, Promise!Legal,
         Promise!CanTransition, Promise!Allowed, Promise!Forward,
         Promise!TerminalStages
<1>2. CASE Decided(row, row')
  BY <1>2
     DEF Decided, Decisions, Promise!Next, Promise!Conclude
<1>3. CASE Broken(row, row')
  BY <1>3 DEF Broken, Alive, Promise!Next, Promise!Break, Promise!Live
<1>4. CASE Settled(row, row')
  BY <1>4 DEF Settled
<1>5. CASE Alive(row) /\ row'.status = "failed" /\ row'.stage = row.stage
  BY <1>5 DEF Alive, Promise!Next, Promise!Break, Promise!Live
<1> QED BY <1>1, <1>2, <1>3, <1>4, <1>5 DEF MayBecome

(* What an execution that took its copy somewhere leaves behind.           *)
Kept == OneMoveAhead' /\ MayBecome(row, row')

(* An execution somewhere between the two ends of execute_run is tied to a *)
(* row that is its own copy, and may always write that copy.               *)
LEMMA TiedSelf ==
  ASSUME NEW w, NEW r, NEW q, q.at \in Points \ {"idle", "load"},
         Tied(q, w, r)
  PROVE  Tied(q, r, r) /\ MayBecome(w, r)
<1>1. MayBecome(w, r)
  BY DEF Tied, MayBecome, Underway, OnItsWay, Points
<1>2. Sane(r)
  BY <1>1, MayBecomeSane DEF Tied
<1>3. Settled(r, r)
  BY DEF Settled
<1>4. Underway(q) => Ahead(r, r) /\ (Stored(q) => r.stage = r.stage)
  BY AheadSane DEF Tied
<1>5. q.at \in {"fail", "raised"} => Ahead(r, r) \/ (Settled(r, r) /\ Ended(r))
  <2>1. CASE \E v \in {w} : Ahead(v, r)
    BY <2>1, AheadSane
  <2>2. CASE Decided(w, r) \/ Broken(w, r) \/ Ended(r)
    BY <1>3, <2>2 DEF Decided, Broken, Ended
  <2> QED BY <2>1, <2>2 DEF Tied
<1> QED
  BY <1>1, <1>2, <1>3, <1>4, <1>5 DEF Tied

(* Tied looks at no more of the two than status, stage and decision.       *)
LEMMA TiedLike ==
  ASSUME NEW q, NEW w, NEW r, NEW s, Tied(q, w, r),
         s.status = r.status, s.stage = r.stage, s.gate = r.gate
  PROVE  Tied(q, w, s)
BY DEF Tied, Ahead, Decided, Broken, Settled, Ended

LEMMA KeptStep ==
  ASSUME Alone, TypeInv, OneMoveAhead, NEW e \in Executors, NEW r \in Run,
         NEW next, next.at \in Points \ {"idle", "load"},
         pc' = [pc EXCEPT ![e] = next],
         \/ /\ Durable /\ local' = [local EXCEPT ![e] = r]
            /\ MayBecome(row, row') /\ Tied(next, row', r)
         \/ ~Durable /\ row' = r /\ Tied(next, r, r) /\ MayBecome(row, r)
  PROVE  Kept
<1>1. MayBecome(row, row') /\ Tied(next, row', r)
  OBVIOUS
<1>2. pc'[e] = next /\ Copy(e)' = r
  BY DEF TypeInv, TypeOK, Copy
<1>3. \A f \in Executors : Tied(pc'[f], row', Copy(f)')
  BY <1>1, <1>2 DEF Alone
<1>4. Sane(row')
  BY <1>1 DEF Tied
<1> QED BY <1>1, <1>3, <1>4 DEF Kept, OneMoveAhead

LEMMA AssignKept ==
  ASSUME Alone, TypeInv, OneMoveAhead, NEW e \in Executors, NEW r \in Run,
         NEW next, next.at \in Points \ {"idle", "load"},
         Tied(next, row, r), Assign(e, r, next)
  PROVE  Kept
<1>1. Tied(next, r, r) /\ MayBecome(row, r)
  BY TiedSelf
<1>2. MayBecome(row, row)
  BY DEF MayBecome, Settled
<1> QED BY <1>1, <1>2, KeptStep, StoreAssumption DEF Assign

LEMMA WriteThenKept ==
  ASSUME Alone, TypeInv, OneMoveAhead, NEW e \in Executors, NEW r \in Run,
         NEW after \in Run, NEW next, next.at \in Points \ {"idle", "load"},
         MayBecome(row, r), Tied(next, r, r),
         after.status = r.status, after.stage = r.stage,
         after.gate = r.gate, WriteThen(e, r, after, next)
  PROVE  Kept
<1>1. Tied(next, r, after)
  BY TiedLike
<1>2. Tied(next, after, after)
  BY <1>1, TiedSelf
<1>3. MayBecome(row, after)
  BY DEF MayBecome, Ahead, Decided, Broken, Settled
<1> QED BY <1>1, <1>2, <1>3, KeptStep, StoreAssumption DEF WriteThen

LEMMA WriteOkKept ==
  ASSUME Alone, TypeInv, OneMoveAhead, NEW e \in Executors, NEW r \in Run,
         NEW next, next.at \in Points \ {"idle", "load"},
         MayBecome(row, r), Tied(next, r, r), WriteOk(e, r, next)
  PROVE  Kept
BY WriteThenKept DEF WriteOk

LEMMA WriteFailsKept ==
  ASSUME Alone, TypeInv, OneMoveAhead, NEW e \in Executors, NEW r \in Run,
         NEW next, next.at \in Points \ {"idle", "load"},
         Tied(next, row, r), WriteFails(e, r, next)
  PROVE  Kept
<1>1. MayBecome(row, row)
  BY DEF MayBecome, Settled
<1> QED BY <1>1, KeptStep DEF WriteFails

(* An execution on its way is tied to any row its copy is a move ahead of. *)
LEMMA TiedOnItsWay ==
  ASSUME NEW q, NEW w, NEW r, Sane(w), Ahead(w, r),
         q.at \in OnItsWay \union {"refuse", "give_up"},
         q.at # "decide", q # At("complete", "quality_gate"),
         Stored(q) => r.stage = w.stage
  PROVE  Tied(q, w, r)
BY DEF Tied, OnItsWay

LEMMA TiedStopped ==
  ASSUME NEW w, NEW r, Sane(w),
         \/ Ahead(w, r) \/ Decided(w, r) \/ Broken(w, r)
         \/ (Settled(w, r) /\ Ended(r)),
         NEW a \in {"fail", "raised"}, NEW p
  PROVE  Tied(At(a, p), w, r)
BY DEF Tied, At, Underway, OnItsWay

LEMMA TiedClosing ==
  ASSUME NEW r, Sane(r), NEW a \in {"capture", "seal"}, NEW p
  PROVE  Tied(At(a, p), r, r)
BY DEF Tied, At, Underway, OnItsWay, Settled

(* Where the route and the beginning lead is always on the way.            *)
LEMMA RouteOn ==
  ASSUME NEW p \in Positions, p # "quality_gate", NEW r
  PROVE  Route(p, r).at \in {"enter", "hop"}
BY DEF Route, At

LEMMA BeginOn == ASSUME NEW r PROVE Begin(r).at \in {"enter", "hop"}
BY RouteOn DEF Begin, At, Positions, Stages

LEMMA AfterHopOn ==
  ASSUME NEW p, NEW r, p # "retrieving_context"
  PROVE  /\ AfterHop(p, r).at \in {"enter", "hop", "skip"}
         /\ AfterHop(p, r).at = "skip" => AfterHop(p, r).pos = p
BY RouteOn DEF AfterHop, At, Positions, Stages

(* An execution that just wrote its copy goes on from it.                  *)
LEMMA TiedGoesOn ==
  ASSUME NEW w, NEW r, Ahead(w, r), NEW q,
         \/ q.at \in {"enter", "hop", "skip", "work", "advance"}
         \/ (q.at = "complete" /\ q # At("complete", "quality_gate"))
  PROVE  Tied(q, r, r)
<1>1. Sane(r) /\ Ahead(r, r)
  BY AheadSane
<1>2. q # At("complete", "quality_gate") /\ q.at # "decide"
  BY DEF At
<1>3. q.at \in OnItsWay
  BY DEF OnItsWay
<1> QED BY <1>1, <1>2, <1>3, TiedOnItsWay
-----------------------------------------------------------------------------
LEMMA StartKept ==
  ASSUME Alone, TypeInv, OneMoveAhead, NEW e \in Executors,
         Load(e) \/ Hop(e) \/ Enter(e)
  PROVE  Kept
<1> DEFINE p == pc[e].pos
           c == Copy(e)
<1>1. c \in Run /\ row \in Run /\ Sane(row) /\ Tied(pc[e], row, c)
  BY CopyType DEF TypeInv, TypeOK, OneMoveAhead
<1>2. CASE Load(e)
  <2> DEFINE r == [row EXCEPT !.status = "running"]
  <2>1. Alive(row)
    BY <1>1, <1>2 DEF Load, Tied
  <2>2. r \in Run /\ r.status = "running" /\ r.stage = row.stage
    BY <1>1 DEF Run, Statuses
  <2>3. Ahead(row, r)
    BY <1>1, <2>1, <2>2 DEF Ahead, Sane, Legal
  <2>4. Begin(r).at \in {"enter", "hop"}
    BY BeginOn
  <2>5. Tied(Begin(r), row, r)
    <3> HIDE DEF r
    <3>1. /\ Begin(r) # At("complete", "quality_gate")
          /\ Begin(r).at # "decide" /\ Begin(r).at \in OnItsWay
      BY <2>4 DEF OnItsWay, At
    <3> QED BY <1>1, <2>2, <2>3, <3>1, TiedOnItsWay
  <2>6. Begin(r).at \in Points \ {"idle", "load"}
    BY <2>4 DEF Points
  <2> QED BY <1>2, <2>2, <2>5, <2>6, AssignKept DEF Load
<1>3. CASE Hop(e)
  <2> DEFINE r == [c EXCEPT !.stage = p]
  <2>1. p \in {"acquiring_repository", "analyzing_repository", "reviewing"}
    BY <1>3 DEF Hop, TypeInv, Placed
  <2>2. Ahead(row, c) /\ c.stage = row.stage
    BY <1>1, <1>3 DEF Hop, Tied, Underway, OnItsWay, Stored, At
  <2>3. /\ r \in Run /\ r.status = c.status /\ r.stage = p
    BY <1>1, <2>1 DEF Run, Stages, WorkStages
  <2>4. Tied(At("raised", p), row, c)
    BY <1>1, <2>2, TiedStopped
  <2>5. Legal(c.stage, p) => Ahead(row, r)
    BY <2>1, <2>2, <2>3 DEF Ahead, TerminalStages
  <2>6. Legal(c.stage, p) =>
          /\ MayBecome(row, r) /\ Tied(AfterHop(p, r), r, r)
          /\ Tied(At("raised", p), row, r)
    BY <1>1, <2>1, <2>5, TiedStopped, TiedGoesOn, AfterHopOn DEF MayBecome
  <2>7. /\ AfterHop(p, r).at \in Points \ {"idle", "load"}
        /\ At("raised", p).at \in Points \ {"idle", "load"}
    BY <2>1, AfterHopOn DEF Points, At
  <2>8. \/ Legal(c.stage, p) /\ WriteOk(e, r, AfterHop(p, r))
        \/ Legal(c.stage, p) /\ WriteFails(e, r, At("raised", p))
        \/ Assign(e, c, At("raised", p))
    BY <1>3 DEF Hop
  <2> HIDE DEF r
  <2> QED
    BY <1>1, <2>3, <2>4, <2>6, <2>7, <2>8, WriteOkKept, WriteFailsKept,
       AssignKept
<1>4. CASE Enter(e)
  <2> DEFINE s == StageOf(p)
             r == [c EXCEPT !.stage = s]
             refused == IF p = "retrieving_context" THEN "work" ELSE "raised"
  <2>1. p \in WorkStages \union {"retest"} /\ s \in WorkStages
    BY <1>4, StageOfType DEF Enter, TypeInv, Placed
  <2>2. Ahead(row, c) /\ c.stage = row.stage
    BY <1>1, <1>4 DEF Enter, Tied, Underway, OnItsWay, Stored, At
  <2>3. r \in Run /\ r.status = c.status /\ r.stage = s
    BY <1>1, <2>1 DEF Run, Stages
  <2>4. \A q : Ahead(row, q) => Tied(At(refused, p), row, q)
    <3>1. ASSUME NEW q, Ahead(row, q), p = "retrieving_context"
          PROVE  Tied(At("work", p), row, q)
      BY <1>1, <3>1, TiedOnItsWay DEF At, OnItsWay, Stored
    <3>2. ASSUME NEW q, Ahead(row, q) PROVE Tied(At("raised", p), row, q)
      BY <1>1, <3>2, TiedStopped
    <3> QED BY <3>1, <3>2
  <2>5. Legal(c.stage, s) => Ahead(row, r)
    BY <2>1, <2>2, <2>3 DEF Ahead, WorkStages, TerminalStages
  <2>6. Legal(c.stage, s) =>
          /\ MayBecome(row, r) /\ Tied(At("work", p), r, r)
          /\ Tied(At(refused, p), row, r)
    <3>1. At("work", p).at = "work"
      BY DEF At
    <3> HIDE DEF r, refused
    <3> QED BY <2>4, <2>5, <3>1, TiedGoesOn DEF MayBecome
  <2>7. /\ At("work", p).at \in Points \ {"idle", "load"}
        /\ At(refused, p).at \in Points \ {"idle", "load"}
    BY DEF Points, At
  <2>8. p = "retrieving_context" => refused = "work"
    OBVIOUS
  <2>9. \/ Legal(c.stage, s) /\ WriteOk(e, r, At("work", p))
        \/ Legal(c.stage, s) /\ WriteFails(e, r, At(refused, p))
        \/ Assign(e, c, At(refused, p))
    BY <1>4, <2>8 DEF Enter
  <2> HIDE DEF r, refused
  <2> QED
    BY <1>1, <2>2, <2>3, <2>4, <2>6, <2>7, <2>9, WriteOkKept,
       WriteFailsKept, AssignKept
<1> QED BY <1>2, <1>3, <1>4

(* A service changes neither the status nor the stage.                     *)
LEMMA WorkKept ==
  ASSUME Alone, TypeInv, OneMoveAhead, NEW e \in Executors, Work(e)
  PROVE  Kept
<1> DEFINE p == pc[e].pos
           c == Copy(e)
<1>1. pc[e].at = "work"
  BY DEF Work, Acquire, Analyze, Produce, Retrieve, Validate, Apply,
         RunTests, Repair, Review, Gate, Is, At
<1>2. p \in WorkStages \union {"retest"} /\ c \in Run
  BY <1>1, CopyType DEF TypeInv, Placed
<1>3. Sane(row) /\ Tied(pc[e], row, c)
  BY DEF OneMoveAhead
<1>4. Ahead(row, c) /\ (p # "retrieving_context" => c.stage = row.stage)
  BY <1>1, <1>3 DEF Tied, Underway, OnItsWay, Stored, At
<1> DEFINE Like(r) == r \in Run /\ r.status = c.status /\ r.stage = c.stage
<1>5. ASSUME NEW r, Like(r),
             NEW a \in {"complete", "refuse", "give_up", "save", "bypass",
                        "skip", "fail"},
             a = "complete" => p # "quality_gate",
             a \notin {"complete", "bypass", "skip", "fail"}
               => p # "retrieving_context",
             Assign(e, r, At(a, p))
      PROVE  Kept
  <2>1. Ahead(row, r)
    BY <1>4, <1>5 DEF Ahead
  <2>2. Tied(At(a, p), row, r)
    <3>1. CASE a = "fail"
      BY <1>3, <2>1, <3>1, TiedStopped
    <3>2. CASE a # "fail"
      <4>1. /\ At(a, p).at = a /\ At(a, p).pos = p
            /\ At(a, p) # At("complete", "quality_gate")
        BY <1>5, <3>2 DEF At
      <4>2. Stored(At(a, p)) => r.stage = row.stage
        BY <1>4, <1>5, <3>2, <4>1 DEF Stored
      <4> QED
        BY <1>3, <1>5, <2>1, <3>2, <4>1, <4>2, TiedOnItsWay DEF OnItsWay
    <3> QED BY <3>1, <3>2
  <2>3. At(a, p).at \in Points \ {"idle", "load"}
    BY DEF Points, At
  <2> QED BY <1>5, <2>2, <2>3, AssignKept
<1> HIDE DEF Like
<1>6. Like(c)
  BY <1>2 DEF Like
<1>7. ASSUME Raises(e) PROVE Kept
  <2>1. Like(Caught(p, c))
    BY <1>2, CaughtType DEF Caught, Run, Like
  <2> QED BY <1>5, <1>7, <2>1 DEF Raises, Returns
<1>8. \A a \in Artefacts : Like(With(c, a))
  BY <1>2, WithType DEF With, Run, Like
<1>9. Like([c EXCEPT !.failure = "stage"])
  BY <1>2 DEF Run, Failures, Like
<1>10. \A o \in TestOutcomes : Like([c EXCEPT !.tests = o])
  BY <1>2 DEF Run, Like
<1>11. \A o \in RepairOutcomes : Like([c EXCEPT !.repair = o])
  BY <1>2 DEF Run, Like
<1>12. \A o \in PatchOutcomes : Like([c EXCEPT !.applied = o])
  BY <1>2 DEF Run, Like
<1>13. CASE Acquire(e)
  <2>1. p = "acquiring_repository"
    BY <1>13 DEF Acquire, Is, At
  <2> QED
    BY <1>5, <1>7, <1>8, <1>9, <1>13, <2>1
       DEF Acquire, Returns, Refuses, Artefacts
<1>14. CASE Analyze(e)
  <2>1. p = "analyzing_repository"
    BY <1>14 DEF Analyze, Is, At
  <2> QED
    BY <1>5, <1>6, <1>7, <1>8, <1>14, <2>1
       DEF Analyze, Returns, Refuses, Artefacts
<1>15. CASE Produce(e)
  <2>1. p \in {"analyzing_task", "planning", "coding"}
    BY <1>15 DEF Produce
  <2> QED
    BY <1>5, <1>6, <1>7, <1>8, <1>15, <2>1
       DEF Produce, Returns, Refuses, Artefacts
<1>16. CASE Retrieve(e)
  <2>1. p = "retrieving_context"
    BY <1>16 DEF Retrieve, Is, At
  <2> QED
    BY <1>5, <1>6, <1>8, <1>16, <2>1 DEF Retrieve, Returns, Refuses, Artefacts
<1>17. CASE Validate(e)
  <2>1. p = "validating_patch"
    BY <1>17 DEF Validate, Is, At
  <2> QED
    BY <1>5, <1>6, <1>7, <1>17, <2>1 DEF Validate, Returns, Refuses
<1>18. CASE Apply(e)
  <2>1. p = "applying_patch"
    BY <1>18 DEF Apply, Is, At
  <2> QED BY <1>5, <1>7, <1>12, <1>18, <2>1 DEF Apply
<1>19. CASE RunTests(e)
  <2>1. p \in {"testing", "retest"}
    BY <1>19 DEF RunTests, StageOf
  <2> QED
    BY <1>5, <1>7, <1>10, <1>19, <2>1
       DEF RunTests, Returns, Refuses, TestOutcomes
<1>20. CASE Repair(e)
  <2>1. p = "repairing"
    BY <1>20 DEF Repair, Is, At
  <2> QED
    BY <1>5, <1>6, <1>7, <1>11, <1>20, <2>1
       DEF Repair, Returns, Refuses, RepairOutcomes
<1>21. CASE Review(e)
  <2>1. p = "reviewing"
    BY <1>21 DEF Review, Is, At
  <2> QED
    BY <1>5, <1>7, <1>8, <1>21, <2>1 DEF Review, Returns, Artefacts
<1>22. CASE Gate(e)
  <2>1. p = "quality_gate"
    BY <1>22 DEF Gate, Is, At
  <2>2. ASSUME NEW d \in GateDecisions(c),
               Assign(e, [c EXCEPT !.gate = d], At("decide", p))
        PROVE  Kept
    <3> DEFINE r == [c EXCEPT !.gate = d]
    <3>1. d \in Decisions
      BY DEF GateDecisions, Decisions
    <3>2. r \in Run /\ r.status = c.status /\ r.stage = c.stage /\ r.gate = d
      BY <1>2, <3>1 DEF Run
    <3>3. Ahead(row, r) /\ r.stage = row.stage
      BY <1>4, <2>1, <3>2 DEF Ahead
    <3>4. Tied(At("decide", p), row, r)
      BY <1>3, <3>1, <3>2, <3>3 DEF Tied, At, Underway, OnItsWay
    <3>5. At("decide", p).at \in Points \ {"idle", "load"}
      BY DEF Points, At
    <3> QED BY <2>2, <3>2, <3>4, <3>5, AssignKept
  <2> QED BY <1>7, <1>22, <2>2 DEF Gate, Returns
<1> QED
  BY <1>13, <1>14, <1>15, <1>16, <1>17, <1>18, <1>19, <1>20, <1>21, <1>22
     DEF Work
(* A record, a failure and an event are no news to a client.               *)
LEMMA RecordedLike ==
  ASSUME NEW r \in Run, NEW s \in Stages,
         NEW o \in {"succeeded", "failed", "skipped"}
  PROVE  /\ Recorded(r, s, o) \in Run
         /\ Recorded(r, s, o).status = r.status
         /\ Recorded(r, s, o).stage = r.stage
         /\ Recorded(r, s, o).gate = r.gate
         /\ Recorded(r, s, o).applied = r.applied
         /\ Recorded(r, s, o).has = r.has
<1>1. Recorded(r, s, o) \in Run
  BY RecordedType
<1> QED BY <1>1 DEF Recorded, Run

LEMMA CaughtLike ==
  ASSUME NEW r \in Run, NEW p
  PROVE  /\ Caught(p, r) \in Run
         /\ Caught(p, r).status = r.status /\ Caught(p, r).stage = r.stage
         /\ Caught(p, r).gate = r.gate /\ Caught(p, r).has = r.has
         /\ Caught(p, r).applied = r.applied
<1>1. Caught(p, r) \in Run
  BY CaughtType
<1> QED BY <1>1 DEF Caught, Run

(* The gate's decision is one move ahead of the stage of the gate.         *)
LEMMA DecideKept ==
  ASSUME Alone, TypeInv, OneMoveAhead, NEW e \in Executors, Decide(e)
  PROVE  Kept
<1> DEFINE c == Copy(e)
           d == c.gate
           r == [c EXCEPT !.stage = "completed",
                          !.status = IF d \in Decisions THEN d ELSE "failed"]
           done == At("complete", "quality_gate")
           bad == At("fail", "quality_gate")
<1>1. c \in Run /\ Sane(row) /\ Tied(pc[e], row, c)
  BY CopyType DEF TypeInv, OneMoveAhead
<1>2. pc[e].pos = "quality_gate" /\ pc[e].at = "decide"
  BY DEF Decide, TypeInv, Placed
<1>3. Ahead(row, c) /\ c.stage = row.stage /\ d \in Decisions
  BY <1>1, <1>2 DEF Tied, Underway, OnItsWay, Stored, At
<1>4. r \in Run /\ r.stage = "completed" /\ r.status = d
  BY <1>1, <1>3 DEF Run, Stages, TerminalStages, Statuses, Decisions
<1>5. ASSUME Legal(c.stage, "completed") PROVE Decided(row, r)
  <2>1. c.stage = "quality_gate"
    <3>1. c.stage \in Stages /\ c.stage # "completed"
      BY <1>1, <1>3 DEF Run, Ahead, TerminalStages
    <3> QED BY <1>5, <3>1, MapFacts DEF Legal
  <2>2. row.status = "running"
    BY <1>1, <1>3, <2>1 DEF Ahead, Alive, Sane
  <2> QED BY <1>3, <1>4, <2>1, <2>2 DEF Decided
<1>6. Sane(r) /\ Ended(r) /\ Settled(r, r)
  BY <1>3, <1>4 DEF Sane, Alive, Ended, Settled, Decisions
<1>7. Tied(done, r, r)
  BY <1>6 DEF Tied, At, Underway, OnItsWay
<1>8. Decided(row, r) => MayBecome(row, r) /\ Tied(bad, row, r)
  BY <1>1, TiedStopped DEF MayBecome
<1>9. Tied(bad, row, c)
  BY <1>1, <1>3, TiedStopped
<1>10. /\ done.at \in Points \ {"idle", "load"}
       /\ bad.at \in Points \ {"idle", "load"}
  BY DEF Points, At
<1>11. \/ Legal(c.stage, "completed") /\ WriteOk(e, r, done)
       \/ Legal(c.stage, "completed") /\ WriteFails(e, r, bad)
       \/ Assign(e, c, bad)
  BY DEF Decide
<1> HIDE DEF r, done, bad
<1> QED
  BY <1>1, <1>4, <1>5, <1>7, <1>8, <1>9, <1>10, <1>11, WriteOkKept,
     WriteFailsKept, AssignKept

(* The record of a stage, and the move that follows it.                    *)
LEMMA CompleteKept ==
  ASSUME Alone, TypeInv, OneMoveAhead, NEW e \in Executors, Complete(e)
  PROVE  Kept
<1> DEFINE p == pc[e].pos
           c == Copy(e)
           o == IF p = "retest" /\ c.tests # "passed"
                THEN "failed" ELSE "succeeded"
           r == Recorded(c, StageOf(p), o)
           bad == At(IF p = "retrieving_context" THEN "skip" ELSE "fail", p)
           next == IF p \in Branching THEN Route(p, r) ELSE At("advance", p)
<1>1. c \in Run /\ Sane(row) /\ Tied(pc[e], row, c)
  BY CopyType DEF TypeInv, OneMoveAhead
<1>2. p \in WorkStages \union {"retest"} /\ pc[e] = At("complete", p)
  BY DEF Complete, TypeInv, TypeOK, Placed, At
<1>3. /\ r \in Run /\ r.status = c.status /\ r.stage = c.stage
      /\ r.gate = c.gate
  <2>1. StageOf(p) \in Stages /\ o \in {"succeeded", "failed", "skipped"}
    BY <1>2, StageOfType DEF Stages
  <2> QED BY <1>1, <2>1, RecordedLike
<1> DEFINE caught == Caught(p, r)
<1>4. caught \in Run /\ caught.status = c.status /\ caught.stage = c.stage
  BY <1>3, CaughtLike
<1>5. next.at \in Points \ {"idle", "load"} /\ bad.at \in {"skip", "fail"}
  <2>1. p \in Positions
    BY <1>2 DEF Positions, Stages
  <2>2. CASE p = "quality_gate"
    BY <2>2 DEF Route, At, Points, Branching
  <2>3. CASE p # "quality_gate"
    <3>1. Route(p, r).at \in {"enter", "hop"}
      BY <2>1, <2>3, RouteOn
    <3> QED BY <3>1 DEF At, Points
  <2> QED BY <2>2, <2>3 DEF At
<1>6. bad.at \in Points \ {"idle", "load"}
  BY <1>5 DEF Points
<1>7. WriteOk(e, r, next) \/ WriteFails(e, caught, bad)
  BY DEF Complete, Branching
<1>8. CASE p = "quality_gate"
  <2>1. Settled(row, c) /\ Ended(c)
    BY <1>1, <1>2, <1>8 DEF Tied
  <2>2. MayBecome(row, r) /\ Sane(r)
    BY <1>1, <1>3, <2>1 DEF MayBecome, Settled, Sane, Alive
  <2>3. Tied(next, r, r)
    <3>1. next = At("capture", "quality_gate")
      BY <1>8 DEF Route, Branching
    <3> QED BY <2>2, <3>1, TiedClosing
  <2>4. Tied(bad, row, caught)
    <3>1. bad = At("fail", p)
      BY <1>8
    <3>2. Settled(row, caught) /\ Ended(caught)
      BY <1>4, <2>1 DEF Settled, Ended
    <3> QED BY <1>1, <3>1, <3>2, TiedStopped
  <2> HIDE DEF r, next, bad, caught
  <2> QED
    BY <1>3, <1>4, <1>5, <1>6, <1>7, <2>2, <2>3, <2>4, WriteOkKept,
       WriteFailsKept
<1>9. CASE p # "quality_gate"
  <2>1. Ahead(row, c) /\ (p # "retrieving_context" => c.stage = row.stage)
    BY <1>1, <1>2, <1>9 DEF Tied, Underway, OnItsWay, Stored, At
  <2>2. Ahead(row, r) /\ Ahead(row, caught)
    BY <1>3, <1>4, <2>1 DEF Ahead
  <2>3. Tied(next, r, r)
    <3>1. next.at \in {"enter", "hop", "advance"}
      BY <1>2, <1>9, RouteOn DEF At, Positions, Stages
    <3> QED BY <2>2, <3>1, TiedGoesOn
  <2>4. Tied(bad, row, caught)
    <3>1. CASE p = "retrieving_context"
      <4>1. bad.at = "skip" /\ bad.pos = p
        BY <3>1 DEF At
      <4> QED BY <1>1, <2>2, <3>1, <4>1, TiedOnItsWay DEF OnItsWay, Stored, At
    <3>2. CASE p # "retrieving_context"
      BY <1>1, <2>2, <3>2, TiedStopped
    <3> QED BY <3>1, <3>2
  <2>5. MayBecome(row, r)
    BY <2>2 DEF MayBecome
  <2> HIDE DEF r, next, bad, caught
  <2> QED
    BY <1>3, <1>4, <1>5, <1>6, <1>7, <2>3, <2>4, <2>5, WriteOkKept,
       WriteFailsKept
<1> QED BY <1>8, <1>9

LEMMA AdvanceKept ==
  ASSUME Alone, TypeInv, OneMoveAhead, NEW e \in Executors, Advance(e)
  PROVE  Kept
<1> DEFINE p == pc[e].pos
           c == Copy(e)
           s == NextStage(p)
           r == [c EXCEPT !.stage = s]
           bad == At(IF p = "retrieving_context" THEN "skip" ELSE "fail", p)
<1>1. c \in Run /\ Sane(row) /\ Tied(pc[e], row, c)
  BY CopyType DEF TypeInv, OneMoveAhead
<1>2. p \in WorkStages \ Branching /\ pc[e].at = "advance"
  BY DEF Advance, TypeInv, Placed
<1>3. Ahead(row, c) /\ c.stage = row.stage
  BY <1>1, <1>2 DEF Tied, Underway, OnItsWay, Stored, At
<1>4. s \in WorkStages
  BY <1>2, MapFacts DEF Branching
<1>5. r \in Run /\ r.status = c.status /\ r.stage = s
  BY <1>1, <1>4 DEF Run, Stages
<1>6. Legal(c.stage, s) => Ahead(row, r)
  BY <1>3, <1>4, <1>5 DEF Ahead, WorkStages, TerminalStages
<1>7. ASSUME NEW q \in Run, Ahead(row, q)
      PROVE  Caught(p, q) \in Run /\ Tied(bad, row, Caught(p, q))
  <2>1. Caught(p, q) \in Run /\ Ahead(row, Caught(p, q))
    BY <1>7, CaughtLike DEF Ahead
  <2>2. CASE p = "retrieving_context"
    <3>1. bad.at = "skip" /\ bad.pos = p
      BY <2>2 DEF At
    <3> QED BY <1>1, <2>1, <2>2, <3>1, TiedOnItsWay DEF OnItsWay, Stored, At
  <2>3. CASE p # "retrieving_context"
    BY <1>1, <2>1, <2>3, TiedStopped
  <2> QED BY <2>1, <2>2, <2>3
<1>8. Route(p, r).at \in {"enter", "hop"}
  BY <1>2, RouteOn DEF Positions, Stages, Branching
<1>9. /\ Route(p, r).at \in Points \ {"idle", "load"}
      /\ bad.at \in Points \ {"idle", "load"}
  BY <1>8 DEF Points, At
<1>10. Legal(c.stage, s) => MayBecome(row, r) /\ Tied(Route(p, r), r, r)
  BY <1>6, <1>8, TiedGoesOn DEF MayBecome
<1>11. \/ Legal(c.stage, s) /\ WriteOk(e, r, Route(p, r))
       \/ Legal(c.stage, s) /\ WriteFails(e, Caught(p, r), bad)
       \/ Assign(e, Caught(p, c), bad)
  BY DEF Advance
<1> HIDE DEF r, bad
<1> QED
  BY <1>1, <1>3, <1>5, <1>6, <1>7, <1>9, <1>10, <1>11, WriteOkKept,
     WriteFailsKept, AssignKept
LEMMA FinishKept ==
  ASSUME Alone, TypeInv, OneMoveAhead, NEW e \in Executors, Finish(e)
  PROVE  Kept
<1> DEFINE p == pc[e].pos
           c == Copy(e)
<1>1. c \in Run /\ Sane(row) /\ Tied(pc[e], row, c)
  BY CopyType DEF TypeInv, OneMoveAhead
<1>2. \A a \in Points \ {"idle", "load"} :
         At(a, p).at \in Points \ {"idle", "load"}
  BY DEF At
<1>3. \A q : Ahead(row, q) =>
         MayBecome(row, q) /\ Sane(q)
         /\ \A a \in {"fail", "raised"} : Tied(At(a, p), row, q)
  BY <1>1, AheadSane, TiedStopped DEF MayBecome
<1>4. CASE Save(e)
  <2>1. p \in {"validating_patch", "applying_patch"}
    BY <1>4 DEF Save, TypeInv, Placed
  <2>2. Ahead(row, c)
    BY <1>1, <1>4 DEF Save, Tied, Underway, OnItsWay, At
  <2>3. Tied(At("complete", p), c, c)
    <3>1. /\ At("complete", p).at = "complete"
          /\ At("complete", p) # At("complete", "quality_gate")
      BY <2>1 DEF At
    <3> QED BY <2>2, <3>1, TiedGoesOn
  <2>4. WriteOk(e, c, At("complete", p)) \/ WriteFails(e, c, At("fail", p))
    BY <1>4 DEF Save
  <2>5. "complete" \in Points \ {"idle", "load"}
        /\ "fail" \in Points \ {"idle", "load"}
    BY DEF Points
  <2> QED
    BY <1>1, <1>2, <1>3, <2>2, <2>3, <2>4, <2>5, WriteOkKept, WriteFailsKept
<1>5. CASE Bypass(e) \/ Skip(e)
  <2> DEFINE r == Recorded(c, p, "skipped")
  <2>1. /\ p \in {"acquiring_repository", "retrieving_context", "repairing"}
        /\ pc[e].at = "bypass" => p # "acquiring_repository"
        /\ pc[e].at = "skip" => p # "repairing"
    BY <1>5 DEF Bypass, Skip, TypeInv, Placed
  <2>2. Ahead(row, c)
    BY <1>1, <1>5 DEF Bypass, Skip, Tied, Underway, OnItsWay, At
  <2>3. r \in Run /\ r.status = c.status /\ r.stage = c.stage
    BY <1>1, <2>1, RecordedLike DEF Stages, WorkStages
  <2>4. Ahead(row, r)
    BY <2>2, <2>3 DEF Ahead
  <2>5. Route(p, r).at \in {"enter", "hop"}
    BY <2>1, RouteOn DEF Positions, Stages, WorkStages
  <2>6. Tied(Route(p, r), r, r) /\ Route(p, r).at \in Points \ {"idle", "load"}
    BY <2>4, <2>5, TiedGoesOn DEF Points
  <2>7. p = "retrieving_context" => Tied(At("skip", p), row, r)
    <3>1. /\ At("skip", p).at = "skip" /\ At("skip", p).pos = p
      BY DEF At
    <3> QED BY <1>1, <2>4, <3>1, TiedOnItsWay DEF OnItsWay, Stored, At
  <2>8. \/ WriteOk(e, r, Route(p, r))
        \/ p = "retrieving_context" /\ WriteFails(e, r, At("skip", p))
        \/ \E a \in {"fail", "raised"} : WriteFails(e, r, At(a, p))
    BY <1>5 DEF Bypass, Skip
  <2>9. {"skip", "fail", "raised"} \subseteq Points \ {"idle", "load"}
    BY DEF Points
  <2> HIDE DEF r
  <2> QED
    BY <1>2, <1>3, <2>3, <2>4, <2>6, <2>7, <2>8, <2>9, WriteOkKept,
       WriteFailsKept
<1>6. CASE Refuse(e) \/ Fail(e)
  <2> DEFINE r == Recorded(c, StageOf(p), "failed")
             told == [r EXCEPT !.failure = "stage"]
  <2>1. p \in WorkStages \union {"retest"} /\ pc[e].at \in {"refuse", "fail"}
    BY <1>6 DEF Refuse, Fail, TypeInv, Placed
  <2>2. \/ Ahead(row, c) \/ Decided(row, c) \/ Broken(row, c)
        \/ (Settled(row, c) /\ Ended(c))
    BY <1>1, <2>1 DEF Tied, Underway, At
  <2>3. /\ r \in Run /\ r.status = c.status /\ r.stage = c.stage
        /\ r.gate = c.gate
    <3>1. StageOf(p) \in Stages
      BY <2>1, StageOfType DEF Stages
    <3> QED BY <1>1, <3>1, RecordedLike
  <2>4. /\ told \in Run /\ told.status = r.status /\ told.stage = r.stage
        /\ told.gate = r.gate
    <3> HIDE DEF r
    <3> QED BY <2>3 DEF Run, Failures
  <2>5. \/ Ahead(row, r) \/ Decided(row, r) \/ Broken(row, r)
        \/ (Settled(row, r) /\ Ended(r))
    BY <2>2, <2>3 DEF Ahead, Decided, Broken, Settled, Ended
  <2>6. \/ \E after \in {r, told} : WriteThen(e, r, after, At("capture", p))
        \/ \E a \in {"fail", "raised"} : WriteFails(e, r, At(a, p))
    BY <1>6 DEF Refuse, Fail
  <2>7. {"capture", "fail", "raised"} \subseteq Points \ {"idle", "load"}
    BY DEF Points
  <2> HIDE DEF r, told
  <2>8. MayBecome(row, r) /\ Sane(r)
    BY <1>1, <2>5, MayBecomeSane DEF MayBecome
  <2>9. /\ Tied(At("capture", p), r, r)
        /\ \A a \in {"fail", "raised"} : Tied(At(a, p), row, r)
    BY <1>1, <2>5, <2>8, TiedClosing, TiedStopped
  <2>10. CASE \E after \in {r, told} : WriteThen(e, r, after, At("capture", p))
    BY <1>2, <2>3, <2>4, <2>7, <2>8, <2>9, <2>10, WriteThenKept
  <2>11. CASE \E a \in {"fail", "raised"} : WriteFails(e, r, At(a, p))
    BY <1>2, <2>3, <2>7, <2>9, <2>11, WriteFailsKept
  <2> QED BY <2>6, <2>10, <2>11
<1>7. CASE GiveUp(e)
  <2> DEFINE r == [c EXCEPT !.stage = "failed", !.status = "failed"]
  <2>1. Ahead(row, c)
    BY <1>1, <1>7 DEF GiveUp, Tied, Underway, OnItsWay, At
  <2>2. r \in Run /\ r.status = "failed" /\ r.stage = "failed"
    BY <1>1 DEF Run, Stages, TerminalStages, Statuses
  <2>3. Broken(row, r) /\ Sane(r)
    BY <2>1, <2>2 DEF Broken, Ahead, Sane, Alive
  <2>4. /\ MayBecome(row, r) /\ Tied(At("capture", p), r, r)
        /\ Tied(At("fail", p), row, r)
    BY <1>1, <2>3, TiedClosing, TiedStopped DEF MayBecome
  <2>5. \/ WriteOk(e, r, At("capture", p))
        \/ WriteFails(e, r, At("fail", p))
        \/ Assign(e, c, At("fail", p))
    BY <1>7 DEF GiveUp
  <2>6. "capture" \in Points \ {"idle", "load"}
        /\ "fail" \in Points \ {"idle", "load"}
    BY DEF Points
  <2> HIDE DEF r
  <2> QED
    BY <1>1, <1>2, <1>3, <2>1, <2>2, <2>4, <2>5, <2>6, WriteOkKept,
       WriteFailsKept, AssignKept
<1> QED
  BY <1>4, <1>5, <1>6, <1>7, DecideKept, CompleteKept, AdvanceKept DEF Finish

(* An execution that returns leaves a row the promise allows.              *)
LEMMA LeaveKept ==
  ASSUME Alone, TypeInv, OneMoveAhead, NEW e \in Executors, Leave(e),
         MayBecome(row, row')
  PROVE  Kept
<1>1. Sane(row')
  BY MayBecomeSane DEF OneMoveAhead
<1>2. pc'[e] = Idle
  BY DEF Leave, TypeInv, TypeOK
<1>3. \A r : Tied(Idle, row', r)
  BY <1>1 DEF Tied, Idle, At, Underway, OnItsWay
<1> QED BY <1>1, <1>2, <1>3 DEF Kept, OneMoveAhead, Alone

LEMMA CloseKept ==
  ASSUME Alone, TypeInv, OneMoveAhead, NEW e \in Executors, Close(e)
  PROVE  Kept
<1> DEFINE p == pc[e].pos
           c == Copy(e)
<1>1. c \in Run /\ Sane(row) /\ Tied(pc[e], row, c)
  BY CopyType DEF TypeInv, OneMoveAhead
<1>2. MayBecome(row, row)
  BY DEF MayBecome, Settled
<1>3. \A a \in {"capture", "seal"} : At(a, p).at \in Points \ {"idle", "load"}
  BY DEF At, Points
<1>4. CASE Handle(e)
  <2> DEFINE noted == [c EXCEPT !.failure = "unknown"]
             r == [noted EXCEPT !.stage = "failed", !.status = "failed"]
             told == [r EXCEPT !.events = @ \union {"run_failed"}]
  <2>1. /\ noted \in Run /\ r \in Run /\ told \in Run
        /\ noted.status = c.status /\ noted.stage = c.stage
        /\ r.status = "failed" /\ r.stage = "failed"
        /\ told.status = r.status /\ told.stage = r.stage
        /\ told.gate = r.gate
    BY <1>1 DEF Run, Failures, Stages, TerminalStages, Statuses
  <2>2. \/ Ahead(row, c) \/ Decided(row, c) \/ Broken(row, c)
        \/ (Settled(row, c) /\ Ended(c))
    BY <1>1, <1>4 DEF Handle, Tied
  <2>3. \/ Legal(c.stage, "failed")
             /\ WriteThen(e, r, told, At("capture", p))
        \/ Leave(e) /\ (row' = row \/ (~Durable /\ row' = noted))
    BY <1>4, <2>1 DEF Handle
  <2> HIDE DEF noted, r, told
  <2>4. ASSUME Legal(c.stage, "failed"), WriteThen(e, r, told, At("capture", p))
        PROVE  Kept
    <3>1. MayBecome(row, r)
      <4>1. CASE Ahead(row, c) \/ Broken(row, c)
        BY <2>1, <4>1 DEF MayBecome, Ahead, Broken
      <4>2. CASE Decided(row, c)
        BY <2>4, <4>2
           DEF Decided, Legal, CanTransition, TerminalStages
      <4>3. CASE Settled(row, c) /\ Ended(c)
        <5>1. c.stage = "failed"
          BY <2>4, <4>3 DEF Ended, Legal, CanTransition, TerminalStages
        <5> QED BY <2>1, <4>3, <5>1 DEF MayBecome, Settled, Ended
      <4> QED BY <2>2, <4>1, <4>2, <4>3
    <3>2. Tied(At("capture", p), r, r)
      BY <1>1, <3>1, MayBecomeSane, TiedClosing
    <3> QED BY <1>3, <2>1, <2>4, <3>1, <3>2, WriteThenKept
  <2>5. ASSUME Leave(e), row' = row \/ (~Durable /\ row' = noted) PROVE Kept
    <3>1. ~Durable => c = row
      BY DEF Copy
    <3>2. MayBecome(row, row')
      BY <1>2, <2>1, <2>5, <3>1 DEF MayBecome, Settled
    <3> QED BY <2>5, <3>2, LeaveKept
  <2> QED BY <2>3, <2>4, <2>5
<1>5. CASE Capture(e)
  <2>1. Settled(row, c)
    BY <1>1, <1>5 DEF Capture, Tied
  <2>2. /\ MayBecome(row, c) /\ Tied(At("seal", p), c, c)
        /\ Tied(At("seal", p), row, c)
    <3>1. Sane(c) /\ MayBecome(row, c)
      BY <1>1, <2>1 DEF Settled, Sane, Alive, MayBecome
    <3>2. Tied(At("seal", p), row, row)
      BY <1>1, TiedClosing
    <3>3. Tied(At("seal", p), row, c)
      BY <1>1, <2>1 DEF Tied, At, Underway, OnItsWay
    <3> QED BY <3>1, <3>3, TiedClosing
  <2>3. \/ Assign(e, c, At("seal", p))
        \/ WriteOk(e, c, At("seal", p))
        \/ WriteFails(e, c, At("seal", p))
    BY <1>5 DEF Capture
  <2> QED
    BY <1>1, <1>3, <2>2, <2>3, AssignKept, WriteOkKept, WriteFailsKept
<1>6. CASE Seal(e)
  <2> DEFINE r == [c EXCEPT !.status = IF @ = "running" THEN "failed" ELSE @]
             told == [r EXCEPT !.events = @ \union
                        (CASE r.status = "failed"   -> {"run_failed"}
                           [] r.status = "approved" -> {"run_completed"}
                           [] OTHER                 -> {})]
  <2>1. Settled(row, c)
    BY <1>1, <1>6 DEF Seal, Tied
  <2>2. /\ r.stage = c.stage
        /\ r.status = IF c.status = "running" THEN "failed" ELSE c.status
        /\ told.stage = r.stage /\ told.status = r.status
    BY <1>1 DEF Run
  <2>3. Leave(e) /\ row' \in {row, r, told}
    BY <1>6 DEF Seal
  <2> HIDE DEF r, told
  <2>4. MayBecome(row, row')
    BY <1>2, <2>1, <2>2, <2>3 DEF MayBecome, Settled, Alive
  <2> QED BY <2>3, <2>4, LeaveKept
<1> QED BY <1>4, <1>5, <1>6 DEF Close

LEMMA NextKept ==
  ASSUME Alone, TypeInv, OneMoveAhead, [Next]_vars
  PROVE  Kept
<1>1. MayBecome(row, row)
  BY DEF MayBecome, Settled
<1>2. CASE UNCHANGED vars
  BY <1>1, <1>2 DEF vars, OneMoveAhead, Copy, Kept
<1>3. ASSUME NEW e \in Executors, Resume(e) PROVE Kept
  <2>1. row' = row /\ pc'[e] = At("load", "initializing")
    BY <1>3 DEF Resume, TypeInv, TypeOK
  <2>2. Alive(row) /\ Sane(row)
    BY <1>3 DEF Resume, OneMoveAhead, Alive, TypeInv, TypeOK, Run,
                TerminalStatuses
  <2>3. \A r : Tied(At("load", "initializing"), row, r)
    BY <2>2 DEF Tied, At, Underway, OnItsWay
  <2> QED BY <1>1, <2>1, <2>2, <2>3 DEF Kept, OneMoveAhead, Alone
<1>4. ASSUME NEW e \in Executors, Execute(e) PROVE Kept
  BY <1>4, StartKept, WorkKept, FinishKept, CloseKept DEF Execute
<1>5. CASE \E c \in Cancellers : Cancel(c)
  BY <1>5 DEF Alone
<1>6. CASE Crash
  <2>1. MayBecome(row, row')
    <3>1. CASE row' = row
      BY <1>1, <3>1
    <3>2. CASE row' # row
      <4>1. /\ row.status \notin TerminalStatuses
            /\ row' = [row EXCEPT !.status = "failed", !.failure = "stale"]
        BY <1>6, <3>2 DEF Crash
      <4> QED
        BY <4>1 DEF MayBecome, Alive, TypeInv, TypeOK, Run, TerminalStatuses
    <3> QED BY <3>1, <3>2
  <2>2. Sane(row')
    BY <2>1, MayBecomeSane DEF OneMoveAhead
  <2>3. \A r : Tied(Idle, row', r)
    BY <2>2 DEF Tied, Idle, At, Underway, OnItsWay
  <2>4. \A e \in Executors : pc'[e] = Idle
    BY <1>6 DEF Crash
  <2> QED BY <2>1, <2>2, <2>3, <2>4 DEF Kept, OneMoveAhead
<1> QED BY <1>2, <1>3, <1>4, <1>5, <1>6 DEF Next

(* The refinement: an execution that is alone with its run keeps the       *)
(* promise of RunPromise to those who poll it.  The stage moves one step   *)
(* of the map at a time, verdicts come from the quality gate, the run may  *)
(* fail anywhere, and nothing changes once it ended: through crashes,      *)
(* resumes and failing updates, with either store.                         *)
THEOREM Refinement ==
  ASSUME Alone
  PROVE  Spec => PromiseKept
<1>1. Init => OneMoveAhead /\ Promise!Init
  <2> SUFFICES ASSUME Init PROVE OneMoveAhead /\ Promise!Init
    OBVIOUS
  <2>1. row.status = "pending" /\ row.stage = "initializing"
    BY DEF Init, Created
  <2>2. Sane(row) /\ Alive(row)
    BY <2>1 DEF Sane, Alive, TerminalStages
  <2>3. \A e \in Executors : pc[e] \in {At("load", "initializing"), Idle}
    BY DEF Init
  <2>4. \A r : \A q \in {At("load", "initializing"), Idle} : Tied(q, row, r)
    BY <2>2 DEF Tied, Idle, At, Underway, OnItsWay
  <2> QED BY <2>1, <2>2, <2>3, <2>4 DEF OneMoveAhead, Promise!Init
<1>2. OneMoveAhead /\ TypeInv /\ [Next]_vars
        => OneMoveAhead' /\ [Promise!Next]_<<row.status, row.stage>>
  <2> SUFFICES ASSUME OneMoveAhead, TypeInv, [Next]_vars
               PROVE  OneMoveAhead' /\ [Promise!Next]_<<row.status, row.stage>>
    OBVIOUS
  <2>1. Kept
    BY NextKept
  <2>2. Sane(row) /\ row.stage \in Stages
    BY DEF OneMoveAhead, TypeInv, TypeOK, Run
  <2> QED BY <2>1, <2>2, PromiseStep DEF Kept
<1> QED BY <1>1, <1>2, Typing, PTL DEF Spec, PromiseKept, Promise!Spec
-----------------------------------------------------------------------------
(* What every step of an execution does to the outputs and the stage, on   *)
(* which the two remaining invariants rest.                                *)

(* The copy a step starts from.                                            *)
Base(e) == IF pc[e].at = "load" THEN row ELSE Copy(e)

(* The copy r and the place next can follow: outputs are only added, the   *)
(* stage moves along the map, and a stage is entered for a reason.         *)
Fits(e, r, next) ==
  /\ Base(e).has \subseteq r.has
  /\ Legal(Base(e).stage, r.stage)
  /\ next.at = "enter" /\ next.pos \in Unfinished =>
       Output[next.pos] \notin r.has
  /\ next.at = "enter" /\ next.pos = "applying_patch" =>
       pc[e] = At("advance", "validating_patch")
  /\ next.at = "work" =>
       /\ pc[e] = At("enter", next.pos) /\ r.has = Base(e).has
       /\ next.pos # "retrieving_context" => r.stage = StageOf(next.pos)
  /\ next.at \in OnItsWay \ {"enter", "work"}
          /\ next.pos = "validating_patch" =>
       pc[e].at \in OnItsWay \ {"enter"} /\ pc[e].pos = "validating_patch"
  /\ Is(e, "work", "applying_patch") =>
       r.stage = Base(e).stage /\ next.at \notin {"enter", "work"}

(* The step leaves r in the copy, and in the row or not.                   *)
Stores(e, r, next) ==
  /\ pc' = [pc EXCEPT ![e] = next] /\ cpc' = cpc /\ ccopy' = ccopy
  /\ \/ row'.has = row.has /\ row'.stage = row.stage
     \/ row'.has = r.has /\ row'.stage = r.stage
  /\ next.at \notin {"idle", "load"} =>
       Copy(e)'.has = r.has /\ Copy(e)'.stage = r.stage
  /\ next.at = "work" /\ next.pos # "retrieving_context" =>
       row'.stage = r.stage

Counts(e) ==
  \/ applies' = applies
  \/ Is(e, "work", "applying_patch") /\ applies' = applies + 1

Shaped(e) == \E r, next : Fits(e, r, next) /\ Stores(e, r, next)

LEMMA AssignShaped ==
  ASSUME TypeInv, NEW e \in Executors, NEW r \in Run, NEW next,
         Assign(e, r, next), UNCHANGED <<cpc, ccopy>>, Fits(e, r, next),
         next.at = "work" => next.pos = "retrieving_context"
  PROVE  Shaped(e)
<1>1. Copy(e)' = r
  BY DEF Assign, Copy, TypeInv, TypeOK
<1>2. Stores(e, r, next)
  BY <1>1 DEF Assign, Stores
<1> QED BY <1>2 DEF Shaped

LEMMA WriteThenShaped ==
  ASSUME TypeInv, NEW e \in Executors, NEW r \in Run, NEW after \in Run,
         NEW next, WriteThen(e, r, after, next), UNCHANGED others,
         after.has = r.has, after.stage = r.stage, Fits(e, r, next)
  PROVE  Shaped(e)
<1>1. Copy(e)' = after /\ row' \in {r, after}
  BY DEF WriteThen, Copy, TypeInv, TypeOK
<1>2. Stores(e, r, next)
  BY <1>1 DEF WriteThen, Stores, others
<1> QED BY <1>2 DEF Shaped

LEMMA WriteOkShaped ==
  ASSUME TypeInv, NEW e \in Executors, NEW r \in Run, NEW next,
         WriteOk(e, r, next), UNCHANGED others, Fits(e, r, next)
  PROVE  Shaped(e)
BY WriteThenShaped DEF WriteOk

LEMMA WriteFailsShaped ==
  ASSUME TypeInv, NEW e \in Executors, NEW r \in Run, NEW next,
         WriteFails(e, r, next), UNCHANGED others, Fits(e, r, next),
         next.at = "work" => next.pos = "retrieving_context"
  PROVE  Shaped(e)
<1>1. Copy(e)' = r /\ row' = row
  BY DEF WriteFails, Copy, TypeInv, TypeOK
<1>2. Stores(e, r, next)
  BY <1>1 DEF WriteFails, Stores, others
<1> QED BY <1>2 DEF Shaped

(* Wherever no stage begins, less is asked.                                *)
LEMMA FitsBetween ==
  ASSUME NEW e, NEW r, NEW a, NEW p, a \notin {"enter", "work"},
         Base(e).has \subseteq r.has, Legal(Base(e).stage, r.stage),
         Is(e, "work", "applying_patch") => r.stage = Base(e).stage,
         a \in OnItsWay /\ p = "validating_patch" =>
           pc[e].at \in OnItsWay \ {"enter"} /\ pc[e].pos = "validating_patch"
  PROVE  Fits(e, r, At(a, p))
BY DEF Fits, At

LEMMA FitsOff ==
  ASSUME NEW e, NEW r, NEW p,
         NEW a \in {"refuse", "fail", "give_up", "raised", "capture", "seal",
                    "idle"},
         Base(e).has \subseteq r.has, Legal(Base(e).stage, r.stage),
         Is(e, "work", "applying_patch") => r.stage = Base(e).stage
  PROVE  Fits(e, r, At(a, p))
BY FitsBetween DEF OnItsWay

(* The route asks for a stage only when its output is missing, and for the *)
(* application only after the validation.                                  *)
LEMMA RouteFacts ==
  ASSUME NEW p \in Positions, NEW r
  PROVE  /\ Route(p, r).at \in {"enter", "hop", "capture"}
         /\ Route(p, r).at = "enter" /\ Route(p, r).pos \in Unfinished =>
              Output[Route(p, r).pos] \notin r.has
         /\ Route(p, r).pos = "applying_patch" => p = "validating_patch"
         /\ Route(p, r).at = "hop" => Route(p, r).pos = "reviewing"
<1>1. CASE p \in FromValidation
  BY <1>1 DEF FromValidation, Route, At, Unfinished
<1>2. CASE p \notin FromValidation
  <2>1. Route(p, r) = At("enter", NextMissing(p, r))
    BY <1>2 DEF FromValidation, Route
  <2>2. PICK i \in After(p) : /\ NextMissing(p, r) = Pipeline[i]
                              /\ Missing(Pipeline[i], r)
    BY <1>2, FirstMissing DEF FromValidation
  <2>3. i \in 1 .. 6
    BY DEF After
  <2>4. NextMissing(p, r) # "applying_patch"
    BY <2>2, <2>3 DEF Pipeline
  <2>5. NextMissing(p, r) \in Unfinished =>
          Output[NextMissing(p, r)] \notin r.has
    <3>1. /\ Missing("analyzing_task", r) => "requirements" \notin r.has
          /\ Missing("planning", r) => "plan" \notin r.has
          /\ Missing("coding", r) => "patch" \notin r.has
      BY DEF Missing
    <3>2. Missing(NextMissing(p, r), r)
      BY <2>2
    <3> QED BY <3>1, <3>2 DEF Unfinished, Output
  <2>6. Route(p, r).at = "enter" /\ Route(p, r).pos = NextMissing(p, r)
    BY <2>1 DEF At
  <2> QED BY <2>4, <2>5, <2>6
<1> QED BY <1>1, <1>2

LEMMA FitsRoute ==
  ASSUME NEW e, NEW r, NEW p \in Positions, NEW next,
         next = Route(p, r) \/ next \in {At("enter", "acquiring_repository"),
           At("enter", "reviewing"), At("hop", "acquiring_repository"),
           At("hop", "analyzing_repository")},
         pc[e].at # "work", Base(e).has \subseteq r.has,
         Legal(Base(e).stage, r.stage),
         p = "validating_patch" => pc[e] = At("advance", p)
  PROVE  Fits(e, r, next)
<1>1. /\ next.at \in {"enter", "hop", "capture"}
      /\ next.at = "enter" /\ next.pos \in Unfinished =>
           Output[next.pos] \notin r.has
      /\ next.pos = "applying_patch" => p = "validating_patch"
      /\ next.at = "hop" => next.pos # "validating_patch"
  BY RouteFacts DEF At, Unfinished
<1> QED BY <1>1 DEF Fits, At, Is, OnItsWay
LEMMA StartShaped ==
  ASSUME TypeInv, NEW e \in Executors, Load(e) \/ Hop(e) \/ Enter(e)
  PROVE  Shaped(e)
<1> DEFINE p == pc[e].pos
           c == Copy(e)
<1>1. c \in Run /\ row \in Run /\ "initializing" \in Positions
  BY CopyType DEF TypeInv, TypeOK, Positions, Stages
<1>2. CASE Load(e)
  <2> DEFINE r == [row EXCEPT !.status = "running"]
  <2>1. r \in Run /\ r.has = row.has /\ r.stage = row.stage
    BY <1>1 DEF Run, Statuses
  <2>2. Base(e) = row /\ pc[e].at = "load"
    BY <1>2 DEF Load, Base
  <2>3. Base(e).has \subseteq r.has /\ Legal(Base(e).stage, r.stage)
    BY <2>1, <2>2 DEF Legal
  <2>4. \/ Begin(r) = Route("initializing", r)
        \/ Begin(r) \in {At("enter", "acquiring_repository"),
             At("hop", "acquiring_repository"),
             At("hop", "analyzing_repository")}
    BY DEF Begin
  <2>5. Fits(e, r, Begin(r)) /\ Begin(r).at # "work"
    <3> HIDE DEF r
    <3>1. Begin(r).at # "work"
      BY BeginOn
    <3> QED BY <1>1, <2>2, <2>3, <2>4, <3>1, FitsRoute
  <2> QED BY <1>2, <2>1, <2>5, AssignShaped DEF Load, others
<1>3. CASE Hop(e)
  <2> DEFINE r == [c EXCEPT !.stage = p]
  <2>1. /\ p \in {"acquiring_repository", "analyzing_repository", "reviewing"}
        /\ pc[e].at = "hop" /\ Base(e) = c
    BY <1>3 DEF Hop, TypeInv, Placed, Base
  <2>2. r \in Run /\ r.has = c.has /\ r.stage = p
    BY <1>1, <2>1 DEF Run, Stages, WorkStages
  <2> HIDE DEF r
  <2>3. ASSUME Legal(c.stage, p)
        PROVE  Fits(e, r, AfterHop(p, r)) /\ Fits(e, r, At("raised", p))
    <3>1. Base(e).has \subseteq r.has /\ Legal(Base(e).stage, r.stage)
      BY <2>1, <2>2, <2>3
    <3>2. \/ AfterHop(p, r) = Route("initializing", r)
          \/ AfterHop(p, r) \in {At("enter", "reviewing"),
               At("hop", "analyzing_repository"),
               At("skip", "acquiring_repository")}
      BY <2>1 DEF AfterHop
    <3>3. ~Is(e, "work", "applying_patch")
      BY <2>1 DEF Is, At
    <3>4. Fits(e, r, At("skip", "acquiring_repository"))
      BY <3>1, <3>3, FitsBetween
    <3>5. Fits(e, r, At("raised", p))
      BY <3>1, <3>3, FitsOff
    <3> QED BY <1>1, <2>1, <3>1, <3>2, <3>4, <3>5, FitsRoute
  <2>4. Fits(e, c, At("raised", p))
    <3>1. Legal(Base(e).stage, c.stage) /\ ~Is(e, "work", "applying_patch")
      BY <2>1 DEF Legal, Is, At
    <3> QED BY <2>1, <3>1, FitsOff
  <2>5. UNCHANGED others /\ At("raised", p).at # "work"
    BY <1>3 DEF Hop, At
  <2>6. \/ Legal(c.stage, p) /\ WriteOk(e, r, AfterHop(p, r))
        \/ Legal(c.stage, p) /\ WriteFails(e, r, At("raised", p))
        \/ Assign(e, c, At("raised", p))
    BY <1>3 DEF Hop, r
  <2> QED
    BY <1>1, <2>2, <2>3, <2>4, <2>5, <2>6, WriteOkShaped, WriteFailsShaped,
       AssignShaped DEF others
<1>4. CASE Enter(e)
  <2> DEFINE s == StageOf(p)
             r == [c EXCEPT !.stage = s]
             refused == IF p = "retrieving_context" THEN "work" ELSE "raised"
  <2>1. /\ p \in WorkStages \union {"retest"} /\ s \in WorkStages
        /\ pc[e] = At("enter", p) /\ Base(e) = c
    BY <1>4, StageOfType DEF Enter, TypeInv, TypeOK, Placed, Base, At
  <2>2. r \in Run /\ r.has = c.has /\ r.stage = s
    BY <1>1, <2>1 DEF Run, Stages
  <2>3. ~Is(e, "work", "applying_patch")
    BY <2>1 DEF Is, At
  <2>4. ASSUME NEW q, q.has = c.has, Legal(c.stage, q.stage),
               p # "retrieving_context" => q.stage = s
        PROVE  Fits(e, q, At("work", p))
    BY <2>1, <2>3, <2>4 DEF Fits, At
  <2>5. ASSUME NEW q, q.has = c.has, Legal(c.stage, q.stage)
        PROVE  Fits(e, q, At("raised", p))
    BY <2>1, <2>3, <2>5, FitsOff
  <2>6. Legal(c.stage, c.stage)
    BY DEF Legal
  <2>7. UNCHANGED others
        /\ (At(refused, p).at = "work" => At(refused, p).pos = "retrieving_context")
    BY <1>4 DEF Enter, At
  <2>8. \/ Legal(c.stage, s) /\ WriteOk(e, r, At("work", p))
        \/ Legal(c.stage, s) /\ WriteFails(e, r, At(refused, p))
        \/ Assign(e, c, At(refused, p))
    BY <1>4 DEF Enter
  <2> HIDE DEF r
  <2>9. Fits(e, c, At(refused, p))
    BY <2>4, <2>5, <2>6
  <2>10. Legal(c.stage, s) => Fits(e, r, At(refused, p))
                                /\ Fits(e, r, At("work", p))
    BY <2>2, <2>4, <2>5
  <2> HIDE DEF refused
  <2> QED
    BY <1>1, <2>2, <2>7, <2>8, <2>9, <2>10, WriteOkShaped,
       WriteFailsShaped, AssignShaped DEF others
<1> QED BY <1>2, <1>3, <1>4

LEMMA WorkShaped ==
  ASSUME TypeInv, NEW e \in Executors, Work(e)
  PROVE  Shaped(e)
<1> DEFINE p == pc[e].pos
           c == Copy(e)
<1>1. pc[e].at = "work"
  BY DEF Work, Acquire, Analyze, Produce, Retrieve, Validate, Apply,
         RunTests, Repair, Review, Gate, Is, At
<1>2. c \in Run /\ Base(e) = c
  BY <1>1, CopyType DEF TypeInv, Base
<1> DEFINE More(r) == r \in Run /\ c.has \subseteq r.has /\ r.stage = c.stage
<1>3. ASSUME NEW r, More(r), NEW a, a \notin {"enter", "work"},
             Assign(e, r, At(a, p)), UNCHANGED <<cpc, ccopy>>
      PROVE  Shaped(e)
  <2>1. Legal(c.stage, r.stage)
    BY <1>3 DEF Legal
  <2>2. Fits(e, r, At(a, p))
    BY <1>1, <1>2, <1>3, <2>1, FitsBetween DEF OnItsWay
  <2>3. At(a, p).at # "work"
    BY <1>3 DEF At
  <2> QED BY <1>3, <2>2, <2>3, AssignShaped
<1> HIDE DEF More
<1>4. More(c)
  BY <1>2 DEF More
<1>5. ASSUME Raises(e) PROVE Shaped(e)
  <2>1. More(Caught(p, c))
    BY <1>2, CaughtLike DEF More
  <2> QED BY <1>3, <1>5, <2>1 DEF Raises, Returns, others
<1>6. \A a \in Artefacts : More(With(c, a))
  BY <1>2, WithType DEF With, Run, More
<1>7. More([c EXCEPT !.failure = "stage"])
  BY <1>2 DEF Run, Failures, More
<1>8. \A o \in TestOutcomes : More([c EXCEPT !.tests = o])
  BY <1>2 DEF Run, More
<1>9. \A o \in RepairOutcomes : More([c EXCEPT !.repair = o])
  BY <1>2 DEF Run, More
<1>10. \A o \in PatchOutcomes : More([c EXCEPT !.applied = o])
  BY <1>2 DEF Run, More
<1>11. \A d \in Decisions : More([c EXCEPT !.gate = d])
  BY <1>2 DEF Run, More
<1>12. CASE Acquire(e)
  BY <1>3, <1>5, <1>6, <1>7, <1>12
     DEF Acquire, Returns, Refuses, Artefacts, others
<1>13. CASE Analyze(e)
  BY <1>3, <1>4, <1>5, <1>6, <1>13
     DEF Analyze, Returns, Refuses, Artefacts, others
<1>14. CASE Produce(e)
  BY <1>3, <1>4, <1>5, <1>6, <1>14
     DEF Produce, Returns, Refuses, Artefacts, others
<1>15. CASE Retrieve(e)
  BY <1>3, <1>4, <1>6, <1>15
     DEF Retrieve, Returns, Refuses, Artefacts, others
<1>16. CASE Validate(e)
  BY <1>3, <1>4, <1>5, <1>16 DEF Validate, Returns, Refuses, others
<1>17. CASE Apply(e)
  <2>1. p = "applying_patch"
    BY <1>17 DEF Apply, Is, At
  <2>2. ASSUME NEW o \in PatchOutcomes,
               Assign(e, [c EXCEPT !.applied = o], At("save", p)),
               UNCHANGED <<cpc, ccopy>>
        PROVE  Shaped(e)
    <3> DEFINE r == [c EXCEPT !.applied = o]
    <3>1. More(r)
      BY <1>10
    <3> HIDE DEF r
    <3> QED BY <1>3, <2>2, <3>1 DEF r
  <2> QED BY <1>5, <1>17, <2>1, <2>2 DEF Apply
<1>18. CASE RunTests(e)
  BY <1>3, <1>5, <1>8, <1>18
     DEF RunTests, Returns, Refuses, TestOutcomes, others
<1>19. CASE Repair(e)
  BY <1>3, <1>4, <1>5, <1>9, <1>19
     DEF Repair, Returns, Refuses, RepairOutcomes, others
<1>20. CASE Review(e)
  BY <1>3, <1>5, <1>6, <1>20 DEF Review, Returns, Artefacts, others
<1>21. CASE Gate(e)
  <2>1. ASSUME NEW d \in GateDecisions(c),
               Assign(e, [c EXCEPT !.gate = d], At("decide", p)),
               UNCHANGED <<cpc, ccopy>>
        PROVE  Shaped(e)
    <3> DEFINE r == [c EXCEPT !.gate = d]
    <3>1. d \in Decisions
      BY DEF GateDecisions, Decisions
    <3>2. More(r)
      BY <1>11, <3>1
    <3> HIDE DEF r
    <3> QED BY <1>3, <2>1, <3>2 DEF r
  <2> QED BY <1>5, <1>21, <2>1 DEF Gate, Returns, others
<1> QED
  BY <1>12, <1>13, <1>14, <1>15, <1>16, <1>17, <1>18, <1>19, <1>20, <1>21
     DEF Work
LEMMA FinishShaped ==
  ASSUME TypeInv, NEW e \in Executors, Finish(e)
  PROVE  Shaped(e)
<1> DEFINE p == pc[e].pos
           c == Copy(e)
<1>1. c \in Run /\ pc[e] = At(pc[e].at, p) /\ p \in Positions
  BY CopyType DEF TypeInv, TypeOK, At
<1>2. pc[e].at \notin {"load", "work"} /\ Base(e) = c
  BY DEF Finish, Save, Decide, Complete, Advance, Bypass, Skip, Refuse, Fail,
         GiveUp, Base
<1>3. UNCHANGED others
  BY DEF Finish, Save, Decide, Complete, Advance, Bypass, Skip, Refuse, Fail,
         GiveUp
<1>4. ~Is(e, "work", "applying_patch")
  BY <1>2 DEF Is, At
<1>5. ASSUME NEW r, r.has = c.has, Legal(c.stage, r.stage),
             NEW a \in {"refuse", "fail", "give_up", "raised", "capture"}
      PROVE  Fits(e, r, At(a, p)) /\ At(a, p).at # "work"
  BY <1>2, <1>4, <1>5, FitsOff DEF At
<1>6. ASSUME NEW r, r.has = c.has, Legal(c.stage, r.stage),
             p # "validating_patch", NEW a \in {"advance", "skip", "complete"}
      PROVE  Fits(e, r, At(a, p)) /\ At(a, p).at # "work"
  BY <1>2, <1>4, <1>6, FitsBetween DEF At
<1>7. ASSUME NEW r, r.has = c.has, Legal(c.stage, r.stage),
             p = "validating_patch" => pc[e].at = "advance"
      PROVE  Fits(e, r, Route(p, r))
  BY <1>1, <1>2, <1>7, FitsRoute
<1>8. Legal(c.stage, c.stage)
  BY DEF Legal
<1>9. \A s \in Stages, o \in {"succeeded", "failed", "skipped"} :
         /\ Recorded(c, s, o) \in Run /\ Recorded(c, s, o).has = c.has
         /\ Recorded(c, s, o).stage = c.stage
  BY <1>1, RecordedLike
<1>10. \A r \in Run : /\ Caught(p, r) \in Run /\ Caught(p, r).has = r.has
                      /\ Caught(p, r).stage = r.stage
  BY CaughtLike
<1>11. CASE Save(e)
  <2>1. Fits(e, c, At("complete", p))
    BY <1>2, <1>4, <1>8, <1>11, FitsBetween DEF Save, OnItsWay
  <2> QED
    BY <1>1, <1>3, <1>5, <1>8, <1>11, <2>1, WriteOkShaped, WriteFailsShaped
       DEF Save
<1>12. CASE Decide(e)
  <2> DEFINE d == c.gate
             r == [c EXCEPT !.stage = "completed",
                            !.status = IF d \in Decisions THEN d ELSE "failed"]
  <2>1. r \in Run /\ r.has = c.has /\ r.stage = "completed"
    BY <1>1 DEF Run, Stages, TerminalStages, Statuses, Decisions
  <2>2. p = "quality_gate"
    BY <1>12 DEF Decide, TypeInv, Placed
  <2>3. \/ /\ Legal(c.stage, "completed")
           /\ WriteOk(e, r, At("complete", p)) \/ WriteFails(e, r, At("fail", p))
        \/ Assign(e, c, At("fail", p))
    BY <1>12, <2>2 DEF Decide
  <2> HIDE DEF r
  <2> QED
    BY <1>1, <1>3, <1>5, <1>6, <1>8, <2>1, <2>2, <2>3, WriteOkShaped,
       WriteFailsShaped, AssignShaped DEF others
<1>13. CASE Complete(e)
  <2> DEFINE o == IF p = "retest" /\ c.tests # "passed"
                  THEN "failed" ELSE "succeeded"
             r == Recorded(c, StageOf(p), o)
             bad == At(IF p = "retrieving_context" THEN "skip" ELSE "fail", p)
             next == IF p \in Branching THEN Route(p, r) ELSE At("advance", p)
             caught == Caught(p, r)
  <2>1. p \in WorkStages \union {"retest"} /\ pc[e].at = "complete"
    BY <1>13 DEF Complete, TypeInv, Placed
  <2>2. r \in Run /\ r.has = c.has /\ r.stage = c.stage
    <3>1. StageOf(p) \in Stages /\ o \in {"succeeded", "failed", "skipped"}
      BY <2>1, StageOfType DEF Stages
    <3> QED BY <1>9, <3>1
  <2> HIDE DEF r
  <2>3. caught \in Run /\ caught.has = c.has /\ caught.stage = c.stage
    BY <1>10, <2>2
  <2> HIDE DEF caught
  <2>4. Fits(e, r, next)
    <3>1. CASE p \in Branching
      BY <1>7, <1>8, <2>2, <3>1 DEF Branching
    <3>2. CASE p \notin Branching
      <4>1. Fits(e, r, At("advance", p))
        BY <1>2, <1>4, <1>8, <2>1, <2>2, FitsBetween DEF OnItsWay
      <4> QED BY <3>2, <4>1
    <3> QED BY <3>1, <3>2
  <2>5. Fits(e, caught, bad) /\ bad.at # "work"
    <3>1. CASE p = "retrieving_context"
      BY <1>6, <1>8, <2>3, <3>1
    <3>2. CASE p # "retrieving_context"
      BY <1>5, <1>8, <2>3, <3>2
    <3> QED BY <3>1, <3>2
  <2>6. WriteOk(e, r, next) \/ WriteFails(e, caught, bad)
    BY <1>13 DEF Complete, Branching, r, caught
  <2> HIDE DEF next, bad
  <2> QED
    BY <1>3, <2>2, <2>3, <2>4, <2>5, <2>6, WriteOkShaped, WriteFailsShaped
<1>14. CASE Advance(e)
  <2> DEFINE s == NextStage(p)
             r == [c EXCEPT !.stage = s]
             bad == At(IF p = "retrieving_context" THEN "skip" ELSE "fail", p)
  <2>1. p \in WorkStages \ Branching /\ pc[e].at = "advance"
    BY <1>14 DEF Advance, TypeInv, Placed
  <2>2. r \in Run /\ r.has = c.has /\ r.stage = s
    BY <1>1, <2>1, NextStageType DEF Run, Branching
  <2> HIDE DEF r
  <2>3. ASSUME NEW q \in Run, q.has = c.has, Legal(c.stage, q.stage)
        PROVE  /\ Caught(p, q) \in Run
               /\ Fits(e, Caught(p, q), bad) /\ bad.at # "work"
    <3>1. /\ Caught(p, q) \in Run /\ Caught(p, q).has = c.has
          /\ Legal(c.stage, Caught(p, q).stage)
      BY <1>10, <2>3
    <3>2. CASE p = "retrieving_context"
      BY <1>6, <3>1, <3>2
    <3>3. CASE p # "retrieving_context"
      BY <1>5, <3>1, <3>3
    <3> QED BY <3>1, <3>2, <3>3
  <2>4. Legal(c.stage, s) => Fits(e, r, Route(p, r))
    BY <1>7, <2>1, <2>2
  <2>5. \/ Legal(c.stage, s) /\ WriteOk(e, r, Route(p, r))
        \/ Legal(c.stage, s) /\ WriteFails(e, Caught(p, r), bad)
        \/ Assign(e, Caught(p, c), bad)
    BY <1>14 DEF Advance, r
  <2> HIDE DEF bad
  <2> QED
    BY <1>1, <1>3, <1>8, <2>2, <2>3, <2>4, <2>5, WriteOkShaped,
       WriteFailsShaped, AssignShaped DEF others
<1>15. CASE Bypass(e) \/ Skip(e)
  <2> DEFINE r == Recorded(c, p, "skipped")
  <2>1. p \in {"acquiring_repository", "retrieving_context", "repairing"}
    BY <1>15 DEF Bypass, Skip, TypeInv, Placed
  <2>2. r \in Run /\ r.has = c.has /\ r.stage = c.stage
    BY <1>9, <2>1 DEF Stages, WorkStages
  <2>3. \/ WriteOk(e, r, Route(p, r))
        \/ \E a \in {"skip", "fail", "raised"} : WriteFails(e, r, At(a, p))
    BY <1>15 DEF Bypass, Skip
  <2> HIDE DEF r
  <2>4. Fits(e, r, Route(p, r))
    BY <1>7, <1>8, <2>1, <2>2
  <2>5. \A a \in {"skip", "fail", "raised"} :
           Fits(e, r, At(a, p)) /\ At(a, p).at # "work"
    BY <1>5, <1>6, <1>8, <2>1, <2>2
  <2> QED
    BY <1>3, <2>2, <2>3, <2>4, <2>5, WriteOkShaped, WriteFailsShaped
<1>16. CASE Refuse(e) \/ Fail(e)
  <2> DEFINE r == Recorded(c, StageOf(p), "failed")
             told == [r EXCEPT !.failure = "stage"]
  <2>1. p \in WorkStages \union {"retest"}
    BY <1>16 DEF Refuse, Fail, TypeInv, Placed
  <2>2. r \in Run /\ r.has = c.has /\ r.stage = c.stage
    <3>1. StageOf(p) \in Stages
      BY <2>1, StageOfType DEF Stages
    <3> QED BY <1>9, <3>1
  <2>3. told \in Run /\ told.has = r.has /\ told.stage = r.stage
    <3> HIDE DEF r
    <3> QED BY <2>2 DEF Run, Failures
  <2>4. \/ \E after \in {r, told} : WriteThen(e, r, after, At("capture", p))
        \/ \E a \in {"fail", "raised"} : WriteFails(e, r, At(a, p))
    BY <1>16 DEF Refuse, Fail
  <2> HIDE DEF r, told
  <2>5. \A a \in {"fail", "raised", "capture"} :
           Fits(e, r, At(a, p)) /\ At(a, p).at # "work"
    BY <1>5, <1>8, <2>2
  <2> QED
    BY <1>3, <2>2, <2>3, <2>4, <2>5, WriteThenShaped, WriteFailsShaped
<1>17. CASE GiveUp(e)
  <2> DEFINE r == [c EXCEPT !.stage = "failed", !.status = "failed"]
  <2>1. r \in Run /\ r.has = c.has /\ r.stage = "failed"
    BY <1>1 DEF Run, Stages, TerminalStages, Statuses
  <2>2. \/ /\ Legal(c.stage, "failed")
           /\ WriteOk(e, r, At("capture", p)) \/ WriteFails(e, r, At("fail", p))
        \/ Assign(e, c, At("fail", p))
    BY <1>17 DEF GiveUp
  <2> HIDE DEF r
  <2> QED
    BY <1>1, <1>3, <1>5, <1>8, <2>1, <2>2, WriteOkShaped, WriteFailsShaped,
       AssignShaped DEF others
<1> QED
  BY <1>11, <1>12, <1>13, <1>14, <1>15, <1>16, <1>17 DEF Finish

LEMMA CloseShaped ==
  ASSUME TypeInv, NEW e \in Executors, Close(e)
  PROVE  Shaped(e)
<1> DEFINE p == pc[e].pos
           c == Copy(e)
<1>1. c \in Run /\ pc[e].at \notin {"load", "work"} /\ Base(e) = c
  BY CopyType DEF TypeInv, Close, Handle, Capture, Seal, Base
<1>2. UNCHANGED others /\ ~Is(e, "work", "applying_patch")
  BY <1>1 DEF Close, Handle, Capture, Seal, Is, At
<1>3. ASSUME NEW r, r.has = c.has, Legal(c.stage, r.stage),
             NEW a \in {"capture", "seal", "idle"}, NEW q
      PROVE  Fits(e, r, At(a, q)) /\ At(a, q).at # "work"
  BY <1>1, <1>2, <1>3, FitsOff DEF At
<1>4. Legal(c.stage, c.stage)
  BY DEF Legal
<1>5. ASSUME Leave(e), \/ row' = row
                       \/ row'.has = c.has /\ row'.stage = c.stage
      PROVE  Shaped(e)
  <2>1. Fits(e, c, Idle)
    BY <1>3, <1>4 DEF Idle
  <2>2. Stores(e, c, Idle)
    BY <1>2, <1>5 DEF Stores, Leave, Idle, At, others
  <2> QED BY <2>1, <2>2 DEF Shaped
<1>6. CASE Handle(e)
  <2> DEFINE noted == [c EXCEPT !.failure = "unknown"]
             r == [noted EXCEPT !.stage = "failed", !.status = "failed"]
             told == [r EXCEPT !.events = @ \union {"run_failed"}]
  <2>1. /\ noted.stage = c.stage /\ noted.has = c.has
        /\ r \in Run /\ told \in Run /\ r.has = c.has /\ told.has = r.has
        /\ r.stage = "failed" /\ told.stage = r.stage
    BY <1>1 DEF Run, Failures, Stages, TerminalStages, Statuses
  <2>2. \/ Legal(c.stage, "failed")
             /\ WriteThen(e, r, told, At("capture", p))
        \/ Leave(e) /\ (row' = row \/ row' = noted)
    BY <1>6, <2>1 DEF Handle
  <2> HIDE DEF noted, r, told
  <2> QED BY <1>2, <1>3, <1>5, <2>1, <2>2, WriteThenShaped
<1>7. CASE Capture(e)
  <2>1. \/ Assign(e, c, At("seal", p))
        \/ WriteOk(e, c, At("seal", p))
        \/ WriteFails(e, c, At("seal", p))
    BY <1>7 DEF Capture
  <2> QED
    BY <1>1, <1>2, <1>3, <1>4, <2>1, AssignShaped, WriteOkShaped,
       WriteFailsShaped DEF others
<1>8. CASE Seal(e)
  <2> DEFINE r == [c EXCEPT !.status = IF @ = "running" THEN "failed" ELSE @]
             told == [r EXCEPT !.events = @ \union
                        (CASE r.status = "failed"   -> {"run_failed"}
                           [] r.status = "approved" -> {"run_completed"}
                           [] OTHER                 -> {})]
  <2>1. /\ r.stage = c.stage /\ told.stage = c.stage
        /\ r.has = c.has /\ told.has = c.has
    BY <1>1 DEF Run
  <2>2. Leave(e) /\ row' \in {row, r, told}
    BY <1>8 DEF Seal
  <2> HIDE DEF r, told
  <2> QED BY <1>5, <2>1, <2>2
<1> QED BY <1>6, <1>7, <1>8 DEF Close

LEMMA ExecuteShaped ==
  ASSUME TypeInv, NEW e \in Executors, Execute(e)
  PROVE  Shaped(e) /\ Counts(e)
<1>1. Shaped(e)
  BY StartShaped, WorkShaped, FinishShaped, CloseShaped DEF Execute
<1>2. UNCHANGED others => Counts(e)
  BY DEF others, Counts
<1>3. CASE Apply(e)
  <2>1. CASE Raises(e)
    BY <1>1, <1>2, <2>1 DEF Raises, Returns
  <2>2. CASE ~Raises(e)
    <3>1. /\ applies' \in {applies, applies + 1}
          /\ Is(e, "work", "applying_patch")
      <4>1. PICK o : applies' = applies + (IF o = "applied" THEN 1 ELSE 0)
        BY <1>3, <2>2 DEF Apply
      <4>2. applies \in Nat
        BY DEF TypeInv, TypeOK
      <4> QED BY <1>3, <4>1, <4>2 DEF Apply
    <3> QED BY <1>1, <3>1 DEF Counts
  <2> QED BY <2>1, <2>2
<1>4. CASE Work(e) /\ ~Apply(e)
  <2>1. UNCHANGED others
    BY <1>4 DEF Work, Acquire, Analyze, Produce, Retrieve, Validate, RunTests,
                Repair, Review, Gate, Returns, Refuses, Raises
  <2> QED BY <1>1, <1>2, <2>1
<1>5. CASE ~Work(e)
  <2>1. UNCHANGED others
    BY <1>5 DEF Execute, Load, Hop, Enter, Finish, Save, Decide, Complete,
                Advance, Bypass, Skip, Refuse, Fail, GiveUp, Close, Handle,
                Capture, Seal
  <2> QED BY <1>1, <1>2, <2>1
<1> QED BY <1>3, <1>4, <1>5

(* A cancel request that is alone writes back a row no richer than any.    *)
LEMMA NothingMoreKept ==
  ASSUME \A e, f \in Executors : e = f, \A c, d \in Cancellers : c = d,
         TypeInv, NothingMore, [Next]_vars
  PROVE  NothingMore'
<1>1. CASE UNCHANGED vars
  BY <1>1 DEF vars, NothingMore, Copy
<1>2. ASSUME NEW e \in Executors, Resume(e) PROVE NothingMore'
  <2>1. /\ pc'[e] = At("load", "initializing")
        /\ row' = row /\ cpc' = cpc /\ ccopy' = ccopy
    BY <1>2 DEF Resume, TypeInv, TypeOK
  <2> QED BY <2>1 DEF NothingMore, At
<1>3. ASSUME NEW e \in Executors, Execute(e) PROVE NothingMore'
  <2>1. PICK r, next : Fits(e, r, next) /\ Stores(e, r, next)
    BY <1>3, ExecuteShaped DEF Shaped
  <2>2. pc'[e] = next /\ cpc' = cpc /\ ccopy' = ccopy
    BY <2>1 DEF Stores, TypeInv, TypeOK
  <2>3. row.has \subseteq Base(e).has /\ Base(e).has \subseteq r.has
    <3>1. pc[e].at # "idle"
      BY <1>3
         DEF Execute, Load, Hop, Enter, Work, Acquire, Analyze, Produce,
             Retrieve, Validate, Apply, RunTests, Repair, Review, Gate,
             Finish, Save, Decide, Complete, Advance, Bypass, Skip, Refuse,
             Fail, GiveUp, Close, Handle, Capture, Seal, Is, At
    <3> QED BY <2>1, <3>1 DEF Base, NothingMore, Fits
  <2>4. row.has \subseteq row'.has /\ row'.has \subseteq r.has
    BY <2>1, <2>3 DEF Stores
  <2>5. next.at \notin {"idle", "load"} => Copy(e)'.has = r.has
    BY <2>1 DEF Stores
  <2>6. next.at \in {"enter", "work"} /\ next.pos \in Unfinished =>
          Output[next.pos] \notin r.has
    <3>1. CASE next.at = "enter"
      BY <2>1, <3>1 DEF Fits
    <3>2. CASE next.at = "work"
      <4>1. /\ pc[e].at = "enter" /\ pc[e].pos = next.pos
            /\ r.has = Copy(e).has
        BY <2>1, <3>2 DEF Fits, At, Base
      <4> QED BY <4>1 DEF NothingMore
    <3> QED BY <3>1, <3>2
  <2>7. \A f \in Executors : f = e
    OBVIOUS
  <2>8. \A c \in Cancellers : cpc'[c] = "store" =>
          ccopy'[c].has \subseteq row'.has
    BY <2>2, <2>4 DEF NothingMore
  <2> QED BY <2>2, <2>4, <2>5, <2>6, <2>7, <2>8 DEF NothingMore
<1>4. ASSUME NEW c \in Cancellers, Cancel(c) PROVE NothingMore'
  <2>1. pc' = pc /\ local' = local
    BY <1>4 DEF Cancel, CancelLoad, CancelStore, CancelShared, CancelRefused
  <2>2. row'.has \subseteq row.has
    BY <1>4 DEF Cancel, CancelLoad, CancelStore, CancelShared, CancelRefused,
                NothingMore, TypeInv, TypeOK, Run
  <2>3. cpc'[c] = "store" => ccopy'[c].has \subseteq row'.has
    BY <1>4 DEF Cancel, CancelLoad, CancelStore, CancelShared, CancelRefused,
                TypeInv, TypeOK
  <2>4. \A e \in Executors : Copy(e)'.has = Copy(e).has
    <3>1. ~Durable => row'.has = row.has
      BY <1>4 DEF Cancel, CancelLoad, CancelStore, CancelShared,
                  CancelRefused, TypeInv, TypeOK, Run
    <3> QED BY <2>1, <3>1 DEF Copy
  <2>5. \A d \in Cancellers : d = c
    OBVIOUS
  <2> QED BY <2>1, <2>2, <2>3, <2>4, <2>5 DEF NothingMore
<1>5. CASE Crash
  <2>1. /\ \A e \in Executors : pc'[e] = Idle
        /\ \A c \in Cancellers : cpc'[c] # "store"
    BY <1>5 DEF Crash
  <2> QED BY <2>1 DEF NothingMore, Idle, At
<1> QED BY <1>1, <1>2, <1>3, <1>4, <1>5 DEF Next

(* An execution that is alone with its run and at most one cancel request  *)
(* never works on a stage whose output is already stored: an interrupted   *)
(* and resumed run repeats no analysis, planning or coding, whatever       *)
(* failed in between.                                                      *)
THEOREM NothingRedone ==
  ASSUME \A e, f \in Executors : e = f, \A c, d \in Cancellers : c = d
  PROVE  Spec => []NotRedone
<1>1. Init => NothingMore
  <2> SUFFICES ASSUME Init PROVE NothingMore
    OBVIOUS
  <2>1. /\ \A e \in Executors : pc[e].at \in {"idle", "load"}
        /\ \A c \in Cancellers : cpc[c] = "start"
    BY DEF Init, At, Idle
  <2> QED BY <2>1 DEF NothingMore
<1>2. NothingMore /\ TypeInv /\ [Next]_vars => NothingMore'
  BY NothingMoreKept
<1>3. NothingMore => NotRedone
  <2> SUFFICES ASSUME NothingMore, NEW e \in Executors, NEW s \in Unfinished,
                      Is(e, "work", s)
               PROVE  Output[s] \notin row.has
    BY DEF NotRedone, Unfinished
  <2>1. pc[e].at = "work" /\ pc[e].pos = s
    BY DEF Is, At
  <2> QED BY <2>1 DEF NothingMore
<1> QED BY <1>1, <1>2, <1>3, Typing, PTL DEF Spec
-----------------------------------------------------------------------------
(* From the application on, the map leads no way back.                     *)
LEMMA NoWayBack ==
  ASSUME NEW s \in FromApplication, NEW t, Legal(s, t)
  PROVE  t \in FromApplication
BY DEF FromApplication, Legal, CanTransition, Allowed, Forward, TerminalStages

LEMMA NotAgainKept ==
  ASSUME Alone, TypeInv, NotAgain, [Next]_vars
  PROVE  NotAgain'
<1>1. CASE UNCHANGED vars
  BY <1>1 DEF vars, NotAgain, Is, Copy
<1>2. ASSUME NEW e \in Executors, Resume(e) PROVE NotAgain'
  <2>1. /\ pc'[e] = At("load", "initializing")
        /\ row' = row /\ applies' = applies
    BY <1>2 DEF Resume, TypeInv, TypeOK
  <2> QED BY <2>1 DEF NotAgain, At, Is, Alone
<1>3. ASSUME NEW e \in Executors, Execute(e) PROVE NotAgain'
  <2>1. PICK r, next : Fits(e, r, next) /\ Stores(e, r, next)
    BY <1>3, ExecuteShaped DEF Shaped
  <2>2. pc'[e] = next
    BY <2>1 DEF Stores, TypeInv, TypeOK
  <2>3. /\ row'.stage \in {row.stage, r.stage}
        /\ next.at \notin {"idle", "load"} => Copy(e)'.stage = r.stage
        /\ Legal(Base(e).stage, r.stage)
    BY <2>1 DEF Stores, Fits
  <2>4. \A f \in Executors : f = e
    BY DEF Alone
  <2>5. next = At("work", "applying_patch") =>
          Copy(e)'.stage = "applying_patch" /\ row'.stage = "applying_patch"
    <3> SUFFICES ASSUME next = At("work", "applying_patch")
                 PROVE  Copy(e)'.stage = "applying_patch"
                        /\ row'.stage = "applying_patch"
      OBVIOUS
    <3>1. next.at = "work" /\ next.pos = "applying_patch"
      BY DEF At
    <3>2. r.stage = "applying_patch"
      BY <2>1, <3>1 DEF Fits, StageOf
    <3> QED BY <2>1, <3>1, <3>2 DEF Stores
  <2>6. CASE applies = 1
    <3>1. /\ row.stage \in FromApplication
          /\ Base(e).stage \in FromApplication
          /\ pc[e].at # "load" => Spent(pc[e], Copy(e))
      <4>1. pc[e].at # "idle"
        BY <1>3
           DEF Execute, Load, Hop, Enter, Work, Acquire, Analyze, Produce,
               Retrieve, Validate, Apply, RunTests, Repair, Review, Gate,
               Finish, Save, Decide, Complete, Advance, Bypass, Skip, Refuse,
               Fail, GiveUp, Close, Handle, Capture, Seal, Is, At
      <4> QED BY <2>6, <4>1 DEF NotAgain, Base, Spent
    <3>2. r.stage \in FromApplication /\ row'.stage \in FromApplication
      BY <2>3, <3>1, NoWayBack
    <3>3. applies' = 1
      <4>1. ~Is(e, "work", "applying_patch")
        BY <3>1 DEF Is, At, Spent
      <4> QED BY <1>3, <2>6, <4>1, ExecuteShaped DEF Counts
    <3>4. next.at \in OnItsWay \ {"enter"} => next.pos # "validating_patch"
      <4>1. CASE next.at = "work" /\ next.pos = "validating_patch"
        <5>1. r.stage = "validating_patch"
          BY <2>1, <4>1 DEF Fits, StageOf
        <5> QED BY <3>2, <5>1 DEF FromApplication, TerminalStages
      <4>2. CASE next.at \in OnItsWay \ {"enter", "work"}
                   /\ next.pos = "validating_patch"
        <5>1. pc[e].at \in OnItsWay \ {"enter"} /\ pc[e].pos = "validating_patch"
          BY <2>1, <4>2 DEF Fits
        <5> QED BY <3>1, <5>1 DEF Spent, OnItsWay
      <4> QED BY <4>1, <4>2
    <3>5. next.at \in {"enter", "work"} => next.pos # "applying_patch"
      <4>1. CASE next.at = "enter" /\ next.pos = "applying_patch"
        <5>1. pc[e].at = "advance" /\ pc[e].pos = "validating_patch"
          BY <2>1, <4>1 DEF Fits, At
        <5> QED BY <3>1, <5>1 DEF Spent, OnItsWay
      <4>2. CASE next.at = "work" /\ next.pos = "applying_patch"
        <5>1. pc[e].at = "enter" /\ pc[e].pos = "applying_patch"
          BY <2>1, <4>2 DEF Fits, At
        <5> QED BY <3>1, <5>1 DEF Spent
      <4> QED BY <4>1, <4>2
    <3>6. next.at \notin {"idle", "load"} => Spent(next, Copy(e)')
      BY <2>3, <3>2, <3>4, <3>5 DEF Spent
    <3> QED BY <2>2, <2>4, <2>5, <3>2, <3>3, <3>6 DEF NotAgain, Is
  <2>7. CASE applies = 0
    <3>1. CASE applies' = 0
      BY <2>2, <2>4, <2>5, <3>1 DEF NotAgain, Is
    <3>2. CASE applies' # 0
      <4>1. Is(e, "work", "applying_patch") /\ applies' = 1
        BY <1>3, <2>7, <3>2, ExecuteShaped DEF Counts
      <4>2. /\ pc[e].at = "work" /\ pc[e].pos = "applying_patch"
            /\ Base(e) = Copy(e)
        BY <4>1 DEF Is, At, Base
      <4>3. row.stage = "applying_patch" /\ Copy(e).stage = "applying_patch"
        BY <4>1 DEF NotAgain
      <4>4. r.stage = "applying_patch" /\ next.at \notin {"enter", "work"}
        BY <2>1, <4>1, <4>2, <4>3 DEF Fits
      <4>5. row'.stage \in FromApplication /\ r.stage \in FromApplication
        BY <2>3, <4>3, <4>4 DEF FromApplication
      <4>6. next.at \in OnItsWay \ {"enter"} => next.pos # "validating_patch"
        BY <2>1, <4>2, <4>4 DEF Fits
      <4>7. next.at \notin {"idle", "load"} => Spent(next, Copy(e)')
        BY <2>3, <4>4, <4>5, <4>6 DEF Spent
      <4> QED BY <2>2, <2>4, <2>5, <4>1, <4>5, <4>7 DEF NotAgain, Is
    <3> QED BY <3>1, <3>2
  <2>8. applies \in {0, 1}
    BY DEF NotAgain, TypeInv, TypeOK
  <2> QED BY <2>6, <2>7, <2>8
<1>4. CASE \E c \in Cancellers : Cancel(c)
  BY <1>4 DEF Alone
<1>5. CASE Crash
  <2>1. /\ \A e \in Executors : pc'[e] = Idle
        /\ row'.stage = row.stage /\ applies' = applies
    BY <1>5 DEF Crash, TypeInv, TypeOK, Run
  <2> QED BY <2>1 DEF NotAgain, Idle, At, Is
<1> QED BY <1>1, <1>2, <1>3, <1>4, <1>5 DEF Next

(* However often a run is interrupted and resumed, an execution that is    *)
(* alone with it writes its patch to the workspace at most once: once it   *)
(* is written, no legal move of the stage leads to a validation again.     *)
THEOREM PatchOnce ==
  ASSUME Alone
  PROVE  Spec => []AppliedOnce
<1>1. Init => NotAgain
  <2> SUFFICES ASSUME Init PROVE NotAgain
    OBVIOUS
  <2>1. applies = 0 /\ \A e \in Executors : pc[e].at \in {"idle", "load"}
    BY DEF Init, At, Idle
  <2> QED BY <2>1 DEF NotAgain, Is, At
<1>2. NotAgain /\ TypeInv /\ [Next]_vars => NotAgain'
  BY NotAgainKept
<1>3. NotAgain => AppliedOnce
  BY DEF NotAgain, AppliedOnce
<1> QED BY <1>1, <1>2, <1>3, Typing, PTL DEF Spec
-----------------------------------------------------------------------------
(* The sockets that follow a run.                                          *)

(* What the registry needs of the handlers' states to be inductive.        *)
Registry ==
  /\ at \in [Sockets -> {"new", "read", "greet", "listen", "gone"}]
  /\ listed \subseteq Sockets
  /\ Handled

(* A broadcast only ever removes sockets from the registry.                *)
LEMMA BroadcastShrinks ==
  ASSUME NEW p \in Publishers, Broadcast(p)
  PROVE  listed' \subseteq listed /\ at' = at
<1>1. ASSUME NEW data, NEW targets, Deliver(p, data, targets)
      PROVE  listed' \subseteq listed
  BY <1>1 DEF Deliver
<1>2. CASE Publish(p)
  BY <1>1, <1>2 DEF Publish
<1>3. CASE Send(p)
  BY <1>1, <1>3 DEF Send
<1> QED BY <1>2, <1>3 DEF Broadcast

(* A handler goes on, and removes its socket before it is gone.            *)
LEMMA HandleKeeps ==
  ASSUME Registry, NEW s \in Sockets, HandleSocket(s)
  PROVE  Registry'
<1>1. CASE Read(s)
  BY <1>1 DEF Registry, Handled, Read
<1>2. CASE ReadFails(s)
  BY <1>2 DEF Registry, Handled, ReadFails
<1>3. CASE Greet(s)
  BY <1>3 DEF Registry, Handled, Greet
<1>4. CASE RefuseGoal(s)
  BY <1>4 DEF Registry, Handled, RefuseGoal
<1>5. CASE Disconnect(s)
  BY <1>5 DEF Registry, Handled, Disconnect
<1> QED BY <1>1, <1>2, <1>3, <1>4, <1>5 DEF HandleSocket

(* No subscription is leaked: every listed socket, one that asks for an    *)
(* unknown goal aside, still has the handler that will remove it, whatever *)
(* broadcasts, disconnections and close_all remove meanwhile.              *)
THEOREM NoLeak == FeedSpec => []Handled
<1>1. FeedInit => Registry
  BY DEF FeedInit, Registry, Handled
<1>2. Registry /\ [FeedNext]_feedVars => Registry'
  <2> SUFFICES ASSUME Registry, [FeedNext]_feedVars PROVE Registry'
    OBVIOUS
  <2>1. CASE UNCHANGED feedVars
    BY <2>1 DEF feedVars, Registry, Handled
  <2>2. ASSUME NEW p \in Publishers, Commit(p) \/ Broadcast(p)
        PROVE  Registry'
    BY <2>2, BroadcastShrinks DEF Commit, Registry, Handled
  <2>3. ASSUME NEW s \in Sockets,
               Connect(s) \/ HandleSocket(s) \/ Drop(s) \/ CloseSocket(s)
        PROVE  Registry'
    <3>1. CASE Connect(s)
      BY <3>1 DEF Connect, Registry, Handled
    <3>2. CASE Drop(s) \/ CloseSocket(s)
      BY <3>2 DEF Drop, CloseSocket, Registry, Handled
    <3> QED BY <2>3, <3>1, <3>2, HandleKeeps
  <2>4. CASE CloseAll
    BY <2>4 DEF CloseAll, Registry, Handled
  <2> QED BY <2>1, <2>2, <2>3, <2>4 DEF FeedNext
<1>3. Registry => Handled
  BY DEF Registry
<1> QED BY <1>1, <1>2, <1>3, PTL DEF FeedSpec
=============================================================================
