--------------------------- MODULE RunRecordProofs ---------------------------
(***************************************************************************)
(* Proofs about RunRecord for any number of lost writes, crashes, edits    *)
(* and replays: what agents are shown, what the tables say, and that the   *)
(* gate's decision can be had again.                                       *)
(***************************************************************************)
EXTENDS RunRecord, TLAPS, FiniteSetTheorems, SequenceTheorems

----------------------------------------------------------------------------
(* Handoffs.                                                               *)
LEMMA NewTyped ==
  ASSUME NEW id \in HandoffIds, NEW words \in SUBSET Words,
         NEW symbols \in {"none", "patch", "other"}
  PROVE  NewHandoff(id, words, symbols) \in AgentHandoff
BY DEF NewHandoff, AgentHandoff, HandoffStatus, Verdicts

LEMMA VerdictsTyped ==
  ASSUME NEW h, NEW patched, NEW tests
  PROVE  SymbolVerdict(h, patched) \in Verdicts /\ ClaimVerdict(h, tests) \in Verdicts
BY DEF SymbolVerdict, ClaimVerdict, Verdicts

(* A judgement keeps what a handoff is and says, and rejects what the      *)
(* tests deny.                                                             *)
SameHandoff(g, h) == g.id = h.id /\ g.words = h.words /\ g.symbols = h.symbols

LEMMA ValidateTyped ==
  ASSUME NEW h \in AgentHandoff, NEW patched, NEW tests
  PROVE  /\ ValidateHandoff(h, patched, tests) \in AgentHandoff
         /\ SameHandoff(ValidateHandoff(h, patched, tests), h)
         /\ ~ValidateHandoff(h, patched, tests).conflict
         /\ ClaimVerdict(h, tests) = "rejected" =>
              ValidateHandoff(h, patched, tests).status = "rejected"
<1> DEFINE s == SymbolVerdict(h, patched)
           c == ClaimVerdict(h, tests)
           status == IF "rejected" \in {s, c} THEN "rejected"
                     ELSE IF "validated" \in {s, c} THEN "partial" ELSE "unverified"
<1>1. s \in Verdicts /\ c \in Verdicts BY VerdictsTyped
<1>2. status \in HandoffStatus BY DEF HandoffStatus
<1>3. ValidateHandoff(h, patched, tests)
        = [h EXCEPT !.symbol = s, !.claim = c, !.conflict = FALSE, !.status = status]
  BY DEF ValidateHandoff
<1>4. c = "rejected" => status = "rejected" OBVIOUS
<1> HIDE DEF s, status
<1>5. QED BY <1>1, <1>2, <1>3, <1>4 DEF AgentHandoff, SameHandoff

LEMMA JudgedTyped ==
  ASSUME NEW h \in AgentHandoff, NEW patched, NEW tests
  PROVE  /\ Judged(h, patched, tests) \in AgentHandoff
         /\ SameHandoff(Judged(h, patched, tests), h)
         /\ ClaimVerdict(h, tests) = "rejected" => Judged(h, patched, tests).status = "rejected"
         /\ ~Judged(h, patched, tests).conflict =>
              Judged(h, patched, tests) = ValidateHandoff(h, patched, tests)
<1> DEFINE v == ValidateHandoff(h, patched, tests)
<1>1. /\ v \in AgentHandoff /\ SameHandoff(v, h)
      /\ ClaimVerdict(h, tests) = "rejected" => v.status = "rejected"
  BY ValidateTyped
<1> HIDE DEF v
<1>2. Judged(h, patched, tests) = v
      \/ Judged(h, patched, tests) = [v EXCEPT !.status = "rejected", !.conflict = TRUE]
  BY DEF Judged, DetectConflicts, v
<1>3. [v EXCEPT !.status = "rejected", !.conflict = TRUE] \in AgentHandoff
      /\ SameHandoff([v EXCEPT !.status = "rejected", !.conflict = TRUE], h)
      /\ [v EXCEPT !.status = "rejected", !.conflict = TRUE].conflict
      /\ [v EXCEPT !.status = "rejected", !.conflict = TRUE].status = "rejected"
  BY <1>1 DEF AgentHandoff, HandoffStatus, SameHandoff
<1>4. QED BY <1>1, <1>2, <1>3 DEF v

(* What a handoff that is not rejected says of the tests is not denied by  *)
(* them.                                                                   *)
Fits(h, tests) ==
  h.status # "rejected" =>
    /\ "pass" \in h.words => tests # "failed"
    /\ h.words \intersect {"pass", "fail"} = {"fail"} => tests # "passed"

LEMMA JudgedFits ==
  ASSUME NEW h \in AgentHandoff, NEW patched, NEW tests \in {"passed", "failed"}
  PROVE  Fits(Judged(h, patched, tests), tests)
<1>1. SameHandoff(Judged(h, patched, tests), h)
      /\ (ClaimVerdict(h, tests) = "rejected" => Judged(h, patched, tests).status = "rejected")
  BY JudgedTyped
<1>2. "pass" \in h.words /\ tests = "failed" => ClaimVerdict(h, tests) = "rejected"
  BY DEF ClaimVerdict
<1>3. h.words \intersect {"pass", "fail"} = {"fail"} =>
        "pass" \notin h.words /\ "fail" \in h.words
  OBVIOUS
<1>4. h.words \intersect {"pass", "fail"} = {"fail"} /\ tests = "passed" =>
        ClaimVerdict(h, tests) = "rejected"
  BY <1>3 DEF ClaimVerdict
<1>5. QED BY <1>1, <1>2, <1>4 DEF Fits, SameHandoff

(* With every write arrived the row says what the process says.            *)
LEMMA WrittenIsJudged ==
  ASSUME NEW h \in AgentHandoff, NEW old
  PROVE  Written(h, old, {}) = Judged(h, run.patch # "none", run.tests)
BY JudgedTyped DEF Written

----------------------------------------------------------------------------
(* Types.                                                                  *)
LEMMA StageNames ==
  {"planning", "coding", "validating_patch", "applying_patch",
   "testing", "repairing", "reviewing", "quality_gate"} \subseteq ToSet(Linear)
<1>1. DOMAIN Linear = 1 .. 8 BY DEF Linear
<1>2. \A i \in 1 .. 8 : Linear[i] \in ToSet(Linear) BY <1>1 DEF ToSet
<1>3. /\ Linear[1] = "planning" /\ Linear[2] = "coding" /\ Linear[3] = "validating_patch"
      /\ Linear[4] = "applying_patch" /\ Linear[5] = "testing" /\ Linear[6] = "repairing"
      /\ Linear[7] = "reviewing" /\ Linear[8] = "quality_gate"
  BY DEF Linear
<1>4. QED BY <1>2, <1>3

LEMMA StagedTyped ==
  ASSUME NEW r \in Run, NEW s \in ToSet(Linear)
  PROVE  /\ Staged(r, s) \in Run
         /\ Staged(r, s).tests = r.tests /\ Staged(r, s).gate = r.gate
         /\ Staged(r, s).status = r.status /\ Staged(r, s).report = r.report
         /\ Staged(r, s).repair = r.repair
<1>1. Append(r.stages, s) \in Seq(ToSet(Linear)) BY DEF Run
<1>2. QED BY <1>1 DEF Staged, Run

LEMMA LoseTyped ==
  ASSUME TypeOK, NEW n \in Nat, Lose(n)
  PROVE  faults' \in Nat /\ (faults' = 0 => n = 0 /\ faults = 0)
BY DEF TypeOK, Lose

LEMMA AppendTyped ==
  ASSUME NEW list \in Seq(AgentHandoff), NEW h \in AgentHandoff
  PROVE  /\ Append(list, h) \in Seq(AgentHandoff)
         /\ \A lost \in BOOLEAN : Inserted(list, h, lost) \in Seq(AgentHandoff)
BY DEF Inserted

LEMMA ElementTyped ==
  ASSUME NEW list \in Seq(AgentHandoff), NEW i \in DOMAIN list
  PROVE  list[i] \in AgentHandoff /\ list[i].id \in HandoffIds
<1>1. list[i] \in AgentHandoff OBVIOUS
<1>2. QED BY <1>1 DEF AgentHandoff

LEMMA TellTypes ==
  ASSUME TypeOK, NEW id \in HandoffIds, NEW words \in SUBSET Words,
         NEW symbols \in {"none", "patch", "other"}, NEW next \in Points,
         Tell(id, words, symbols, next)
  PROVE  TypeOK'
<1>1. UNCHANGED <<run, held, contradictions, consensus, memories, shown, audit>> BY DEF Tell
<1>2. faults' \in Nat /\ restarts' \in Nat BY LoseTyped DEF Tell, TypeOK
<1>3. mirror' \in Seq(AgentHandoff) /\ rows' \in Seq(AgentHandoff)
  <2>1. NewHandoff(id, words, symbols) \in AgentHandoff BY NewTyped
  <2>2. mirror \in Seq(AgentHandoff) /\ rows \in Seq(AgentHandoff) BY DEF TypeOK, HandoffRow
  <2>3. CASE mirror' = <<>> /\ rows' = rows BY <2>2, <2>3
  <2>4. CASE \E lost \in BOOLEAN : /\ mirror' = Append(mirror, NewHandoff(id, words, symbols))
                                   /\ rows' = Inserted(rows, NewHandoff(id, words, symbols), lost)
    BY <2>1, <2>2, <2>4, AppendTyped
  <2>5. QED BY <2>3, <2>4 DEF Tell
<1>4. at' \in Points BY DEF Tell, Goto, Points
<1>5. QED BY <1>1, <1>2, <1>3, <1>4 DEF TypeOK, audit, HandoffRow, Engine

LEMMA StageTypes ==
  ASSUME TypeOK, NEW s \in ToSet(Linear), NEW r \in Run, NEW next \in Points,
         Stage(s, r, next)
  PROVE  TypeOK'
<1>1. UNCHANGED <<records, shown, audit, faults, restarts>> BY DEF Stage
<1>2. run' \in Run BY StagedTyped DEF Stage, TypeOK
<1>3. at' \in Points BY DEF Stage, Goto, Points
<1>4. QED BY <1>1, <1>2, <1>3 DEF TypeOK, records, audit, Engine

(* Writes that are lost are finitely many.                                 *)
LEMMA LostCounted ==
  ASSUME NEW lost \in LostWrites
  PROVE  Cardinality(lost) \in Nat /\ (Cardinality(lost) = 0 => lost = {})
<1>1. lost = {} \/ \E w : lost = {w} BY DEF LostWrites
<1>2. CASE lost = {}
  <2>1. Cardinality({}) = 0 BY FS_EmptySet
  <2>2. QED BY <1>2, <2>1
<1>3. CASE \E w : lost = {w}
  <2>1. PICK w : lost = {w} BY <1>3
  <2>2. Cardinality({w}) = 1 BY FS_Singleton
  <2>3. QED BY <2>1, <2>2
<1>4. QED BY <1>1, <1>2, <1>3

LEMMA WrittenTyped ==
  ASSUME NEW h \in AgentHandoff, NEW old \in AgentHandoff, NEW lost
  PROVE  Written(h, old, lost) \in AgentHandoff
BY JudgedTyped, ValidateTyped DEF Written

LEMMA JudgeTypes ==
  ASSUME TypeOK, NEW next \in Points, Judge(next)
  PROVE  TypeOK'
<1>1. UNCHANGED <<run, held, contradictions, consensus, memories, shown, audit, restarts>>
  BY DEF Judge
<1>2. PICK lost \in LostWrites :
        Lose(Cardinality(lost)) /\ mirror' = JudgedMirror /\ rows' = JudgedRows(lost)
  BY DEF Judge
<1>3. faults' \in Nat BY <1>2, LostCounted, LoseTyped
<1>4. mirror \in Seq(AgentHandoff) /\ rows \in Seq(AgentHandoff) BY DEF TypeOK, HandoffRow
<1>5. JudgedMirror \in [1 .. Len(mirror) -> AgentHandoff]
  BY <1>4, JudgedTyped DEF JudgedMirror
<1>6. ListHandoffs(mirror, rows) \in Seq(AgentHandoff) BY <1>4 DEF ListHandoffs
<1>7. JudgedRows(lost) \in [1 .. Len(rows) -> AgentHandoff]
  <2> DEFINE list == ListHandoffs(mirror, rows)
             mine(i) == {j \in DOMAIN list : list[j].id = rows[i].id}
             row(i) == IF mine(i) = {} THEN rows[i]
                       ELSE Written(list[CHOOSE j \in mine(i) : TRUE], rows[i], lost)
  <2>1. DOMAIN rows = 1 .. Len(rows) BY <1>4
  <2>2. \A i \in 1 .. Len(rows) : row(i) \in AgentHandoff
    <3>1. TAKE i \in 1 .. Len(rows)
    <3>2. rows[i] \in AgentHandoff BY <1>4, <2>1
    <3>3. ASSUME mine(i) # {} PROVE list[CHOOSE j \in mine(i) : TRUE] \in AgentHandoff
      <4>1. (CHOOSE j \in mine(i) : TRUE) \in mine(i) BY <3>3
      <4> DEFINE j == CHOOSE j \in mine(i) : TRUE
      <4>2. j \in DOMAIN list BY <4>1
      <4> HIDE DEF j
      <4>3. list[j] \in AgentHandoff BY <1>6, <4>2
      <4>4. QED BY <4>3 DEF j
    <3> HIDE DEF mine, list
    <3>4. QED BY <3>2, <3>3, WrittenTyped
  <2>3. JudgedRows(lost) = [i \in DOMAIN rows |-> row(i)] BY DEF JudgedRows
  <2> HIDE DEF row
  <2>4. QED BY <2>1, <2>2, <2>3
<1>8. mirror' \in Seq(AgentHandoff) /\ rows' \in Seq(AgentHandoff)
  <2>1. Len(mirror) \in Nat /\ Len(rows) \in Nat BY <1>4
  <2>2. QED BY <1>2, <1>5, <1>7, <2>1
<1>9. at' \in Points BY DEF Judge, Goto
<1>10. QED BY <1>1, <1>3, <1>8, <1>9 DEF TypeOK, audit, HandoffRow, Engine

LEMMA ListTyped ==
  ASSUME TypeOK
  PROVE  ListHandoffs(mirror, rows) \in Seq(AgentHandoff)
BY DEF TypeOK, HandoffRow, ListHandoffs

LEMMA ContextTyped ==
  ASSUME TypeOK, NEW agent
  PROVE  Context(agent) \in [tests : TestOutcome, handoffs : SUBSET AgentHandoff]
<1> DEFINE list == ListHandoffs(mirror, rows)
<1>1. list \in Seq(AgentHandoff) BY ListTyped
<1> HIDE DEF list
<1>2. RetrieveRelevantHandoffs(list, agent, Limit) \subseteq AgentHandoff
  BY <1>1, ElementTyped DEF RetrieveRelevantHandoffs
<1>3. run.tests \in TestOutcome BY DEF TypeOK, Run
<1>4. QED BY <1>2, <1>3 DEF Context, list

(* A test stage goes on or ends the run, with the outcome it had.          *)
LEMMA TestsStage ==
  ASSUME NEW next, RunTests(next)
  PROVE  \E t \in {<<"passed", FALSE>>, <<"failed", TRUE>>, <<"failed", FALSE>>},
            p \in {next, "finalize"} :
           Stage("testing", [run EXCEPT !.tests = t[1], !.failures = t[2]], p)
<1>1. CASE \E t \in {<<"passed", FALSE>>, <<"failed", TRUE>>, <<"failed", FALSE>>} :
             Stage("testing", [run EXCEPT !.tests = t[1], !.failures = t[2]], next)
  BY <1>1
<1>2. CASE Stage("testing", [run EXCEPT !.tests = "failed", !.failures = FALSE], "finalize")
  <2> DEFINE t == <<"failed", FALSE>>
  <2>1. t[1] = "failed" /\ t[2] = FALSE OBVIOUS
  <2>2. Stage("testing", [run EXCEPT !.tests = t[1], !.failures = t[2]], "finalize") BY <1>2
  <2>3. QED BY <2>2
<1>3. QED BY <1>1, <1>2 DEF RunTests

(* A stage of execute_run that makes no handoff.                           *)
LEMMA PipelineTypes ==
  ASSUME TypeOK, Planning \/ Coding \/ Testing \/ Retesting \/ Repairing
  PROVE  TypeOK'
<1>1. CASE Planning
  <2>1. [run EXCEPT !.plan = TRUE] \in Run BY DEF TypeOK, Run
  <2>2. QED BY <1>1, <2>1, StageTypes, StageNames DEF Planning, Points
<1>2. CASE Coding
  <2>1. PICK p \in {"sound", "malformed"} : Stage("coding", [run EXCEPT !.patch = p], "tell_code")
    BY <1>2 DEF Coding
  <2>2. [run EXCEPT !.patch = p] \in Run BY DEF TypeOK, Run
  <2>3. QED BY <2>1, <2>2, StageTypes, StageNames DEF Points
<1>3. ASSUME NEW next \in Points, RunTests(next) PROVE TypeOK'
  <2>1. PICK t \in {<<"passed", FALSE>>, <<"failed", TRUE>>, <<"failed", FALSE>>},
             p \in {next, "finalize"} :
          Stage("testing", [run EXCEPT !.tests = t[1], !.failures = t[2]], p)
    BY <1>3, TestsStage
  <2>2. t[1] \in {"passed", "failed"} /\ t[2] \in BOOLEAN
    <3>1. t = <<"passed", FALSE>> \/ t = <<"failed", TRUE>> \/ t = <<"failed", FALSE>>
      OBVIOUS
    <3>2. CASE t = <<"passed", FALSE>> BY <3>2
    <3>3. CASE t = <<"failed", TRUE>> BY <3>3
    <3>4. CASE t = <<"failed", FALSE>> BY <3>4
    <3>5. QED BY <3>1, <3>2, <3>3, <3>4
  <2>3. [run EXCEPT !.tests = t[1], !.failures = t[2]] \in Run
    BY <2>2 DEF TypeOK, Run, TestOutcome
  <2>4. p \in Points BY <1>3, <2>1 DEF Points
  <2>5. QED BY <2>1, <2>3, <2>4, StageTypes, StageNames
<1>4. CASE Testing BY <1>3, <1>4 DEF Testing, Points
<1>5. CASE Retesting BY <1>3, <1>5 DEF Retesting, Points
<1>6. CASE Repairing
  <2>1. PICK o \in {"fixed", "stuck", "idle", "unsafe"} :
          Stage("repairing", [run EXCEPT !.repair = o], "tell_repair")
    BY <1>6 DEF Repairing
  <2>2. [run EXCEPT !.repair = o] \in Run BY DEF TypeOK, Run
  <2>3. QED BY <2>1, <2>2, StageTypes, StageNames DEF Points
<1>7. QED BY <1>1, <1>2, <1>4, <1>5, <1>6

(* The handoffs of execute_run, by the place they are made.                *)
LEMMA RepairWordsTyped == RepairWords \in SUBSET Words
BY DEF RepairWords, Words

LEMMA TellingTypes ==
  ASSUME TypeOK, TellPlan \/ TellCode \/ TellPassed \/ TellRetested \/ TellFailing
                 \/ TellRepair \/ TellReview
  PROVE  TypeOK'
<1>1. HandoffIds = {"plan", "code", "failing", "repaired", "passed", "retested", "reviewed"}
  BY DEF HandoffIds, Handoffs
<1>2. CASE TellPlan
  <2>1. PICK words \in {{"ready"}, {"ready", "pass"}} : Tell("plan", words, "none", "coding")
    BY <1>2 DEF TellPlan
  <2>2. words \in SUBSET Words BY DEF Words
  <2>3. QED BY <1>1, <2>1, <2>2, TellTypes DEF Points
<1>3. CASE TellFailing
  <2>1. PICK symbols \in {"patch", "other"} : Tell("failing", {"fail"}, symbols, "repairing")
    BY <1>3 DEF TellFailing
  <2>2. {"fail"} \in SUBSET Words BY DEF Words
  <2>3. QED BY <1>1, <2>1, <2>2, TellTypes DEF Points
<1>4. CASE TellRepair
  <2>1. (CASE run.repair = "unsafe" -> "finalize"
           [] run.repair = "idle"   -> "reviewing"
           [] OTHER                 -> "retesting") \in Points
    BY DEF Points
  <2>2. QED BY <1>1, <1>4, <2>1, RepairWordsTyped, TellTypes DEF TellRepair
<1>5. CASE TellCode
  <2>1. {"done"} \in SUBSET Words BY DEF Words
  <2>2. QED BY <1>1, <1>5, <2>1, TellTypes DEF TellCode, Points
<1>6. CASE TellPassed \/ TellRetested
  <2>1. {"pass"} \in SUBSET Words BY DEF Words
  <2>2. QED BY <1>1, <1>6, <2>1, TellTypes DEF TellPassed, TellRetested, Points
<1>7. CASE TellReview
  <2>1. {} \in SUBSET Words OBVIOUS
  <2>2. QED BY <1>1, <1>7, <2>1, TellTypes DEF TellReview, Points
<1>8. QED BY <1>2, <1>3, <1>4, <1>5, <1>6, <1>7

LEMMA JudgingTypes ==
  ASSUME TypeOK, JudgeTests \/ JudgeRetest
  PROVE  TypeOK'
BY JudgeTypes DEF JudgeTests, JudgeRetest, Points

LEMMA PatchingTypes ==
  ASSUME TypeOK, Patching \/ AskRepair \/ Reviewing
  PROVE  TypeOK'
<1>1. CASE Patching
  <2>1. run' \in Run
    <3>1. CASE run' = Staged(run, "validating_patch")
      BY <3>1, StagedTyped, StageNames DEF TypeOK
    <3>2. ASSUME NEW a \in {"applied", "rejected"},
                 run' = Staged(Staged([run EXCEPT !.applied = a], "validating_patch"), "applying_patch")
          PROVE  run' \in Run
      <4>1. [run EXCEPT !.applied = a] \in Run BY DEF TypeOK, Run
      <4>2. QED BY <3>2, <4>1, StagedTyped, StageNames
    <3>3. QED BY <1>1, <3>1, <3>2 DEF Patching
  <2>2. at' \in Points BY <1>1 DEF Patching, Goto, Points
  <2>3. QED BY <1>1, <2>1, <2>2 DEF Patching, TypeOK, records, audit, Engine
<1>2. CASE AskRepair
  <2>1. run' \in Run BY <1>2, StagedTyped, StageNames DEF AskRepair, TypeOK
  <2>2. at' \in Points BY <1>2 DEF AskRepair, Goto, Points
  <2>3. shown' \in [tests : TestOutcome, handoffs : SUBSET AgentHandoff]
    BY <1>2, ContextTyped DEF AskRepair
  <2>4. QED BY <1>2, <2>1, <2>2, <2>3 DEF AskRepair, TypeOK, records, audit, Engine
<1>3. CASE Reviewing
  <2>1. run' \in Run
    <3>1. run \in Run BY DEF TypeOK
    <3>2. \A o \in {"clean", "blocking", "unsure"} : [run EXCEPT !.report = o] \in Run
      BY <3>1 DEF Run
    <3>3. \/ run' = Staged(run, "reviewing")
          \/ \E o \in {"clean", "blocking", "unsure"} :
               run' = Staged([run EXCEPT !.report = o], "reviewing")
      BY <1>3 DEF Reviewing
    <3>4. "reviewing" \in ToSet(Linear) BY StageNames
    <3>5. \A r \in Run : Staged(r, "reviewing") \in Run BY <3>4, StagedTyped
    <3>6. QED BY <3>1, <3>2, <3>3, <3>5
  <2>2. at' \in Points BY <1>3 DEF Reviewing, Goto, Points
  <2>3. shown' \in [tests : TestOutcome, handoffs : SUBSET AgentHandoff]
    BY <1>3, ContextTyped DEF Reviewing
  <2>4. QED BY <1>3, <2>1, <2>2, <2>3 DEF Reviewing, TypeOK, records, audit, Engine
<1>4. QED BY <1>1, <1>2, <1>3

LEMMA GateTypes ==
  ASSUME TypeOK, Gate
  PROVE  TypeOK'
<1> DEFINE list == ListHandoffs(mirror, rows)
           gate == GateOf(run)
<1>1. gate \in GateDecision BY DEF GateOf, GateDecision
<1>2. list \in Seq(AgentHandoff) BY ListTyped
<1>3. /\ run' = Staged([run EXCEPT !.gate = gate, !.status = gate], "quality_gate")
      /\ memories' = memories \union PromoteMemory(list, gate)
      /\ Goto("finalize")
      /\ UNCHANGED <<mirror, rows, held, contradictions, consensus, shown, audit, faults, restarts>>
  BY DEF Gate
<1> HIDE DEF list, gate
<1>4. [run EXCEPT !.gate = gate, !.status = gate] \in Run BY <1>1 DEF TypeOK, Run
<1>5. run' \in Run BY <1>3, <1>4, StagedTyped, StageNames
<1>6. PromoteMemory(list, gate) \subseteq MemoryRow
  <2>1. \A i \in DOMAIN list : list[i].id \in HandoffIds BY <1>2, ElementTyped
  <2>2. QED BY <2>1 DEF PromoteMemory, MemoryRow
<1>7. QED BY <1>3, <1>5, <1>6 DEF TypeOK, audit, Goto, Points, Engine

(* The reasoning of a run: contradictions and consensus are what the       *)
(* tables hold.                                                            *)
LEMMA ContradictionsTyped ==
  ASSUME NEW list \in Seq(AgentHandoff), NEW r
  PROVE  DetectContradictions(list, r) \subseteq ContradictionRow
<1>1. \A i \in DOMAIN list : list[i].id \in HandoffIds BY ElementTyped
<1>2. \A i \in DOMAIN list : From(list[i]) \in {Handoffs[id].from : id \in HandoffIds}
  BY <1>1 DEF From
<1>3. ClaimVsTest(list, r) \subseteq ContradictionRow BY <1>2 DEF ClaimVsTest, ContradictionRow
<1>4. ClaimVsGate(list, r) \subseteq ContradictionRow BY <1>2 DEF ClaimVsGate, ContradictionRow
<1>5. QED BY <1>3, <1>4 DEF DetectContradictions

LEMMA ConsensusTyped ==
  ASSUME NEW r
  PROVE  \A c \in BuildConsensus(r) : ConsensusRow(c)
<1>1. \A topic, d, s, k, b : Consensus(topic, d, s, k, b).topic = topic BY DEF Consensus
<1>2. \A e : TestConsensus(r, e).topic = "test_status" BY <1>1 DEF TestConsensus
<1>3. \A e : PatchConsensus(r, e).topic = "patch_complete" BY <1>1 DEF PatchConsensus
<1>4. \A e : GateConsensus(r, e).topic = "quality_gate" BY <1>1 DEF GateConsensus
<1>5. QED BY <1>2, <1>3, <1>4 DEF BuildConsensus, ConsensusRow

LEMMA Bagged ==
  ASSUME NEW B, NEW S
  PROVE  DOMAIN (B (+) SetToBag(S)) = DOMAIN B \union S
BY DEF (+), SetToBag, BagToSet

LEMMA FinalizeTypes ==
  ASSUME TypeOK, Finalize
  PROVE  TypeOK'
<1> DEFINE found == NewContradictions(held.contradictions,
                      DetectContradictions(ListHandoffs(mirror, rows), run))
           agreed == NewConsensus(held.consensus, BuildConsensus(run))
<1>1. found \subseteq ContradictionRow
  BY ListTyped, ContradictionsTyped DEF NewContradictions
<1>2. \A c \in agreed : ConsensusRow(c) BY ConsensusTyped DEF NewConsensus
<1>3. /\ held' = [contradictions |-> held.contradictions \union found,
                  consensus |-> held.consensus \union agreed]
      /\ \E lostF \in {{}, found}, lostA \in {{}, agreed} :
           /\ Lose((IF lostF = {} THEN 0 ELSE 1) + (IF lostA = {} THEN 0 ELSE 1))
           /\ contradictions' = contradictions (+) SetToBag(found \ lostF)
           /\ consensus' = consensus (+) SetToBag(agreed \ lostA)
      /\ Goto("capture")
      /\ UNCHANGED <<run, mirror, rows, memories, shown, audit, restarts>>
  BY DEF Finalize
<1> HIDE DEF found, agreed
<1>4. PICK lostF \in {{}, found}, lostA \in {{}, agreed} :
        /\ Lose((IF lostF = {} THEN 0 ELSE 1) + (IF lostA = {} THEN 0 ELSE 1))
        /\ contradictions' = contradictions (+) SetToBag(found \ lostF)
        /\ consensus' = consensus (+) SetToBag(agreed \ lostA)
  BY <1>3
<1>5. faults' \in Nat
  <2>1. (IF lostF = {} THEN 0 ELSE 1) + (IF lostA = {} THEN 0 ELSE 1) \in Nat OBVIOUS
  <2>2. QED BY <1>4, <2>1, LoseTyped
<1>6. DOMAIN contradictions' \subseteq ContradictionRow
  BY <1>1, <1>4, Bagged DEF TypeOK
<1>7. \A c \in DOMAIN consensus' : ConsensusRow(c)
  BY <1>2, <1>4, Bagged DEF TypeOK
<1>8. Engine(held') BY <1>1, <1>2, <1>3 DEF TypeOK, Engine
<1>9. QED BY <1>3, <1>5, <1>6, <1>7, <1>8 DEF TypeOK, audit, Goto, Points

LEMMA CloseTypes ==
  ASSUME TypeOK, Capture \/ Seal \/ Crash \/ Resume \/ Tamper
  PROVE  TypeOK'
<1>1. CASE Capture
  <2>1. PICK lost \in BOOLEAN :
          Lose(IF lost THEN 1 ELSE 0) /\ manifest' = IF lost THEN manifest ELSE <<Fresh>>
    BY <1>1 DEF Capture
  <2>2. faults' \in Nat
    <3>1. (IF lost THEN 1 ELSE 0) \in Nat OBVIOUS
    <3>2. QED BY <2>1, <3>1, LoseTyped
  <2>3. Fresh.run = run BY DEF Fresh, ManifestOf
  <2>4. ManifestRow(manifest')
    BY <2>1, <2>3 DEF TypeOK, ManifestRow
  <2>5. QED BY <1>1, <2>2, <2>4 DEF Capture, TypeOK, records, Goto, Points, Engine
<1>2. CASE Seal
  <2>1. run' \in Run BY <1>2 DEF Seal, TypeOK, Run
  <2>2. QED BY <1>2, <2>1 DEF Seal, TypeOK, records, audit, Goto, Points, Engine
<1>3. CASE Crash
  <2>1. Engine(held') BY <1>3 DEF Crash, Engine
  <2>2. restarts' \in Nat BY <1>3 DEF Crash, TypeOK
  <2>3. mirror' \in Seq(AgentHandoff) BY <1>3 DEF Crash
  <2>4. QED BY <1>3, <2>1, <2>2, <2>3 DEF Crash, TypeOK, audit, Goto, Points
<1>4. CASE Resume
  <2>1. run' \in Run BY <1>4 DEF Resume, TypeOK, Run
  <2>2. at' \in Points BY <1>4 DEF Resume, Goto, Points
  <2>3. QED BY <1>4, <2>1, <2>2 DEF Resume, TypeOK, records, audit, Engine
<1>5. CASE Tamper
  <2>1. run' \in Run
    <3>1. run \in Run BY DEF TypeOK
    <3>2. [run EXCEPT !.edits = @ + 1] \in Run BY <3>1 DEF Run
    <3>3. [run EXCEPT !.gate = "approved"] \in Run BY <3>1 DEF Run, GateDecision
    <3>4. [run EXCEPT !.tests = "passed", !.failures = FALSE] \in Run
      BY <3>1 DEF Run, TestOutcome
    <3>5. QED BY <1>5, <3>2, <3>3, <3>4 DEF Tamper
  <2>2. tampers' \in Nat BY <1>5 DEF Tamper, TypeOK
  <2>3. QED BY <1>5, <2>1, <2>2 DEF Tamper, TypeOK, records, Engine
<1>6. QED BY <1>1, <1>2, <1>3, <1>4, <1>5

(* A replay judges the rows again and stores the contradictions it finds.  *)
LEMMA CheckTyped ==
  ASSUME NEW ok \in BOOLEAN
  PROVE  Check(ok) \in CheckStatus
BY DEF Check, CheckStatus

LEMMA ChecksTyped ==
  ASSUME NEW captured
  PROVE  /\ CheckManifestFidelity(captured) \in CheckStatus
         /\ CheckQualityGate \in CheckStatus
         /\ ExactChecks(captured).manifest_fidelity = CheckManifestFidelity(captured)
         /\ ExactChecks(captured).quality_gate = CheckQualityGate
BY CheckTyped DEF CheckManifestFidelity, CheckQualityGate, ExactChecks, CheckStatus

LEMMA VerdictTyped ==
  ASSUME NEW checks, NEW verdict \in {VerdictFromChecks(checks)} \union LiveVerdicts(checks)
  PROVE  verdict \in {"match", "drift", "incomplete"}
<1>1. \A c : VerdictFromChecks(c) \in {"match", "drift", "incomplete"} BY DEF VerdictFromChecks
<1>2. QED BY <1>1 DEF LiveVerdicts

LEMMA ReplayTypes ==
  ASSUME TypeOK, Replay
  PROVE  TypeOK'
<1>1. UNCHANGED <<run, at, mirror, held, consensus, memories, shown, manifest,
                  touched, restarts, tampers>>
  BY DEF Replay
<1>2. replays' \in Nat BY DEF Replay, TypeOK
<1>3. rows \in Seq(AgentHandoff) BY DEF TypeOK, HandoffRow
<1>4. Revalidated \in [1 .. Len(rows) -> AgentHandoff]
  BY <1>3, ValidateTyped DEF Revalidated
<1>5. ManifestRow(cached') /\ replay' \in ReplayRow
  <2>1. PICK api \in BOOLEAN :
          LET captured == IF api /\ cached # NoManifest THEN cached ELSE manifest
              checks == ExactChecks(captured)
          IN /\ cached' = IF api THEN captured ELSE cached
             /\ \E verdict \in {VerdictFromChecks(checks)} \union LiveVerdicts(checks) :
                  replay' = [touched |-> touched, fidelity |-> checks.manifest_fidelity,
                             gate |-> checks.quality_gate, verdict |-> verdict]
    BY DEF Replay
  <2> DEFINE captured == IF api /\ cached # NoManifest THEN cached ELSE manifest
             checks == ExactChecks(captured)
  <2>2. ManifestRow(cached') BY <2>1 DEF TypeOK
  <2>3. PICK verdict \in {VerdictFromChecks(checks)} \union LiveVerdicts(checks) :
          replay' = [touched |-> touched, fidelity |-> checks.manifest_fidelity,
                     gate |-> checks.quality_gate, verdict |-> verdict]
    BY <2>1
  <2>4. checks.manifest_fidelity \in CheckStatus /\ checks.quality_gate \in CheckStatus
    BY ChecksTyped
  <2>5. verdict \in {"match", "drift", "incomplete"} BY VerdictTyped
  <2> HIDE DEF checks
  <2>6. replay' \in ReplayRow BY <2>3, <2>4, <2>5 DEF TypeOK, ReplayRow
  <2>7. QED BY <2>2, <2>6
<1>6. PICK lost \in {{}} \union {{rows[i].id} : i \in {j \in DOMAIN rows : Revalidated[j] # rows[j]}} :
        /\ Lose(Cardinality(lost))
        /\ rows' = [i \in DOMAIN rows |-> IF rows[i].id \in lost THEN rows[i] ELSE Revalidated[i]]
  BY DEF Replay
<1>7. faults' \in Nat
  <2>1. lost = {} \/ \E w : lost = {w} OBVIOUS
  <2>2. CASE lost = {}
    <3>1. Cardinality({}) = 0 BY FS_EmptySet
    <3>2. QED BY <1>6, <2>2, <3>1, LoseTyped
  <2>3. CASE \E w : lost = {w}
    <3>1. PICK w : lost = {w} BY <2>3
    <3>2. Cardinality({w}) = 1 BY FS_Singleton
    <3>3. QED BY <1>6, <3>1, <3>2, LoseTyped
  <2>4. QED BY <2>1, <2>2, <2>3
<1>8. rows' \in Seq(AgentHandoff)
  <2>1. Len(rows) \in Nat /\ DOMAIN rows = 1 .. Len(rows) BY <1>3
  <2>2. \A i \in 1 .. Len(rows) : rows[i] \in AgentHandoff BY <1>3, <2>1, ElementTyped
  <2>3. rows' \in [1 .. Len(rows) -> AgentHandoff] BY <1>4, <1>6, <2>1, <2>2
  <2>4. QED BY <2>1, <2>3
<1>9. DOMAIN contradictions' \subseteq ContradictionRow
  <2>1. contradictions' = contradictions (+) SetToBag(DetectContradictions(rows, run))
    BY DEF Replay
  <2>2. QED BY <1>3, <2>1, Bagged, ContradictionsTyped DEF TypeOK
<1>10. QED BY <1>1, <1>2, <1>5, <1>7, <1>8, <1>9 DEF TypeOK, HandoffRow, Engine

(* Every step keeps the types, and so does stuttering.                     *)
LEMMA StutterTypes ==
  ASSUME TypeOK, UNCHANGED vars
  PROVE  TypeOK'
BY DEF TypeOK, vars, Engine

LEMMA InitTypes ==
  ASSUME Init
  PROVE  TypeOK
<1>1. run \in Run
  <2>1. <<>> \in Seq(ToSet(Linear)) OBVIOUS
  <2>2. QED BY <2>1 DEF Init, NewRun, Run, TestOutcome
<1>2. mirror \in Seq(AgentHandoff) /\ rows \in Seq(AgentHandoff) BY DEF Init
<1>3. /\ DOMAIN contradictions \subseteq ContradictionRow
      /\ \A c \in DOMAIN consensus : ConsensusRow(c)
  <2>1. DOMAIN EmptyBag = {} BY DEF EmptyBag, SetToBag
  <2>2. QED BY <2>1 DEF Init
<1>4. shown \in [tests : TestOutcome, handoffs : SUBSET AgentHandoff]
  BY DEF Init, NoContext, TestOutcome
<1>5. replay \in ReplayRow BY DEF Init, NoReplay, ReplayRow
<1>6. ManifestRow(manifest) /\ ManifestRow(cached) BY DEF Init, ManifestRow
<1>7. Engine(held) BY DEF Init, Engine
<1>8. at \in Points /\ memories \subseteq MemoryRow /\ touched \in BOOLEAN
  BY DEF Init, Points
<1>9. {faults, restarts, replays, tampers} \subseteq Nat BY DEF Init
<1>10. QED BY <1>1, <1>2, <1>3, <1>4, <1>5, <1>6, <1>7, <1>8, <1>9 DEF TypeOK, HandoffRow

LEMMA NextTypes ==
  ASSUME TypeOK, [Next]_vars
  PROVE  TypeOK'
BY PipelineTypes, TellingTypes, JudgingTypes, PatchingTypes, GateTypes,
   FinalizeTypes, CloseTypes, ReplayTypes, StutterTypes DEF Next

(* Every variable of the record keeps its type, whatever is lost.          *)
THEOREM Types == Spec => []TypeOK
BY InitTypes, NextTypes, PTL DEF Spec

----------------------------------------------------------------------------
(* The inductive invariant.                                                *)

(* From the second handoff on the executing process has a list of its own, *)
(* and none once it is down.                                               *)
AfterCode == {"patching", "testing", "judge", "tell_passed", "ask_repair",
              "tell_failing", "repairing", "tell_repair", "retesting", "rejudge",
              "tell_retested", "reviewing", "tell_review", "quality_gate"}
Listed ==
  /\ at \in AfterCode => mirror # <<>>
  /\ at = "down" => mirror = <<>>

(* What is known of the tests where.                                       *)
Known ==
  /\ at \in {"judge", "rejudge"} => run.tests # "none"
  /\ at \in {"tell_passed", "tell_retested"} => run.tests = "passed"
  /\ at \in {"ask_repair", "tell_failing"} => run.tests = "failed"

(* Between a judgement and the next tests no handoff of the list denies    *)
(* them.                                                                   *)
Judgement == {"tell_passed", "ask_repair", "tell_failing", "repairing",
              "tell_repair", "tell_retested", "reviewing"}
InLine ==
  at \in Judgement => \A i \in DOMAIN mirror : Fits(mirror[i], run.tests)

(* A process makes each handoff once: where execute_run is before it, it   *)
(* is not in the list.                                                     *)
ToPlan == {"planning", "tell_plan"}
ToCode == ToPlan \union {"coding", "tell_code"}
ToTests == ToCode \union {"patching", "testing", "judge", "tell_passed",
                          "ask_repair", "tell_failing"}
ToRepair == ToTests \union {"repairing", "tell_repair"}
ToRetest == ToRepair \union {"retesting", "rejudge", "tell_retested"}
ToReview == ToRetest \union {"reviewing", "tell_review"}
Before(id) ==
  IF id = "plan" THEN ToPlan ELSE IF id = "code" THEN ToCode
  ELSE IF id = "failing" THEN ToTests ELSE IF id = "repaired" THEN ToRepair
  ELSE IF id \in {"passed", "retested"} THEN ToRetest ELSE ToReview
Named ==
  /\ \A i, j \in DOMAIN mirror : mirror[i].id = mirror[j].id => i = j
  /\ \A i \in DOMAIN mirror : at \notin Before(mirror[i].id)

(* The gate decides last, over what the record then says; nobody edits a   *)
(* run before it is done.                                                  *)
Late == {"finalize", "capture", "seal", "done", "down"}
Gated ==
  /\ run.gate # "none" =>
       /\ at \in Late /\ run.status # "running"
       /\ ~touched => run.gate = GateOf(run)
  /\ touched => at = "done"

Sound ==
  /\ Listed /\ Known /\ InLine /\ Named /\ Gated
  /\ ShownClaimsJudged /\ DowngradeDurable /\ GateReplays

LEMMA InitSound ==
  ASSUME Init
  PROVE  Sound
<1>1. Listed /\ Known /\ InLine /\ Gated
  BY DEF Init, NewRun, Listed, Known, InLine, Gated, AfterCode, Judgement
<1>2. Named BY DEF Init, Named
<1>3. ShownClaimsJudged BY DEF Init, NoContext, ShownClaimsJudged
<1>4. DowngradeDurable BY DEF Init, DowngradeDurable
<1>5. GateReplays BY DEF Init, NoReplay, GateReplays
<1>6. QED BY <1>1, <1>2, <1>3, <1>4, <1>5 DEF Sound

(* A step that goes on keeps what a later place has not seen: whatever     *)
(* comes before the next place came before this one.                       *)
Onward(p, q) ==
  \A S \in {ToPlan, ToCode, ToTests, ToRepair, ToRetest, ToReview} : q \in S => p \in S

LEMMA OnwardNamed ==
  ASSUME Named, Onward(at, at'), DOMAIN mirror' = DOMAIN mirror,
         \A i \in DOMAIN mirror : mirror'[i].id = mirror[i].id
  PROVE  Named'
<1>1. \A id : at \notin Before(id) => at' \notin Before(id)
  BY DEF Onward, Before
<1>2. QED BY <1>1 DEF Named

(* What a step leaves alone says the same as before.                       *)
LEMMA Untouched ==
  ASSUME Sound
  PROVE  /\ UNCHANGED shown => ShownClaimsJudged'
         /\ UNCHANGED replay => GateReplays'
         /\ UNCHANGED <<mirror, rows, faults, replays>> => DowngradeDurable'
<1>1. UNCHANGED shown => ShownClaimsJudged' BY DEF Sound, ShownClaimsJudged
<1>2. UNCHANGED replay => GateReplays' BY DEF Sound, GateReplays
<1>3. UNCHANGED <<mirror, rows, faults, replays>> => DowngradeDurable'
  BY DEF Sound, DowngradeDurable
<1>4. QED BY <1>1, <1>2, <1>3

(* The stages of a run.                                                    *)
Walks(here, next) ==
  /\ at = here /\ at' \in {next, "finalize"}
  /\ UNCHANGED <<mirror, rows, shown, replay, touched, faults, replays>>
  /\ run'.gate = run.gate

LEMMA StageWalks ==
  ASSUME TypeOK, NEW s \in ToSet(Linear), NEW r \in Run, NEW next, Stage(s, r, next)
  PROVE  /\ at' \in {next, "finalize"}
         /\ UNCHANGED <<mirror, rows, shown, replay, touched, faults, replays>>
         /\ at' # "finalize" => run'.tests = r.tests
         /\ run'.tests \in {r.tests, run.tests} /\ run'.gate \in {r.gate, run.gate}
<1>1. run \in Run BY DEF TypeOK
<1>2. at' \in {next, "finalize"} /\ (at' # "finalize" => run' = Staged(r, s))
      /\ run' \in {Staged(r, s), Staged(run, s)}
  BY DEF Stage, Goto
<1>3. QED BY <1>1, <1>2, StagedTyped DEF Stage, records, audit

LEMMA Walking ==
  ASSUME TypeOK
  PROVE  /\ Planning => Walks("planning", "tell_plan")
         /\ Coding => Walks("coding", "tell_code")
         /\ Patching => Walks("patching", "testing")
         /\ Testing => Walks("testing", "judge") /\ (at' = "judge" => run'.tests # "none")
         /\ Retesting => Walks("retesting", "rejudge") /\ (at' = "rejudge" => run'.tests # "none")
         /\ Repairing => Walks("repairing", "tell_repair") /\ run'.tests = run.tests
<1> run \in Run BY DEF TypeOK
<1>1. ASSUME Planning PROVE Walks("planning", "tell_plan")
  <2>1. [run EXCEPT !.plan = TRUE] \in Run /\ [run EXCEPT !.plan = TRUE].gate = run.gate
    BY DEF Run
  <2>2. QED BY <1>1, <2>1, StageNames, StageWalks DEF Planning, Walks
<1>2. ASSUME Coding PROVE Walks("coding", "tell_code")
  <2>1. PICK p \in {"sound", "malformed"} : Stage("coding", [run EXCEPT !.patch = p], "tell_code")
    BY <1>2 DEF Coding
  <2>2. [run EXCEPT !.patch = p] \in Run /\ [run EXCEPT !.patch = p].gate = run.gate
    BY DEF Run
  <2>3. QED BY <1>2, <2>1, <2>2, StageNames, StageWalks DEF Coding, Walks
<1>3. ASSUME Patching PROVE Walks("patching", "testing")
  <2>1. run'.gate = run.gate
    <3>1. CASE run' = Staged(run, "validating_patch") BY <3>1, StagedTyped, StageNames
    <3>2. ASSUME NEW a \in {"applied", "rejected"},
                 run' = Staged(Staged([run EXCEPT !.applied = a], "validating_patch"), "applying_patch")
          PROVE  run'.gate = run.gate
      <4>1. [run EXCEPT !.applied = a] \in Run /\ [run EXCEPT !.applied = a].gate = run.gate
        BY DEF Run
      <4>2. \A s \in {"validating_patch", "applying_patch"}, r \in Run :
              Staged(r, s) \in Run /\ Staged(r, s).gate = r.gate
        <5>1. TAKE s \in {"validating_patch", "applying_patch"}, r \in Run
        <5>2. s \in ToSet(Linear) BY StageNames
        <5>3. QED BY <5>2, StagedTyped
      <4> DEFINE x == Staged([run EXCEPT !.applied = a], "validating_patch")
      <4>3. x \in Run /\ x.gate = run.gate BY <4>1, <4>2
      <4>4. run' = Staged(x, "applying_patch") BY <3>2
      <4> HIDE DEF x
      <4>5. QED BY <4>2, <4>3, <4>4
    <3>3. QED BY <1>3, <3>1, <3>2 DEF Patching
  <2>2. QED BY <1>3, <2>1 DEF Patching, Walks, Goto, records, audit
<1>4. ASSUME NEW next, RunTests(next)
      PROVE  /\ at' \in {next, "finalize"}
             /\ UNCHANGED <<mirror, rows, shown, replay, touched, faults, replays>>
             /\ run'.gate = run.gate /\ (at' # "finalize" => run'.tests # "none")
  <2>1. PICK t \in {<<"passed", FALSE>>, <<"failed", TRUE>>, <<"failed", FALSE>>},
             p \in {next, "finalize"} :
          Stage("testing", [run EXCEPT !.tests = t[1], !.failures = t[2]], p)
    BY <1>4, TestsStage
  <2> DEFINE r == [run EXCEPT !.tests = t[1], !.failures = t[2]]
  <2>2. t[1] \in {"passed", "failed"} /\ t[2] \in BOOLEAN
    <3>1. t = <<"passed", FALSE>> \/ t = <<"failed", TRUE>> \/ t = <<"failed", FALSE>>
      OBVIOUS
    <3>2. CASE t = <<"passed", FALSE>> BY <3>2
    <3>3. CASE t = <<"failed", TRUE>> BY <3>3
    <3>4. CASE t = <<"failed", FALSE>> BY <3>4
    <3>5. QED BY <3>1, <3>2, <3>3, <3>4
  <2>3. r \in Run /\ r.gate = run.gate /\ r.tests = t[1] BY <2>2 DEF Run, TestOutcome
  <2>4. Stage("testing", r, p) BY <2>1
  <2> HIDE DEF r
  <2>5. /\ at' \in {p, "finalize"}
        /\ UNCHANGED <<mirror, rows, shown, replay, touched, faults, replays>>
        /\ at' # "finalize" => run'.tests = r.tests
        /\ run'.gate \in {r.gate, run.gate}
    BY <2>3, <2>4, StageNames, StageWalks
  <2>6. QED BY <2>1, <2>2, <2>3, <2>5
<1>5. Testing => Walks("testing", "judge") /\ (at' = "judge" => run'.tests # "none")
  BY <1>4 DEF Testing, Walks
<1>6. Retesting => Walks("retesting", "rejudge") /\ (at' = "rejudge" => run'.tests # "none")
  BY <1>4 DEF Retesting, Walks
<1>7. ASSUME Repairing PROVE Walks("repairing", "tell_repair") /\ run'.tests = run.tests
  <2>1. PICK o \in {"fixed", "stuck", "idle", "unsafe"} :
          Stage("repairing", [run EXCEPT !.repair = o], "tell_repair")
    BY <1>7 DEF Repairing
  <2>2. [run EXCEPT !.repair = o] \in Run /\ [run EXCEPT !.repair = o].gate = run.gate
        /\ [run EXCEPT !.repair = o].tests = run.tests
    BY DEF Run
  <2>3. QED BY <1>7, <2>1, <2>2, StageNames, StageWalks DEF Repairing, Walks
<1>8. QED BY <1>1, <1>2, <1>3, <1>5, <1>6, <1>7

LEMMA WalkSound ==
  ASSUME TypeOK, Sound,
         Planning \/ Coding \/ Patching \/ Testing \/ Retesting \/ Repairing
  PROVE  Sound'
<1>1. \/ Walks("planning", "tell_plan") \/ Walks("coding", "tell_code")
      \/ Walks("patching", "testing")
      \/ Walks("testing", "judge") /\ (at' = "judge" => run'.tests # "none")
      \/ Walks("retesting", "rejudge") /\ (at' = "rejudge" => run'.tests # "none")
      \/ Walks("repairing", "tell_repair") /\ run'.tests = run.tests
  BY Walking
<1>2. UNCHANGED <<mirror, rows, shown, replay, touched, faults, replays>>
      /\ run'.gate = run.gate /\ at \notin Late
  BY <1>1 DEF Walks, Late
<1>3. Listed' BY <1>1, <1>2 DEF Walks, Sound, Listed, AfterCode
<1>4. Known' BY <1>1 DEF Walks, Known
<1>5. InLine'
  <2>1. at' \in Judgement => at \in Judgement /\ run'.tests = run.tests
    BY <1>1 DEF Walks, Judgement
  <2>2. QED BY <1>2, <2>1 DEF Sound, InLine
<1>6. Named'
  <2>1. Onward(at, at')
    BY <1>1 DEF Walks, Onward, ToPlan, ToCode, ToTests, ToRepair, ToRetest, ToReview
  <2>2. QED BY <1>2, <2>1, OnwardNamed DEF Sound
<1>7. Gated'
  <2>1. run.gate = "none" /\ ~touched BY <1>1, <1>2 DEF Walks, Sound, Gated, Late
  <2>2. QED BY <1>2, <2>1 DEF Gated
<1>8. QED BY <1>2, <1>3, <1>4, <1>5, <1>6, <1>7, Untouched DEF Sound

(* A handoff is new to the list and to the table, or the process ends.     *)
LEMMA TellSound ==
  ASSUME TypeOK, Sound, NEW id \in HandoffIds, NEW words \in SUBSET Words,
         NEW symbols \in {"none", "patch", "other"}, NEW next,
         Tell(id, words, symbols, next),
         next \notin {"judge", "rejudge", "ask_repair", "tell_failing", "tell_passed",
                      "tell_retested", "down"},
         at \notin Late, at \in Before(id), next \notin Before(id), Onward(at, next),
         next \in AfterCode => at = "tell_code" \/ at \in AfterCode,
         next \in Judgement =>
           at \in Judgement /\ Fits(NewHandoff(id, words, symbols), run.tests)
  PROVE  Sound'
<1> DEFINE h == NewHandoff(id, words, symbols)
<1>1. UNCHANGED <<run, shown, replay, touched, replays>> BY DEF Tell, audit
<1>2. run.gate = "none" /\ ~touched BY DEF Sound, Gated, Late
<1>3. mirror \in Seq(AgentHandoff) /\ rows \in Seq(AgentHandoff) BY DEF TypeOK, HandoffRow
<1>4. h \in AgentHandoff /\ h.id = id
  <2>1. h \in AgentHandoff BY NewTyped
  <2>2. h.id = id BY DEF NewHandoff
  <2>3. QED BY <2>1, <2>2
<1> HIDE DEF h
<1>5. Gated' BY <1>1, <1>2 DEF Gated
<1>6. ShownClaimsJudged' /\ GateReplays' BY <1>1, Untouched
<1>7. CASE at' = "down" /\ mirror' = <<>>
  BY <1>1, <1>5, <1>6, <1>7
  DEF Sound, Listed, Known, InLine, Named, DowngradeDurable, AfterCode, Judgement
<1>8. ASSUME NEW lost \in BOOLEAN, Lose(IF lost THEN 1 ELSE 0),
             mirror' = Append(mirror, h), rows' = Inserted(rows, h, lost), at' = next
      PROVE  Sound'
  <2>1. /\ DOMAIN mirror = 1 .. Len(mirror) /\ DOMAIN mirror' = 1 .. Len(mirror) + 1
        /\ \A i \in DOMAIN mirror : mirror'[i] = mirror[i]
        /\ mirror'[Len(mirror) + 1] = h /\ Len(mirror) \in Nat
    BY <1>3, <1>4, <1>8
  <2>2. \A i \in DOMAIN mirror' : i \in DOMAIN mirror \/ (i = Len(mirror) + 1 /\ mirror'[i] = h)
    BY <2>1
  <2>3. Listed'
    <3>1. mirror' # <<>> BY <1>3, <1>4, <1>8
    <3>2. QED BY <1>8, <3>1 DEF Listed
  <2>4. Known' BY <1>8 DEF Known
  <2>5. InLine'
    <3>1. ASSUME at' \in Judgement, NEW i \in DOMAIN mirror' PROVE Fits(mirror'[i], run.tests)
      <4>1. at \in Judgement /\ Fits(h, run.tests) BY <1>8, <3>1 DEF h
      <4>2. CASE i \in DOMAIN mirror BY <2>1, <4>1, <4>2 DEF Sound, InLine
      <4>3. QED BY <2>2, <3>1, <4>1, <4>2
    <3>2. QED BY <1>1, <3>1 DEF InLine
  <2>6. Named'
    <3>1. \A i \in DOMAIN mirror : mirror[i].id # id BY DEF Sound, Named
    <3>2. \A x : at \notin Before(x) => next \notin Before(x) BY DEF Onward, Before
    <3>3. \A i, j \in DOMAIN mirror' : mirror'[i].id = mirror'[j].id => i = j
      BY <1>4, <2>1, <2>2, <3>1 DEF Sound, Named
    <3>4. \A i \in DOMAIN mirror' : at' \notin Before(mirror'[i].id)
      BY <1>4, <1>8, <2>1, <2>2, <3>2 DEF Sound, Named
    <3>5. QED BY <3>3, <3>4 DEF Named
  <2>7. DowngradeDurable'
    <3>1. SUFFICES ASSUME faults' = 0, replays' = 0, NEW i \in DOMAIN mirror'
                   PROVE  \E j \in DOMAIN rows' : rows'[j] = mirror'[i]
      BY DEF DowngradeDurable
    <3>2. ~lost /\ faults = 0
      <4>1. (IF lost THEN 1 ELSE 0) \in Nat OBVIOUS
      <4>2. QED BY <1>8, <3>1, <4>1, LoseTyped
    <3>3. rows' = Append(rows, h) BY <1>8, <3>2 DEF Inserted
    <3>4. /\ \A j \in DOMAIN rows : j \in DOMAIN rows' /\ rows'[j] = rows[j]
          /\ Len(rows) + 1 \in DOMAIN rows' /\ rows'[Len(rows) + 1] = h
      BY <1>3, <1>4, <3>3
    <3>5. CASE i \in DOMAIN mirror
      <4>1. PICK j \in DOMAIN rows : rows[j] = mirror[i]
        BY <1>1, <3>1, <3>2, <3>5 DEF Sound, DowngradeDurable
      <4>2. QED BY <2>1, <3>4, <3>5, <4>1
    <3>6. QED BY <2>2, <3>1, <3>4, <3>5
  <2>8. QED BY <1>5, <1>6, <2>3, <2>4, <2>5, <2>6, <2>7 DEF Sound
<1>9. QED BY <1>7, <1>8 DEF Tell, Goto, h

LEMMA TellingSound ==
  ASSUME TypeOK, Sound,
         TellPlan \/ TellCode \/ TellPassed \/ TellRetested \/ TellFailing
         \/ TellRepair \/ TellReview
  PROVE  Sound'
<1>1. {"plan", "code", "failing", "repaired", "passed", "retested", "reviewed"} \subseteq HandoffIds
  BY DEF HandoffIds, Handoffs
<1>2. \A id, words, symbols : NewHandoff(id, words, symbols).words = words
  BY DEF NewHandoff
<1> USE DEF ToPlan, ToCode, ToTests, ToRepair, ToRetest, ToReview, Late, AfterCode, Judgement
<1>3. CASE TellPlan
  <2>1. PICK words \in {{"ready"}, {"ready", "pass"}} : Tell("plan", words, "none", "coding")
    BY <1>3 DEF TellPlan
  <2>2. words \in SUBSET Words BY DEF Words
  <2>3. at = "tell_plan" BY <1>3 DEF TellPlan
  <2>4. at \in Before("plan") /\ "coding" \notin Before("plan") /\ Onward(at, "coding")
    BY <2>3 DEF Before, Onward
  <2>5. QED BY <1>1, <2>1, <2>2, <2>3, <2>4, TellSound
<1>4. CASE TellCode
  <2>1. at = "tell_code" /\ Tell("code", {"done"}, "patch", "patching") BY <1>4 DEF TellCode
  <2>2. {"done"} \in SUBSET Words BY DEF Words
  <2>3. at \in Before("code") /\ "patching" \notin Before("code") /\ Onward(at, "patching")
    BY <2>1 DEF Before, Onward
  <2>4. QED BY <1>1, <2>1, <2>2, <2>3, TellSound
<1>5. CASE TellFailing
  <2>1. PICK symbols \in {"patch", "other"} : Tell("failing", {"fail"}, symbols, "repairing")
    BY <1>5 DEF TellFailing
  <2>2. {"fail"} \in SUBSET Words BY DEF Words
  <2>3. at = "tell_failing" BY <1>5 DEF TellFailing
  <2>4. at \in Before("failing") /\ "repairing" \notin Before("failing") /\ Onward(at, "repairing")
    BY <2>3 DEF Before, Onward
  <2>5. Fits(NewHandoff("failing", {"fail"}, symbols), run.tests)
    <3>1. run.tests = "failed" BY <2>3 DEF Sound, Known
    <3>2. NewHandoff("failing", {"fail"}, symbols).words = {"fail"} BY <1>2
    <3>3. QED BY <3>1, <3>2 DEF Fits
  <2>6. QED BY <1>1, <2>1, <2>2, <2>3, <2>4, <2>5, TellSound
<1>6. CASE TellRepair
  <2>1. at = "tell_repair" BY <1>6 DEF TellRepair
  <2>2. at \in Before("repaired") BY <2>1 DEF Before
  <2>3. CASE run.repair = "unsafe"
    <3>1. Tell("repaired", RepairWords, "none", "finalize") BY <1>6, <2>3 DEF TellRepair
    <3>2. "finalize" \notin Before("repaired") /\ Onward(at, "finalize") BY DEF Before, Onward
    <3>3. QED BY <1>1, <2>1, <2>2, <3>1, <3>2, RepairWordsTyped, TellSound
  <2>4. CASE run.repair = "idle"
    <3>1. Tell("repaired", RepairWords, "none", "reviewing") BY <1>6, <2>4 DEF TellRepair
    <3>2. "reviewing" \notin Before("repaired") /\ Onward(at, "reviewing")
      BY <2>1 DEF Before, Onward
    <3>3. Fits(NewHandoff("repaired", RepairWords, "none"), run.tests)
      <4>1. RepairWords = {"done"} BY <2>4 DEF RepairWords
      <4>2. NewHandoff("repaired", RepairWords, "none").words = {"done"} BY <1>2, <4>1
      <4>3. QED BY <4>2 DEF Fits
    <3>4. QED BY <1>1, <2>1, <2>2, <3>1, <3>2, <3>3, RepairWordsTyped, TellSound
  <2>5. CASE run.repair \notin {"unsafe", "idle"}
    <3>1. Tell("repaired", RepairWords, "none", "retesting") BY <1>6, <2>5 DEF TellRepair
    <3>2. "retesting" \notin Before("repaired") /\ Onward(at, "retesting")
      BY <2>1 DEF Before, Onward
    <3>3. QED BY <1>1, <2>1, <2>2, <3>1, <3>2, RepairWordsTyped, TellSound
  <2>6. QED BY <2>3, <2>4, <2>5
<1>7. CASE TellPassed \/ TellRetested
  <2>1. PICK id \in {"passed", "retested"} :
          /\ at \in {"tell_passed", "tell_retested"}
          /\ Tell(id, {"pass"}, "none", "reviewing")
    BY <1>7 DEF TellPassed, TellRetested
  <2>2. {"pass"} \in SUBSET Words BY DEF Words
  <2>3. at \in Before(id) /\ "reviewing" \notin Before(id) /\ Onward(at, "reviewing")
    BY <2>1 DEF Before, Onward
  <2>4. Fits(NewHandoff(id, {"pass"}, "none"), run.tests)
    <3>1. run.tests = "passed" BY <2>1 DEF Sound, Known
    <3>2. NewHandoff(id, {"pass"}, "none").words = {"pass"} BY <1>2
    <3>3. QED BY <3>1, <3>2 DEF Fits
  <2>5. QED BY <1>1, <2>1, <2>2, <2>3, <2>4, TellSound
<1>8. CASE TellReview
  <2>1. at = "tell_review" /\ Tell("reviewed", {}, "none", "quality_gate")
    BY <1>8 DEF TellReview
  <2>2. at \in Before("reviewed") /\ "quality_gate" \notin Before("reviewed")
        /\ Onward(at, "quality_gate")
    BY <2>1 DEF Before, Onward
  <2>3. QED BY <1>1, <2>1, <2>2, TellSound
<1>9. QED BY <1>3, <1>4, <1>5, <1>6, <1>7, <1>8

(* A judgement puts the list in line with the tests, and every row that    *)
(* is written says what the list says.                                     *)
LEMMA JudgeSound ==
  ASSUME TypeOK, Sound, NEW next \in {"tell_passed", "ask_repair", "tell_retested", "reviewing"},
         at \in {"judge", "rejudge"}, Judge(next), Onward(at, next),
         next \in {"tell_passed", "tell_retested"} => run.tests = "passed",
         next = "ask_repair" => run.tests # "passed"
  PROVE  Sound'
<1> DEFINE judged(h) == Judged(h, run.patch # "none", run.tests)
<1>1. UNCHANGED <<run, shown, replay, touched, replays>> /\ at' = next
  BY DEF Judge, audit, Goto
<1>2. run.tests \in {"passed", "failed"} BY DEF TypeOK, Run, TestOutcome, Sound, Known
<1>3. mirror \in Seq(AgentHandoff) /\ rows \in Seq(AgentHandoff) /\ mirror # <<>>
  BY DEF TypeOK, HandoffRow, Sound, Listed, AfterCode
<1>4. PICK lost \in LostWrites :
        Lose(Cardinality(lost)) /\ mirror' = JudgedMirror /\ rows' = JudgedRows(lost)
  BY DEF Judge
<1>5. DOMAIN mirror' = DOMAIN mirror /\ \A i \in DOMAIN mirror : mirror'[i] = judged(mirror[i])
  BY <1>4 DEF JudgedMirror
<1>6. \A i \in DOMAIN mirror : judged(mirror[i]).id = mirror[i].id /\ Fits(judged(mirror[i]), run.tests)
  <2>1. TAKE i \in DOMAIN mirror
  <2>2. mirror[i] \in AgentHandoff BY <1>3, ElementTyped
  <2>3. QED BY <1>2, <2>2, JudgedTyped, JudgedFits DEF SameHandoff
<1>7. Listed'
  <2>1. mirror # <<>> => 1 \in DOMAIN mirror BY <1>3
  <2>2. mirror' # <<>> BY <1>3, <1>5, <2>1
  <2>3. QED BY <1>1, <2>2 DEF Listed
<1>8. Known' BY <1>1, <1>2 DEF Known
<1>9. InLine' BY <1>1, <1>5, <1>6 DEF InLine
<1>10. Named' BY <1>1, <1>5, <1>6, OnwardNamed DEF Sound
<1>11. Gated' BY <1>1 DEF Sound, Gated, Late
<1>12. ShownClaimsJudged' /\ GateReplays' BY <1>1, Untouched
<1>13. DowngradeDurable'
  <2>1. SUFFICES ASSUME faults' = 0, replays' = 0, NEW i \in DOMAIN mirror'
                 PROVE  \E j \in DOMAIN rows' : rows'[j] = mirror'[i]
    BY DEF DowngradeDurable
  <2>2. lost = {} /\ faults = 0 BY <1>4, <2>1, LostCounted, LoseTyped
  <2>3. PICK j \in DOMAIN rows : rows[j] = mirror[i]
    BY <1>1, <1>5, <2>1, <2>2 DEF Sound, DowngradeDurable
  <2> DEFINE mine == {k \in DOMAIN mirror : mirror[k].id = rows[j].id}
  <2>4. mine = {i} BY <1>5, <2>1, <2>3 DEF Sound, Named
  <2>5. (CHOOSE k \in mine : TRUE) = i BY <2>4
  <2>6. ListHandoffs(mirror, rows) = mirror BY <1>3 DEF ListHandoffs
  <2>7. rows'[j] = IF mine = {} THEN rows[j]
                   ELSE Written(mirror[CHOOSE k \in mine : TRUE], rows[j], {})
    BY <1>4, <2>2, <2>3, <2>6 DEF JudgedRows
  <2>8. rows'[j] = Written(mirror[i], rows[j], {}) BY <2>4, <2>5, <2>7
  <2>9. mirror[i] \in AgentHandoff BY <1>3, <1>5, ElementTyped
  <2>10. rows'[j] = mirror'[i] BY <1>5, <2>8, <2>9, WrittenIsJudged
  <2>11. j \in DOMAIN rows' BY <1>4, <2>3 DEF JudgedRows
  <2>12. QED BY <2>10, <2>11
<1>14. QED BY <1>7, <1>8, <1>9, <1>10, <1>11, <1>12, <1>13 DEF Sound

LEMMA JudgingSound ==
  ASSUME TypeOK, Sound, JudgeTests \/ JudgeRetest
  PROVE  Sound'
<1> USE DEF Onward, ToPlan, ToCode, ToTests, ToRepair, ToRetest, ToReview
<1>1. CASE JudgeTests
  <2>1. at = "judge" BY <1>1 DEF JudgeTests
  <2>2. CASE run.tests = "passed"
    <3>1. Judge("tell_passed") BY <1>1, <2>2 DEF JudgeTests
    <3>2. Onward(at, "tell_passed") BY <2>1
    <3>3. QED BY <2>1, <2>2, <3>1, <3>2, JudgeSound
  <2>3. CASE run.tests # "passed"
    <3>1. Judge("ask_repair") BY <1>1, <2>3 DEF JudgeTests
    <3>2. Onward(at, "ask_repair") BY <2>1
    <3>3. QED BY <2>1, <2>3, <3>1, <3>2, JudgeSound
  <2>4. QED BY <2>2, <2>3
<1>2. CASE JudgeRetest
  <2>1. at = "rejudge" BY <1>2 DEF JudgeRetest
  <2>2. CASE run.tests = "passed"
    <3>1. Judge("tell_retested") BY <1>2, <2>2 DEF JudgeRetest
    <3>2. Onward(at, "tell_retested") BY <2>1
    <3>3. QED BY <2>1, <2>2, <3>1, <3>2, JudgeSound
  <2>3. CASE run.tests # "passed"
    <3>1. Judge("reviewing") BY <1>2, <2>3 DEF JudgeRetest
    <3>2. Onward(at, "reviewing") BY <2>1
    <3>3. QED BY <2>1, <2>3, <3>1, <3>2, JudgeSound
  <2>4. QED BY <2>2, <2>3
<1>3. QED BY <1>1, <1>2

(* What an agent is shown is what the list says, and that is in line.      *)
LEMMA ContextSays ==
  ASSUME TypeOK, Sound, at \in {"ask_repair", "reviewing"}, NEW agent, shown' = Context(agent)
  PROVE  ShownClaimsJudged'
<1>1. mirror # <<>> BY DEF Sound, Listed, AfterCode
<1>2. ListHandoffs(mirror, rows) = mirror BY <1>1 DEF ListHandoffs
<1>3. Context(agent).handoffs \subseteq {mirror[i] : i \in DOMAIN mirror}
  BY <1>2 DEF Context, RetrieveRelevantHandoffs
<1>4. \A h \in Context(agent).handoffs : Fits(h, run.tests)
  BY <1>3 DEF Sound, InLine, Judgement
<1>5. Context(agent).tests = run.tests BY DEF Context
<1>6. QED BY <1>4, <1>5 DEF ShownClaimsJudged, Fits

LEMMA AskingSound ==
  ASSUME TypeOK, Sound, AskRepair \/ Reviewing
  PROVE  Sound'
<1> run \in Run BY DEF TypeOK
<1>1. /\ UNCHANGED <<mirror, rows, replay, touched, faults, replays>>
      /\ at \in {"ask_repair", "reviewing"}
      /\ at = "ask_repair" => at' \in {"tell_failing", "reviewing"}
      /\ at = "reviewing" => at' \in {"tell_review", "finalize"}
  BY DEF AskRepair, Reviewing, Goto, records, audit
<1>2. ShownClaimsJudged' BY <1>1, ContextSays DEF AskRepair, Reviewing
<1>3. run'.gate = run.gate /\ run'.tests = run.tests
  <2>1. CASE AskRepair
    <3>1. "repairing" \in ToSet(Linear) BY StageNames
    <3>2. run' = run \/ run' = Staged(run, "repairing") BY <2>1 DEF AskRepair
    <3>3. QED BY <3>1, <3>2, StagedTyped
  <2>2. CASE Reviewing
    <3>1. "reviewing" \in ToSet(Linear) BY StageNames
    <3>2. \A o \in {"clean", "blocking", "unsure"} :
            /\ [run EXCEPT !.report = o] \in Run
            /\ [run EXCEPT !.report = o].gate = run.gate
            /\ [run EXCEPT !.report = o].tests = run.tests
      BY DEF Run
    <3>3. \A r \in Run : Staged(r, "reviewing").gate = r.gate
                         /\ Staged(r, "reviewing").tests = r.tests
      BY <3>1, StagedTyped
    <3>4. \/ run' = Staged(run, "reviewing")
          \/ \E o \in {"clean", "blocking", "unsure"} :
               run' = Staged([run EXCEPT !.report = o], "reviewing")
      BY <2>2 DEF Reviewing
    <3>5. QED BY <3>2, <3>3, <3>4
  <2>3. QED BY <2>1, <2>2
<1>4. Listed' BY <1>1 DEF Sound, Listed, AfterCode
<1>5. Known' BY <1>1, <1>3 DEF Sound, Known
<1>6. InLine' BY <1>1, <1>3 DEF Sound, InLine, Judgement
<1>7. Named'
  <2>1. Onward(at, at')
    BY <1>1 DEF Onward, ToPlan, ToCode, ToTests, ToRepair, ToRetest, ToReview
  <2>2. QED BY <1>1, <2>1, OnwardNamed DEF Sound
<1>8. Gated' BY <1>1, <1>3 DEF Sound, Gated, Late
<1>9. QED BY <1>1, <1>2, <1>4, <1>5, <1>6, <1>7, <1>8, Untouched DEF Sound

(* The decision is the gate's over the record that is then kept.           *)
LEMMA GateSound ==
  ASSUME TypeOK, Sound, Gate
  PROVE  Sound'
<1> DEFINE gate == GateOf(run)
           decided == [run EXCEPT !.gate = gate, !.status = gate]
<1>1. /\ UNCHANGED <<mirror, rows, shown, replay, touched, faults, replays>>
      /\ at = "quality_gate" /\ at' = "finalize" /\ run' = Staged(decided, "quality_gate")
  BY DEF Gate, Goto, audit
<1>2. gate \in GateDecision /\ gate # "running" BY DEF GateOf, GateDecision
<1> HIDE DEF gate
<1>3. /\ decided \in Run /\ decided.gate = gate /\ decided.status = gate
      /\ decided.tests = run.tests /\ decided.report = run.report
  BY <1>2 DEF TypeOK, Run
<1> HIDE DEF decided
<1>4. "quality_gate" \in ToSet(Linear) BY StageNames
<1>5. run'.gate = gate /\ run'.status = gate /\ run'.tests = run.tests /\ run'.report = run.report
  BY <1>1, <1>3, <1>4, StagedTyped
<1>6. GateOf(run') = gate BY <1>5 DEF GateOf, gate
<1>7. Gated' BY <1>1, <1>2, <1>5, <1>6 DEF Sound, Gated, Late
<1>8. Named'
  <2>1. Onward(at, at')
    BY <1>1 DEF Onward, ToPlan, ToCode, ToTests, ToRepair, ToRetest, ToReview
  <2>2. QED BY <1>1, <2>1, OnwardNamed DEF Sound
<1>9. Listed' /\ Known' /\ InLine'
  BY <1>1 DEF Listed, Known, InLine, AfterCode, Judgement
<1>10. QED BY <1>1, <1>7, <1>8, <1>9, Untouched DEF Sound

(* After the gate nothing the decision rests on changes.                   *)
LEMMA CloseSound ==
  ASSUME TypeOK, Sound, Finalize \/ Capture \/ Seal
  PROVE  Sound'
<1>1. /\ UNCHANGED <<mirror, rows, shown, replay, replays>>
      /\ at \in {"finalize", "capture", "seal"} /\ at' \in {"capture", "seal", "done"}
      /\ touched' => touched
  BY DEF Finalize, Capture, Seal, Goto, records, audit
<1>2. faults' \in Nat /\ (faults' = 0 => faults = 0)
  <2>1. CASE Seal BY <2>1 DEF Seal, TypeOK
  <2>2. CASE Capture
    <3>1. PICK lost \in BOOLEAN : Lose(IF lost THEN 1 ELSE 0) BY <2>2 DEF Capture
    <3>2. (IF lost THEN 1 ELSE 0) \in Nat OBVIOUS
    <3>3. QED BY <3>1, <3>2, LoseTyped
  <2>3. CASE Finalize
    <3>1. PICK lostF, lostA : Lose((IF lostF = {} THEN 0 ELSE 1) + (IF lostA = {} THEN 0 ELSE 1))
      BY <2>3 DEF Finalize
    <3>2. (IF lostF = {} THEN 0 ELSE 1) + (IF lostA = {} THEN 0 ELSE 1) \in Nat OBVIOUS
    <3>3. QED BY <3>1, <3>2, LoseTyped
  <2>4. QED BY <2>1, <2>2, <2>3
<1>3. run' = run \/ (run' = [run EXCEPT !.status = "failed"] /\ run.status = "running")
  BY DEF Finalize, Capture, Seal
<1>4. /\ run'.gate = run.gate /\ GateOf(run') = GateOf(run)
      /\ run.status # "running" => run'.status # "running"
  BY <1>3 DEF TypeOK, Run, GateOf
<1>5. Gated'
  <2>1. ~touched /\ ~touched' BY <1>1 DEF Sound, Gated
  <2>2. QED BY <1>1, <1>4, <2>1 DEF Sound, Gated, Late
<1>6. Named'
  <2>1. Onward(at, at')
    BY <1>1 DEF Onward, ToPlan, ToCode, ToTests, ToRepair, ToRetest, ToReview
  <2>2. QED BY <1>1, <2>1, OnwardNamed DEF Sound
<1>7. Listed' /\ Known' /\ InLine'
  BY <1>1 DEF Listed, Known, InLine, AfterCode, Judgement
<1>8. DowngradeDurable' BY <1>1, <1>2 DEF Sound, DowngradeDurable
<1>9. QED BY <1>1, <1>5, <1>6, <1>7, <1>8, Untouched DEF Sound

(* A process that is gone has no list, and a run that was decided is not   *)
(* taken up again.                                                         *)
LEMMA RestartSound ==
  ASSUME TypeOK, Sound, Crash \/ Resume
  PROVE  Sound'
<1>1. /\ UNCHANGED <<rows, shown, replay, touched, replays>> /\ mirror' = <<>>
      /\ at' \in {"down", "planning", "coding", "finalize"}
  BY DEF Crash, Resume, Goto, records, audit, Sound, Listed
<1>2. Listed' /\ Known' /\ InLine' /\ Named' /\ DowngradeDurable'
  BY <1>1 DEF Listed, Known, InLine, Named, DowngradeDurable, AfterCode, Judgement
<1>3. Gated'
  <2>1. CASE Crash BY <1>1, <2>1 DEF Crash, Goto, Sound, Gated, Late
  <2>2. CASE Resume
    <3>1. run.gate = "none" /\ ~touched BY <2>2 DEF Resume, Sound, Gated
    <3>2. run'.gate = run.gate BY <2>2 DEF Resume, TypeOK, Run
    <3>3. QED BY <1>1, <3>1, <3>2 DEF Gated
  <2>3. QED BY <2>1, <2>2
<1>4. QED BY <1>1, <1>2, <1>3, Untouched DEF Sound

LEMMA TamperSound ==
  ASSUME TypeOK, Sound, Tamper
  PROVE  Sound'
<1>1. UNCHANGED <<at, mirror, rows, shown, replay, faults, replays>> /\ touched' = TRUE /\ at = "done"
  BY DEF Tamper, records
<1>2. run'.status = run.status /\ (run.gate = "none" => run'.gate = "none")
  BY DEF Tamper, TypeOK, Run
<1>3. Gated' BY <1>1, <1>2 DEF Sound, Gated, Late
<1>4. Listed' /\ Known' /\ InLine' /\ Named'
  BY <1>1 DEF Sound, Listed, Known, InLine, Named, AfterCode, Judgement
<1>5. QED BY <1>1, <1>3, <1>4, Untouched DEF Sound

(* A replay decides again over the same record.                            *)
LEMMA ReplaySound ==
  ASSUME TypeOK, Sound, Replay
  PROVE  Sound'
<1>1. UNCHANGED <<run, at, mirror, shown, touched>> /\ replays' = replays + 1
      /\ at \in {"seal", "done"}
  BY DEF Replay
<1>2. Listed' /\ Known' /\ InLine' /\ Named' /\ Gated'
  BY <1>1 DEF Sound, Listed, Known, InLine, Named, Gated, AfterCode, Judgement
<1>3. DowngradeDurable' BY <1>1 DEF TypeOK, DowngradeDurable
<1>4. GateReplays'
  <2>1. PICK captured, verdict :
          replay' = [touched |-> touched,
                     fidelity |-> ExactChecks(captured).manifest_fidelity,
                     gate |-> ExactChecks(captured).quality_gate, verdict |-> verdict]
    BY DEF Replay
  <2>2. replay'.touched = touched /\ replay'.gate = CheckQualityGate BY <2>1, ChecksTyped
  <2>3. ~touched => CheckQualityGate # "failed" BY DEF CheckQualityGate, Check, Sound, Gated
  <2>4. QED BY <2>2, <2>3 DEF GateReplays
<1>5. QED BY <1>1, <1>2, <1>3, <1>4, Untouched DEF Sound

LEMMA StutterSound ==
  ASSUME Sound, UNCHANGED vars
  PROVE  Sound'
BY DEF Sound, Listed, Known, InLine, Named, Gated, ShownClaimsJudged, DowngradeDurable,
       GateReplays, vars

LEMMA NextSound ==
  ASSUME TypeOK, Sound, [Next]_vars
  PROVE  Sound'
BY WalkSound, TellingSound, JudgingSound, AskingSound, GateSound, CloseSound,
   RestartSound, TamperSound, ReplaySound, StutterSound DEF Next

THEOREM RecordSound == Spec => [](TypeOK /\ Sound)
BY InitTypes, InitSound, NextTypes, NextSound, PTL DEF Spec

(* No handoff shown to the repair or review agent says of the tests what   *)
(* the tests known by then deny, unless it is shown as rejected.           *)
(* (_detect_handoff_conflicts before each context)                         *)
THEOREM ClaimsJudged == Spec => []ShownClaimsJudged
<1>1. TypeOK /\ Sound => ShownClaimsJudged BY DEF Sound
<1>2. QED BY <1>1, RecordSound, PTL

(* While no write was lost and no replay has judged anew, the table says   *)
(* what the process says.  (_persist_handoff_status)                       *)
THEOREM Durable == Spec => []DowngradeDurable
<1>1. TypeOK /\ Sound => DowngradeDurable BY DEF Sound
<1>2. QED BY <1>1, RecordSound, PTL

(* A replay of a run nobody edited has the recorded decision again.        *)
(* (_check_quality_gate)                                                   *)
THEOREM GateAgain == Spec => []GateReplays
<1>1. TypeOK /\ Sound => GateReplays BY DEF Sound
<1>2. QED BY <1>1, RecordSound, PTL

=============================================================================
