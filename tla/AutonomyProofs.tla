--------------------------- MODULE AutonomyProofs ---------------------------
(***************************************************************************)
(* Proofs about the autonomy loop.                                         *)
(*                                                                         *)
(* AutonomousGoal, for any number of requests, any budget and any number   *)
(* of restarts and faults: the type invariant, that completion is shown by *)
(* evidence, that a cancel ends the iterations, and that they stay within  *)
(* the budget.                                                             *)
(*                                                                         *)
(* GoalJudgement, for any outcomes, policies and limits: a goal is         *)
(* completed on the evidence of its newest iteration, and nothing is begun *)
(* on top of a failing environment.  Both rest on one fact: the iterations *)
(* since the goal was loaded are the end of the history the controller     *)
(* judges by, and the criteria it counts as met are those of the newest.   *)
(***************************************************************************)
EXTENDS AutonomousGoal, GoalJudgement, FiniteSetTheorems, SequenceTheorems, TLAPS

(* The goal objects in memory and the requests that work on them.          *)
Held == /\ obj \in Goal
        /\ priv \in [Requests -> Goal]
        /\ task \in [Requests -> Task]

(* What a goal claims was shown by evidence among S.                       *)
Earned(g, S) ==
  /\ GateApproved(g.hist) => "approval" \in S
  /\ g.sat => "criteria" \in S
  /\ g.state = "completed" => {"criteria", "approval"} \subseteq S

(* The same of the evidence and the checkpoint a request carries.          *)
Carried(t, S) ==
  /\ Satisfies(t.ev) => "criteria" \in S
  /\ t.mark = "completed" => {"criteria", "approval"} \subseteq S

AllEarned(S) ==
  /\ Earned(obj, S)
  /\ \A r \in Requests : Earned(priv[r], S) /\ Carried(task[r], S)

(* The invariant behind CompletionShown: not only a completed goal but all *)
(* that a decision to complete it will ever be taken from is shown.        *)
CompletionInv == Earned(row, shown) /\ AllEarned(shown)

(* The invariant behind CancelStops: a request that began an iteration     *)
(* after a cancel is in the server, which still holds the flag, and is     *)
(* past every decision made before it.                                     *)
CancelInv ==
  \A r \in Requests :
    late[r] # 0 => /\ late[r] = 1 /\ srv.cancel
                   /\ ~task[r].cli /\ task[r].at # "decided"

USE DEF GateApproved, Satisfies
-----------------------------------------------------------------------------
(* Types of goals and tasks, one field at a time.                          *)

LEMMA GoalType ==
  ASSUME NEW g \in Goal
  PROVE  /\ \A s \in States : [g EXCEPT !.state = s] \in Goal
         /\ \A n \in Nat : [g EXCEPT !.version = n] \in Goal
         /\ \A h \in Evidence : [g EXCEPT !.hist = h] \in Goal
         /\ \A b \in BOOLEAN : [g EXCEPT !.sat = b] \in Goal
         /\ \A n \in Nat : [g EXCEPT !.iters = n] \in Goal
         /\ \A n \in Nat : [g EXCEPT !.replans = n] \in Goal
         /\ \A n \in 0 .. MaxRepairs : [g EXCEPT !.repairs = n] \in Goal
BY DEF Goal

LEMMA TaskType ==
  ASSUME NEW t \in Task
  PROVE  /\ \A p \in Points : [t EXCEPT !.at = p] \in Task
         /\ \A b \in BOOLEAN : [t EXCEPT !.cli = b] \in Task
         /\ \A b \in BOOLEAN : [t EXCEPT !.own = b] \in Task
         /\ \A a \in Actions : [t EXCEPT !.act = a] \in Task
         /\ \A e \in Evidence \union {"none"} : [t EXCEPT !.ev = e] \in Task
         /\ \A n \in Nat : [t EXCEPT !.want = n] \in Task
         /\ \A s \in States : [t EXCEPT !.mark = s] \in Task
         /\ \A n \in Nat : [t EXCEPT !.count = n] \in Task
         /\ \A a \in Afters : [t EXCEPT !.after = a] \in Task
BY DEF Task

LEMMA NewTypes ==
  NewGoal \in Goal /\ IdleTask \in Task /\ Earned(NewGoal, {})
  /\ Carried(IdleTask, {})
BY GoalAssumption
   DEF NewGoal, Goal, IdleTask, Task, States, Terminal, Points, Actions,
       Afters, Earned, Carried

LEMMA EarnedMonotone ==
  ASSUME NEW S, NEW T, S \subseteq T
  PROVE  /\ \A g : Earned(g, S) => Earned(g, T)
         /\ \A t : Carried(t, S) => Carried(t, T)
         /\ AllEarned(S) => AllEarned(T)
BY DEF Earned, Carried, AllEarned
-----------------------------------------------------------------------------
(* The ways an action changes a goal and the task of its request keep the  *)
(* types and what is earned.                                               *)

LEMMA MineKeeps ==
  ASSUME NEW S, Held, AllEarned(S), NEW r \in Requests
  PROVE  /\ Mine(r) \in Goal /\ Earned(Mine(r), S)
         /\ task[r] \in Task /\ Carried(task[r], S)
BY DEF Held, AllEarned, Mine

LEMMA LoadedKeeps ==
  ASSUME NEW S, row \in Row, Earned(row, S)
  PROVE  Loaded \in Goal /\ Earned(Loaded, S)
BY DEF Loaded, Row, Goal, Earned

LEMMA SetKeeps ==
  ASSUME NEW S, Held, AllEarned(S), NEW r \in Requests,
         NEW g \in Goal, Earned(g, S), NEW t \in Task, Carried(t, S),
         Set(r, g, t)
  PROVE  Held' /\ AllEarned(S)'
BY DEF Held, AllEarned, Set

LEMMA LeavesKeeps ==
  ASSUME NEW S, Held, AllEarned(S), NEW r \in Requests,
         NEW g \in Goal, Earned(g, S), NEW t,
         NEW next \in Task, Carried(next, S), Leaves(r, g, t, next)
  PROVE  Held' /\ AllEarned(S)'
<1>1. NewGoal \in Goal /\ Earned(NewGoal, S)
  BY NewTypes, EarnedMonotone, {} \subseteq S
<1> QED BY <1>1 DEF Held, AllEarned, Leaves

LEMMA LeaveKeeps ==
  ASSUME NEW S, Held, AllEarned(S), NEW r \in Requests,
         NEW g \in Goal, Earned(g, S), NEW t, Leave(r, g, t)
  PROVE  Held' /\ AllEarned(S)'
<1>1. IdleTask \in Task /\ Carried(IdleTask, S)
  BY NewTypes, EarnedMonotone, {} \subseteq S
<1> QED BY <1>1, LeavesKeeps DEF Leave

(* A task that goes to another point carries what it carried.              *)
LEMMA GoesKeeps ==
  ASSUME NEW S, NEW t \in Task, Carried(t, S), NEW p \in Points
  PROVE  /\ [t EXCEPT !.at = p] \in Task
         /\ Carried([t EXCEPT !.at = p], S)
         /\ \A a \in Afters :
              /\ [t EXCEPT !.at = p, !.after = a] \in Task
              /\ Carried([t EXCEPT !.at = p, !.after = a], S)
         /\ \A x \in Actions :
              /\ [t EXCEPT !.at = p, !.act = x] \in Task
              /\ Carried([t EXCEPT !.at = p, !.act = x], S)
BY DEF Task, Carried

LEMMA MarkKeeps ==
  ASSUME NEW S, Held, AllEarned(S), NEW r \in Requests,
         NEW g \in Goal, Earned(g, S), NEW t \in Task, Carried(t, S),
         NEW a \in Afters, Mark(r, g, t, a)
  PROVE  Held' /\ AllEarned(S)'
<1> DEFINE h == [g EXCEPT !.version = @ + 1]
           u == [t EXCEPT !.at = "cas", !.want = g.version,
                          !.mark = g.state, !.count = g.iters, !.after = a]
<1>1. g.version \in Nat /\ g.state \in States /\ g.iters \in Nat
  BY DEF Goal
<1>2. h \in Goal /\ Earned(h, S)
  BY <1>1, GoalType DEF Earned, Goal
<1>3. u \in Task /\ Carried(u, S)
  BY <1>1 DEF Task, Points, Carried, Earned
<1> QED BY <1>2, <1>3, SetKeeps DEF Mark

LEMMA DecideType ==
  ASSUME NEW g
  PROVE  Decide(g) \subseteq {"continue", "repair", "replan", "complete",
                              "stop", "escalate"}
BY DEF Decide, Stuck

(* The head of the loop completes a goal only when both were shown.        *)
LEMMA HeadKeeps ==
  ASSUME NEW S, Held, AllEarned(S), NEW r \in Requests,
         NEW g \in Goal, Earned(g, S), NEW t \in Task, Carried(t, S),
         LoopHead(r, g, t)
  PROVE  Held' /\ AllEarned(S)'
<1> DEFINE to(s) == [g EXCEPT !.state = s]
<1>1. \A s \in {"cancelled", "paused", "stopped"} :
        to(s) \in Goal /\ Earned(to(s), S)
  BY GoalType DEF Earned, Goal, States, Terminal
<1>2. "complete" \in Decide(g) => to("completed") \in Goal
                                /\ Earned(to("completed"), S)
  BY GoalType DEF Decide, Stuck, Earned, Goal, States, Terminal
<1>3. "leave" \in Afters /\ "note" \in Afters
      /\ {"note", "escalate", "spent", "decided"} \subseteq Points
  BY DEF Afters, Points
<1>4. CASE g.state # "running"
  BY <1>4, LeaveKeeps DEF LoopHead
<1>5. CASE g.state = "running" /\ ~t.cli /\ (srv.cancel \/ srv.pause)
  BY <1>1, <1>3, <1>5, MarkKeeps DEF LoopHead
<1>6. CASE g.state = "running" /\ (t.cli \/ (~srv.cancel /\ ~srv.pause))
  <2>1. PICK a \in Decide(g) :
          \/ a = "complete" /\ Set(r, to("completed"),
                                   [t EXCEPT !.at = "note"])
          \/ a = "stop" /\ Set(r, to("stopped"), [t EXCEPT !.at = "note"])
          \/ a = "escalate" /\ Set(r, g, [t EXCEPT !.at = "escalate",
                                                   !.after = "note"])
          \/ /\ a \notin {"complete", "stop", "escalate"}
             /\ \E p \in {"spent", "decided"} :
                  Set(r, g, [t EXCEPT !.at = p, !.act = a])
    BY <1>6 DEF LoopHead
  <2> HIDE DEF to
  <2>6. /\ [t EXCEPT !.at = "note"] \in Task
        /\ Carried([t EXCEPT !.at = "note"], S)
    BY <1>3, GoesKeeps
  <2>2. CASE a = "complete"
    <3>1. /\ to("completed") \in Goal /\ Earned(to("completed"), S)
          /\ Set(r, to("completed"), [t EXCEPT !.at = "note"])
      BY <1>2, <2>1, <2>2
    <3> QED BY <2>6, <3>1, SetKeeps
  <2>3. CASE a = "stop"
    <3>1. /\ to("stopped") \in Goal /\ Earned(to("stopped"), S)
          /\ Set(r, to("stopped"), [t EXCEPT !.at = "note"])
      BY <1>1, <2>1, <2>3
    <3> QED BY <2>6, <3>1, SetKeeps
  <2>4. CASE a = "escalate"
    <3> DEFINE u == [t EXCEPT !.at = "escalate", !.after = "note"]
    <3>1. u \in Task /\ Carried(u, S)
      BY <1>3, GoesKeeps
    <3>2. Set(r, g, u)
      BY <2>1, <2>4
    <3> QED BY <3>1, <3>2, SetKeeps
  <2>5. CASE a \notin {"complete", "stop", "escalate"}
    <3>1. a \in Actions
      BY <2>5, DecideType DEF Actions
    <3>2. PICK p \in {"spent", "decided"} :
            Set(r, g, [t EXCEPT !.at = p, !.act = a])
      BY <2>1, <2>5
    <3>3. /\ [t EXCEPT !.at = p, !.act = a] \in Task
          /\ Carried([t EXCEPT !.at = p, !.act = a], S)
      BY <1>3, <3>1, GoesKeeps
    <3> QED BY <3>2, <3>3, SetKeeps
  <2> QED BY <2>2, <2>3, <2>4, <2>5
<1> QED BY <1>4, <1>5, <1>6

(* The criteria met by the evidence of the iteration are shown.            *)
LEMMA EvaluateKeeps ==
  ASSUME NEW S, Held, AllEarned(S), NEW r \in Requests,
         NEW g \in Goal, Earned(g, S), NEW t \in Task, Carried(t, S),
         Evaluate(r, g, t)
  PROVE  Held' /\ AllEarned(S)'
<1> DEFINE judged == [g EXCEPT !.sat = Satisfies(t.ev)]
           done == [t EXCEPT !.ev = "none"]
           asks == [done EXCEPT !.at = "escalate", !.after = "leave"]
<1>1. judged \in Goal /\ Earned(judged, S)
  <2>1. Satisfies(t.ev) \in BOOLEAN
    OBVIOUS
  <2>2. Satisfies(t.ev) => "criteria" \in S
    BY DEF Carried
  <2> HIDE DEF Satisfies
  <2>3. judged \in Goal
    BY <2>1, GoalType
  <2> QED BY <2>1, <2>2, <2>3 DEF Earned, Goal
<1>2. done \in Task /\ Carried(done, S)
  <2>1. done \in Task
    BY TaskType
  <2> QED BY <2>1 DEF Carried, Task
<1>3. asks \in Task /\ Carried(asks, S)
  BY <1>2, GoesKeeps DEF Points, Afters
<1>4. "turn" \in Afters
  BY DEF Afters
<1>5. Mark(r, judged, done, "turn") \/ Set(r, judged, asks)
  BY DEF Evaluate
<1> HIDE DEF judged, done, asks
<1>6. CASE Mark(r, judged, done, "turn")
  BY <1>1, <1>2, <1>4, <1>6, MarkKeeps
<1>7. CASE Set(r, judged, asks)
  BY <1>1, <1>3, <1>7, SetKeeps
<1> QED BY <1>5, <1>6, <1>7

LEMMA CheckpointedKeeps ==
  ASSUME NEW S, Held, AllEarned(S), NEW r \in Requests,
         NEW g \in Goal, Earned(g, S), NEW t \in Task, Carried(t, S),
         Checkpointed(r, g, t)
  PROVE  Held' /\ AllEarned(S)'
<1> DEFINE u == [t EXCEPT !.at = t.after, !.want = 0, !.mark = "running",
                          !.count = 0, !.after = "leave"]
<1>1. CASE t.after = "leave"
  BY <1>1, LeaveKeeps DEF Checkpointed
<1>2. CASE t.after # "leave"
  <2>1. t.after \in Points
    BY <1>2 DEF Task, Afters, Points
  <2>2. u \in Task /\ Carried(u, S)
    BY <2>1 DEF Task, Carried, States, Terminal, Afters
  <2>3. Set(r, g, u)
    BY <1>2 DEF Checkpointed
  <2> QED BY <2>2, <2>3, SetKeeps
<1> QED BY <1>1, <1>2
-----------------------------------------------------------------------------
(* The steps of a request that shows nothing new.                          *)

LEMMA BeginKeeps ==
  ASSUME NEW S, TypeOK, Earned(row, S), AllEarned(S), NEW r \in Requests,
         Begin(r)
  PROVE  Held' /\ AllEarned(S)'
<1> DEFINE own == task[r].cli \/ ~srv.hosts
           t == [task[r] EXCEPT !.own = own]
           g == IF own THEN Loaded ELSE obj
           h == [g EXCEPT !.state = "running"]
<1>1. Held
  BY DEF TypeOK, Held
<1>2. own \in BOOLEAN
  BY DEF TypeOK, Task
<1>3. t \in Task /\ Carried(t, S)
  <2>1. task[r] \in Task /\ Carried(task[r], S)
    BY <1>1, MineKeeps
  <2> HIDE DEF own
  <2>2. t \in Task
    BY <1>2, <2>1, TaskType
  <2> QED BY <2>1, <2>2 DEF Carried, Task
<1>4. g \in Goal /\ Earned(g, S)
  <2>1. row \in Row
    BY DEF TypeOK
  <2>2. Loaded \in Goal /\ Earned(Loaded, S)
    BY <2>1, LoadedKeeps
  <2>3. obj \in Goal /\ Earned(obj, S)
    BY DEF TypeOK, AllEarned
  <2> QED BY <2>2, <2>3
<1>5. h \in Goal /\ Earned(h, S)
  BY <1>4, GoalType DEF Earned, Goal, States
<1>6. obj \in Goal /\ Earned(obj, S)
  BY DEF TypeOK, AllEarned
<1>7. Leave(r, g, t) \/ LoopHead(r, h, t) \/ Leave(r, obj, t)
  BY DEF Begin
<1> HIDE DEF own, t, g, h
<1> QED
  BY <1>1, <1>3, <1>4, <1>5, <1>6, <1>7, LeaveKeeps, HeadKeeps

LEMMA TurnKeeps ==
  ASSUME NEW S, TypeOK, AllEarned(S), NEW r \in Requests, Turn(r)
  PROVE  Held' /\ AllEarned(S)'
<1> DEFINE asks == [task[r] EXCEPT !.at = "escalate", !.after = "leave"]
<1>1. Held
  BY DEF TypeOK, Held
<1>2. /\ Mine(r) \in Goal /\ Earned(Mine(r), S)
      /\ task[r] \in Task /\ Carried(task[r], S)
  BY <1>1, MineKeeps
<1>3. asks \in Task /\ Carried(asks, S)
  BY <1>2, GoesKeeps DEF Points, Afters
<1>4. Set(r, Mine(r), asks) \/ LoopHead(r, Mine(r), task[r])
  BY DEF Turn
<1> HIDE DEF asks
<1>5. CASE Set(r, Mine(r), asks)
  BY <1>1, <1>2, <1>3, <1>5, SetKeeps
<1>6. CASE LoopHead(r, Mine(r), task[r])
  BY <1>1, <1>2, <1>6, HeadKeeps
<1> QED BY <1>4, <1>5, <1>6

LEMMA NoteKeeps ==
  ASSUME NEW S, TypeOK, AllEarned(S), NEW r \in Requests, Note(r)
  PROVE  Held' /\ AllEarned(S)'
<1>1. Held
  BY DEF TypeOK, Held
<1> QED BY <1>1, MineKeeps, MarkKeeps DEF Note, Afters

LEMMA EscalateKeeps ==
  ASSUME NEW S, TypeOK, AllEarned(S), NEW r \in Requests, Escalate(r)
  PROVE  Held' /\ AllEarned(S)'
<1> DEFINE g == [Mine(r) EXCEPT !.state = "waiting"]
           t == [task[r] EXCEPT !.at = "note"]
<1>1. Held
  BY DEF TypeOK, Held
<1>2. /\ Mine(r) \in Goal /\ Earned(Mine(r), S)
      /\ task[r] \in Task /\ Carried(task[r], S)
  BY <1>1, MineKeeps
<1>3. g \in Goal /\ Earned(g, S)
  BY <1>2, GoalType DEF Earned, Goal, States
<1>4. t \in Task /\ Carried(t, S)
  BY <1>2, GoesKeeps DEF Points
<1>5. Set(r, g, t) \/ Mark(r, g, task[r], "leave")
  BY DEF Escalate
<1> HIDE DEF g, t
<1> QED
  BY <1>1, <1>2, <1>3, <1>4, <1>5, SetKeeps, MarkKeeps DEF Afters

LEMMA OutOfBudgetKeeps ==
  ASSUME NEW S, TypeOK, AllEarned(S), NEW r \in Requests, OutOfBudget(r)
  PROVE  Held' /\ AllEarned(S)'
<1> DEFINE g == [Mine(r) EXCEPT !.state = "stopped"]
           t == [task[r] EXCEPT !.at = "escalate", !.after = "leave"]
<1>1. Held
  BY DEF TypeOK, Held
<1>2. /\ Mine(r) \in Goal /\ Earned(Mine(r), S)
      /\ task[r] \in Task /\ Carried(task[r], S)
  BY <1>1, MineKeeps
<1>3. g \in Goal /\ Earned(g, S)
  BY <1>2, GoalType DEF Earned, Goal, States, Terminal
<1>4. t \in Task /\ Carried(t, S)
  BY <1>2, GoesKeeps DEF Points, Afters
<1>5. Set(r, Mine(r), t) \/ Mark(r, g, task[r], "leave")
  BY DEF OutOfBudget
<1> HIDE DEF g, t
<1> QED
  BY <1>1, <1>2, <1>3, <1>4, <1>5, SetKeeps, MarkKeeps DEF Afters

LEMMA StartKeeps ==
  ASSUME NEW S, TypeOK, AllEarned(S), NEW r \in Requests, Start(r)
  PROVE  Held' /\ AllEarned(S)'
<1> DEFINE t == [task[r] EXCEPT !.at = "iterate", !.act = "none"]
<1>1. Held
  BY DEF TypeOK, Held
<1>2. /\ Mine(r) \in Goal /\ Earned(Mine(r), S)
      /\ task[r] \in Task /\ Carried(task[r], S)
  BY <1>1, MineKeeps
<1>3. t \in Task /\ Carried(t, S)
  BY <1>2, GoesKeeps DEF Points, Actions
<1>4. PICK g : /\ Set(r, g, t)
               /\ \/ g = [Mine(r) EXCEPT !.replans = @ + 1]
                  \/ g = [Mine(r) EXCEPT !.repairs = Least(MaxRepairs, @ + 1)]
                  \/ g = Mine(r)
  BY DEF Start
<1>5. g \in Goal
  <2>1. Mine(r).replans + 1 \in Nat
        /\ Least(MaxRepairs, Mine(r).repairs + 1) \in 0 .. MaxRepairs
    BY <1>2, GoalAssumption DEF Goal, Least
  <2> QED BY <1>2, <1>4, <2>1, GoalType
<1>6. Earned(g, S)
  BY <1>2, <1>4 DEF Earned, Goal
<1> HIDE DEF t
<1> QED BY <1>1, <1>3, <1>4, <1>5, <1>6, SetKeeps

(* The evidence of an iteration is shown when it enters the history.       *)
LEMMA IterateKeeps ==
  ASSUME NEW S, S = shown, NEW T, T = shown', TypeOK, AllEarned(S),
         NEW r \in Requests, Iterate(r)
  PROVE  Held' /\ AllEarned(T)' /\ S \subseteq T
<1>1. Held
  BY DEF TypeOK, Held
<1>2. PICK e \in Shows :
        LET g == [Mine(r) EXCEPT !.iters = @ + 1, !.hist = e]
            t == [task[r] EXCEPT !.ev = e]
        IN  /\ T = S \union (IF Satisfies(e) THEN {"criteria"} ELSE {})
                     \union (IF GateApproved(e) THEN {"approval"} ELSE {})
            /\ Evaluate(r, g, t) \/ Set(r, g, [t EXCEPT !.at = "plans"])
  BY DEF Iterate
<1> DEFINE g == [Mine(r) EXCEPT !.iters = @ + 1, !.hist = e]
           t == [task[r] EXCEPT !.ev = e]
           u == [t EXCEPT !.at = "plans"]
<1>3. S \subseteq T
  BY <1>2
<1>4. AllEarned(T)
  BY <1>3, EarnedMonotone
<1>5. /\ Mine(r) \in Goal /\ Earned(Mine(r), T)
      /\ task[r] \in Task /\ Carried(task[r], T)
  BY <1>1, <1>4, MineKeeps
<1>6. e \in Evidence
  BY GoalAssumption
<1>7. g \in Goal
  <2>1. [Mine(r) EXCEPT !.iters = @ + 1] \in Goal
    BY <1>5, GoalType DEF Goal
  <2>2. g = [[Mine(r) EXCEPT !.iters = @ + 1] EXCEPT !.hist = e]
    BY <1>5 DEF Goal
  <2> QED BY <1>6, <2>1, <2>2, GoalType
<1>8. Earned(g, T)
  BY <1>2, <1>5, <1>6 DEF Earned, Goal, Evidence
<1>9. t \in Task
  BY <1>5, <1>6, TaskType
<1>10. Carried(t, T)
  BY <1>2, <1>5, <1>6 DEF Carried, Task, Evidence
<1>11. u \in Task /\ Carried(u, T)
  BY <1>9, <1>10, GoesKeeps DEF Points
<1>12. Evaluate(r, g, t) \/ Set(r, g, u)
  BY <1>2
<1> HIDE DEF g, t, u
<1>13. CASE Evaluate(r, g, t)
  BY <1>1, <1>3, <1>4, <1>7, <1>8, <1>9, <1>10, <1>13, EvaluateKeeps
<1>14. CASE Set(r, g, u)
  BY <1>1, <1>3, <1>4, <1>7, <1>8, <1>11, <1>14, SetKeeps
<1> QED BY <1>12, <1>13, <1>14

LEMMA StorePlansKeeps ==
  ASSUME NEW S, TypeOK, AllEarned(S), NEW r \in Requests, StorePlans(r)
  PROVE  Held' /\ AllEarned(S)'
<1>1. Held
  BY DEF TypeOK, Held
<1> QED BY <1>1, MineKeeps, EvaluateKeeps DEF StorePlans
-----------------------------------------------------------------------------
(* The steps of a request in the database.                                 *)

LEMMA CompareKeeps ==
  ASSUME NEW S, TypeOK, Earned(row, S), AllEarned(S), NEW r \in Requests,
         Compare(r)
  PROVE  Held' /\ AllEarned(S)' /\ row' \in Row /\ Earned(row', S)
<1> DEFINE t == task[r]
           g == Mine(r)
           back == [g EXCEPT !.version = t.want]
           u == [t EXCEPT !.at = "reload"]
<1>1. Held /\ row \in Row
  BY DEF TypeOK, Held
<1>2. g \in Goal /\ Earned(g, S) /\ t \in Task /\ Carried(t, S)
  BY <1>1, MineKeeps
<1>3. CASE Checkpointed(r, g, t) /\ row' = row
  BY <1>1, <1>2, <1>3, CheckpointedKeeps
<1>4. CASE Set(r, back, u) /\ row' = row
  <2>1. t.want \in Nat
    BY <1>2 DEF Task
  <2>2. back \in Goal
    BY <1>2, <2>1, GoalType
  <2>3. Earned(back, S)
    BY <1>2 DEF Earned, Goal
  <2>4. u \in Task /\ Carried(u, S)
    BY <1>2, GoesKeeps DEF Points
  <2> HIDE DEF back, u
  <2> QED BY <1>1, <1>4, <2>2, <2>3, <2>4, SetKeeps
<1>5. CASE /\ Checkpointed(r, g, t)
           /\ row' = [row EXCEPT !.version = t.want + 1, !.state = t.mark,
                        !.hist = IF g.hist # "none" /\ t.count >= row.at
                                 THEN g.hist ELSE @,
                        !.at = IF g.hist # "none" /\ t.count >= row.at
                               THEN t.count ELSE @]
  <2> DEFINE h == IF g.hist # "none" /\ t.count >= row.at
                  THEN g.hist ELSE row.hist
             n == IF g.hist # "none" /\ t.count >= row.at
                  THEN t.count ELSE row.at
  <2>1. row' = [[[[row EXCEPT !.version = t.want + 1] EXCEPT !.state = t.mark]
                      EXCEPT !.hist = h] EXCEPT !.at = n]
    BY <1>1, <1>5 DEF Row
  <2>2. /\ t.want + 1 \in Nat /\ t.mark \in States
        /\ h \in Evidence \union {"none"} /\ n \in Nat
    BY <1>1, <1>2 DEF Row, Task, Goal
  <2>3. h \in {"proven", "approved"} => "approval" \in S
    BY <1>2 DEF Earned
  <2> HIDE DEF h, n, g, t
  <2>4. row' \in Row
    BY <1>1, <2>1, <2>2 DEF Row
  <2>5. Earned(row', S)
    BY <1>1, <1>2, <2>1, <2>3 DEF Earned, Carried, Row
  <2> QED BY <1>1, <1>2, <1>5, <2>4, <2>5, CheckpointedKeeps
<1> QED BY <1>3, <1>4, <1>5 DEF Compare

LEMMA ReloadKeeps ==
  ASSUME NEW S, TypeOK, AllEarned(S), NEW r \in Requests, Reload(r)
  PROVE  Held' /\ AllEarned(S)'
<1>1. Held
  BY DEF TypeOK, Held
<1> QED BY <1>1, MineKeeps, LeaveKeeps, CheckpointedKeeps DEF Reload

LEMMA PersistKeeps ==
  ASSUME NEW S, TypeOK, Earned(row, S), AllEarned(S), NEW r \in Requests,
         Persist(r)
  PROVE  Held' /\ AllEarned(S)' /\ row' \in Row /\ Earned(row', S)
<1> DEFINE g == Mine(r)
           next == IF task[r].after = "leave" THEN IdleTask
                   ELSE [IdleTask EXCEPT !.at = "begin", !.cli = task[r].cli]
<1>1. Held /\ row \in Row
  BY DEF TypeOK, Held
<1>2. g \in Goal /\ Earned(g, S) /\ task[r] \in Task
  BY <1>1, MineKeeps
<1>3. next \in Task /\ Carried(next, S)
  BY <1>2 DEF IdleTask, Task, Carried, Points, Actions, Afters, States
<1>4. Held' /\ AllEarned(S)'
  <2>1. Leaves(r, g, task[r], next)
    BY DEF Persist
  <2> HIDE DEF next, g
  <2> QED BY <1>1, <1>2, <1>3, <2>1, LeavesKeeps
<1>5. CASE row' = row
  BY <1>1, <1>4, <1>5
<1>6. CASE row' = [row EXCEPT !.state = g.state, !.version = g.version,
                     !.sat = g.sat, !.iters = g.iters,
                     !.replans = g.replans, !.repairs = g.repairs]
  <2>1. row' \in Row
    BY <1>1, <1>2, <1>6 DEF Row, Goal
  <2>2. Earned(row', S)
    BY <1>1, <1>2, <1>6 DEF Earned, Row
  <2> QED BY <1>4, <2>1, <2>2
<1> QED BY <1>5, <1>6 DEF Persist
-----------------------------------------------------------------------------
(* The requests and the restart.                                           *)

LEMMA FoundKeeps ==
  ASSUME NEW S, TypeOK, Earned(row, S), AllEarned(S), NEW cli \in BOOLEAN
  PROVE  /\ Arrival(cli) \in Task /\ Carried(Arrival(cli), S)
         /\ Found(Arrival(cli)) \in Goal /\ Earned(Found(Arrival(cli)), S)
<1>1. (cli \/ ~srv.hosts) \in BOOLEAN
  OBVIOUS
<1>2. IdleTask \in Task /\ Carried(IdleTask, S)
  BY NewTypes, EarnedMonotone, {} \subseteq S
<1>3. Arrival(cli) \in Task
  <2>1. Arrival(cli) = [[IdleTask EXCEPT !.cli = cli]
                                  EXCEPT !.own = cli \/ ~srv.hosts]
    BY DEF Arrival, IdleTask
  <2> QED BY <1>1, <1>2, <2>1, TaskType
<1>4. Carried(Arrival(cli), S)
  BY DEF Arrival, IdleTask, Carried
<1>5. row \in Row /\ obj \in Goal /\ Earned(obj, S)
  BY DEF TypeOK, AllEarned
<1> QED BY <1>3, <1>4, <1>5, LoadedKeeps DEF Found

LEMMA ResumeKeeps ==
  ASSUME NEW S, TypeOK, Earned(row, S), AllEarned(S), NEW r \in Requests,
         NEW cli \in BOOLEAN, Resume(r, cli)
  PROVE  Held' /\ AllEarned(S)'
<1> DEFINE t == Arrival(cli)
           g == Found(t)
           h == [g EXCEPT !.state = "resuming"]
           u == [t EXCEPT !.at = "persist", !.after = "begin"]
           next == [IdleTask EXCEPT !.at = "begin", !.cli = cli]
<1>1. Held
  BY DEF TypeOK, Held
<1>2. t \in Task /\ Carried(t, S) /\ g \in Goal /\ Earned(g, S)
  BY FoundKeeps
<1>3. h \in Goal /\ Earned(h, S)
  BY <1>2, GoalType DEF Earned, Goal, States
<1>4. u \in Task /\ Carried(u, S)
  BY <1>2, GoesKeeps DEF Points, Afters
<1>5. next \in Task /\ Carried(next, S)
  BY DEF IdleTask, Task, Carried, Points, Actions, Afters, States
<1>6. Set(r, h, u) \/ Leaves(r, g, t, next)
  BY DEF Resume
<1> HIDE DEF t, g, h, u, next
<1> QED
  BY <1>1, <1>2, <1>3, <1>4, <1>5, <1>6, SetKeeps, LeavesKeeps

LEMMA CancelKeeps ==
  ASSUME NEW S, TypeOK, Earned(row, S), AllEarned(S), NEW r \in Requests,
         NEW cli \in BOOLEAN, Cancel(r, cli)
  PROVE  Held' /\ AllEarned(S)'
<1> DEFINE t == Arrival(cli)
           g == Found(t)
           h == [g EXCEPT !.state = "cancelled"]
<1>1. Held
  BY DEF TypeOK, Held
<1>2. t \in Task /\ Carried(t, S) /\ g \in Goal /\ Earned(g, S)
  BY FoundKeeps
<1>3. h \in Goal /\ Earned(h, S)
  BY <1>2, GoalType DEF Earned, Goal, States, Terminal
<1>4. Mark(r, h, t, "persist")
  BY DEF Cancel
<1> HIDE DEF t, g, h
<1> QED BY <1>1, <1>2, <1>3, <1>4, MarkKeeps DEF Afters

LEMMA InputKeeps ==
  ASSUME NEW S, TypeOK, Earned(row, S), AllEarned(S), NEW r \in Requests,
         Input(r) \/ Resolve(r)
  PROVE  Held' /\ AllEarned(S)'
<1>1. Held
  BY DEF TypeOK, Held
<1>2. CASE Input(r)
  <2> DEFINE t == Arrival(FALSE)
             g == Found(t)
             u == [t EXCEPT !.at = "resolve"]
  <2>1. t \in Task /\ Carried(t, S) /\ g \in Goal /\ Earned(g, S)
    BY FoundKeeps
  <2>2. u \in Task /\ Carried(u, S)
    BY <2>1, GoesKeeps DEF Points
  <2>3. Set(r, g, u)
    BY <1>2 DEF Input
  <2> HIDE DEF t, g, u
  <2> QED BY <1>1, <2>1, <2>2, <2>3, SetKeeps
<1>3. CASE Resolve(r)
  <2> DEFINE g == [Mine(r) EXCEPT !.state = "resuming"]
             u == [task[r] EXCEPT !.at = "persist", !.after = "begin"]
  <2>1. /\ Mine(r) \in Goal /\ Earned(Mine(r), S)
        /\ task[r] \in Task /\ Carried(task[r], S)
    BY <1>1, MineKeeps
  <2>2. g \in Goal /\ Earned(g, S)
    BY <2>1, GoalType DEF Earned, Goal, States
  <2>3. u \in Task /\ Carried(u, S)
    BY <2>1, GoesKeeps DEF Points, Afters
  <2>4. Set(r, g, u)
    BY <1>3 DEF Resolve
  <2> HIDE DEF g, u
  <2> QED BY <1>1, <2>2, <2>3, <2>4, SetKeeps
<1> QED BY <1>2, <1>3

LEMMA RestartKeeps ==
  ASSUME NEW S, TypeOK, AllEarned(S), Restart
  PROVE  Held' /\ AllEarned(S)'
<1>1. /\ NewGoal \in Goal /\ Earned(NewGoal, S)
      /\ IdleTask \in Task /\ Carried(IdleTask, S)
  BY NewTypes, EarnedMonotone, {} \subseteq S
<1> QED BY <1>1 DEF TypeOK, Held, AllEarned, Restart
-----------------------------------------------------------------------------
(* Every step together.                                                    *)

Inv == TypeOK /\ CompletionInv

(* What a step does to the variables the lemmas above do not speak of.     *)
LEMMA ServeFrame ==
  ASSUME TypeOK, NEW r \in Requests, Serve(r)
  PROVE  /\ UNCHANGED <<kind, srv, calls, restarts>> /\ faults' \in Nat
         /\ late' = late \/ Start(r)
         /\ shown' = shown \/ Iterate(r)
<1>0. faults' \in Nat \/ ~(Fault \/ NoFault)
  BY DEF TypeOK, Fault, NoFault
<1>1. CASE Begin(r)
  BY <1>0, <1>1 DEF Begin
<1>2. CASE Turn(r)
  BY <1>0, <1>2 DEF Turn
<1>3. CASE Note(r)
  BY <1>0, <1>3 DEF Note
<1>4. CASE Escalate(r)
  BY <1>0, <1>4 DEF Escalate
<1>5. CASE OutOfBudget(r)
  BY <1>0, <1>5 DEF OutOfBudget
<1>6. CASE Start(r)
  BY <1>0, <1>6 DEF Start
<1>7. CASE Iterate(r)
  BY <1>0, <1>7 DEF Iterate
<1>8. CASE StorePlans(r)
  BY <1>0, <1>8 DEF StorePlans
<1>9. CASE Compare(r)
  BY <1>0, <1>9 DEF Compare
<1>10. CASE Reload(r)
  BY <1>0, <1>10 DEF Reload
<1>11. CASE Persist(r)
  BY <1>0, <1>11 DEF Persist
<1>12. CASE Resolve(r)
  BY <1>0, <1>12 DEF Resolve
<1> QED
  BY <1>1, <1>2, <1>3, <1>4, <1>5, <1>6, <1>7, <1>8, <1>9, <1>10, <1>11,
     <1>12 DEF Serve, Loop

LEMMA StartLate ==
  ASSUME TypeOK, NEW r \in Requests, Start(r)
  PROVE  late' \in [Requests -> 0 .. 2]
BY DEF TypeOK, Start, Least

LEMMA IterateShown ==
  ASSUME TypeOK, NEW r \in Requests, Iterate(r)
  PROVE  shown' \subseteq {"criteria", "approval"}
BY DEF TypeOK, Iterate

LEMMA RequestFrame ==
  ASSUME TypeOK, NEW r \in Requests, NEW cli \in BOOLEAN,
         Pause(r) \/ Input(r) \/ Resume(r, cli) \/ Cancel(r, cli)
  PROVE  /\ UNCHANGED <<kind, row, shown, restarts>>
         /\ calls' \in Nat /\ faults' \in Nat
         /\ late' = [late EXCEPT ![r] = 0]
         /\ srv' \in [hosts : BOOLEAN, cancel : BOOLEAN, pause : BOOLEAN]
         /\ srv.cancel => srv'.cancel
<1>1. \A c \in BOOLEAN : Arrives(r, c) =>
        /\ UNCHANGED <<kind, row, shown, restarts>>
        /\ calls' \in Nat /\ faults' \in Nat
        /\ late' = [late EXCEPT ![r] = 0]
  BY DEF TypeOK, Arrives, NoFault
<1>2. \E c \in BOOLEAN : Arrives(r, c)
  BY DEF Pause, Input, Resume, Cancel
<1>3. \/ srv' = srv
      \/ srv' = [srv EXCEPT !.pause = FALSE]
      \/ srv' = [srv EXCEPT !.cancel = TRUE]
      \/ \E b \in BOOLEAN : srv' = [srv EXCEPT !.pause = b]
  <2>1. CASE Pause(r)
    <3>1. (srv.pause \/ Found(Arrival(FALSE)).state
                           \in {"running", "resuming", "waiting"}) \in BOOLEAN
      OBVIOUS
    <3> QED BY <2>1, <3>1 DEF Pause
  <2>2. CASE Input(r)
    BY <2>2 DEF Input
  <2>3. CASE Resume(r, cli)
    BY <2>3 DEF Resume
  <2>4. CASE Cancel(r, cli)
    BY <2>4 DEF Cancel
  <2> QED BY <2>1, <2>2, <2>3, <2>4
<1> QED BY <1>1, <1>2, <1>3 DEF TypeOK

LEMMA RestartFrame ==
  ASSUME TypeOK, Restart
  PROVE  /\ UNCHANGED <<kind, row, shown, calls>>
         /\ restarts' \in Nat /\ faults' \in Nat
         /\ late' = [r \in Requests |-> 0]
         /\ srv' \in [hosts : BOOLEAN, cancel : BOOLEAN, pause : BOOLEAN]
BY DEF TypeOK, Restart, NoFault

LEMMA InvInit == Init => Inv
<1> SUFFICES ASSUME Init PROVE Inv
  OBVIOUS
<1>1. PICK first \in Requests :
        task = [r \in Requests |->
                  IF r = first THEN [IdleTask EXCEPT !.at = "begin"]
                               ELSE IdleTask]
  BY DEF Init
<1>2. IdleTask \in Task /\ [IdleTask EXCEPT !.at = "begin"] \in Task
  BY NewTypes, TaskType DEF Points
<1>3. row \in Row /\ Earned(row, shown)
  BY GoalAssumption DEF Init, Row, States, Terminal, Earned
<1>4. obj \in Goal /\ Earned(obj, shown) /\ priv \in [Requests -> Goal]
      /\ \A r \in Requests : Earned(priv[r], shown)
  BY NewTypes DEF Init
<1>5. \A r \in Requests : Carried(task[r], shown)
  BY <1>1 DEF Carried, IdleTask
<1>6. TypeOK
  BY <1>1, <1>2, <1>3, <1>4 DEF Init, TypeOK
<1> QED BY <1>3, <1>4, <1>5, <1>6 DEF Inv, CompletionInv, AllEarned

LEMMA ServeKeeps ==
  ASSUME Inv, NEW r \in Requests, Serve(r) PROVE Inv'
<1>1. PICK S : S = shown
  OBVIOUS
<1>2. PICK T : T = shown'
  OBVIOUS
<1>3. TypeOK /\ Earned(row, S) /\ AllEarned(S) /\ row \in Row
  BY <1>1 DEF Inv, CompletionInv, TypeOK
<1>4. Held' /\ AllEarned(T)' /\ row' \in Row /\ Earned(row', T)
  <2>1. CASE Iterate(r)
    <3>1. Held' /\ AllEarned(T)' /\ S \subseteq T
      BY <1>1, <1>2, <1>3, <2>1, IterateKeeps
    <3>2. row' = row
      BY <2>1 DEF Iterate
    <3>3. Earned(row, T)
      BY <1>3, <3>1, EarnedMonotone
    <3> QED BY <1>3, <3>1, <3>2, <3>3
  <2>2. CASE ~Iterate(r)
    <3>1. T = S
      BY <1>1, <1>2, <1>3, <2>2, ServeFrame
    <3>2. Held' /\ AllEarned(S)' /\ row' \in Row /\ Earned(row', S)
      <4>1. CASE Begin(r)
        BY <1>3, <4>1, BeginKeeps DEF Begin
      <4>2. CASE Turn(r)
        BY <1>3, <4>2, TurnKeeps DEF Turn
      <4>3. CASE Note(r)
        BY <1>3, <4>3, NoteKeeps DEF Note
      <4>4. CASE Escalate(r)
        BY <1>3, <4>4, EscalateKeeps DEF Escalate
      <4>5. CASE OutOfBudget(r)
        BY <1>3, <4>5, OutOfBudgetKeeps DEF OutOfBudget
      <4>6. CASE Start(r)
        BY <1>3, <4>6, StartKeeps DEF Start
      <4>7. CASE StorePlans(r)
        BY <1>3, <4>7, StorePlansKeeps DEF StorePlans
      <4>8. CASE Compare(r)
        BY <1>3, <4>8, CompareKeeps
      <4>9. CASE Reload(r)
        BY <1>3, <4>9, ReloadKeeps DEF Reload
      <4>10. CASE Persist(r)
        BY <1>3, <4>10, PersistKeeps
      <4>11. CASE Resolve(r)
        BY <1>3, <4>11, InputKeeps DEF Resolve
      <4> QED
        BY <2>2, <4>1, <4>2, <4>3, <4>4, <4>5, <4>6, <4>7, <4>8, <4>9,
           <4>10, <4>11 DEF Serve, Loop
    <3> QED BY <3>1, <3>2
  <2> QED BY <2>1, <2>2
<1>5. /\ UNCHANGED <<kind, srv, calls, restarts>> /\ faults' \in Nat
      /\ late' \in [Requests -> 0 .. 2]
      /\ shown' \subseteq {"criteria", "approval"}
  BY <1>3, ServeFrame, StartLate, IterateShown DEF TypeOK
<1>6. TypeOK'
  BY <1>3, <1>4, <1>5 DEF TypeOK, Held
<1>7. CompletionInv'
  BY <1>2, <1>4 DEF CompletionInv, AllEarned
<1> QED BY <1>6, <1>7 DEF Inv

LEMMA RequestKeeps ==
  ASSUME Inv, NEW r \in Requests, NEW cli \in BOOLEAN,
         Pause(r) \/ Input(r) \/ Resume(r, cli) \/ Cancel(r, cli)
  PROVE  Inv'
<1>1. PICK S : S = shown
  OBVIOUS
<1>2. TypeOK /\ Earned(row, S) /\ AllEarned(S)
  BY <1>1 DEF Inv, CompletionInv
<1>3. /\ UNCHANGED <<kind, row, shown, restarts>>
      /\ calls' \in Nat /\ faults' \in Nat
      /\ late' = [late EXCEPT ![r] = 0]
      /\ srv' \in [hosts : BOOLEAN, cancel : BOOLEAN, pause : BOOLEAN]
  BY <1>2, RequestFrame
<1>4. Held' /\ AllEarned(S)'
  <2>1. CASE Pause(r)
    BY <1>2, <2>1 DEF Pause, TypeOK, Held, AllEarned
  <2>2. CASE Input(r) \/ Resume(r, cli) \/ Cancel(r, cli)
    BY <1>2, <2>2, InputKeeps, ResumeKeeps, CancelKeeps
  <2> QED BY <2>1, <2>2
<1>5. TypeOK'
  <2>1. late' \in [Requests -> 0 .. 2]
    BY <1>2, <1>3 DEF TypeOK
  <2>2. /\ kind' \in Kinds /\ row' \in Row /\ restarts' \in Nat
        /\ shown' \subseteq {"criteria", "approval"}
    BY <1>2, <1>3 DEF TypeOK
  <2> QED BY <1>3, <1>4, <2>1, <2>2 DEF TypeOK, Held
<1>6. row' = row /\ shown' = S
  BY <1>1, <1>3
<1>7. CompletionInv'
  BY <1>2, <1>4, <1>6 DEF CompletionInv, AllEarned
<1> QED BY <1>5, <1>7 DEF Inv

LEMMA InvNext == Inv /\ [Next]_vars => Inv'
<1> SUFFICES ASSUME Inv, [Next]_vars PROVE Inv'
  OBVIOUS
<1>1. CASE \E r \in Requests : Serve(r)
  BY <1>1, ServeKeeps
<1>2. CASE \E r \in Requests : \E cli \in BOOLEAN :
             Pause(r) \/ Input(r) \/ Resume(r, cli) \/ Cancel(r, cli)
  BY <1>2, RequestKeeps
<1>3. CASE Restart
  <2>1. PICK S : S = shown
    OBVIOUS
  <2>2. TypeOK /\ Earned(row, S) /\ AllEarned(S)
    BY <2>1 DEF Inv, CompletionInv
  <2>3. Held' /\ AllEarned(S)'
    BY <1>3, <2>2, RestartKeeps
  <2>4. TypeOK'
    <3>1. late' \in [Requests -> 0 .. 2]
      BY <1>3, <2>2, RestartFrame
    <3>2. /\ kind' \in Kinds /\ row' \in Row /\ calls' \in Nat
          /\ shown' \subseteq {"criteria", "approval"}
      BY <1>3, <2>2, RestartFrame DEF TypeOK
    <3> QED BY <1>3, <2>2, <2>3, <3>1, <3>2, RestartFrame DEF TypeOK, Held
  <2>5. row' = row /\ shown' = S
    BY <1>3, <2>1, <2>2, RestartFrame
  <2>6. CompletionInv'
    BY <2>2, <2>3, <2>5 DEF CompletionInv, AllEarned
  <2> QED BY <2>4, <2>6 DEF Inv
<1>4. CASE UNCHANGED vars
  BY <1>4 DEF vars, Inv, TypeOK, CompletionInv, AllEarned
<1> QED BY <1>1, <1>2, <1>3, <1>4 DEF Next

LEMMA InvAlways == Spec => []Inv
BY InvInit, InvNext, PTL DEF Spec

(* Every goal, row and request keeps its type; repairs_used never passes   *)
(* its limit although two loops may count repairs on the same object.      *)
THEOREM TypeCorrect == Spec => []TypeOK
<1>1. Inv => TypeOK
  BY DEF Inv
<1> QED BY <1>1, InvAlways, PTL

(* No goal object and no row says "completed" unless iterations showed all *)
(* criteria met and the gate's approval, however the loops of a goal, its  *)
(* restarts and the failures of the database interleave.                   *)
THEOREM Completion == Spec => []CompletionShown
<1>1. Inv => CompletionShown
  BY DEF Inv, CompletionInv, AllEarned, Earned, CompletionShown
<1> QED BY <1>1, InvAlways, PTL
-----------------------------------------------------------------------------
(* Where a step takes a request: the others stay where they are, no        *)
(* process changes sides, and only a request that need not heed the flag   *)
(* of the server decides on an iteration.  c: r is in the CLI.             *)
Moved(r, c) ==
  /\ \A q \in Requests \ {r} : task'[q] = task[q]
  /\ task'[r].cli => c
  /\ task'[r].at = "decided" => c \/ ~srv.cancel

LEMMA SideKept ==
  ASSUME NEW t \in Task, NEW p
  PROVE  LET u == [t EXCEPT !.at = p]
         IN  /\ u.at = p /\ u.cli = t.cli
             /\ \A a : [t EXCEPT !.at = p, !.after = a].at = p
             /\ \A a : [t EXCEPT !.at = p, !.after = a].cli = t.cli
             /\ \A x : [t EXCEPT !.at = p, !.act = x].at = p
             /\ \A x : [t EXCEPT !.at = p, !.act = x].cli = t.cli
BY DEF Task

LEMMA SetMoves ==
  ASSUME Held, NEW r \in Requests, NEW g, NEW t, NEW c,
         t.cli => c, t.at # "decided" \/ c \/ ~srv.cancel, Set(r, g, t)
  PROVE  Moved(r, c)
BY DEF Held, Set, Moved

LEMMA LeaveMoves ==
  ASSUME Held, NEW r \in Requests, NEW g, NEW t, NEW c, Leave(r, g, t)
  PROVE  Moved(r, c)
BY DEF Held, Leave, Leaves, Moved, IdleTask

LEMMA MarkMoves ==
  ASSUME Held, NEW r \in Requests, NEW g, NEW t \in Task, NEW a, NEW c,
         t.cli => c, Mark(r, g, t, a)
  PROVE  Moved(r, c)
BY DEF Held, Mark, Set, Moved, Task

LEMMA HeadMoves ==
  ASSUME Held, NEW r \in Requests, NEW g, NEW t \in Task, NEW c,
         t.cli => c, c => t.cli, LoopHead(r, g, t)
  PROVE  Moved(r, c)
<1>1. CASE g.state # "running"
  BY <1>1, LeaveMoves DEF LoopHead
<1>2. CASE g.state = "running" /\ ~t.cli /\ (srv.cancel \/ srv.pause)
  BY <1>2, MarkMoves DEF LoopHead
<1>3. CASE g.state = "running" /\ (t.cli \/ (~srv.cancel /\ ~srv.pause))
  <2>1. \E h, p : \/ Set(r, h, [t EXCEPT !.at = p])
                   \/ \E a : Set(r, h, [t EXCEPT !.at = p, !.after = a])
                   \/ \E x : Set(r, h, [t EXCEPT !.at = p, !.act = x])
    BY <1>3 DEF LoopHead
  <2>2. PICK h, p : \/ Set(r, h, [t EXCEPT !.at = p])
                     \/ \E a : Set(r, h, [t EXCEPT !.at = p, !.after = a])
                     \/ \E x : Set(r, h, [t EXCEPT !.at = p, !.act = x])
    BY <2>1
  <2>3. \A u : Set(r, h, u) => /\ task'[r] = u
                                /\ \A q \in Requests \ {r} : task'[q] = task[q]
    BY DEF Set, Held
  <2>4. task'[r].cli = t.cli
    <3>1. CASE Set(r, h, [t EXCEPT !.at = p])
      <4>1. task'[r] = [t EXCEPT !.at = p]
        BY <2>3, <3>1
      <4> QED BY <4>1, SideKept
    <3>2. CASE \E a : Set(r, h, [t EXCEPT !.at = p, !.after = a])
      <4>1. PICK a : task'[r] = [t EXCEPT !.at = p, !.after = a]
        BY <2>3, <3>2
      <4> QED BY <4>1, SideKept
    <3>3. CASE \E x : Set(r, h, [t EXCEPT !.at = p, !.act = x])
      <4>1. PICK x : task'[r] = [t EXCEPT !.at = p, !.act = x]
        BY <2>3, <3>3
      <4> QED BY <4>1, SideKept
    <3> QED BY <2>2, <3>1, <3>2, <3>3
  <2> QED BY <1>3, <2>2, <2>3, <2>4 DEF Moved
<1> QED BY <1>1, <1>2, <1>3

LEMMA EvaluateMoves ==
  ASSUME Held, NEW r \in Requests, NEW g, NEW t \in Task, NEW c,
         t.cli => c, Evaluate(r, g, t)
  PROVE  Moved(r, c)
<1> DEFINE judged == [g EXCEPT !.sat = Satisfies(t.ev)]
           done == [t EXCEPT !.ev = "none"]
           asks == [done EXCEPT !.at = "escalate", !.after = "leave"]
<1>1. done \in Task
  BY TaskType
<1>2. done.cli = t.cli
  BY DEF Task
<1>3. asks.at = "escalate" /\ asks.cli = t.cli
  BY <1>1, <1>2, SideKept
<1>4. Mark(r, judged, done, "turn") \/ Set(r, judged, asks)
  BY DEF Evaluate
<1> HIDE DEF judged, done, asks
<1> QED BY <1>1, <1>2, <1>3, <1>4, MarkMoves, SetMoves

LEMMA CheckpointedMoves ==
  ASSUME Held, NEW r \in Requests, NEW g, NEW t \in Task, NEW c,
         t.cli => c, Checkpointed(r, g, t)
  PROVE  Moved(r, c)
<1>1. CASE t.after = "leave"
  BY <1>1, LeaveMoves DEF Checkpointed
<1>2. CASE t.after # "leave"
  <2> DEFINE u == [t EXCEPT !.at = t.after, !.want = 0, !.mark = "running",
                            !.count = 0, !.after = "leave"]
  <2>1. u.at = t.after /\ u.cli = t.cli /\ t.after \in Afters
    BY DEF Task
  <2>2. u.at # "decided"
    BY <2>1 DEF Afters
  <2>3. Set(r, g, u)
    BY <1>2 DEF Checkpointed
  <2> HIDE DEF u
  <2> QED BY <2>1, <2>2, <2>3, SetMoves
<1> QED BY <1>1, <1>2

LEMMA ServeMoves ==
  ASSUME TypeOK, NEW r \in Requests, Serve(r)
  PROVE  Moved(r, task[r].cli)
<1>1. PICK c : c = task[r].cli
  OBVIOUS
<1>2. Held /\ task[r] \in Task /\ c \in BOOLEAN
  BY <1>1 DEF TypeOK, Held, Task
<1>3. CASE Begin(r)
  <2> DEFINE t == [task[r] EXCEPT !.own = task[r].cli \/ ~srv.hosts]
  <2>1. (task[r].cli \/ ~srv.hosts) \in BOOLEAN
    OBVIOUS
  <2>2. t \in Task
    BY <1>2, <2>1, TaskType
  <2>3. t.cli = c
    BY <1>1, <1>2 DEF Task
  <2>4. \E g : Leave(r, g, t) \/ LoopHead(r, g, t)
    BY <1>3 DEF Begin
  <2> HIDE DEF t
  <2> QED BY <1>1, <1>2, <2>2, <2>3, <2>4, LeaveMoves, HeadMoves
<1>4. CASE Turn(r)
  <2> DEFINE t == [task[r] EXCEPT !.at = "escalate", !.after = "leave"]
  <2>1. t \in Task /\ t.cli = c /\ t.at = "escalate"
    BY <1>1, <1>2 DEF Task, Points, Afters
  <2>2. \E g : Set(r, g, t) \/ LoopHead(r, g, task[r])
    BY <1>4 DEF Turn
  <2> HIDE DEF t
  <2> QED BY <1>1, <1>2, <2>1, <2>2, SetMoves, HeadMoves
<1>5. CASE Note(r)
  BY <1>1, <1>2, <1>5, MarkMoves DEF Note
<1>6. CASE Escalate(r)
  <2>1. \E g : \/ Set(r, g, [task[r] EXCEPT !.at = "note"])
               \/ Mark(r, g, task[r], "leave")
    BY <1>6 DEF Escalate
  <2> QED BY <1>1, <1>2, <2>1, SideKept, SetMoves, MarkMoves
<1>7. CASE OutOfBudget(r)
  <2> DEFINE t == [task[r] EXCEPT !.at = "escalate", !.after = "leave"]
  <2>1. t.at = "escalate" /\ t.cli = c
    BY <1>1, <1>2, SideKept
  <2>2. \E g : Set(r, g, t) \/ Mark(r, g, task[r], "leave")
    BY <1>7 DEF OutOfBudget
  <2> HIDE DEF t
  <2> QED BY <1>1, <1>2, <2>1, <2>2, SetMoves, MarkMoves
<1>8. CASE Start(r)
  BY <1>1, <1>2, <1>8 DEF Held, Start, Set, Moved, Task
<1>9. CASE Iterate(r)
  <2>1. PICK e \in Shows : \E g :
          LET t == [task[r] EXCEPT !.ev = e]
          IN  Evaluate(r, g, t) \/ Set(r, g, [t EXCEPT !.at = "plans"])
    BY <1>9 DEF Iterate
  <2> DEFINE t == [task[r] EXCEPT !.ev = e]
             u == [t EXCEPT !.at = "plans"]
  <2>2. t \in Task /\ u \in Task /\ t.cli = c /\ u.cli = c /\ u.at = "plans"
    BY <1>1, <1>2, GoalAssumption DEF Task, Points
  <2>3. \E g : Evaluate(r, g, t) \/ Set(r, g, u)
    BY <2>1
  <2> HIDE DEF t, u
  <2> QED BY <1>1, <1>2, <2>2, <2>3, EvaluateMoves, SetMoves
<1>10. CASE StorePlans(r)
  BY <1>1, <1>2, <1>10, EvaluateMoves DEF StorePlans
<1>11. CASE Compare(r)
  <2> DEFINE t == [task[r] EXCEPT !.at = "reload"]
  <2>1. t \in Task /\ t.cli = c /\ t.at = "reload"
    BY <1>1, <1>2 DEF Task, Points
  <2>2. \E g : Checkpointed(r, g, task[r]) \/ Set(r, g, t)
    BY <1>11 DEF Compare
  <2> HIDE DEF t
  <2> QED BY <1>1, <1>2, <2>1, <2>2, CheckpointedMoves, SetMoves
<1>12. CASE Reload(r)
  <2>1. Leave(r, Mine(r), task[r]) \/ Checkpointed(r, Mine(r), task[r])
    BY <1>12 DEF Reload
  <2> QED BY <1>1, <1>2, <2>1, LeaveMoves, CheckpointedMoves
<1>13. CASE Persist(r)
  BY <1>1, <1>2, <1>13 DEF Held, Persist, Leaves, Moved, IdleTask
<1>14. CASE Resolve(r)
  BY <1>1, <1>2, <1>14 DEF Held, Resolve, Set, Moved, Task
<1> QED
  BY <1>3, <1>4, <1>5, <1>6, <1>7, <1>8, <1>9, <1>10, <1>11, <1>12, <1>13,
     <1>14 DEF Serve, Loop

LEMMA CancelServe ==
  ASSUME TypeOK, CancelInv, NEW r \in Requests, Serve(r)
  PROVE  CancelInv'
<1>1. Moved(r, task[r].cli)
  BY ServeMoves
<1>2. srv' = srv /\ (late' = late \/ Start(r))
  BY ServeFrame
<1>3. CASE late' = late
  BY <1>1, <1>2, <1>3 DEF CancelInv, Moved
<1>4. CASE Start(r)
  <2>1. /\ task[r].at = "decided"
        /\ late' = [late EXCEPT ![r] = IF ~task[r].cli /\ srv.cancel
                                      THEN Least(2, @ + 1) ELSE @]
    BY <1>4 DEF Start
  <2>2. late[r] = 0
    BY <2>1 DEF CancelInv
  <2>3. /\ \A q \in Requests \ {r} : late'[q] = late[q]
        /\ late'[r] = IF ~task[r].cli /\ srv.cancel THEN 1 ELSE 0
    BY <2>1, <2>2 DEF TypeOK, Least
  <2> QED BY <1>1, <1>2, <2>3 DEF CancelInv, Moved
<1> QED BY <1>2, <1>3, <1>4

LEMMA CancelRequest ==
  ASSUME TypeOK, CancelInv, NEW r \in Requests, NEW cli \in BOOLEAN,
         Pause(r) \/ Input(r) \/ Resume(r, cli) \/ Cancel(r, cli)
  PROVE  CancelInv'
<1>1. /\ late' = [late EXCEPT ![r] = 0]
      /\ srv.cancel => srv'.cancel
  BY RequestFrame
<1>2. \A q \in Requests \ {r} : task'[q] = task[q]
  <2>1. CASE Pause(r)
    BY <2>1 DEF Pause
  <2>2. CASE Input(r)
    BY <2>2 DEF Input, Set, TypeOK
  <2>3. CASE Resume(r, cli)
    BY <2>3 DEF Resume, Set, Leaves, TypeOK
  <2>4. CASE Cancel(r, cli)
    BY <2>4 DEF Cancel, Mark, Set, TypeOK
  <2> QED BY <2>1, <2>2, <2>3, <2>4
<1>3. late'[r] = 0 /\ \A q \in Requests \ {r} : late'[q] = late[q]
  BY <1>1 DEF TypeOK
<1> QED BY <1>1, <1>2, <1>3 DEF CancelInv

LEMMA CancelAlways == Spec => []CancelInv
<1>1. Init => CancelInv
  BY DEF Init, CancelInv
<1>2. TypeOK /\ CancelInv /\ [Next]_vars => CancelInv'
  <2> SUFFICES ASSUME TypeOK, CancelInv, [Next]_vars PROVE CancelInv'
    OBVIOUS
  <2>1. CASE Next
    <3>1. CASE Restart
      BY <3>1, RestartFrame DEF CancelInv
    <3> QED BY <2>1, <3>1, CancelServe, CancelRequest DEF Next
  <2>2. CASE UNCHANGED vars
    BY <2>2 DEF vars, CancelInv
  <2> QED BY <2>1, <2>2
<1> QED BY <1>1, <1>2, TypeCorrect, PTL DEF Spec

(* After a cancel reached the server, each of its requests begins at most  *)
(* the one iteration it had decided on before, although a loop overwrites  *)
(* the cancelled state of the goal: the flag stops it.                     *)
THEOREM Cancellation == Spec => []CancelStops
<1>1. CancelInv => CancelStops
  <2> SUFFICES ASSUME CancelInv, NEW r \in Requests PROVE late[r] <= 1
    BY DEF CancelStops
  <2>1. late[r] = 0 \/ late[r] = 1
    BY DEF CancelInv
  <2> QED BY <2>1
<1> QED BY <1>1, CancelAlways, PTL
-----------------------------------------------------------------------------
(* The iterations.  Busy: requests that decided on an iteration of the     *)
(* server's object, or run one; each adds one to iters when it returns.    *)
Iterating == {"decided", "iterate"}
Busy == {r \in Requests : ~task[r].own /\ task[r].at \in Iterating}

(* The invariant behind IterationsBounded: a decision is only taken below  *)
(* the limit, and then at most all requests are busy.                      *)
SpendingInv ==
  obj.iters + Cardinality(Busy) <= MaxIterations - 1 + Cardinality(Requests)

(* A step of r on an object with n iterations, its own copy or not.        *)
Spends(r, own, n) ==
  /\ \A q \in Requests \ {r} : task'[q] = task[q]
  /\ own => obj'.iters = obj.iters
  /\ ~own => obj'.iters = n
  /\ \/ task'[r].at \notin Iterating \/ task'[r].own
     \/ ~own /\ n < MaxIterations

LEMMA SetSpends ==
  ASSUME Held, NEW r \in Requests, NEW g, NEW t,
         t.at \notin Iterating \/ t.own \/ g.iters < MaxIterations,
         Set(r, g, t)
  PROVE  Spends(r, t.own, g.iters)
BY DEF Held, Set, Spends

LEMMA LeavesSpends ==
  ASSUME Held, NEW r \in Requests, NEW g, NEW t, NEW next,
         next.at \notin Iterating, Leaves(r, g, t, next)
  PROVE  Spends(r, t.own, g.iters)
BY DEF Held, Leaves, Spends

LEMMA LeaveSpends ==
  ASSUME Held, NEW r \in Requests, NEW g, NEW t, Leave(r, g, t)
  PROVE  Spends(r, t.own, g.iters)
BY LeavesSpends DEF Leave, IdleTask, Iterating

LEMMA MarkSpends ==
  ASSUME Held, NEW r \in Requests, NEW g \in Goal, NEW t \in Task, NEW a,
         Mark(r, g, t, a)
  PROVE  Spends(r, t.own, g.iters)
<1> DEFINE h == [g EXCEPT !.version = @ + 1]
           u == [t EXCEPT !.at = "cas", !.want = g.version,
                          !.mark = g.state, !.count = g.iters, !.after = a]
<1>1. u.at = "cas" /\ u.own = t.own
  BY DEF Task
<1>2. h.iters = g.iters
  BY DEF Goal
<1>3. Set(r, h, u)
  BY DEF Mark
<1> HIDE DEF h, u
<1>4. Spends(r, u.own, h.iters)
  BY <1>1, <1>3, SetSpends DEF Iterating
<1> QED BY <1>1, <1>2, <1>4

(* The fields of a goal or a task that an assignment leaves alone.         *)
LEMMA ItersKept ==
  ASSUME NEW g \in Goal, NEW x
  PROVE  /\ [g EXCEPT !.state = x].iters = g.iters
         /\ [g EXCEPT !.sat = x].iters = g.iters
         /\ [g EXCEPT !.version = x].iters = g.iters
         /\ [g EXCEPT !.replans = x].iters = g.iters
         /\ [g EXCEPT !.repairs = x].iters = g.iters
BY DEF Goal

LEMMA OwnKept ==
  ASSUME NEW t \in Task, NEW p
  PROVE  /\ [t EXCEPT !.at = p].at = p
         /\ [t EXCEPT !.at = p].own = t.own
         /\ \A a : [t EXCEPT !.at = p, !.after = a].at = p
         /\ \A a : [t EXCEPT !.at = p, !.after = a].own = t.own
         /\ \A x : [t EXCEPT !.at = p, !.act = x].at = p
         /\ \A x : [t EXCEPT !.at = p, !.act = x].own = t.own
BY DEF Task

LEMMA HeadSpends ==
  ASSUME Held, NEW r \in Requests, NEW g \in Goal, NEW t \in Task,
         LoopHead(r, g, t)
  PROVE  Spends(r, t.own, g.iters)
<1> DEFINE to(s) == [g EXCEPT !.state = s]
<1>1. \A s \in States : to(s) \in Goal /\ to(s).iters = g.iters
  BY GoalType, ItersKept
<1>2. {"cancelled", "paused", "stopped", "completed"} \subseteq States
  BY DEF States, Terminal
<1>3. CASE g.state # "running"
  BY <1>3, LeaveSpends DEF LoopHead
<1>4. CASE g.state = "running" /\ ~t.cli /\ (srv.cancel \/ srv.pause)
  <2>1. PICK s \in States : Mark(r, to(s), t, "leave")
    BY <1>2, <1>4 DEF LoopHead
  <2> HIDE DEF to
  <2>2. Spends(r, t.own, to(s).iters)
    BY <1>1, <2>1, MarkSpends
  <2> QED BY <1>1, <2>2
<1>5. CASE g.state = "running" /\ (t.cli \/ (~srv.cancel /\ ~srv.pause))
  <2>1. \/ \E s \in States : Set(r, to(s), [t EXCEPT !.at = "note"])
        \/ Set(r, g, [t EXCEPT !.at = "escalate", !.after = "note"])
        \/ \E a : Set(r, g, [t EXCEPT !.at = "spent", !.act = a])
        \/ ~Spent(g) /\ \E a : Set(r, g, [t EXCEPT !.at = "decided",
                                                   !.act = a])
    BY <1>2, <1>5 DEF LoopHead
  <2>2. ~Spent(g) => g.iters < MaxIterations
    BY GoalAssumption DEF Spent, Goal
  <2> HIDE DEF to
  <2>3. CASE \E s \in States : Set(r, to(s), [t EXCEPT !.at = "note"])
    <3> DEFINE u == [t EXCEPT !.at = "note"]
    <3>1. PICK s \in States : Set(r, to(s), u)
      BY <2>3
    <3>2. u.at = "note" /\ u.own = t.own
      BY OwnKept
    <3> HIDE DEF u
    <3>3. Spends(r, u.own, to(s).iters)
      BY <3>1, <3>2, SetSpends DEF Iterating
    <3> QED BY <1>1, <3>2, <3>3
  <2>4. CASE Set(r, g, [t EXCEPT !.at = "escalate", !.after = "note"])
    <3> DEFINE u == [t EXCEPT !.at = "escalate", !.after = "note"]
    <3>1. u.at = "escalate" /\ u.own = t.own
      BY OwnKept
    <3>2. Set(r, g, u)
      BY <2>4
    <3> HIDE DEF u
    <3> QED BY <3>1, <3>2, SetSpends DEF Iterating
  <2>5. ASSUME NEW p \in {"spent", "decided"}, NEW a,
               p = "decided" => g.iters < MaxIterations,
               Set(r, g, [t EXCEPT !.at = p, !.act = a])
        PROVE  Spends(r, t.own, g.iters)
    <3> DEFINE u == [t EXCEPT !.at = p, !.act = a]
    <3>1. u.at = p /\ u.own = t.own
      BY OwnKept
    <3>2. Set(r, g, u)
      BY <2>5
    <3> HIDE DEF u
    <3> QED BY <2>5, <3>1, <3>2, SetSpends DEF Iterating
  <2> QED BY <2>1, <2>2, <2>3, <2>4, <2>5
<1> QED BY <1>3, <1>4, <1>5

LEMMA EvaluateSpends ==
  ASSUME Held, NEW r \in Requests, NEW g \in Goal, NEW t \in Task,
         Evaluate(r, g, t)
  PROVE  Spends(r, t.own, g.iters)
<1> DEFINE judged == [g EXCEPT !.sat = Satisfies(t.ev)]
           done == [t EXCEPT !.ev = "none"]
           asks == [done EXCEPT !.at = "escalate", !.after = "leave"]
<1>1. done \in Task /\ done.own = t.own
  BY TaskType DEF Task
<1>2. asks.at = "escalate" /\ asks.own = t.own
  BY <1>1, OwnKept
<1>3. judged \in Goal /\ judged.iters = g.iters
  <2>1. Satisfies(t.ev) \in BOOLEAN
    OBVIOUS
  <2> HIDE DEF Satisfies
  <2> QED BY <2>1, GoalType, ItersKept
<1>4. Mark(r, judged, done, "turn") \/ Set(r, judged, asks)
  BY DEF Evaluate
<1> HIDE DEF judged, done, asks
<1>5. CASE Mark(r, judged, done, "turn")
  <2>1. Spends(r, done.own, judged.iters)
    BY <1>1, <1>3, <1>5, MarkSpends
  <2> QED BY <1>1, <1>3, <2>1
<1>6. CASE Set(r, judged, asks)
  <2>1. Spends(r, asks.own, judged.iters)
    BY <1>2, <1>6, SetSpends DEF Iterating
  <2> QED BY <1>2, <1>3, <2>1
<1> QED BY <1>4, <1>5, <1>6

LEMMA CheckpointedSpends ==
  ASSUME Held, NEW r \in Requests, NEW g, NEW t \in Task,
         Checkpointed(r, g, t)
  PROVE  Spends(r, t.own, g.iters)
<1>1. CASE t.after = "leave"
  BY <1>1, LeaveSpends DEF Checkpointed
<1>2. CASE t.after # "leave"
  <2> DEFINE u == [t EXCEPT !.at = t.after, !.want = 0, !.mark = "running",
                            !.count = 0, !.after = "leave"]
  <2>1. u.at = t.after /\ u.own = t.own /\ t.after \in Afters
    BY DEF Task
  <2>2. u.at \notin Iterating
    BY <2>1 DEF Afters, Iterating
  <2>3. Set(r, g, u)
    BY <1>2 DEF Checkpointed
  <2> HIDE DEF u
  <2>4. Spends(r, u.own, g.iters)
    BY <2>2, <2>3, SetSpends
  <2> QED BY <2>1, <2>4
<1> QED BY <1>1, <1>2

LEMMA BusyFinite ==
  /\ IsFiniteSet(Busy) /\ Cardinality(Busy) \in Nat
  /\ Cardinality(Busy) <= Cardinality(Requests)
  /\ Cardinality(Requests) \in Nat
<1>1. Busy \subseteq Requests
  BY DEF Busy
<1> QED BY <1>1, GoalAssumption, FS_Subset, FS_CardinalityType

LEMMA BusyFiniteNext ==
  /\ IsFiniteSet(Busy') /\ Cardinality(Busy') \in Nat
  /\ Cardinality(Busy') <= Cardinality(Requests)
<1>1. Busy' \subseteq Requests
  BY DEF Busy
<1> QED BY <1>1, GoalAssumption, FS_Subset, FS_CardinalityType

LEMMA FewerBusy ==
  ASSUME Held, Held', SpendingInv, Busy' \subseteq Busy,
         obj'.iters = obj.iters
  PROVE  SpendingInv'
<1>1. Cardinality(Busy') <= Cardinality(Busy)
  BY BusyFinite, FS_Subset
<1>2. obj.iters \in Nat /\ obj'.iters \in Nat
  BY DEF Held, Goal
<1>3. obj'.iters + Cardinality(Busy')
        <= MaxIterations - 1 + Cardinality(Requests)
  BY <1>1, <1>2, BusyFinite, BusyFiniteNext, GoalAssumption DEF SpendingInv
<1> QED BY <1>3 DEF SpendingInv

LEMMA SpendStep ==
  ASSUME Held, Held', SpendingInv, NEW r \in Requests, NEW own \in BOOLEAN,
         NEW n \in Nat, Spends(r, own, n),
         own \/ n = obj.iters \/ (n = obj.iters + 1 /\ r \in Busy)
  PROVE  SpendingInv'
<1>1. obj.iters \in Nat /\ obj'.iters \in Nat
  BY DEF Held, Goal
<1>2. CASE r \in Busy'
  <2>1. ~own /\ n < MaxIterations
    BY <1>2 DEF Busy, Spends
  <2>2. obj'.iters <= MaxIterations - 1
    BY <1>1, <2>1, GoalAssumption DEF Spends
  <2>3. obj'.iters + Cardinality(Busy')
          <= MaxIterations - 1 + Cardinality(Requests)
    BY <1>1, <2>2, BusyFinite, BusyFiniteNext, GoalAssumption
  <2> QED BY <2>3 DEF SpendingInv
<1>3. CASE r \notin Busy'
  <2>1. Busy' \subseteq Busy \ {r}
    BY <1>3 DEF Busy, Spends
  <2>2. CASE obj'.iters = obj.iters
    BY <2>1, <2>2, FewerBusy
  <2>3. CASE obj'.iters = obj.iters + 1 /\ r \in Busy
    <3>1. IsFiniteSet(Busy \ {r})
          /\ Cardinality(Busy \ {r}) = Cardinality(Busy) - 1
      BY <2>3, BusyFinite, FS_RemoveElement
    <3>2. Cardinality(Busy') <= Cardinality(Busy) - 1
      BY <2>1, <3>1, FS_Subset
    <3>3. obj'.iters + Cardinality(Busy')
            <= MaxIterations - 1 + Cardinality(Requests)
      BY <1>1, <2>3, <3>2, BusyFinite, BusyFiniteNext, GoalAssumption
         DEF SpendingInv
    <3> QED BY <3>3 DEF SpendingInv
  <2> QED BY <2>2, <2>3 DEF Spends
<1> QED BY <1>2, <1>3

(* A step of a request on its goal as it is, or one iteration on.          *)
LEMMA ServeSpends ==
  ASSUME TypeOK, row \in Row, NEW r \in Requests, Serve(r), ~Start(r)
  PROVE  \E own \in BOOLEAN, n \in Nat :
           /\ Spends(r, own, n)
           /\ own \/ n = obj.iters \/ (n = obj.iters + 1 /\ r \in Busy)
<1> DEFINE g == Mine(r)
           Fits(own, n) == \/ own \/ n = obj.iters
                           \/ n = obj.iters + 1 /\ r \in Busy
<1>1. Held /\ g \in Goal /\ task[r] \in Task
  BY DEF TypeOK, Held, Mine
<1>2. g.iters \in Nat /\ task[r].own \in BOOLEAN
      /\ Fits(task[r].own, g.iters)
  BY <1>1 DEF Goal, Task, Mine
<1>3. SUFFICES ASSUME ~Iterate(r), ~Begin(r)
               PROVE  Spends(r, task[r].own, g.iters)
  <2>1. CASE Begin(r)
    <3> DEFINE own == task[r].cli \/ ~srv.hosts
               t == [task[r] EXCEPT !.own = own]
               h == IF own THEN Loaded ELSE obj
               k == [h EXCEPT !.state = "running"]
    <3>1. own \in BOOLEAN
      OBVIOUS
    <3>2. t \in Task /\ t.own = own
      BY <1>1, <3>1, TaskType DEF Task
    <3>3. obj \in Goal /\ Loaded \in Goal
      BY DEF TypeOK, Loaded, Row, Goal
    <3>4. h \in Goal /\ k \in Goal /\ k.iters = h.iters
          /\ (~own => h = obj)
      BY <3>3, GoalType, ItersKept DEF States
    <3>5. Leave(r, h, t) \/ LoopHead(r, k, t) \/ (own /\ Leave(r, obj, t))
      BY <2>1 DEF Begin
    <3> HIDE DEF own, t, h, k
    <3>6. \E m \in {h, k, obj} : Spends(r, own, m.iters)
                                /\ (~own => m.iters = obj.iters)
      <4>1. CASE Leave(r, h, t)
        BY <1>1, <3>2, <3>4, <4>1, LeaveSpends
      <4>2. CASE LoopHead(r, k, t)
        BY <1>1, <3>2, <3>4, <4>2, HeadSpends
      <4>3. CASE own /\ Leave(r, obj, t)
        BY <1>1, <3>2, <4>3, LeaveSpends
      <4> QED BY <3>5, <4>1, <4>2, <4>3
    <3>7. h.iters \in Nat /\ k.iters \in Nat /\ obj.iters \in Nat
      BY <3>3, <3>4 DEF Goal
    <3> QED BY <3>1, <3>6, <3>7
  <2>2. CASE Iterate(r)
    <3>1. PICK e \in Shows :
            LET h == [g EXCEPT !.iters = @ + 1, !.hist = e]
                t == [task[r] EXCEPT !.ev = e]
            IN  Evaluate(r, h, t) \/ Set(r, h, [t EXCEPT !.at = "plans"])
      BY <2>2 DEF Iterate
    <3> DEFINE h == [g EXCEPT !.iters = @ + 1, !.hist = e]
               t == [task[r] EXCEPT !.ev = e]
               u == [t EXCEPT !.at = "plans"]
    <3>2. h \in Goal
      <4>1. [g EXCEPT !.iters = @ + 1] \in Goal
        BY <1>1, <1>2, GoalType
      <4>2. h = [[g EXCEPT !.iters = @ + 1] EXCEPT !.hist = e]
        BY <1>1 DEF Goal
      <4> QED BY <4>1, <4>2, GoalType, GoalAssumption
    <3>3. h.iters = g.iters + 1
      BY <1>1 DEF Goal
    <3>4. t \in Task /\ t.own = task[r].own
      BY <1>1, TaskType, GoalAssumption DEF Task
    <3>5. u.at = "plans" /\ u.own = task[r].own
      BY <3>4, OwnKept
    <3>6. Evaluate(r, h, t) \/ Set(r, h, u)
      BY <3>1
    <3>7. task[r].own \/ (g = obj /\ r \in Busy)
      BY <2>2 DEF Iterate, Busy, Iterating, Mine
    <3> HIDE DEF h, t, u
    <3>8. Spends(r, task[r].own, h.iters)
      <4>1. CASE Evaluate(r, h, t)
        <5>1. Spends(r, t.own, h.iters)
          BY <1>1, <3>2, <3>4, <4>1, EvaluateSpends
        <5> QED BY <3>4, <5>1
      <4>2. CASE Set(r, h, u)
        <5>1. Spends(r, u.own, h.iters)
          BY <1>1, <3>5, <4>2, SetSpends DEF Iterating
        <5> QED BY <3>5, <5>1
      <4> QED BY <3>6, <4>1, <4>2
    <3> HIDE DEF g
    <3> QED BY <1>2, <3>3, <3>7, <3>8
  <2> QED BY <1>2, <1>3, <2>1, <2>2
<1>4. ASSUME NEW p, p \notin Iterating, NEW h, h.iters = g.iters,
             Set(r, h, [task[r] EXCEPT !.at = p])
      PROVE  Spends(r, task[r].own, g.iters)
  <2> DEFINE u == [task[r] EXCEPT !.at = p]
  <2>1. u.at = p /\ u.own = task[r].own
    BY <1>1, OwnKept
  <2> HIDE DEF u, g
  <2>2. Spends(r, u.own, h.iters)
    BY <1>1, <1>4, <2>1, SetSpends DEF u
  <2> QED BY <1>4, <2>1, <2>2
<1>5. ASSUME NEW p, p \notin Iterating, NEW a, NEW h, h.iters = g.iters,
             Set(r, h, [task[r] EXCEPT !.at = p, !.after = a])
      PROVE  Spends(r, task[r].own, g.iters)
  <2> DEFINE u == [task[r] EXCEPT !.at = p, !.after = a]
  <2>1. u.at = p /\ u.own = task[r].own
    BY <1>1, OwnKept
  <2> HIDE DEF u, g
  <2>2. Spends(r, u.own, h.iters)
    BY <1>1, <1>5, <2>1, SetSpends DEF u
  <2> QED BY <1>5, <2>1, <2>2
<1>6. \A s \in States : /\ [g EXCEPT !.state = s] \in Goal
                        /\ [g EXCEPT !.state = s].iters = g.iters
  BY <1>1, GoalType, ItersKept
<1>7. {"waiting", "stopped", "resuming"} \subseteq States
      /\ {"escalate", "note", "reload", "persist"} \cap Iterating = {}
  BY DEF States, Terminal, Iterating
<1>8. CASE Turn(r)
  <2>1. \/ Set(r, g, [task[r] EXCEPT !.at = "escalate", !.after = "leave"])
        \/ LoopHead(r, g, task[r])
    BY <1>8 DEF Turn
  <2> QED BY <1>1, <1>5, <1>7, <2>1, HeadSpends
<1>9. CASE Note(r)
  BY <1>1, <1>9, MarkSpends DEF Note
<1>10. CASE Escalate(r)
  <2> DEFINE h == [g EXCEPT !.state = "waiting"]
  <2>1. \/ Set(r, h, [task[r] EXCEPT !.at = "note"])
        \/ Mark(r, h, task[r], "leave")
    BY <1>10 DEF Escalate
  <2>2. h \in Goal /\ h.iters = g.iters
    BY <1>6, <1>7
  <2> HIDE DEF h
  <2>3. CASE Mark(r, h, task[r], "leave")
    <3>1. Spends(r, task[r].own, h.iters)
      BY <1>1, <2>2, <2>3, MarkSpends
    <3> QED BY <2>2, <3>1
  <2> QED BY <1>4, <1>7, <2>1, <2>2, <2>3
<1>11. CASE OutOfBudget(r)
  <2> DEFINE h == [g EXCEPT !.state = "stopped"]
  <2>1. \/ Set(r, g, [task[r] EXCEPT !.at = "escalate", !.after = "leave"])
        \/ Mark(r, h, task[r], "leave")
    BY <1>11 DEF OutOfBudget
  <2>2. h \in Goal /\ h.iters = g.iters
    BY <1>6, <1>7
  <2> HIDE DEF h
  <2>3. CASE Mark(r, h, task[r], "leave")
    <3>1. Spends(r, task[r].own, h.iters)
      BY <1>1, <2>2, <2>3, MarkSpends
    <3> QED BY <2>2, <3>1
  <2> QED BY <1>5, <1>7, <2>1, <2>3
<1>12. CASE StorePlans(r)
  BY <1>1, <1>12, EvaluateSpends DEF StorePlans
<1>13. CASE Compare(r)
  <2>1. \/ Checkpointed(r, g, task[r])
        \/ Set(r, [g EXCEPT !.version = task[r].want],
               [task[r] EXCEPT !.at = "reload"])
    BY <1>13 DEF Compare
  <2>2. [g EXCEPT !.version = task[r].want].iters = g.iters
    BY <1>1, ItersKept
  <2> QED BY <1>1, <1>4, <1>7, <2>1, <2>2, CheckpointedSpends
<1>14. CASE Reload(r)
  <2>1. Leave(r, g, task[r]) \/ Checkpointed(r, g, task[r])
    BY <1>14 DEF Reload
  <2> QED BY <1>1, <2>1, LeaveSpends, CheckpointedSpends
<1>15. CASE Persist(r)
  <2> DEFINE next == IF task[r].after = "leave" THEN IdleTask
                     ELSE [IdleTask EXCEPT !.at = "begin",
                                           !.cli = task[r].cli]
  <2>1. Leaves(r, g, task[r], next)
    BY <1>15 DEF Persist
  <2>2. next.at \notin Iterating
    BY DEF IdleTask, Iterating
  <2> HIDE DEF next
  <2> QED BY <1>1, <2>1, <2>2, LeavesSpends
<1>16. CASE Resolve(r)
  <2> DEFINE h == [g EXCEPT !.state = "resuming"]
  <2>1. Set(r, h, [task[r] EXCEPT !.at = "persist", !.after = "begin"])
    BY <1>16 DEF Resolve
  <2>2. h.iters = g.iters
    BY <1>6, <1>7
  <2> HIDE DEF h
  <2> QED BY <1>5, <1>7, <2>1, <2>2
<1> QED
  BY <1>3, <1>8, <1>9, <1>10, <1>11, <1>12, <1>13, <1>14, <1>15, <1>16
     DEF Serve, Loop

LEMMA SpendServe ==
  ASSUME TypeOK, Held', SpendingInv, NEW r \in Requests, Serve(r)
  PROVE  SpendingInv'
<1>1. Held /\ row \in Row
  BY DEF TypeOK, Held
<1>2. CASE ~Start(r)
  BY <1>1, <1>2, ServeSpends, SpendStep
<1>3. CASE Start(r)
  <2> DEFINE g == Mine(r)
             u == [task[r] EXCEPT !.at = "iterate", !.act = "none"]
  <2>1. g \in Goal /\ task[r] \in Task
    BY <1>1 DEF Held, Mine
  <2>2. PICK h : Set(r, h, u) /\ h.iters = g.iters
    <3>1. \E x : \/ Set(r, [g EXCEPT !.replans = x], u)
                \/ Set(r, [g EXCEPT !.repairs = x], u)
                \/ Set(r, g, u)
      BY <1>3 DEF Start
    <3>2. \A x : /\ [g EXCEPT !.replans = x].iters = g.iters
                 /\ [g EXCEPT !.repairs = x].iters = g.iters
      BY <2>1, ItersKept
    <3> HIDE DEF g, u
    <3> QED BY <3>1, <3>2
  <2>3. u.own = task[r].own /\ task[r].at = "decided"
    BY <1>3, <2>1, OwnKept DEF Start
  <2> HIDE DEF u
  <2>4. obj'.iters = obj.iters
    BY <2>2, <2>3 DEF Set, Mine
  <2>5. Busy' \subseteq Busy
    BY <1>1, <2>2, <2>3 DEF Set, Held, Busy, Iterating
  <2> QED BY <1>1, <2>4, <2>5, FewerBusy
<1> QED BY <1>2, <1>3

LEMMA SpendRequest ==
  ASSUME TypeOK, Held', SpendingInv, NEW r \in Requests, NEW cli \in BOOLEAN,
         Pause(r) \/ Input(r) \/ Resume(r, cli) \/ Cancel(r, cli)
  PROVE  SpendingInv'
<1>1. Held /\ row \in Row
  BY DEF TypeOK, Held
<1>2. ASSUME NEW c \in BOOLEAN, NEW h \in Goal,
             h.iters = Found(Arrival(c)).iters,
             Spends(r, Arrival(c).own, h.iters)
      PROVE  SpendingInv'
  <2>1. Arrival(c).own \in BOOLEAN /\ h.iters \in Nat
    BY <1>2 DEF Arrival, IdleTask, Goal
  <2>2. Arrival(c).own \/ h.iters = obj.iters
    BY <1>2 DEF Found
  <2> QED BY <1>1, <1>2, <2>1, <2>2, SpendStep
<1>3. \A c \in BOOLEAN : /\ Arrival(c) \in Task
                         /\ Found(Arrival(c)) \in Goal
  <2>1. PICK S : S = {"approval", "criteria"}
    OBVIOUS
  <2>2. Earned(row, S) /\ AllEarned(S)
    BY <2>1 DEF Earned, AllEarned, Carried
  <2> QED BY <2>2, FoundKeeps
<1>4. CASE Pause(r)
  <2>1. Busy' = Busy /\ obj' = obj
    BY <1>4 DEF Pause, Busy
  <2> QED BY <1>1, <2>1, FewerBusy
<1>5. CASE Input(r)
  <2> DEFINE t == Arrival(FALSE)
             u == [t EXCEPT !.at = "resolve"]
  <2>1. u.at = "resolve" /\ u.own = t.own
    BY <1>3, OwnKept
  <2>2. Set(r, Found(t), u)
    BY <1>5 DEF Input
  <2> HIDE DEF u, t
  <2>3. Spends(r, t.own, Found(t).iters)
    BY <1>1, <2>1, <2>2, SetSpends DEF Iterating
  <2> QED BY <1>2, <1>3, <2>3 DEF t
<1>6. CASE Resume(r, cli)
  <2> DEFINE t == Arrival(cli)
             g == Found(t)
             h == [g EXCEPT !.state = "resuming"]
             u == [t EXCEPT !.at = "persist", !.after = "begin"]
             next == [IdleTask EXCEPT !.at = "begin", !.cli = cli]
  <2>1. u.at = "persist" /\ u.own = t.own
    BY <1>3, OwnKept
  <2>2. h \in Goal /\ h.iters = g.iters
    BY <1>3, GoalType, ItersKept DEF States
  <2>3. next.at \notin Iterating
    BY DEF IdleTask, Iterating
  <2>4. Set(r, h, u) \/ Leaves(r, g, t, next)
    BY <1>6 DEF Resume
  <2> HIDE DEF h, u, next
  <2>5. \E k \in Goal : k.iters = g.iters /\ Spends(r, t.own, k.iters)
    <3>1. CASE Set(r, h, u)
      <4>1. Spends(r, u.own, h.iters)
        BY <1>1, <2>1, <3>1, SetSpends DEF Iterating
      <4> QED BY <2>1, <2>2, <4>1
    <3>2. CASE Leaves(r, g, t, next)
      BY <1>1, <1>3, <2>3, <3>2, LeavesSpends
    <3> QED BY <2>4, <3>1, <3>2
  <2> QED BY <1>2, <2>5
<1>7. CASE Cancel(r, cli)
  <2> DEFINE t == Arrival(cli)
             g == Found(t)
             h == [g EXCEPT !.state = "cancelled"]
  <2>1. h \in Goal /\ h.iters = g.iters
    BY <1>3, GoalType, ItersKept DEF States, Terminal
  <2>2. Mark(r, h, t, "persist")
    BY <1>7 DEF Cancel
  <2> HIDE DEF h
  <2>3. Spends(r, t.own, h.iters)
    BY <1>1, <1>3, <2>1, <2>2, MarkSpends
  <2> QED BY <1>2, <2>1, <2>3
<1> QED BY <1>4, <1>5, <1>6, <1>7

LEMMA SpendingAlways == Spec => []SpendingInv
<1>1. Init => SpendingInv
  <2> SUFFICES ASSUME Init PROVE SpendingInv
    OBVIOUS
  <2>1. obj.iters = 0
    BY DEF Init, NewGoal
  <2> QED BY <2>1, BusyFinite, GoalAssumption DEF SpendingInv
<1>2. TypeOK /\ TypeOK' /\ SpendingInv /\ [Next]_vars => SpendingInv'
  <2> SUFFICES ASSUME TypeOK, TypeOK', SpendingInv, [Next]_vars
               PROVE  SpendingInv'
    OBVIOUS
  <2>1. Held /\ Held'
    BY DEF TypeOK, Held
  <2>2. CASE \E r \in Requests : Serve(r)
    BY <2>1, <2>2, SpendServe
  <2>3. CASE \E r \in Requests : \E cli \in BOOLEAN :
               Pause(r) \/ Input(r) \/ Resume(r, cli) \/ Cancel(r, cli)
    BY <2>1, <2>3, SpendRequest
  <2>4. CASE Restart
    <3>1. obj'.iters = 0
      BY <2>4 DEF Restart, NewGoal
    <3>2. obj'.iters + Cardinality(Busy')
            <= MaxIterations - 1 + Cardinality(Requests)
      BY <3>1, BusyFinite, BusyFiniteNext, GoalAssumption
    <3> QED BY <3>2 DEF SpendingInv
  <2>5. CASE UNCHANGED vars
    <3>1. Busy' = Busy /\ obj' = obj
      BY <2>5 DEF vars, Busy
    <3> QED BY <2>1, <3>1, FewerBusy
  <2> QED BY <2>2, <2>3, <2>4, <2>5 DEF Next
<1> QED BY <1>1, <1>2, TypeCorrect, PTL DEF Spec

(* However often a running goal is resumed, its iterations exceed the      *)
(* limit by at most one for each further request: each loop checks the     *)
(* budget before it decides on an iteration, and adds one when it is done. *)
THEOREM Iterations == Spec => []IterationsBounded
<1>1. TypeOK /\ SpendingInv => IterationsBounded
  <2> SUFFICES ASSUME TypeOK, SpendingInv PROVE IterationsBounded
    OBVIOUS
  <2>1. obj.iters \in Nat
    BY DEF TypeOK, Goal
  <2> QED
    BY <2>1, BusyFinite, GoalAssumption DEF SpendingInv, IterationsBounded
<1> QED BY <1>1, TypeCorrect, SpendingAlways, PTL
-----------------------------------------------------------------------------
(* A sequence of any values of at most three.                              *)
Short(s) == (\E S : s \in Seq(S)) /\ Len(s) \in 0 .. 3

(* t is the end of s.                                                      *)
EndOf(t, s) ==
  /\ Len(t) <= Len(s)
  /\ \A k \in 0 .. Len(t) - 1 : t[Len(t) - k] = s[Len(s) - k]

(* The iterations since the goal was loaded, as the controller sees them.  *)
Remembers ==
  /\ Short(history) /\ Short(trail) /\ EndOf(trail, history)
  /\ trail # <<>> => goal.met = Met(LastOf(trail))

(* The rows are a sequence, and a goal has its three fields.               *)
Shaped == (\E S : rows \in Seq(S)) /\ DOMAIN goal = {"state", "met", "stalled"}

(* The loop works on a running goal.                                       *)
Working == at # "idle" => goal.state = "running"

JudgeInv == Shaped /\ Working /\ Remembers /\ CompletionProved
-----------------------------------------------------------------------------
(* Appending to a short sequence and keeping the last three.               *)
LEMMA TailOfAppend ==
  ASSUME NEW s, Short(s), NEW e
  PROVE  LET t == Tail3(Append(s, e)) IN
         /\ Short(t) /\ t # <<>> /\ Len(t) = (IF Len(s) = 3 THEN 3 ELSE Len(s) + 1)
         /\ LastOf(t) = e
         /\ \A k \in 1 .. Len(t) - 1 : t[Len(t) - k] = s[Len(s) + 1 - k]
<1> DEFINE t == Tail3(Append(s, e))
<1>1. PICK S : s \in Seq(S)
  BY DEF Short
<1>2. PICK n \in 0 .. 3 : n = Len(s)
  BY DEF Short
<1> DEFINE U == S \union {e}
           a == Append(s, e)
<1>3. s \in Seq(U)
  BY <1>1
<1>4. /\ a \in Seq(U) /\ Len(a) = n + 1 /\ a[n + 1] = e
      /\ \A i \in 1 .. n : a[i] = s[i]
  BY <1>3, <1>2
<1>5. CASE n = 3
  <2>1. t = SubSeq(a, 2, 4)
    BY <1>4, <1>5 DEF Tail3
  <2>2. t = [i \in 1 .. 3 |-> a[i + 1]]
    BY <2>1, <1>4, <1>5
  <2>3. t \in Seq(U) /\ Len(t) = 3
    BY <2>2, <1>4, <1>5
  <2>4. t[3] = e /\ t[2] = s[3] /\ t[1] = s[2]
    BY <2>2, <1>4, <1>5
  <2>5. Short(t) /\ t # <<>> /\ LastOf(t) = e
    BY <2>3, <2>4 DEF Short, LastOf
  <2>6. ASSUME NEW k \in 1 .. 2
        PROVE  t[3 - k] = s[4 - k]
    BY <2>4
  <2>7. \A k \in 1 .. Len(t) - 1 : t[Len(t) - k] = s[Len(s) + 1 - k]
    BY <2>3, <2>6, <1>2, <1>5
  <2> QED
    BY <2>3, <2>5, <2>7, <1>2, <1>5
<1>6. CASE n # 3
  <2>1. t = SubSeq(a, 1, n + 1)
    BY <1>4, <1>6 DEF Tail3
  <2>2. t = [i \in 1 .. n + 1 |-> a[i]]
    BY <2>1, <1>4, <1>6
  <2>3. t \in Seq(U) /\ Len(t) = n + 1
    BY <2>2, <1>4, <1>6
  <2>4. /\ t[n + 1] = e
        /\ \A i \in 1 .. n : t[i] = s[i]
    BY <2>2, <1>4, <1>6
  <2>5. Short(t) /\ t # <<>> /\ LastOf(t) = e
    BY <2>3, <2>4, <1>6 DEF Short, LastOf
  <2>6. \A k \in 1 .. Len(t) - 1 : t[Len(t) - k] = s[Len(s) + 1 - k]
    BY <2>3, <2>4, <1>2, <1>6
  <2> QED
    BY <2>3, <2>5, <2>6, <1>2, <1>6
<1> QED
  BY <1>5, <1>6

(* An iteration enters both, so the one stays the end of the other.        *)
LEMMA EndKept ==
  ASSUME NEW s, Short(s), NEW t, Short(t), EndOf(t, s), NEW e
  PROVE  EndOf(Tail3(Append(t, e)), Tail3(Append(s, e)))
<1> DEFINE t1 == Tail3(Append(t, e))
           s1 == Tail3(Append(s, e))
<1>1. /\ Short(t1) /\ Len(t1) = (IF Len(t) = 3 THEN 3 ELSE Len(t) + 1)
      /\ LastOf(t1) = e
      /\ \A k \in 1 .. Len(t1) - 1 : t1[Len(t1) - k] = t[Len(t) + 1 - k]
  BY TailOfAppend
<1>2. /\ Short(s1) /\ Len(s1) = (IF Len(s) = 3 THEN 3 ELSE Len(s) + 1)
      /\ LastOf(s1) = e
      /\ \A k \in 1 .. Len(s1) - 1 : s1[Len(s1) - k] = s[Len(s) + 1 - k]
  BY TailOfAppend
<1>3. Len(t1) <= Len(s1)
  BY <1>1, <1>2 DEF Short, EndOf
<1>4. ASSUME NEW k \in 0 .. Len(t1) - 1
      PROVE  t1[Len(t1) - k] = s1[Len(s1) - k]
  <2>1. CASE k = 0
    BY <2>1, <1>1, <1>2 DEF LastOf, Short
  <2>2. CASE k # 0
    <3>1. k \in 1 .. Len(t1) - 1 /\ k \in 1 .. Len(s1) - 1
      BY <2>2, <1>3, <1>1, <1>2 DEF Short
    <3>2. t1[Len(t1) - k] = t[Len(t) + 1 - k] /\ s1[Len(s1) - k] = s[Len(s) + 1 - k]
      BY <3>1, <1>1, <1>2
    <3>3. k - 1 \in 0 .. Len(t) - 1
      BY <3>1, <1>1 DEF Short
    <3>4. t[Len(t) - (k - 1)] = s[Len(s) - (k - 1)]
      BY <3>3 DEF EndOf
    <3>5. Len(t) - (k - 1) = Len(t) + 1 - k /\ Len(s) - (k - 1) = Len(s) + 1 - k
      BY <3>1 DEF Short
    <3> QED
      BY <3>2, <3>4, <3>5
  <2> QED
    BY <2>1, <2>2
<1> QED
  BY <1>3, <1>4 DEF EndOf

(* A part of a sequence is a sequence.                                     *)
LEMMA PartOf ==
  ASSUME NEW S, NEW s \in Seq(S), NEW m \in Nat \ {0}, NEW n \in Nat, n <= Len(s)
  PROVE  /\ SubSeq(s, m, n) \in Seq(S)
         /\ Len(SubSeq(s, m, n)) = IF m <= n THEN n - m + 1 ELSE 0
<1>1. m \in Int /\ n \in Int
  OBVIOUS
<1>2. \A i \in m .. n : s[i] \in S
  <2> TAKE i \in m .. n
  <2>1. i \in 1 .. Len(s)
    BY LenProperties
  <2> QED
    BY <2>1, ElementOfSeq
<1> QED
  BY <1>1, <1>2, SubSeqProperties

(* A checkpoint is placed among the rows.                                  *)
LEMMA PlacedRows ==
  ASSUME NEW S, rows \in Seq(S), NEW c
  PROVE  Placed(c) \in Seq(S \union {c})
<1> DEFINE I == {i \in DOMAIN rows : rows[i].iteration <= c.iteration}
           k == Cardinality(I)
           U == S \union {c}
<1> DEFINE n == Len(rows)
<1>1. n \in Nat /\ DOMAIN rows = 1 .. n
  BY LenProperties
<1>2. I \subseteq 1 .. n /\ IsFiniteSet(1 .. n) /\ Cardinality(1 .. n) = n
  BY <1>1, FS_Interval
<1>3. k \in Nat /\ k <= n
  BY <1>2, FS_Subset, FS_CardinalityType
<1> HIDE DEF I, k
<1>4. rows \in Seq(U)
  OBVIOUS
<1>5. SubSeq(rows, 1, k) \in Seq(U)
  BY <1>3, <1>4, PartOf
<1>6. SubSeq(rows, k + 1, n) \in Seq(U)
  <2>1. k + 1 \in Nat \ {0}
    BY <1>3
  <2> QED
    BY <2>1, <1>1, <1>4, PartOf
<1>7. <<c>> \in Seq(U)
  OBVIOUS
<1>8. SubSeq(rows, 1, k) \o <<c>> \in Seq(U)
  BY <1>5, <1>7, ConcatProperties
<1>9. (SubSeq(rows, 1, k) \o <<c>>) \o SubSeq(rows, k + 1, n) \in Seq(U)
  BY <1>8, <1>6, ConcatProperties
<1> QED
  BY <1>9 DEF Placed, I, k

(* What is loaded is a history again, whatever order the rows come in.     *)
LEMMA LoadedShort ==
  ASSUME NEW S, rows \in Seq(S)
  PROVE  Short(LoadedHistory)
<1> DEFINE h == [i \in DOMAIN rows |-> rows[i].evidence]
           U == {rows[i].evidence : i \in DOMAIN rows}
<1>1. PICK n \in Nat : n = Len(rows)
  BY LenProperties
<1>2. DOMAIN rows = 1 .. n
  BY <1>1
<1>3. h \in Seq(U) /\ Len(h) = n
  BY <1>2, <1>1
<1>4. LoadedHistory = Tail3(h)
  BY DEF LoadedHistory
<1> HIDE DEF h, U
<1>5. CASE n > 3
  <2>1. Tail3(h) = SubSeq(h, n - 2, n)
    BY <1>3, <1>5 DEF Tail3
  <2>2. n - 2 \in Nat \ {0} /\ n <= Len(h)
    BY <1>3, <1>5
  <2>3. /\ SubSeq(h, n - 2, n) \in Seq(U)
        /\ Len(SubSeq(h, n - 2, n)) = IF n - 2 <= n THEN n - (n - 2) + 1 ELSE 0
    BY <2>2, <1>3, PartOf
  <2> DEFINE t == SubSeq(h, n - 2, n)
  <2>4. t \in Seq(U) /\ Len(t) = 3 /\ LoadedHistory = t
    BY <2>1, <2>3, <1>4
  <2> HIDE DEF t
  <2> QED
    BY <2>4 DEF Short
<1>6. CASE ~(n > 3)
  <2>1. Tail3(h) = SubSeq(h, 1, n)
    BY <1>3, <1>6 DEF Tail3
  <2>2. 1 \in Nat \ {0} /\ n <= Len(h)
    BY <1>3
  <2>3. /\ SubSeq(h, 1, n) \in Seq(U)
        /\ Len(SubSeq(h, 1, n)) = IF 1 <= n THEN n - 1 + 1 ELSE 0
    BY <2>2, <1>3, PartOf
  <2>4. Len(SubSeq(h, 1, n)) \in 0 .. 3
    BY <2>3, <1>6
  <2> QED
    BY <2>1, <2>3, <2>4, <1>4 DEF Short
<1> QED
  BY <1>5, <1>6
-----------------------------------------------------------------------------
LEMMA JudgeInit == JudgementInit => JudgeInv
<1> SUFFICES ASSUME JudgementInit PROVE JudgeInv
  OBVIOUS
<1> DEFINE e == << >>
<1>1. e \in Seq({}) /\ Len(e) = 0
  OBVIOUS
<1>2. rows = e /\ history = e /\ trail = e
  BY DEF JudgementInit
<1>3. Short(e)
  BY <1>1 DEF Short
<1>4. EndOf(e, e)
  BY <1>1 DEF EndOf
<1> HIDE DEF e
<1>5. Remembers
  BY <1>2, <1>3, <1>4 DEF Remembers, e
<1>6. Shaped
  BY <1>1, <1>2 DEF Shaped, JudgementInit
<1>7. CompletionProved
  BY DEF CompletionProved, JudgementInit
<1> QED
  BY <1>5, <1>6, <1>7 DEF JudgeInv, Working, JudgementInit

(* A checkpoint leaves a sequence of rows.                                 *)
LEMMA CheckpointShaped ==
  ASSUME NEW S, rows \in Seq(S), NEW state, NEW u, NEW h, Checkpoint(state, u, h)
  PROVE  \E T : rows' \in Seq(T)
<1> DEFINE c == [iteration |-> u["iterations"], evidence |-> LastOf(h)]
<1>1. rows' = Placed(c) \/ rows' = rows
  BY DEF Checkpoint
<1>2. Placed(c) \in Seq(S \union {c})
  BY PlacedRows
<1> QED
  BY <1>1, <1>2

(* Nothing of what is remembered changes.                                  *)
LEMMA RemembersKept ==
  ASSUME Remembers, UNCHANGED <<history, trail>>, goal'.met = goal.met
  PROVE  Remembers'
<1> QED
  BY DEF Remembers, EndOf, Short, LastOf, Met

LEMMA JudgeDecide == JudgeInv /\ DecideNext => JudgeInv'
<1> SUFFICES ASSUME JudgeInv, DecideNext PROVE JudgeInv'
  OBVIOUS
<1> USE DEF JudgeInv
<1> DEFINE d == Decision
<1>1. PICK S : rows \in Seq(S)
  BY DEF Shaped
<1>2. ASSUME NEW state, NEW why, Ends(state, why),
             state = "completed" => d[1] = "complete"
      PROVE  JudgeInv'
  <2>1. goal' = [goal EXCEPT !.state = state] /\ UNCHANGED <<history, trail>>
    BY <1>2 DEF Ends
  <2>2. goal'.met = goal.met /\ goal'.state = state /\ DOMAIN goal' = DOMAIN goal
    BY <2>1 DEF Shaped
  <2>3. Remembers'
    BY <2>1, <2>2, RemembersKept
  <2>4. \E T : rows' \in Seq(T)
    BY <1>1, <1>2, CheckpointShaped DEF Ends
  <2>5. CompletionProved'
    <3> SUFFICES ASSUME state = "completed", trail # <<>>
                 PROVE  LastOf(trail).test = "passed" /\ LastOf(trail).gate = "approved"
      BY <2>1, <2>2 DEF CompletionProved
    <3>1. d[1] = "complete"
      BY <1>2
    <3>2. goal.met /\ LastOf(history).gate = "approved"
      BY <3>1 DEF Decision, GiveUp
    <3>3. Len(trail) > 0
      BY DEF Remembers, Short
    <3>4. LastOf(trail) = LastOf(history)
      BY <3>3 DEF Remembers, Short, EndOf, LastOf
    <3> QED
      BY <3>2, <3>4 DEF Remembers, Met
  <2> QED
    BY <2>2, <2>3, <2>4, <2>5, <1>2 DEF Shaped, Working, Ends
<1>3. ASSUME at = "head", UNCHANGED <<goal, history, rows, trail>>
      PROVE  JudgeInv'
  <2>1. Remembers'
    BY <1>3, RemembersKept
  <2> QED
    BY <2>1, <1>3 DEF Shaped, Working, CompletionProved, LastOf
<1>4. \/ d[1] = "complete" /\ Ends("completed", d[2])
      \/ d[1] = "escalate" /\ Ends("waiting_for_human", d[2])
      \/ d[1] = "stop" /\ Ends("stopped", d[2])
      \/ Ends(IF policy.human THEN "waiting_for_human" ELSE "stopped", "budget_exhausted")
      \/ at = "head" /\ UNCHANGED <<goal, history, rows, trail>>
  BY DEF DecideNext
<1> QED
  BY <1>2, <1>3, <1>4

LEMMA JudgeIterate == JudgeInv /\ IterationReturns => JudgeInv'
<1> SUFFICES ASSUME JudgeInv, IterationReturns PROVE JudgeInv'
  OBVIOUS
<1> USE DEF JudgeInv
<1>0. at # "idle" /\ at' = "head"
  BY DEF IterationReturns
<1>1. PICK S : rows \in Seq(S)
  BY DEF Shaped
<1>2. PICK o \in Outcomes :
        LET e == EvidenceOf(o)
            u == Recorded(used, e)
            h == Tail3(Append(history, e))
        IN  /\ used' = u /\ history' = h
            /\ plans' = Planned(e)
            /\ goal' = [goal EXCEPT !.met = MetAfter(e),
                          !.stalled = StalledAfter(@, goal.met, e)]
            /\ trail' = Tail3(Append(trail, e))
            /\ Checkpoint(goal.state, u, h)
  BY DEF IterationReturns
<1> DEFINE e == EvidenceOf(o)
           u == Recorded(used, e)
<1>3. /\ history' = Tail3(Append(history, e)) /\ trail' = Tail3(Append(trail, e))
      /\ goal' = [goal EXCEPT !.met = Met(e), !.stalled = StalledAfter(@, goal.met, e)]
      /\ Checkpoint(goal.state, u, history')
  BY <1>2 DEF MetAfter
<1>4. goal'.met = Met(e) /\ goal'.state = goal.state /\ DOMAIN goal' = DOMAIN goal
  BY <1>3 DEF Shaped
<1> HIDE DEF e, u
<1>5. Short(history') /\ Short(trail') /\ trail' # <<>> /\ LastOf(trail') = e
  BY <1>3, TailOfAppend DEF Remembers
<1>6. EndOf(trail', history')
  BY <1>3, EndKept DEF Remembers
<1>7. Remembers'
  BY <1>4, <1>5, <1>6 DEF Remembers, Short, EndOf, LastOf
<1>8. \E T : rows' \in Seq(T)
  BY <1>1, <1>3, CheckpointShaped
<1>9. goal.state # "completed"
  BY <1>0 DEF Working
<1> QED
  BY <1>0, <1>4, <1>7, <1>8, <1>9 DEF Shaped, CompletionProved, Working

LEMMA JudgePause == JudgeInv /\ PauseHead => JudgeInv'
<1> SUFFICES ASSUME JudgeInv, PauseHead PROVE JudgeInv'
  OBVIOUS
<1> USE DEF JudgeInv
<1>1. PICK S : rows \in Seq(S)
  BY DEF Shaped
<1>2. /\ goal'.met = goal.met /\ goal'.state = "paused" /\ DOMAIN goal' = DOMAIN goal
      /\ at' = "idle" /\ UNCHANGED <<history, trail>>
  BY DEF PauseHead, Shaped
<1>3. \E T : rows' \in Seq(T)
  BY <1>1, CheckpointShaped DEF PauseHead
<1>4. Remembers'
  BY <1>2, RemembersKept
<1> QED
  BY <1>2, <1>3, <1>4 DEF Shaped, CompletionProved, Working

LEMMA JudgeAnswer == JudgeInv /\ (StartLoop \/ Answer) => JudgeInv'
<1> SUFFICES ASSUME JudgeInv, StartLoop \/ Answer PROVE JudgeInv'
  OBVIOUS
<1> USE DEF JudgeInv
<1>1. /\ goal'.met = goal.met /\ goal'.state = "running" /\ DOMAIN goal' = DOMAIN goal
      /\ UNCHANGED <<rows, history, trail>>
  BY DEF StartLoop, Answer, Shaped
<1>2. Remembers'
  BY <1>1, RemembersKept
<1> QED
  BY <1>1, <1>2 DEF Shaped, CompletionProved, Working

LEMMA JudgeRestart == JudgeInv /\ ReloadGoal => JudgeInv'
<1> SUFFICES ASSUME JudgeInv, ReloadGoal PROVE JudgeInv'
  OBVIOUS
<1> USE DEF JudgeInv
<1>1. PICK S : rows \in Seq(S)
  BY DEF Shaped
<1> DEFINE e == << >>
<1>2. e \in Seq({}) /\ Len(e) = 0
  OBVIOUS
<1>3. Short(e)
  BY <1>2 DEF Short
<1>4. history' = LoadedHistory /\ trail' = e /\ (rows' = rows \/ rows' = e) /\ at' = "idle"
  BY DEF ReloadGoal
<1>5. DOMAIN goal' = {"state", "met", "stalled"}
  BY DEF ReloadGoal
<1>6. Short(LoadedHistory)
  BY <1>1, LoadedShort
<1> DEFINE h == LoadedHistory
<1> HIDE DEF h
<1>7. EndOf(e, h)
  BY <1>2, <1>6 DEF EndOf, Short, h
<1>8. \E T : rows' \in Seq(T)
  BY <1>1, <1>2, <1>4
<1> HIDE DEF e
<1>9. Short(history') /\ Short(trail') /\ EndOf(trail', history')
  BY <1>3, <1>4, <1>6, <1>7 DEF Short, EndOf, h
<1>10. trail' = <<>>
  BY <1>4 DEF e
<1> QED
  BY <1>4, <1>5, <1>8, <1>9, <1>10 DEF Shaped, CompletionProved, Working, Remembers, Short, EndOf

LEMMA JudgeStep == JudgeInv /\ [JudgementNext]_judgementVars => JudgeInv'
<1> SUFFICES ASSUME JudgeInv, [JudgementNext]_judgementVars PROVE JudgeInv'
  OBVIOUS
<1>1. CASE UNCHANGED judgementVars
  <2>1. Remembers'
    BY <1>1, RemembersKept DEF judgementVars, JudgeInv
  <2> QED
    BY <1>1, <2>1 DEF judgementVars, JudgeInv, Shaped, Working, CompletionProved, LastOf
<1> QED
  BY <1>1, JudgeDecide, JudgeIterate, JudgePause, JudgeAnswer, JudgeRestart DEF JudgementNext

(* A goal is completed on the evidence of its newest iteration, whatever   *)
(* iterations, pauses, answers and restarts came before.                   *)
(* (GoalEvaluator.evaluate and _decide)                                    *)
THEOREM Proved == JudgementSpec => []CompletionProved
<1>1. JudgeInv => CompletionProved
  BY DEF JudgeInv
<1> QED
  BY JudgeInit, JudgeStep, <1>1, PTL DEF JudgementSpec

(* A failing environment that is still among the last three iterations is  *)
(* in the history, so the detector calls the goal stuck.                   *)
LEMMA EnvironmentSeen ==
  ASSUME JudgeInv, NEW i \in DOMAIN trail, trail[i].env
  PROVE  \E j \in DOMAIN history : history[j].env
<1> USE DEF JudgeInv, Remembers
<1>1. PICK n \in 0 .. 3 : n = Len(trail)
  BY DEF Short
<1>2. PICK l \in 0 .. 3 : l = Len(history)
  BY DEF Short
<1>3. DOMAIN trail = 1 .. n /\ DOMAIN history = 1 .. l
  BY <1>1, <1>2, LenProperties DEF Short
<1>4. n - i \in 0 .. n - 1
  BY <1>3
<1>5. n <= l /\ trail[n - (n - i)] = history[l - (n - i)]
  BY <1>1, <1>2, <1>4 DEF EndOf
<1>6. n - (n - i) = i /\ l - (n - i) \in 1 .. l
  BY <1>3, <1>5
<1> QED
  BY <1>3, <1>5, <1>6

(* No iteration is begun on top of a failing environment.                  *)
(* (StuckDetector and _decide)                                             *)
THEOREM EnvironmentAsked == JudgementSpec => EnvironmentStops
<1> DEFINE A == [ at' \notin {"idle", "head"} /\ at = "head" =>
                    \A i \in DOMAIN trail : ~trail[i].env ]_judgementVars
<1>1. JudgeInv /\ [JudgementNext]_judgementVars => A
  <2> SUFFICES ASSUME JudgeInv, JudgementNext, at' \notin {"idle", "head"}, at = "head",
                      NEW i \in DOMAIN trail, trail[i].env
               PROVE  FALSE
    OBVIOUS
  <2>1. DecideNext
    BY DEF JudgementNext, StartLoop, PauseHead, IterationReturns, Answer, ReloadGoal
  <2>2. \E j \in DOMAIN history : history[j].env
    BY EnvironmentSeen
  <2>3. StuckNow
    BY <2>2 DEF StuckNow, Trend
  <2>4. history # <<>>
    BY <2>2
  <2>5. Decision = <<GiveUp, "stuck_detected">>
    BY <2>3, <2>4 DEF Decision
  <2>6. Decision[1] \in {"escalate", "stop"}
    BY <2>5 DEF GiveUp
  <2> QED
    BY <2>1, <2>6 DEF DecideNext, Ends
<1> QED
  BY JudgeInit, JudgeStep, <1>1, PTL DEF JudgementSpec, EnvironmentStops
=============================================================================
