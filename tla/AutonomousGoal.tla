--------------------------- MODULE AutonomousGoal ---------------------------
(***************************************************************************)
(* One goal of AutonomousExecutionController (services/autonomy_service.py)*)
(* : the bounded loop that decides, iterates and checkpoints, and the      *)
(* requests that pause, resume, answer and cancel it, in the API server    *)
(* that created the goal, in that server after a restart, and in commands  *)
(* of the CLI, which are processes of their own over the same database.    *)
(*                                                                         *)
(* The server that created the goal keeps one object of it, which all its  *)
(* requests share; everybody else works on a copy loaded from the row.     *)
(* Every await is a point where others run: an action goes from one such   *)
(* point to the next.                                                      *)
(*                                                                         *)
(* Left out: plan versions, decisions, events and memories, which decide   *)
(* nothing here.  What the stuck detector finds in the history and what    *)
(* the scope controller finds in the changed files may be anything; the    *)
(* evidence of an iteration is one of the kinds _decide tells apart.       *)
(***************************************************************************)
EXTENDS Naturals, FiniteSets

CONSTANTS
  Requests,       \* tasks that serve requests about the goal
  MaxIterations, MaxReplans, MaxRepairs,  \* limits of ExecutionBudget
  Kinds,          \* goals: "plain", "vague" (a task too short to go on),
                  \* "alone" (the policy forbids to ask a human)
  Shows,          \* what the evidence of an iteration may show
  MaxRuns,        \* the agent-call, LLM-call and test-run limits, in
                  \* iterations: each iteration uses a fixed share of them
  MaxCalls,       \* requests after the one that created the goal
  MaxRestarts,    \* restarts of the server
  MaxFaults       \* database operations that raise

(* proven: criteria met, gate approved; approved: criteria open; met: gate *)
(* not approved; failing: tests; rejected: by the gate; pending: tests     *)
(* passed, no verdict.                                                     *)
Evidence == {"proven", "approved", "met", "failing", "rejected", "pending"}

ASSUME GoalAssumption ==
  /\ IsFiniteSet(Requests)
  /\ Kinds \subseteq {"plain", "vague", "alone"} /\ Shows \subseteq Evidence
  /\ MaxIterations \in Nat \ {0} /\ MaxRuns \in Nat \ {0}
  /\ MaxReplans \in Nat /\ MaxRepairs \in Nat
  /\ MaxCalls \in Nat /\ MaxRestarts \in Nat /\ MaxFaults \in Nat

VARIABLES
  kind,      \* the kind of the goal
  row,       \* the goal in execution_goals, with its last checkpoint
  srv,       \* the server: does it hold the object, its two flags
  obj,       \* the object of the server
  priv,      \* priv[r]: the copy request r works on, if it does
  task,      \* task[r]: where request r is
  late,      \* late[r]: iterations r began after a cancel (history)
  shown,     \* whether an iteration ever met the criteria, and whether
             \* one was ever approved (history)
  calls, restarts, faults

vars == <<kind, row, srv, obj, priv, task, late, shown, calls, restarts,
          faults>>
-----------------------------------------------------------------------------
(* The goal and its row.                                                   *)

Terminal == {"completed", "stopped", "failed", "cancelled"}
States == Terminal \union {"running", "paused", "waiting", "resuming"}

Satisfies(e) == e \in {"proven", "met"}
GateApproved(e) == e \in {"proven", "approved"}

Goal == [ state : States, version : Nat,
          hist : Evidence \union {"none"},  \* the newest evidence
          sat : BOOLEAN,                    \* goal.progress: criteria met
          iters : Nat, replans : Nat, repairs : 0 .. MaxRepairs ]

(* The row keeps the budget and the progress of the last _persist_goal;    *)
(* checkpoints write state, version and evidence, not the budget.          *)
Row == [ state : States, version : Nat,
         hist : Evidence \union {"none"}, at : Nat,
         sat : BOOLEAN, iters : Nat, replans : Nat,
         repairs : 0 .. MaxRepairs ]

NewGoal == [ state |-> "running", version |-> 1, hist |-> "none",
             sat |-> FALSE, iters |-> 0, replans |-> 0, repairs |-> 0 ]

(* _load_goal: the evidence is that of the highest iteration.              *)
Loaded == [ state |-> row.state, version |-> row.version,
            hist |-> row.hist, sat |-> row.sat, iters |-> row.iters,
            replans |-> row.replans, repairs |-> row.repairs ]

Points ==
  {"idle",      \* no request
   "begin",     \* start: before the goal is loaded or looked up
   "persist",   \* _persist_goal
   "resolve",   \* provide_input: escalations being stored
   "turn",      \* between a checkpoint and the head of the loop
   "note",      \* _record_decision before the last checkpoint
   "spent",     \* _record_decision of an exhausted budget
   "escalate",  \* _escalate
   "decided",   \* _record_decision before an iteration
   "iterate",   \* _run_iteration
   "plans",     \* _persist_plan_versions
   "cas",       \* _persist_checkpoint
   "reload"}    \* _checkpoint: _load_goal after a lost comparison

Actions == {"none", "continue", "repair", "replan"}
Afters == {"leave", "turn", "note", "persist", "begin"}

Task == [ at : Points,
          cli : BOOLEAN,                  \* in a process of the CLI
          own : BOOLEAN,                  \* works on priv[r]
          act : Actions,                  \* decision being carried out
          ev : Evidence \union {"none"},  \* evidence of its iteration
          want : Nat, mark : States, count : Nat,  \* its checkpoint
          after : Afters ]                \* what follows it

IdleTask == [ at |-> "idle", cli |-> FALSE, own |-> FALSE, act |-> "none",
              ev |-> "none", want |-> 0, mark |-> "running", count |-> 0,
              after |-> "leave" ]

Mine(r) == IF task[r].own THEN priv[r] ELSE obj

(* Assignments of r to its goal, and where it goes; t is its task.         *)
Set(r, g, t) ==
  /\ IF t.own THEN priv' = [priv EXCEPT ![r] = g] /\ obj' = obj
              ELSE obj' = g /\ priv' = priv
  /\ task' = [task EXCEPT ![r] = t]

(* The goal r worked on is not used any more: a copy of its own is garbage.*)
Leaves(r, g, t, next) ==
  /\ priv' = [priv EXCEPT ![r] = NewGoal]
  /\ obj' = IF t.own THEN obj ELSE g
  /\ task' = [task EXCEPT ![r] = next]

(* The request is answered.                                                *)
Leave(r, g, t) == Leaves(r, g, t, IdleTask)

(* _checkpoint up to the comparison in the database.                       *)
Mark(r, g, t, after) ==
  Set(r, [g EXCEPT !.version = @ + 1],
      [t EXCEPT !.at = "cas", !.want = g.version, !.mark = g.state,
                !.count = g.iters, !.after = after])

Fault == faults < MaxFaults /\ faults' = faults + 1
NoFault == faults' = faults
-----------------------------------------------------------------------------
(* _decide, and the check of the budget after it.                          *)

Stuck == IF kind # "alone" THEN "escalate" ELSE "stop"

(* Mutant: met criteria complete the goal without the gate.                *)
DecideUngated(g) ==
  IF g.hist = "none" THEN {"continue"}
  ELSE {Stuck, IF g.sat THEN "complete" ELSE "continue"}

Decide(g) ==
  IF g.hist = "none" THEN {"continue"}
  ELSE {Stuck} \union
    (IF g.sat
     THEN {IF GateApproved(g.hist) THEN "complete" ELSE "continue"}
     ELSE IF g.hist = "failing" /\ g.repairs < MaxRepairs THEN {"repair"}
     ELSE IF g.hist \in {"failing", "rejected"}
     THEN {IF g.replans < MaxReplans THEN "replan" ELSE Stuck}
     ELSE {"continue"})

(* Mutant: the iterations are looked at after the replans and repairs.     *)
SpentLater(g) ==
  /\ g.iters >= MaxIterations
  /\ MaxReplans > 0 => g.replans < MaxReplans
  /\ MaxRepairs > 0 => g.repairs < MaxRepairs

(* ExecutionBudget.exhausted names the first limit that is reached, and    *)
(* the loop goes on when that is the one of the replans or the repairs.    *)
Spent(g) ==
  \/ g.iters >= MaxIterations
  \/ /\ g.iters >= MaxRuns
     /\ MaxReplans > 0 => g.replans < MaxReplans
     /\ MaxRepairs > 0 => g.repairs < MaxRepairs

(* Mutant: the cancellation flag is not looked at.                         *)
HeadGoesOn(r, g, t) ==
  IF g.state # "running" THEN Leave(r, g, t)
  ELSE \E a \in Decide(g) :
         Set(r, g, [t EXCEPT !.at = IF Spent(g) THEN "spent" ELSE "decided",
                             !.act = IF a \in {"complete", "stop", "escalate"}
                                     THEN "continue" ELSE a])

(* The head of the loop, up to the next await.  A request in the server    *)
(* looks at its flags; a command of the CLI has flags nobody else sets.    *)
LoopHead(r, g, t) ==
  IF g.state # "running" THEN Leave(r, g, t)
  ELSE IF ~t.cli /\ srv.cancel
  THEN Mark(r, [g EXCEPT !.state = "cancelled"], t, "leave")
  ELSE IF ~t.cli /\ srv.pause
  THEN Mark(r, [g EXCEPT !.state = "paused"], t, "leave")
  ELSE \E a \in Decide(g) :
         CASE a = "complete" ->
                Set(r, [g EXCEPT !.state = "completed"],
                    [t EXCEPT !.at = "note"])
           [] a = "stop" ->
                Set(r, [g EXCEPT !.state = "stopped"], [t EXCEPT !.at = "note"])
           [] a = "escalate" ->
                Set(r, g, [t EXCEPT !.at = "escalate", !.after = "note"])
           [] OTHER ->
                Set(r, g, [t EXCEPT !.at = IF Spent(g) THEN "spent"
                                           ELSE "decided",
                                    !.act = a])

(* start: a goal that ended, waits or is paused is left alone, and so is   *)
(* one that cannot be loaded.  A running one gets a second loop.           *)
Begin(r) ==
  /\ task[r].at = "begin"
  /\ LET own == task[r].cli \/ ~srv.hosts
         t == [task[r] EXCEPT !.own = own]
         g == IF own THEN Loaded ELSE obj
     IN  \/ /\ IF g.state \in Terminal \union {"waiting", "paused"}
               THEN Leave(r, g, t)
               ELSE LoopHead(r, [g EXCEPT !.state = "running"], t)
            /\ NoFault
         \/ /\ own /\ Fault
            /\ Leave(r, obj, t)
  /\ UNCHANGED <<kind, row, srv, late, shown, calls, restarts>>

(* A task too vague to go on is escalated after the first checkpoint.      *)
Turn(r) ==
  /\ task[r].at = "turn"
  /\ IF kind = "vague"
     THEN Set(r, Mine(r), [task[r] EXCEPT !.at = "escalate",
                                          !.after = "leave"])
     ELSE LoopHead(r, Mine(r), task[r])
  /\ NoFault
  /\ UNCHANGED <<kind, row, srv, late, shown, calls, restarts>>

Note(r) ==
  /\ task[r].at = "note"
  /\ Mark(r, Mine(r), task[r], "leave")
  /\ NoFault
  /\ UNCHANGED <<kind, row, srv, late, shown, calls, restarts>>

(* The goal waits for a human, whatever became of it during the await.     *)
Escalate(r) ==
  /\ task[r].at = "escalate"
  /\ LET g == [Mine(r) EXCEPT !.state = "waiting"]
     IN  IF task[r].after = "note"
         THEN Set(r, g, [task[r] EXCEPT !.at = "note"])
         ELSE Mark(r, g, task[r], "leave")
  /\ NoFault
  /\ UNCHANGED <<kind, row, srv, late, shown, calls, restarts>>

OutOfBudget(r) ==
  /\ task[r].at = "spent"
  /\ IF kind # "alone"
     THEN Set(r, Mine(r), [task[r] EXCEPT !.at = "escalate",
                                          !.after = "leave"])
     ELSE Mark(r, [Mine(r) EXCEPT !.state = "stopped"], task[r], "leave")
  /\ NoFault
  /\ UNCHANGED <<kind, row, srv, late, shown, calls, restarts>>
-----------------------------------------------------------------------------
(* An iteration.                                                           *)

Least(m, n) == IF m < n THEN m ELSE n

Start(r) ==
  /\ task[r].at = "decided"
  /\ LET g == Mine(r)
         spent == CASE task[r].act = "replan" ->
                         [g EXCEPT !.replans = @ + 1]
                    [] task[r].act = "repair" ->
                         [g EXCEPT !.repairs = Least(MaxRepairs, @ + 1)]
                    [] OTHER -> g
     IN  Set(r, spent, [task[r] EXCEPT !.at = "iterate", !.act = "none"])
  /\ late' = [late EXCEPT ![r] = IF ~task[r].cli /\ srv.cancel
                                 THEN Least(2, @ + 1) ELSE @]
  /\ NoFault
  /\ UNCHANGED <<kind, row, srv, shown, calls, restarts>>

(* The criteria are evaluated from the evidence of this very iteration; a  *)
(* change out of scope asks a human.                                       *)
Evaluate(r, g, t) ==
  LET judged == [g EXCEPT !.sat = Satisfies(t.ev)]
      done == [t EXCEPT !.ev = "none"]
  IN  \/ Mark(r, judged, done, "turn")
      \/ Set(r, judged, [done EXCEPT !.at = "escalate", !.after = "leave"])

(* The run of the iteration returns.  Its evidence enters the history; a   *)
(* new plan version is stored before it is evaluated.                      *)
Iterate(r) ==
  /\ task[r].at = "iterate"
  /\ \E e \in Shows :
       LET g == [Mine(r) EXCEPT !.iters = @ + 1, !.hist = e]
           t == [task[r] EXCEPT !.ev = e]
       IN  /\ shown' = shown
                 \union (IF Satisfies(e) THEN {"criteria"} ELSE {})
                 \union (IF GateApproved(e) THEN {"approval"} ELSE {})
           /\ \/ Evaluate(r, g, t)
              \/ Set(r, g, [t EXCEPT !.at = "plans"])
  /\ NoFault
  /\ UNCHANGED <<kind, row, srv, late, calls, restarts>>

StorePlans(r) ==
  /\ task[r].at = "plans"
  /\ Evaluate(r, Mine(r), task[r])
  /\ NoFault
  /\ UNCHANGED <<kind, row, srv, late, shown, calls, restarts>>
-----------------------------------------------------------------------------
(* The database.  An operation that raises is swallowed by _with_session,  *)
(* and a checkpoint then counts as persisted.                              *)

Checkpointed(r, g, t) ==
  IF t.after = "leave" THEN Leave(r, g, t)
  ELSE Set(r, g, [t EXCEPT !.at = t.after, !.want = 0, !.mark = "running",
                           !.count = 0, !.after = "leave"])

(* _persist_checkpoint: a compare-and-swap on the version of the row.      *)
Compare(r) ==
  /\ task[r].at = "cas"
  /\ LET t == task[r]
         g == Mine(r)
         newer == g.hist # "none" /\ t.count >= row.at
     IN  \/ /\ row.version = t.want
            /\ row' = [row EXCEPT !.version = t.want + 1, !.state = t.mark,
                         !.hist = IF newer THEN g.hist ELSE @,
                         !.at = IF newer THEN t.count ELSE @]
            /\ Checkpointed(r, g, t) /\ NoFault
         \/ /\ row.version # t.want
            /\ Set(r, [g EXCEPT !.version = t.want],
                   [t EXCEPT !.at = "reload"])
            /\ row' = row /\ NoFault
         \/ /\ Fault /\ row' = row
            /\ Checkpointed(r, g, t)
  /\ UNCHANGED <<kind, srv, late, shown, calls, restarts>>

(* ConcurrencyConflictError ends the request when the row is ahead; a row  *)
(* that is behind, or cannot be read, lets it go on.                       *)
Reload(r) ==
  /\ task[r].at = "reload"
  /\ \/ /\ row.version > task[r].want
        /\ Leave(r, Mine(r), task[r]) /\ NoFault
     \/ /\ row.version <= task[r].want
        /\ Checkpointed(r, Mine(r), task[r]) /\ NoFault
     \/ /\ Fault
        /\ Checkpointed(r, Mine(r), task[r])
  /\ UNCHANGED <<kind, row, srv, late, shown, calls, restarts>>

(* _persist_goal writes the whole goal without comparing the version;      *)
(* cancel ends with it, resume and provide_input go on to start.           *)
Persist(r) ==
  /\ task[r].at = "persist"
  /\ LET g == Mine(r)
     IN  \/ /\ row' = [row EXCEPT !.state = g.state, !.version = g.version,
                         !.sat = g.sat, !.iters = g.iters,
                         !.replans = g.replans, !.repairs = g.repairs]
            /\ NoFault
         \/ Fault /\ row' = row
  /\ Leaves(r, Mine(r), task[r],
            IF task[r].after = "leave" THEN IdleTask
            ELSE [IdleTask EXCEPT !.at = "begin", !.cli = task[r].cli])
  /\ UNCHANGED <<kind, srv, late, shown, calls, restarts>>
-----------------------------------------------------------------------------
(* The requests.  A command of the CLI is a process of its own, and its    *)
(* flags die with it: a pause from there has no effect.                    *)

Arrives(r, cli) ==
  /\ task[r].at = "idle" /\ calls < MaxCalls
  /\ calls' = calls + 1
  /\ late' = [late EXCEPT ![r] = 0]
  /\ NoFault
  /\ UNCHANGED <<kind, row, shown, restarts>>

Arrival(cli) == [IdleTask EXCEPT !.cli = cli, !.own = cli \/ ~srv.hosts]
Found(t) == IF t.own THEN Loaded ELSE obj

Pause(r) ==
  /\ Arrives(r, FALSE)
  /\ srv' = [srv EXCEPT !.pause = @ \/ Found(Arrival(FALSE)).state
                                       \in {"running", "resuming", "waiting"}]
  /\ UNCHANGED <<obj, priv, task>>

Resume(r, cli) ==
  /\ Arrives(r, cli)
  /\ LET t == Arrival(cli)
         g == Found(t)
     IN  IF g.state \in {"paused", "waiting"}
         THEN /\ srv' = IF cli THEN srv ELSE [srv EXCEPT !.pause = FALSE]
              /\ Set(r, [g EXCEPT !.state = "resuming"],
                     [t EXCEPT !.at = "persist", !.after = "begin"])
         ELSE /\ srv' = srv
              /\ Leaves(r, g, t, [IdleTask EXCEPT !.at = "begin",
                                                  !.cli = cli])

(* cancel takes any goal, also one that ended.                             *)
Cancel(r, cli) ==
  /\ Arrives(r, cli)
  /\ srv' = IF cli THEN srv ELSE [srv EXCEPT !.cancel = TRUE]
  /\ LET t == Arrival(cli)
     IN  Mark(r, [Found(t) EXCEPT !.state = "cancelled"], t, "persist")

(* provide_input stores the escalations it resolves before it resumes.     *)
Input(r) ==
  /\ Arrives(r, FALSE)
  /\ srv' = srv
  /\ LET t == Arrival(FALSE)
         g == Found(t)
     IN  /\ g.state = "waiting"
         /\ Set(r, g, [t EXCEPT !.at = "resolve"])

Resolve(r) ==
  /\ task[r].at = "resolve"
  /\ Set(r, [Mine(r) EXCEPT !.state = "resuming"],
         [task[r] EXCEPT !.at = "persist", !.after = "begin"])
  /\ NoFault
  /\ UNCHANGED <<kind, row, srv, late, shown, calls, restarts>>

(* The server restarts: its requests, its object and its flags are gone.   *)
Restart ==
  /\ restarts < MaxRestarts
  /\ restarts' = restarts + 1
  /\ srv' = [hosts |-> FALSE, cancel |-> FALSE, pause |-> FALSE]
  /\ obj' = NewGoal
  /\ task' = [r \in Requests |-> IF task[r].cli THEN task[r] ELSE IdleTask]
  /\ priv' = [r \in Requests |-> IF task[r].cli THEN priv[r] ELSE NewGoal]
  /\ late' = [r \in Requests |-> 0]
  /\ NoFault
  /\ UNCHANGED <<kind, row, shown, calls>>
-----------------------------------------------------------------------------
(* create_goal stored the goal; its request goes on with start.            *)
Init ==
  /\ kind \in Kinds
  /\ row = [ state |-> "running", version |-> 1, hist |-> "none", at |-> 0,
             sat |-> FALSE, iters |-> 0, replans |-> 0, repairs |-> 0 ]
  /\ srv = [hosts |-> TRUE, cancel |-> FALSE, pause |-> FALSE]
  /\ obj = NewGoal
  /\ priv = [r \in Requests |-> NewGoal]
  /\ \E first \in Requests :
       task = [r \in Requests |->
                 IF r = first THEN [IdleTask EXCEPT !.at = "begin"]
                              ELSE IdleTask]
  /\ late = [r \in Requests |-> 0]
  /\ shown = {} /\ calls = 0 /\ restarts = 0 /\ faults = 0

Loop(r) ==
  \/ Begin(r) \/ Turn(r) \/ Note(r) \/ Escalate(r) \/ OutOfBudget(r)
  \/ Start(r) \/ Iterate(r) \/ StorePlans(r)

Serve(r) == Loop(r) \/ Compare(r) \/ Reload(r) \/ Persist(r) \/ Resolve(r)

Next ==
  \/ \E r \in Requests :
       \/ Serve(r) \/ Pause(r) \/ Input(r)
       \/ \E cli \in BOOLEAN : Resume(r, cli) \/ Cancel(r, cli)
  \/ Restart

Spec == Init /\ [][Next]_vars

-----------------------------------------------------------------------------
TypeOK ==
  /\ kind \in Kinds
  /\ row \in Row
  /\ srv \in [hosts : BOOLEAN, cancel : BOOLEAN, pause : BOOLEAN]
  /\ obj \in Goal /\ priv \in [Requests -> Goal]
  /\ task \in [Requests -> Task]
  /\ late \in [Requests -> 0 .. 2]
  /\ shown \subseteq {"criteria", "approval"}
  /\ calls \in Nat /\ restarts \in Nat /\ faults \in Nat

(* After a cancel no request of the server begins more than the iteration  *)
(* it had already decided on, whatever state others give the goal back.    *)
CancelStops == \A r \in Requests : late[r] <= 1

(* The iteration limit holds for the server's object up to one iteration   *)
(* for each further loop a resume of a running goal has started.           *)
IterationsBounded ==
  obj.iters < MaxIterations + Cardinality(Requests)

(* A goal is only ever completed after an iteration met its criteria and   *)
(* one was approved by the gate.                                           *)
CompletionShown ==
  \A g \in {obj, row} \union {priv[r] : r \in Requests} :
    g.state = "completed" => {"criteria", "approval"} \subseteq shown
=============================================================================
