---------------------------- MODULE MCRunActors ----------------------------
(***************************************************************************)
(* One run in the settings in which several actors meet on it: an          *)
(* execution and the requests that cancel it on a row of PostgresRunStore; *)
(* two executions of one row, the second by resume_run while the first is  *)
(* still at work; an execution and cancel requests on the shared object of *)
(* InMemoryRunStore, in a process that has no database; and the sockets    *)
(* that follow a run while it is updated.                                  *)
(***************************************************************************)
EXTENDS RunLifecycle, RunFeed

CONSTANT First   \* the execution that meets a cancellation

ASSUME FirstAssumption == First \in Executors

VARIABLES
  setting,   \* which of the four
  msource, mrow, mlocal, mpc, mcpc, mccopy, maccepted, mapplies, mresumes,
  mcrashes, mfaults   \* the run of the process without a database

memory == <<msource, mrow, mlocal, mpc, mcpc, mccopy, maccepted, mapplies,
            mresumes, mcrashes, mfaults>>
allVars == <<setting, vars, memory, feedVars>>

Memory == INSTANCE RunLifecycle
  WITH Executors <- {First}, Durable <- FALSE, MaxFaults <- 0,
       SourceKinds <- {"none", "local", "github"}, Failing <- WorkStages,
       source <- msource, row <- mrow, local <- mlocal, pc <- mpc,
       cpc <- mcpc, ccopy <- mccopy, accepted <- maccepted,
       applies <- mapplies, resumes <- mresumes, crashes <- mcrashes,
       faults <- mfaults

(* First begins; two executions meet no request and no store that raises,  *)
(* and a repair of theirs does not lead to another test run.               *)
ActorsInit ==
  /\ setting \in {"database", "twice", "memory", "feed"}
  /\ Init /\ pc[First] = At("load", "initializing")
  /\ Memory!Init /\ (setting # "memory" => msource = "none")
  /\ FeedInit

OnDatabase ==
  \/ /\ setting = "database"
     /\ Resume(First) \/ Execute(First) \/ \E c \in Cancellers : Cancel(c)
  \/ /\ setting = "twice"
     /\ \E e \in Executors : Resume(e) \/ Execute(e)
     /\ faults' = faults /\ \A e \in Executors : pc'[e].pos # "retest"

ActorsNext ==
  \/ OnDatabase /\ UNCHANGED <<setting, memory, feedVars>>
  \/ setting = "memory" /\ Memory!Next /\ UNCHANGED <<setting, vars, feedVars>>
  \/ setting = "feed" /\ FeedNext /\ UNCHANGED <<setting, vars, memory>>

(* Steps that are not left undone: in memory those of the execution, in    *)
(* the feed what RunFeed assumes of each task.  A behaviour has one of the *)
(* settings and no step of the feed can be taken twice, so that fairness   *)
(* to all of them together is fairness to each.                            *)
Progress ==
  \/ setting = "memory" /\ Memory!Execute(First) /\ UNCHANGED <<setting, vars, feedVars>>
  \/ /\ setting = "feed" /\ UNCHANGED <<setting, vars, memory>>
     /\ \/ \E p \in Publishers : Broadcast(p)
        \/ \E s \in Sockets : HandleSocket(s) \/ CloseSocket(s)

ActorsSpec == ActorsInit /\ [][ActorsNext]_allVars /\ WF_allVars(Progress)
-----------------------------------------------------------------------------
(* A run in memory that nothing interrupts reaches a terminal status.      *)
(* (_finalize: a run left RUNNING is FAILED)                               *)
RunEnds == setting = "memory" ~> mrow.status \in TerminalStatuses
=============================================================================
