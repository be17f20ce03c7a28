---------------------------- MODULE CycleSearch ----------------------------
(***************************************************************************)
(* _has_cycle of PlanValidator and of PlannerAgent: a depth-first search   *)
(* with colours over the dependencies of a plan's steps, its recursion     *)
(* unrolled onto a stack.  The order in which the roots and the            *)
(* dependencies are visited is left open; the code takes them as listed.   *)
(***************************************************************************)
EXTENDS Naturals, Sequences

VARIABLES
  adj,       \* adj[s]: the steps that step s depends on
  color,     \* white: not visited, gray: on the stack, black: finished
  stack,     \* the calls of dfs that have not returned
  left,      \* left[s]: the dependencies dfs(s) has not looked at yet
  finished,  \* the steps in the order in which they became black
  verdict    \* unsearched, searching, cycle, acyclic

search == <<adj, color, stack, left, finished, verdict>>

Top == stack[Len(stack)]
SearchOver == verdict # "searching"

(* A search of the graph g begins, unless there is nothing to search.      *)
BeginSearch(g) ==
  /\ adj' = g
  /\ color' = [s \in DOMAIN g |-> "white"]
  /\ stack' = <<>>
  /\ left' = g
  /\ finished' = <<>>
  /\ verdict' = IF DOMAIN g = {} THEN "unsearched" ELSE "searching"

Visit(s) ==
  /\ color' = [color EXCEPT ![s] = "gray"]
  /\ stack' = Append(stack, s)

(* The outer loop calls dfs for a step that is still white.                *)
StartAt(s) ==
  /\ stack = <<>>
  /\ color[s] = "white"
  /\ Visit(s)
  /\ UNCHANGED <<adj, left, finished, verdict>>

Descend(d) ==
  /\ stack # <<>>
  /\ d \in left[Top] /\ color[d] = "white"
  /\ left' = [left EXCEPT ![Top] = @ \ {d}]
  /\ Visit(d)
  /\ UNCHANGED <<adj, finished, verdict>>

PassBlack(d) ==
  /\ stack # <<>>
  /\ d \in left[Top] /\ color[d] = "black"
  /\ left' = [left EXCEPT ![Top] = @ \ {d}]
  /\ UNCHANGED <<adj, color, stack, finished, verdict>>

(* Mutant: a dependency that is being visited is taken for a finished one. *)
PassGray(d) ==
  /\ stack # <<>>
  /\ d \in left[Top] /\ color[d] = "gray"
  /\ left' = [left EXCEPT ![Top] = @ \ {d}]
  /\ UNCHANGED <<adj, color, stack, finished, verdict>>

(* A dependency that is still being visited closes a cycle; every call     *)
(* returns True.                                                           *)
MeetGray(d) ==
  /\ stack # <<>>
  /\ d \in left[Top] /\ color[d] = "gray"
  /\ verdict' = "cycle"
  /\ UNCHANGED <<adj, color, stack, left, finished>>

(* Mutant: the step is never marked as finished.                           *)
LeaveGray ==
  /\ stack # <<>>
  /\ left[Top] = {}
  /\ stack' = SubSeq(stack, 1, Len(stack) - 1)
  /\ finished' = Append(finished, Top)
  /\ UNCHANGED <<adj, color, left, verdict>>

Leave ==
  /\ stack # <<>>
  /\ left[Top] = {}
  /\ color' = [color EXCEPT ![Top] = "black"]
  /\ stack' = SubSeq(stack, 1, Len(stack) - 1)
  /\ finished' = Append(finished, Top)
  /\ UNCHANGED <<adj, left, verdict>>

Conclude ==
  /\ stack = <<>>
  /\ \A s \in DOMAIN adj : color[s] # "white"
  /\ verdict' = "acyclic"
  /\ UNCHANGED <<adj, color, stack, left, finished>>

SearchStep ==
  /\ verdict = "searching"
  /\ \/ \E s \in DOMAIN adj :
          StartAt(s) \/ Descend(s) \/ PassBlack(s) \/ MeetGray(s)
     \/ Leave
     \/ Conclude

NoSteps == [s \in {} |-> {}]

SearchInit ==
  /\ adj = NoSteps /\ color = [s \in {} |-> "white"] /\ left = NoSteps
  /\ stack = <<>> /\ finished = <<>> /\ verdict = "unsearched"
-----------------------------------------------------------------------------
(* A set whose every step depends on a step of the set: what a cycle is.   *)
Cyclic == \E S \in SUBSET DOMAIN adj :
            S # {} /\ \A s \in S : adj[s] \cap S # {}

(* A plan is refused for a cycle only when its dependencies have one: a    *)
(* step reached twice along different paths is none.  (_has_cycle)         *)
CycleIsReal == verdict = "cycle" => Cyclic
=============================================================================
