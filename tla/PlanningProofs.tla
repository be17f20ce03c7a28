--------------------------- MODULE PlanningProofs ---------------------------
(***************************************************************************)
(* What a run is given before it codes, for every value of the constants:  *)
(* a plan that reaches a run can be carried out and a plan refused for a   *)
(* cycle has one; the semantic graph mirrors the files and finds every     *)
(* caller of what changes; what a parser returns for a file is a graph; a  *)
(* retired memory stays retired and is in no context that is made later.   *)
(***************************************************************************)
EXTENDS Planning, SemanticIndex, SyntaxParsers, AgentContext, WellFoundedInduction,
        FiniteSetTheorems, SequenceTheorems, TLAPS

Nodes == DOMAIN adj

SearchTypeOK ==
  /\ adj \in [Nodes -> SUBSET Nodes]
  /\ color \in [Nodes -> {"white", "gray", "black"}]
  /\ left \in [Nodes -> SUBSET Nodes]
  /\ stack \in Seq(Nodes)
  /\ finished \in Seq(Nodes)

(* The gray steps are those on the stack, each once.                       *)
GrayOnStack ==
  /\ \A i \in 1 .. Len(stack) : color[stack[i]] = "gray"
  /\ \A s \in Nodes : color[s] = "gray" =>
       \E i \in 1 .. Len(stack) : stack[i] = s
  /\ \A i, j \in 1 .. Len(stack) : stack[i] = stack[j] => i = j

(* The stack is a path of dependencies.                                    *)
StackIsPath ==
  \A i \in 1 .. (Len(stack) - 1) : stack[i + 1] \in adj[stack[i]]

(* What a call has looked at is finished, but for the call above it.       *)
Looked ==
  \A i \in 1 .. Len(stack) : \A d \in adj[stack[i]] \ left[stack[i]] :
    color[d] = "black" \/ (i < Len(stack) /\ stack[i + 1] = d)

(* A finished step comes after all it depends on.                          *)
FinishedInOrder ==
  /\ \A s \in Nodes : color[s] = "black" =>
       \E k \in 1 .. Len(finished) : finished[k] = s
  /\ \A k \in 1 .. Len(finished) : \A d \in adj[finished[k]] :
       \E j \in 1 .. (k - 1) : finished[j] = d

LeftIsPart == \A s \in Nodes : left[s] \subseteq adj[s]

(* A white step has none of its dependencies behind it.                    *)
Untouched == \A s \in Nodes : color[s] = "white" => left[s] = adj[s]

Verdicts ==
  /\ verdict = "acyclic" => \A s \in Nodes : color[s] = "black"
  /\ verdict = "cycle" => /\ stack # <<>>
                          /\ \E i \in 1 .. Len(stack) : stack[i] \in adj[Top]

SearchInv ==
  /\ SearchTypeOK /\ GrayOnStack /\ StackIsPath /\ Looked
  /\ FinishedInOrder /\ LeftIsPart /\ Untouched /\ Verdicts

USE DEF Nodes
-----------------------------------------------------------------------------
(* A sequence without its last element.                                    *)
LEMMA Popped ==
  ASSUME NEW T, NEW s \in Seq(T), s # <<>>
  PROVE  /\ SubSeq(s, 1, Len(s) - 1) \in Seq(T)
         /\ Len(SubSeq(s, 1, Len(s) - 1)) = Len(s) - 1
         /\ \A i \in 1 .. (Len(s) - 1) : SubSeq(s, 1, Len(s) - 1)[i] = s[i]
<1>1. PICK k : k = Len(s) - 1
  OBVIOUS
<1>2. k \in Nat /\ \A i \in 1 .. k : s[i] \in T
  BY <1>1
<1>3. k \in Int /\ 1 \in Int
  BY <1>2
<1>4. /\ SubSeq(s, 1, k) \in Seq(T)
      /\ Len(SubSeq(s, 1, k)) = IF 1 <= k THEN k - 1 + 1 ELSE 0
      /\ \A i \in 1 .. (k - 1 + 1) : SubSeq(s, 1, k)[i] = s[1 + i - 1]
  BY <1>2, <1>3, SubSeqProperties
<1>5. Len(SubSeq(s, 1, k)) = k
  BY <1>2, <1>4
<1>6. \A i \in 1 .. k : SubSeq(s, 1, k)[i] = s[i]
  <2> SUFFICES ASSUME NEW i \in 1 .. k PROVE SubSeq(s, 1, k)[i] = s[i]
    OBVIOUS
  <2>1. k - 1 + 1 = k /\ 1 + i - 1 = i
    BY <1>2
  <2>2. SubSeq(s, 1, k)[i] = s[1 + i - 1]
    BY <1>4, <2>1
  <2> QED
    BY <2>1, <2>2
<1> QED
  BY <1>1, <1>4, <1>5, <1>6

(* A search begins sound, whatever the graph.  (dfs's initial colours)     *)
LEMMA SearchBegins ==
  ASSUME NEW g, g \in [DOMAIN g -> SUBSET DOMAIN g], BeginSearch(g)
  PROVE  SearchInv'
<1>1. /\ adj' = g /\ left' = g /\ stack' = <<>> /\ finished' = <<>>
      /\ color' = [s \in DOMAIN g |-> "white"]
      /\ verdict' # "acyclic" /\ verdict' # "cycle"
  BY DEF BeginSearch
<1>2. SearchTypeOK'
  BY <1>1 DEF SearchTypeOK
<1>3. Len(stack') = 0 /\ Len(finished') = 0
  BY <1>1
<1>4. GrayOnStack' /\ StackIsPath' /\ Looked' /\ FinishedInOrder'
  BY <1>1, <1>3 DEF GrayOnStack, StackIsPath, Looked, FinishedInOrder
<1>5. LeftIsPart' /\ Untouched' /\ Verdicts'
  BY <1>1 DEF LeftIsPart, Untouched, Verdicts
<1> QED
  BY <1>2, <1>4, <1>5 DEF SearchInv

(* What visiting a white step does to the stack and the colours.           *)
LEMMA VisitTypes ==
  ASSUME SearchInv, NEW s \in Nodes, color[s] = "white", Visit(s),
         adj' = adj
  PROVE  /\ stack' \in Seq(Nodes) /\ Len(stack') = Len(stack) + 1
         /\ stack'[Len(stack) + 1] = s
         /\ \A i \in 1 .. Len(stack) : stack'[i] = stack[i]
         /\ color' \in [Nodes -> {"white", "gray", "black"}]
         /\ color'[s] = "gray"
         /\ \A t \in Nodes : t # s => color'[t] = color[t]
BY DEF SearchInv, SearchTypeOK, Visit

LEMMA VisitGray ==
  ASSUME SearchInv, NEW s \in Nodes, color[s] = "white", Visit(s),
         adj' = adj
  PROVE  GrayOnStack'
<1>1. /\ stack' \in Seq(Nodes) /\ Len(stack') = Len(stack) + 1
      /\ stack'[Len(stack) + 1] = s
      /\ \A i \in 1 .. Len(stack) : stack'[i] = stack[i]
      /\ color'[s] = "gray"
      /\ \A t \in Nodes : t # s => color'[t] = color[t]
  BY VisitTypes
<1>2. Len(stack) \in Nat /\ \A i \in 1 .. Len(stack) : stack[i] \in Nodes
  BY DEF SearchInv, SearchTypeOK
<1>3. \A i \in 1 .. Len(stack) : stack[i] # s
  BY DEF SearchInv, GrayOnStack
<1>4. \A i \in 1 .. Len(stack') : color'[stack'[i]] = "gray"
  BY <1>1, <1>2, <1>3 DEF SearchInv, GrayOnStack
<1>5. \A t \in Nodes : color'[t] = "gray" =>
        \E i \in 1 .. Len(stack') : stack'[i] = t
  <2> SUFFICES ASSUME NEW t \in Nodes, color'[t] = "gray"
               PROVE  \E i \in 1 .. Len(stack') : stack'[i] = t
    OBVIOUS
  <2>1. CASE t = s
    <3>1. Len(stack) + 1 \in 1 .. Len(stack')
      BY <1>1, <1>2
    <3> QED
      BY <1>1, <2>1, <3>1
  <2>2. CASE t # s
    <3>1. PICK i \in 1 .. Len(stack) : stack[i] = t
      BY <1>1, <2>2 DEF SearchInv, GrayOnStack
    <3>2. i \in 1 .. Len(stack') /\ stack'[i] = t
      BY <1>1, <1>2, <3>1
    <3> QED
      BY <3>2
  <2> QED
    BY <2>1, <2>2
<1>6. \A i, j \in 1 .. Len(stack') : stack'[i] = stack'[j] => i = j
  BY <1>1, <1>2, <1>3 DEF SearchInv, GrayOnStack
<1> QED
  BY <1>4, <1>5, <1>6 DEF GrayOnStack
-----------------------------------------------------------------------------
(* StartAt: the outer loop of _has_cycle.                                  *)
LEMMA StartKeeps ==
  ASSUME SearchInv, verdict = "searching", NEW s \in Nodes, StartAt(s)
  PROVE  SearchInv'
<1>1. /\ color[s] = "white" /\ Visit(s) /\ stack = <<>>
      /\ adj' = adj /\ left' = left /\ finished' = finished
      /\ verdict' = verdict
  BY DEF StartAt
<1>2. /\ stack' \in Seq(Nodes) /\ Len(stack') = 1 /\ stack'[1] = s
      /\ color' \in [Nodes -> {"white", "gray", "black"}]
      /\ color'[s] = "gray"
      /\ \A t \in Nodes : t # s => color'[t] = color[t]
  BY <1>1, VisitTypes
<1>3. GrayOnStack'
  BY <1>1, VisitGray
<1>4. SearchTypeOK' /\ StackIsPath' /\ LeftIsPart' /\ Verdicts'
  BY <1>1, <1>2 DEF SearchInv, SearchTypeOK, StackIsPath, LeftIsPart, Verdicts
<1>5. FinishedInOrder'
  <2>1. \A t \in Nodes : color'[t] = "black" => color[t] = "black"
    BY <1>1, <1>2
  <2>2. Nodes' = Nodes
    BY <1>1
  <2>3. FinishedInOrder
    BY DEF SearchInv
  <2>4. \A t \in Nodes :
           color[t] = "black" => \E k \in 1 .. Len(finished) : finished[k] = t
    BY <2>3 DEF FinishedInOrder
  <2>5. \A k \in 1 .. Len(finished) : \A d \in adj[finished[k]] :
           \E j \in 1 .. k - 1 : finished[j] = d
    BY <2>3 DEF FinishedInOrder
  <2>6. \A t \in Nodes :
           color'[t] = "black" => \E k \in 1 .. Len(finished) : finished[k] = t
    BY <2>1, <2>4
  <2>7. finished' = finished /\ adj' = adj
    BY <1>1
  <2>8. \A t \in Nodes' : color'[t] = "black" =>
           \E k \in 1 .. Len(finished') : finished'[k] = t
    BY <2>2, <2>6, <2>7
  <2>9. \A k \in 1 .. Len(finished') : \A d \in adj'[finished'[k]] :
           \E j \in 1 .. k - 1 : finished'[j] = d
    BY <2>5, <2>7
  <2> QED
    BY <2>8, <2>9 DEF FinishedInOrder
<1>6. left[s] = adj[s]
  BY <1>1 DEF SearchInv, Untouched
<1>7. Looked'
  BY <1>1, <1>2, <1>6 DEF SearchInv, Looked
<1>8. Untouched'
  BY <1>1, <1>2 DEF SearchInv, Untouched
<1> QED
  BY <1>3, <1>4, <1>5, <1>7, <1>8 DEF SearchInv

(* Descend: dfs calls itself for a white dependency.                       *)
LEMMA DescendKeeps ==
  ASSUME SearchInv, verdict = "searching", NEW d \in Nodes, Descend(d)
  PROVE  SearchInv'
<1>1. /\ stack # <<>> /\ d \in left[Top] /\ color[d] = "white" /\ Visit(d)
      /\ left' = [left EXCEPT ![Top] = left[Top] \ {d}]
      /\ adj' = adj /\ finished' = finished /\ verdict' = verdict
  BY DEF Descend
<1> DEFINE n == Len(stack)
<1>2. /\ stack' \in Seq(Nodes) /\ Len(stack') = n + 1
      /\ stack'[n + 1] = d
      /\ \A i \in 1 .. n : stack'[i] = stack[i]
      /\ color' \in [Nodes -> {"white", "gray", "black"}]
      /\ color'[d] = "gray"
      /\ \A t \in Nodes : t # d => color'[t] = color[t]
  BY <1>1, VisitTypes
<1>3. /\ n \in Nat /\ n >= 1 /\ Top \in Nodes /\ Top = stack[n]
      /\ \A i \in 1 .. n : stack[i] \in Nodes
  BY <1>1 DEF SearchInv, SearchTypeOK, Top
<1>4. d # Top /\ \A i \in 1 .. n : stack[i] # d
  BY <1>1, <1>3 DEF SearchInv, GrayOnStack
<1>5. /\ left' \in [Nodes -> SUBSET Nodes]
      /\ \A t \in Nodes : t # Top => left'[t] = left[t]
      /\ left'[Top] = left[Top] \ {d}
  BY <1>1, <1>3 DEF SearchInv, SearchTypeOK
<1>6. GrayOnStack'
  BY <1>1, VisitGray
<1>7. d \in adj[Top]
  BY <1>1, <1>3 DEF SearchInv, LeftIsPart
<1>8. SearchTypeOK'
  BY <1>1, <1>2, <1>5 DEF SearchInv, SearchTypeOK
<1>9. StackIsPath'
  <2> SUFFICES ASSUME NEW i \in 1 .. n
               PROVE  stack'[i + 1] \in adj[stack'[i]]
    BY <1>1, <1>2, <1>3 DEF StackIsPath
  <2>1. CASE i = n
    BY <1>2, <1>3, <1>7, <2>1
  <2>2. CASE i # n
    BY <1>2, <1>3, <2>2 DEF SearchInv, StackIsPath
  <2> QED
    BY <2>1, <2>2
<1>10. FinishedInOrder' /\ LeftIsPart' /\ Verdicts'
  <2>0. \A t \in Nodes : color'[t] = "black" => color[t] = "black"
    BY <1>1, <1>2
  <2>01. finished' = finished /\ adj' = adj /\ Nodes' = Nodes
    BY <1>1
  <2>1. FinishedInOrder'
    <3>1. FinishedInOrder
      BY DEF SearchInv
    <3>2. \A s \in Nodes' : color'[s] = "black" =>
             \E k \in 1 .. Len(finished') : finished'[k] = s
      BY <2>0, <2>01, <3>1 DEF FinishedInOrder
    <3>3. \A k \in 1 .. Len(finished') : \A e \in adj'[finished'[k]] :
             \E j \in 1 .. k - 1 : finished'[j] = e
      BY <2>01, <3>1 DEF FinishedInOrder
    <3> QED BY <3>2, <3>3 DEF FinishedInOrder
  <2>2. LeftIsPart'
    BY <1>1, <1>5, <1>3 DEF SearchInv, LeftIsPart
  <2>3. Verdicts'
    BY <1>1 DEF Verdicts
  <2> QED
    BY <2>1, <2>2, <2>3
<1>11. Untouched'
  BY <1>1, <1>2, <1>3, <1>4, <1>5 DEF SearchInv, Untouched, GrayOnStack
<1>12. left[d] = adj[d] /\ left'[d] = adj[d]
  BY <1>1, <1>4, <1>5 DEF SearchInv, Untouched
<1>12a. \A y \in left[Top] : y # d => y \in left'[Top]
  BY <1>5
<1>13. Looked'
  <2> SUFFICES ASSUME NEW i \in 1 .. (n + 1),
                      NEW x \in adj[stack'[i]] \ left'[stack'[i]]
               PROVE  color'[x] = "black"
                      \/ (i < n + 1 /\ stack'[i + 1] = x)
    BY <1>1, <1>2 DEF Looked
  <2>0. x \in Nodes
    BY <1>2, <1>3 DEF SearchInv, SearchTypeOK
  <2>1. CASE i = n + 1
    BY <1>2, <1>12, <2>1
  <2>2. CASE i = n
    <3>1. stack'[i] = Top
      BY <1>2, <1>3, <2>2
    <3>2. CASE x = d
      BY <1>2, <1>3, <2>2, <3>2
    <3>3. CASE x # d
      <4>0. x \in adj[Top] /\ x \notin left'[Top]
        BY <3>1
      <4>1. x \in adj[stack[n]] \ left[stack[n]]
        BY <1>3, <1>12a, <3>3, <4>0
      <4>2. color[x] = "black"
        BY <1>3, <4>1 DEF SearchInv, Looked
      <4> QED
        BY <1>2, <2>0, <3>3, <4>2
    <3> QED
      BY <3>2, <3>3
  <2>3. CASE i < n
    <3>1. i \in 1 .. n /\ stack'[i] = stack[i] /\ stack'[i + 1] = stack[i + 1]
      BY <1>2, <1>3, <2>3
    <3>2. stack[i] # Top
      BY <1>3, <2>3, <3>1 DEF SearchInv, GrayOnStack
    <3>3. x \in adj[stack[i]] \ left[stack[i]]
      BY <1>3, <1>5, <3>1, <3>2
    <3>4. color[x] = "black" \/ stack[i + 1] = x
      BY <3>1, <3>3 DEF SearchInv, Looked
    <3>5. color[x] = "black" => color'[x] = "black"
      BY <1>1, <1>2, <2>0
    <3> QED
      BY <2>3, <3>1, <3>4, <3>5
  <2> QED
    BY <1>3, <2>1, <2>2, <2>3
<1> QED
  BY <1>6, <1>8, <1>9, <1>10, <1>11, <1>13 DEF SearchInv

(* PassBlack: a finished dependency is passed over.                        *)
LEMMA PassKeeps ==
  ASSUME SearchInv, verdict = "searching", NEW d \in Nodes, PassBlack(d)
  PROVE  SearchInv'
<1>1. /\ stack # <<>> /\ d \in left[Top] /\ color[d] = "black"
      /\ left' = [left EXCEPT ![Top] = left[Top] \ {d}]
      /\ adj' = adj /\ finished' = finished /\ verdict' = verdict
      /\ color' = color /\ stack' = stack
  BY DEF PassBlack
<1>2. Top \in Nodes /\ color[Top] = "gray"
  BY <1>1 DEF SearchInv, SearchTypeOK, GrayOnStack, Top
<1>3. /\ left' \in [Nodes -> SUBSET Nodes]
      /\ \A t \in Nodes : t # Top => left'[t] = left[t]
      /\ left'[Top] = left[Top] \ {d}
  BY <1>1, <1>2 DEF SearchInv, SearchTypeOK
<1>4. SearchTypeOK' /\ GrayOnStack' /\ StackIsPath' /\ FinishedInOrder'
  BY <1>1, <1>3
     DEF SearchInv, SearchTypeOK, GrayOnStack, StackIsPath, FinishedInOrder
<1>5. LeftIsPart' /\ Untouched'
  BY <1>1, <1>2, <1>3 DEF SearchInv, LeftIsPart, Untouched
<1>6. Verdicts'
  BY <1>1 DEF Verdicts
<1>8. \A y \in left[Top] : y # d => y \in left'[Top]
  BY <1>3
<1>7. Looked'
  <2> SUFFICES ASSUME NEW i \in 1 .. Len(stack),
                      NEW x \in adj[stack[i]] \ left'[stack[i]]
               PROVE  color[x] = "black"
                      \/ (i < Len(stack) /\ stack[i + 1] = x)
    BY <1>1 DEF Looked
  <2>1. CASE x = d
    BY <1>1, <2>1
  <2>2. CASE x # d
    <3>1. stack[i] \in Nodes
      BY DEF SearchInv, SearchTypeOK
    <3>2. x \in adj[stack[i]] \ left[stack[i]]
      <4>1. CASE stack[i] = Top
        <5>1. x \in adj[Top] /\ x \notin left'[Top]
          BY <4>1
        <5> QED
          BY <1>8, <2>2, <4>1, <5>1
      <4>2. CASE stack[i] # Top
        BY <1>3, <3>1, <4>2
      <4> QED
        BY <4>1, <4>2
    <3> QED
      BY <3>2 DEF SearchInv, Looked
  <2> QED
    BY <2>1, <2>2
<1> QED
  BY <1>4, <1>5, <1>6, <1>7 DEF SearchInv

(* MeetGray: the dependency is on the stack, below the step it closes.     *)
LEMMA MeetKeeps ==
  ASSUME SearchInv, NEW d \in Nodes, MeetGray(d)
  PROVE  SearchInv'
<1>1. /\ stack # <<>> /\ d \in left[Top] /\ color[d] = "gray"
      /\ adj' = adj /\ color' = color /\ stack' = stack /\ left' = left
      /\ finished' = finished /\ verdict' = "cycle"
  BY DEF MeetGray
<1>2. Top \in Nodes
  BY <1>1 DEF SearchInv, SearchTypeOK, Top
<1>3. d \in adj[Top]
  BY <1>1, <1>2 DEF SearchInv, LeftIsPart
<1>4. \E i \in 1 .. Len(stack) : stack[i] = d
  BY <1>1 DEF SearchInv, GrayOnStack
<1>5. Verdicts'
  BY <1>1, <1>3, <1>4 DEF Verdicts, Top
<1> QED
  BY <1>1, <1>5
     DEF SearchInv, SearchTypeOK, GrayOnStack, StackIsPath, Looked,
         FinishedInOrder, LeftIsPart, Untouched

(* Leave: dfs returns, all its dependencies finished.                      *)
LEMMA LeaveKeeps ==
  ASSUME SearchInv, verdict = "searching", Leave
  PROVE  SearchInv'
<1> DEFINE n == Len(stack)
           m == Len(finished)
<1>1. /\ stack # <<>> /\ left[Top] = {}
      /\ color' = [color EXCEPT ![Top] = "black"]
      /\ stack' = SubSeq(stack, 1, n - 1)
      /\ finished' = Append(finished, Top)
      /\ adj' = adj /\ left' = left /\ verdict' = verdict
  BY DEF Leave
<1>2. /\ n \in Nat /\ n >= 1 /\ Top \in Nodes /\ Top = stack[n]
      /\ \A i \in 1 .. n : stack[i] \in Nodes
  BY <1>1 DEF SearchInv, SearchTypeOK, Top
<1>3. /\ stack' \in Seq(Nodes) /\ Len(stack') = n - 1
      /\ \A i \in 1 .. (n - 1) : stack'[i] = stack[i]
  <2>1. stack \in Seq(Nodes)
    BY DEF SearchInv, SearchTypeOK
  <2> QED
    BY <1>1, <2>1, Popped
<1>4. /\ finished' \in Seq(Nodes) /\ Len(finished') = m + 1
      /\ finished'[m + 1] = Top
      /\ \A k \in 1 .. m : finished'[k] = finished[k]
      /\ m \in Nat
  BY <1>1, <1>2 DEF SearchInv, SearchTypeOK
<1>5. /\ color' \in [Nodes -> {"white", "gray", "black"}]
      /\ color'[Top] = "black"
      /\ \A t \in Nodes : t # Top => color'[t] = color[t]
  BY <1>1, <1>2 DEF SearchInv, SearchTypeOK
<1>6. \A i \in 1 .. (n - 1) : stack[i] # Top
  BY <1>2 DEF SearchInv, GrayOnStack
<1>7. SearchTypeOK' /\ LeftIsPart' /\ Verdicts'
  BY <1>1, <1>3, <1>4, <1>5
     DEF SearchInv, SearchTypeOK, LeftIsPart, Verdicts
<1>8. Untouched'
  BY <1>1, <1>5 DEF SearchInv, Untouched
<1>9. GrayOnStack'
  <2>1. \A i \in 1 .. Len(stack') : color'[stack'[i]] = "gray"
    BY <1>2, <1>3, <1>5, <1>6 DEF SearchInv, GrayOnStack
  <2>2. \A s \in Nodes : color'[s] = "gray" =>
          \E i \in 1 .. Len(stack') : stack'[i] = s
    <3> SUFFICES ASSUME NEW s \in Nodes, color'[s] = "gray"
                 PROVE  \E i \in 1 .. Len(stack') : stack'[i] = s
      OBVIOUS
    <3>1. s # Top /\ color[s] = "gray"
      BY <1>5
    <3>2. PICK i \in 1 .. n : stack[i] = s
      BY <3>1 DEF SearchInv, GrayOnStack
    <3>3. i # n
      BY <1>2, <3>1, <3>2
    <3>4. i \in 1 .. (n - 1)
      BY <1>2, <3>3
    <3> QED
      BY <1>3, <3>2, <3>4
  <2>3. \A i, j \in 1 .. Len(stack') : stack'[i] = stack'[j] => i = j
    BY <1>2, <1>3 DEF SearchInv, GrayOnStack
  <2> QED
    BY <1>1, <2>1, <2>2, <2>3 DEF GrayOnStack
<1>10. StackIsPath'
  BY <1>1, <1>2, <1>3 DEF SearchInv, StackIsPath
<1>11. Looked'
  <2> SUFFICES ASSUME NEW i \in 1 .. (n - 1),
                      NEW x \in adj[stack'[i]] \ left[stack'[i]]
               PROVE  color'[x] = "black"
                      \/ (i < n - 1 /\ stack'[i + 1] = x)
    <3>1. adj' = adj /\ left' = left /\ 1 .. Len(stack') = 1 .. (n - 1)
      BY <1>1, <1>3
    <3>2. Looked' <=> \A i \in 1 .. Len(stack') :
                        \A x \in adj'[stack'[i]] \ left'[stack'[i]] :
                          color'[x] = "black"
                          \/ (i < Len(stack') /\ stack'[i + 1] = x)
      BY DEF Looked
    <3> QED
      BY <1>3, <3>1, <3>2
  <2>0. stack'[i] = stack[i] /\ x \in adj[stack[i]] \ left[stack[i]]
    BY <1>3
  <2>1. i \in 1 .. n /\ i < n /\ i \in Nat
    BY <1>2
  <2>2. x \in Nodes
    BY <1>2, <2>0, <2>1 DEF SearchInv, SearchTypeOK
  <2>3. color[x] = "black" \/ stack[i + 1] = x
    BY <2>0, <2>1 DEF SearchInv, Looked
  <2>4. CASE color[x] = "black"
    BY <1>5, <2>2, <2>4
  <2>5. CASE stack[i + 1] = x /\ i + 1 = n
    BY <1>2, <1>5, <2>5
  <2>6. CASE stack[i + 1] = x /\ i + 1 # n
    <3>1. i < n - 1 /\ i + 1 \in 1 .. (n - 1)
      BY <1>2, <2>1, <2>6
    <3> QED
      BY <1>3, <2>6, <3>1
  <2> QED
    BY <2>3, <2>4, <2>5, <2>6
<1>12. \A d \in adj[Top] : color[d] = "black"
  <2> SUFFICES ASSUME NEW d \in adj[Top] PROVE color[d] = "black"
    OBVIOUS
  <2>1. d \in adj[stack[n]] \ left[stack[n]]
    BY <1>1, <1>2
  <2>2. n \in 1 .. Len(stack) /\ ~ (n < Len(stack))
    BY <1>2
  <2> QED
    BY <2>1, <2>2 DEF SearchInv, Looked
<1>13. FinishedInOrder'
  <2>1. \A s \in Nodes : color'[s] = "black" =>
          \E k \in 1 .. Len(finished') : finished'[k] = s
    <3> SUFFICES ASSUME NEW s \in Nodes, color'[s] = "black"
                 PROVE  \E k \in 1 .. Len(finished') : finished'[k] = s
      OBVIOUS
    <3>1. CASE s = Top
      <4>1. m + 1 \in 1 .. Len(finished')
        BY <1>4
      <4> QED
        BY <1>4, <3>1, <4>1
    <3>2. CASE s # Top
      <4>1. color[s] = "black"
        BY <1>5, <3>2
      <4>2. PICK k \in 1 .. m : finished[k] = s
        BY <4>1 DEF SearchInv, FinishedInOrder
      <4>3. k \in 1 .. Len(finished') /\ finished'[k] = s
        BY <1>4, <4>2
      <4> QED
        BY <4>3
    <3> QED
      BY <3>1, <3>2
  <2>2. \A k \in 1 .. Len(finished') : \A d \in adj[finished'[k]] :
          \E j \in 1 .. (k - 1) : finished'[j] = d
    <3> SUFFICES ASSUME NEW k \in 1 .. (m + 1), NEW d \in adj[finished'[k]]
                 PROVE  \E j \in 1 .. (k - 1) : finished'[j] = d
      BY <1>4
    <3>1. CASE k = m + 1
      <4>1. d \in adj[Top]
        BY <1>4, <3>1
      <4>2. d \in Nodes
        BY <1>2, <4>1 DEF SearchInv, SearchTypeOK
      <4>3. PICK j \in 1 .. m : finished[j] = d
        BY <1>12, <4>1, <4>2 DEF SearchInv, FinishedInOrder
      <4>4. j \in 1 .. (k - 1) /\ finished'[j] = d
        BY <1>4, <3>1, <4>3
      <4> QED
        BY <4>4
    <3>2. CASE k # m + 1
      <4>1. k \in 1 .. m /\ finished'[k] = finished[k]
        BY <1>4, <3>2
      <4>2. PICK j \in 1 .. (k - 1) : finished[j] = d
        BY <4>1 DEF SearchInv, FinishedInOrder
      <4>3. finished'[j] = d
        BY <1>4, <4>1, <4>2
      <4> QED
        BY <4>3
    <3> QED
      BY <3>1, <3>2
  <2> QED
    BY <1>1, <2>1, <2>2 DEF FinishedInOrder
<1> QED
  BY <1>7, <1>8, <1>9, <1>10, <1>11, <1>13 DEF SearchInv

(* Conclude: every root was visited and every call has returned.           *)
LEMMA ConcludeKeeps ==
  ASSUME SearchInv, Conclude
  PROVE  SearchInv'
<1>1. /\ stack = <<>> /\ \A s \in Nodes : color[s] # "white"
      /\ verdict' = "acyclic"
      /\ adj' = adj /\ color' = color /\ stack' = stack /\ left' = left
      /\ finished' = finished
  BY DEF Conclude
<1>2. \A s \in Nodes : color[s] # "gray"
  BY <1>1 DEF SearchInv, GrayOnStack
<1>3. \A s \in Nodes : color[s] = "black"
  BY <1>1, <1>2 DEF SearchInv, SearchTypeOK
<1>4. Verdicts'
  BY <1>1, <1>3 DEF Verdicts
<1> QED
  BY <1>1, <1>4
     DEF SearchInv, SearchTypeOK, GrayOnStack, StackIsPath, Looked,
         FinishedInOrder, LeftIsPart, Untouched

LEMMA SearchKeeps ==
  ASSUME SearchInv, SearchStep
  PROVE  SearchInv'
<1>1. verdict = "searching"
  BY DEF SearchStep
<1>2. ASSUME NEW s \in Nodes, StartAt(s) PROVE SearchInv'
  BY <1>1, <1>2, StartKeeps
<1>3. ASSUME NEW s \in Nodes, Descend(s) PROVE SearchInv'
  BY <1>1, <1>3, DescendKeeps
<1>4. ASSUME NEW s \in Nodes, PassBlack(s) PROVE SearchInv'
  BY <1>1, <1>4, PassKeeps
<1>5. ASSUME NEW s \in Nodes, MeetGray(s) PROVE SearchInv'
  BY <1>5, MeetKeeps
<1> QED
  BY <1>2, <1>3, <1>4, <1>5, LeaveKeeps, ConcludeKeeps DEF SearchStep

(* The steps of the stack from the one met again on close a cycle.         *)
LEMMA CycleFound ==
  ASSUME SearchInv, verdict = "cycle"
  PROVE  Cyclic
<1> DEFINE n == Len(stack)
<1>1. stack # <<>> /\ \E i \in 1 .. n : stack[i] \in adj[Top]
  BY DEF SearchInv, Verdicts
<1>2. PICK i \in 1 .. n : stack[i] \in adj[Top]
  BY <1>1
<1>3. n \in Nat /\ Top = stack[n] /\ \A k \in 1 .. n : stack[k] \in Nodes
  BY DEF SearchInv, SearchTypeOK, Top
<1> DEFINE S == {stack[k] : k \in i .. n}
<1>4. S \in SUBSET Nodes /\ stack[i] \in S
  BY <1>2, <1>3
<1>5. \A s \in S : adj[s] \cap S # {}
  <2> SUFFICES ASSUME NEW k \in i .. n PROVE adj[stack[k]] \cap S # {}
    OBVIOUS
  <2>1. CASE k = n
    BY <1>2, <1>3, <1>4, <2>1
  <2>2. CASE k # n
    <3>1. k \in 1 .. (n - 1) /\ k + 1 \in i .. n
      BY <1>2, <1>3, <2>2
    <3>2. stack[k + 1] \in adj[stack[k]]
      BY <3>1 DEF SearchInv, StackIsPath
    <3> QED
      BY <3>1, <3>2
  <2> QED
    BY <2>1, <2>2
<1> QED
  BY <1>4, <1>5 DEF Cyclic
-----------------------------------------------------------------------------
(* The search is always over the dependencies of the plan in hand, and a   *)
(* plan handed to the run is the one it was over.                          *)
PlanMatches ==
  /\ at \in {"check", "validating"} => adj = Adjacency(plan.steps)
  /\ outcome = "planned" => /\ at = "ended"
                            /\ adj = Adjacency(plan.steps)
                            /\ ValidatorAccepts(plan)

PlanInv == SearchInv /\ PlanMatches

(* The dependencies _has_cycle is given stay within the plan.              *)
LEMMA AdjacencyType ==
  ASSUME NEW steps
  PROVE  /\ DOMAIN Adjacency(steps) = IdsOf(steps)
         /\ Adjacency(steps)
              \in [IdsOf(steps) -> SUBSET IdsOf(steps)]
<1> DEFINE last(s) == CHOOSE i \in DOMAIN steps :
                /\ steps[i].id = s
                /\ \A j \in DOMAIN steps \ {i} : steps[j].id = s => j < i
           part(s) == steps[last(s)].deps \cap IdsOf(steps)
<1>1. Adjacency(steps) = [s \in IdsOf(steps) |-> part(s)]
  BY DEF Adjacency
<1>2. \A s : part(s) \in SUBSET IdsOf(steps)
  OBVIOUS
<1> HIDE DEF part
<1> QED
  BY <1>1, <1>2

LEMMA NoStepsType == NoSteps \in [DOMAIN NoSteps -> SUBSET DOMAIN NoSteps]
BY DEF NoSteps

(* The search leaves the graph alone.                                      *)
LEMMA SearchKeepsGraph ==
  ASSUME SearchStep
  PROVE  adj' = adj
BY DEF SearchStep, StartAt, Descend, PassBlack, MeetGray, Leave, Conclude

LEMMA PlanInvInit ==
  ASSUME Init
  PROVE  PlanInv
<1>1. SearchInv
  BY DEF Init, SearchInit, NoSteps, SearchInv, SearchTypeOK, GrayOnStack,
         StackIsPath, Looked, FinishedInOrder, LeftIsPart, Untouched, Verdicts
<1>2. at \in {"analyze", "start"} /\ outcome = "none"
  BY DEF Init
<1> QED
  BY <1>1, <1>2 DEF PlanInv, PlanMatches

(* A step that leaves the search and the plan alone.                       *)
LEMMA SearchInvStutters ==
  ASSUME SearchInv, UNCHANGED search
  PROVE  SearchInv'
BY DEF search, SearchInv, SearchTypeOK, GrayOnStack, StackIsPath, Looked,
       FinishedInOrder, LeftIsPart, Untouched, Verdicts, Top

LEMMA PlanInvNext ==
  ASSUME PlanInv, [Next]_vars
  PROVE  PlanInv'
<1> USE DEF PlanInv
<1>1. CASE Accept
  <2>1. UNCHANGED search /\ at = "start"
        /\ outcome' \in {outcome, "failed"}
        /\ at' \in {"analyze", "ended"}
    BY <1>1 DEF Accept, Refused
  <2> QED
    BY <2>1, SearchInvStutters DEF PlanMatches
<1>2. CASE Analyze
  <2>1. /\ BeginSearch(NoSteps) /\ at = "analyze"
        /\ outcome' \in {outcome, "failed"}
        /\ at' \in {"analyze", "ended", "plan"}
    BY <1>2 DEF Analyze, ErrorResult, Refused, Forget
  <2>2. SearchInv'
    BY <2>1, NoStepsType, SearchBegins
  <2> QED
    BY <2>1, <2>2 DEF PlanMatches
<1>3. CASE PlannerFails
  <2>1. UNCHANGED search /\ at = "plan" /\ at' = "validate"
        /\ outcome' = outcome
    BY <1>3 DEF PlannerFails
  <2> QED
    BY <2>1, SearchInvStutters DEF PlanMatches
<1>4. CASE Answer
  <2>1. PICK steps \in Plans, objective \in BOOLEAN :
          /\ plan' = [steps |-> steps, objective |-> objective,
                      error |-> FALSE]
          /\ BeginSearch(Adjacency(steps))
    BY <1>4 DEF Answer
  <2>2. at = "plan" /\ at' = "check" /\ outcome' = outcome
    BY <1>4 DEF Answer
  <2>3. SearchInv'
    BY <2>1, AdjacencyType, SearchBegins
  <2>4. adj' = Adjacency(plan'.steps)
    BY <2>1 DEF BeginSearch
  <2> QED
    BY <2>2, <2>3, <2>4 DEF PlanMatches
<1>5. CASE Search
  <2>1. SearchStep /\ plan' = plan /\ at' = at /\ outcome' = outcome
        /\ at \in {"check", "validating"}
    BY <1>5 DEF Search, pipeline
  <2>2. SearchInv' /\ adj' = adj
    BY <2>1, SearchKeeps, SearchKeepsGraph
  <2> QED
    BY <2>1, <2>2 DEF PlanMatches
<1>6. CASE Judge
  <2>1. at = "check" /\ outcome' = outcome /\ at' \in {"validate", "plan"}
        /\ (UNCHANGED search \/ BeginSearch(NoSteps))
    BY <1>6 DEF Judge, Forget
  <2>2. SearchInv'
    BY <2>1, SearchInvStutters, NoStepsType, SearchBegins
  <2> QED
    BY <2>1, <2>2 DEF PlanMatches
<1>7. CASE Validate
  <2>1. /\ at = "validate" /\ at' = "validating" /\ outcome' = outcome
        /\ plan' = plan /\ BeginSearch(Adjacency(plan.steps))
    BY <1>7 DEF Validate
  <2>2. SearchInv'
    BY <2>1, AdjacencyType, SearchBegins
  <2>3. adj' = Adjacency(plan'.steps)
    BY <2>1 DEF BeginSearch
  <2> QED
    BY <2>1, <2>2, <2>3 DEF PlanMatches
<1>8. CASE Report
  <2>0. at = "validating" /\ outcome # "planned"
    BY <1>8 DEF Report, PlanMatches
  <2>1. CASE AnalysisReports
    <3>1. /\ BeginSearch(NoSteps)
          /\ outcome' \in {outcome, "failed"}
          /\ at' \in {"analyze", "ended", "plan"}
      BY <2>1 DEF AnalysisReports, ErrorResult, Refused, Forget
    <3>2. SearchInv'
      BY <3>1, NoStepsType, SearchBegins
    <3> QED
      BY <2>0, <3>1, <3>2 DEF PlanMatches
  <2>2. CASE PlanningReports
    <3>1. UNCHANGED search /\ plan' = plan /\ at' = "ended"
          /\ (outcome' = "planned" => ValidatorAccepts(plan))
      BY <2>2 DEF PlanningReports, Refused
    <3>2. SearchInv' /\ adj' = adj /\ verdict' = verdict
      BY <3>1, SearchInvStutters DEF search
    <3>3. outcome' = "planned" => ValidatorAccepts(plan)'
      BY <3>1, <3>2 DEF ValidatorAccepts
    <3> QED
      BY <2>0, <3>1, <3>2, <3>3 DEF PlanMatches
  <2>3. CASE WorkflowReports
    <3>1. UNCHANGED search /\ at' = "ended" /\ outcome' # "planned"
      BY <2>3 DEF WorkflowReports, Refused
    <3> QED
      BY <3>1, SearchInvStutters DEF PlanMatches
  <2> QED
    BY <1>8, <2>1, <2>2, <2>3 DEF Report
<1>9. CASE UNCHANGED vars
  <2>1. /\ UNCHANGED search /\ plan' = plan /\ at' = at /\ outcome' = outcome
        /\ adj' = adj /\ verdict' = verdict
    BY <1>9 DEF vars, pipeline, search
  <2>2. SearchInv'
    BY <2>1, SearchInvStutters
  <2>3. PlanMatches'
    BY <2>1 DEF PlanMatches, ValidatorAccepts
  <2> QED
    BY <2>2, <2>3
<1> QED
  BY <1>1, <1>2, <1>3, <1>4, <1>5, <1>6, <1>7, <1>8, <1>9 DEF Next

THEOREM PlanInvHolds == Spec => []PlanInv
<1>1. Init => PlanInv
  BY PlanInvInit
<1>2. PlanInv /\ [Next]_vars => PlanInv'
  BY PlanInvNext
<1> QED
  BY <1>1, <1>2, PTL DEF Spec

(* Where no name occurs twice, a step's node carries its dependencies.     *)
LEMMA AdjacencyOfUnique ==
  ASSUME NEW steps, ~ Duplicates(steps), ~ Dangling(steps),
         NEW i \in DOMAIN steps
  PROVE  Adjacency(steps)[steps[i].id] = steps[i].deps
<1> DEFINE P(k) == /\ steps[k].id = steps[i].id
                   /\ \A j \in DOMAIN steps \ {k} :
                        steps[j].id = steps[i].id => j < k
           c == CHOOSE k \in DOMAIN steps : P(k)
<1>1. \A j \in DOMAIN steps \ {i} : steps[j].id # steps[i].id
  BY DEF Duplicates
<1>2. P(i)
  BY <1>1
<1>3. c \in DOMAIN steps /\ P(c)
  BY <1>2
<1>4. c = i
  BY <1>1, <1>3
<1>5. steps[i].id \in IdsOf(steps) /\ steps[i].deps \subseteq IdsOf(steps)
  BY DEF IdsOf, Dangling
<1>6. Adjacency(steps)[steps[i].id] = steps[c].deps \cap IdsOf(steps)
  BY <1>5 DEF Adjacency
<1> QED
  BY <1>4, <1>5, <1>6

LEMMA ExecutableFollows ==
  ASSUME PlanInv
  PROVE  PlanIsExecutable
<1> SUFFICES ASSUME outcome = "planned", NEW i \in DOMAIN plan.steps
             PROVE  \E k \in DOMAIN finished :
                      /\ finished[k] = plan.steps[i].id
                      /\ \A d \in plan.steps[i].deps :
                           \E j \in 1 .. (k - 1) : finished[j] = d
  BY DEF PlanIsExecutable, Executable
<1> DEFINE s == plan.steps[i].id
<1>1. adj = Adjacency(plan.steps) /\ ValidatorAccepts(plan)
  BY DEF PlanInv, PlanMatches
<1>2. s \in Nodes
  BY <1>1, AdjacencyType DEF IdsOf
<1>3. color[s] = "black"
  BY <1>1, <1>2 DEF ValidatorAccepts, PlanInv, SearchInv, Verdicts
<1>4. PICK k \in 1 .. Len(finished) : finished[k] = s
  BY <1>2, <1>3 DEF PlanInv, SearchInv, FinishedInOrder
<1>5. adj[s] = plan.steps[i].deps
  BY <1>1, AdjacencyOfUnique DEF ValidatorAccepts
<1>6. \A d \in adj[s] : \E j \in 1 .. (k - 1) : finished[j] = d
  BY <1>4 DEF PlanInv, SearchInv, FinishedInOrder
<1>7. k \in DOMAIN finished
  BY <1>4 DEF PlanInv, SearchInv, SearchTypeOK
<1> QED
  BY <1>4, <1>5, <1>6, <1>7

(* A plan that reaches the run has an order in which every step follows    *)
(* all it depends on.  (PlanValidator.validate, _stage_planning)           *)
THEOREM PlanExecutable == Spec => []PlanIsExecutable
BY PlanInvHolds, ExecutableFollows, PTL

(* A plan is refused for a cycle only if it has one.  (_has_cycle)         *)
THEOREM CyclesReal == Spec => []CycleIsReal
<1>1. PlanInv => CycleIsReal
  BY CycleFound DEF PlanInv, CycleIsReal
<1> QED
  BY <1>1, PlanInvHolds, PTL

----------------------------------------------------------------------------
(* A set of numbers that is not empty has a least.                       *)
LEMMA LeastOf ==
  ASSUME NEW S, S \subseteq Nat, S # {}
  PROVE  \E m \in S : \A j \in S : m <= j
<1>1. PICK d \in S : \A e \in S : ~(<<e, d>> \in OpToRel(<, Nat))
  BY WFMin, NatLessThanWellFounded, Zenon
<1>2. \A e \in S : ~(e < d)
  BY <1>1, Zenon DEF OpToRel
<1> QED BY <1>2

----------------------------------------------------------------------------
(* The semantic index: its invariant.                                      *)

(* The hashes are of source files; the graph is one.                       *)
IndexTyped ==
  /\ tree \in [SourceFiles -> SourceTexts \union {Missing}]
  /\ DOMAIN detected \subseteq SourceFiles
  /\ DOMAIN symbolGraph = {"nodes", "out", "in"}

(* What the parsers find in file f when its content is t.                  *)
SymbolsFor(f, t) == IF t = Missing THEN {} ELSE SymbolsOf(f, t)
RelationsFor(f, t) == IF t = Missing THEN {} ELSE RelationsOf(f, t)

(* The graph has of a file what the parsers find in it for a content.      *)
Mirrors(g, f, t) ==
  /\ InFile(g, f) \ {FileNode(f)} = SymbolsFor(f, t)
  /\ {e \in g.out : e[1][1] = f /\ e[3] # "references"} = RelationsFor(f, t)

(* An edge inside a file, or from an import to what it may name.           *)
EdgeReal(N, e) ==
  /\ e[1] \in N
  /\ e[2] \in N \/ e[2][2] = "external"
  /\ e[3] = "references" => \E k \in {1, 2} : FoundAt(e, k)
  /\ e[3] # "references" => e[2][1] = e[1][1] \/ e[2][2] = "external"

WellLinked(g) ==
  /\ g.out = g.in
  /\ \A e \in g.out : EdgeReal(g.nodes, e)
  /\ \A n \in g.nodes : n[2] # "external"

(* What the indexer believes of a file it knows is what the graph has.     *)
Believed == \A f \in WiredFiles \ doubtful : Mirrors(symbolGraph, f, HashOf(f))
UnknownIsEmpty == \A f \in SourceFiles \ DOMAIN hashes : InFile(symbolGraph, f) = {}
LoadedWhole == \A e \in loading.graph.out : e[1] \in loading.graph.nodes

IndexInv ==
  IndexTyped /\ WellLinked(symbolGraph) /\ Believed /\ UnknownIsEmpty /\ LoadedWhole

----------------------------------------------------------------------------
(* What a parser finds in a file is of that file.                          *)
LEMMA SymbolsReal ==
  ASSUME NEW f, NEW t \in SourceTexts, NEW n \in SymbolsOf(f, t)
  PROVE  n[1] = f /\ n[2] # "external" /\ n[2] # "file"
<1> USE DEF ModuleOf, DefOf, ImportOf
<1>1. CASE n = ModuleOf(f)
  BY <1>1
<1>2. CASE \E m \in Finds[t].defs : n = DefOf(f, m)
  <2>1. PICK m \in Finds[t].defs : n = DefOf(f, m)
    BY <1>2
  <2>2. m[1] \in DefKinds
    BY SemanticIndexAssumption
  <2>3. m[1] # "external" /\ m[1] # "file"
    BY <2>2 DEF DefKinds, TableKinds
  <2> QED BY <2>1, <2>3
<1>3. CASE \E i \in Finds[t].imports : n = ImportOf(f, i)
  <2>1. PICK i \in Finds[t].imports : n = ImportOf(f, i)
    BY <1>3
  <2> QED BY <2>1
<1>4. CASE Finds[t].broken
  BY <1>4 DEF SymbolsOf
<1> HIDE DEF ModuleOf, DefOf, ImportOf
<1> QED BY <1>1, <1>2, <1>3, <1>4 DEF SymbolsOf

(* No parser makes the node of its file.                                   *)
LEMMA FileNodeApart ==
  ASSUME NEW f, NEW t \in SourceTexts
  PROVE  FileNode(f) \notin SymbolsOf(f, t)
<1>1. FileNode(f)[2] = "file"
  BY DEF FileNode
<1> QED BY <1>1, SymbolsReal

(* Every relation is from a symbol of the file to another or outside.      *)
LEMMA RelationsReal ==
  ASSUME NEW f, NEW t \in SourceTexts, NEW e \in RelationsOf(f, t)
  PROVE  /\ e[1] \in SymbolsOf(f, t)
         /\ e[2] \in SymbolsOf(f, t) \/ e[2][2] = "external"
         /\ e[3] # "references"
<1> USE DEF SymbolsOf
<1>1. ~Finds[t].broken
  BY DEF RelationsOf
<1>2. CASE \E i \in Finds[t].imports : e = <<ModuleOf(f), ImportOf(f, i), "imports">>
  BY <1>1, <1>2
<1>3. CASE \E c \in Finds[t].calls : e = <<DefOf(f, c[1]), Callee(f, t, c[2]), "calls">>
  <2>1. PICK c \in Finds[t].calls : e = <<DefOf(f, c[1]), Callee(f, t, c[2]), "calls">>
    BY <1>3
  <2>2. c[1] \in Finds[t].defs
    BY SemanticIndexAssumption
  <2>3. Callee(f, t, c[2]) \in SymbolsOf(f, t) \/ Callee(f, t, c[2])[2] = "external"
    <3> DEFINE imported == {i \in Finds[t].imports : i[2] = c[2]}
    <3>1. CASE imported # {}
      <4>1. (CHOOSE i \in imported : TRUE) \in Finds[t].imports
        BY <3>1
      <4>2. Callee(f, t, c[2]) = ImportOf(f, CHOOSE i \in imported : TRUE)
        BY <3>1 DEF Callee
      <4> QED BY <1>1, <4>1, <4>2
    <3> DEFINE defined == {x \in Finds[t].defs : x[3] = c[2]}
    <3>2. CASE imported = {} /\ defined # {}
      <4>1. (CHOOSE x \in defined : TRUE) \in Finds[t].defs
        BY <3>2
      <4>2. Callee(f, t, c[2]) = DefOf(f, CHOOSE x \in defined : TRUE)
        BY <3>2 DEF Callee
      <4> QED BY <1>1, <4>1, <4>2
    <3>3. CASE imported = {} /\ defined = {}
      BY <3>3 DEF Callee, External
    <3> QED BY <3>1, <3>2, <3>3
  <2> QED BY <1>1, <2>1, <2>2, <2>3
<1> QED BY <1>1, <1>2, <1>3 DEF RelationsOf

----------------------------------------------------------------------------
(* Forgetting a file leaves a linked graph, nothing of the file, and what  *)
(* it had of every other one.                                              *)
LEMMA Forgotten ==
  ASSUME NEW g, NEW f, WellLinked(g)
  PROVE  LET h == RemoveNodes(g, InFile(g, f))
         IN /\ DOMAIN h = {"nodes", "out", "in"}
            /\ WellLinked(h)
            /\ InFile(h, f) = {}
            /\ \A q, t : q # f /\ Mirrors(g, q, t) => Mirrors(h, q, t)
            /\ \A q : InFile(g, q) = {} => InFile(h, q) = {}
<1> DEFINE h == RemoveNodes(g, InFile(g, f))
<1>1. /\ DOMAIN h = {"nodes", "out", "in"}
      /\ h.nodes = {n \in g.nodes : n[1] # f}
      /\ h.out = {e \in g.out : ~(e[1] \in g.nodes /\ e[1][1] = f) /\ ~(e[2] \in g.nodes /\ e[2][1] = f)}
      /\ h.in = h.out
  BY DEF RemoveNodes, InFile, WellLinked
<1>2. WellLinked(h)
  <2>1. ASSUME NEW e \in h.out PROVE EdgeReal(h.nodes, e)
    BY <1>1, <2>1 DEF WellLinked, EdgeReal
  <2> HIDE DEF h
  <2> QED BY <1>1, <2>1 DEF WellLinked
<1>3. ASSUME NEW q, NEW t, q # f, Mirrors(g, q, t) PROVE Mirrors(h, q, t)
  <2>1. InFile(h, q) = InFile(g, q)
    BY <1>1, <1>3 DEF InFile
  <2>2. {e \in h.out : e[1][1] = q /\ e[3] # "references"}
          = {e \in g.out : e[1][1] = q /\ e[3] # "references"}
    <3>1. ASSUME NEW e \in g.out, e[1][1] = q, e[3] # "references" PROVE e \in h.out
      BY <1>1, <1>3, <3>1 DEF WellLinked, EdgeReal
    <3> HIDE DEF h
    <3> QED BY <1>1, <3>1
  <2> QED BY <1>3, <2>1, <2>2 DEF Mirrors
<1>4. InFile(h, f) = {} /\ \A q : InFile(g, q) = {} => InFile(h, q) = {}
  BY <1>1 DEF InFile
<1> QED BY <1>1, <1>2, <1>3, <1>4

(* Adding what a parser finds in a file leaves a linked graph, what it had *)
(* of every other file, and that of the file when there was nothing.       *)
Parsed(g, f, t) == AddEdges(AddNodes(g, SymbolsOf(f, t)), RelationsOf(f, t))

LEMMA ParsedWhole ==
  ASSUME NEW g, NEW f, NEW t \in SourceTexts, WellLinked(g), InFile(g, f) = {},
         DOMAIN g = {"nodes", "out", "in"}
  PROVE  LET h == Parsed(g, f, t)
         IN /\ DOMAIN h = {"nodes", "out", "in"}
            /\ WellLinked(h)
            /\ Mirrors(h, f, t)
            /\ \A q, s : q # f /\ Mirrors(g, q, s) => Mirrors(h, q, s)
            /\ \A q : q # f /\ InFile(g, q) = {} => InFile(h, q) = {}
<1> DEFINE h == Parsed(g, f, t)
<1>1. /\ DOMAIN h = {"nodes", "out", "in"}
      /\ h.nodes = g.nodes \union SymbolsOf(f, t)
      /\ h.out = g.out \union RelationsOf(f, t)
      /\ h.in = h.out
  <2> DEFINE k == AddNodes(g, SymbolsOf(f, t))
  <2>1. DOMAIN k = {"nodes", "out", "in"} /\ k.nodes = g.nodes \union SymbolsOf(f, t)
        /\ k.out = g.out /\ k.in = g.in
    BY DEF AddNodes
  <2>2. {e \in RelationsOf(f, t) : e[1] \in k.nodes} = RelationsOf(f, t)
    BY <2>1, RelationsReal
  <2> HIDE DEF k
  <2>3. h = [k EXCEPT !.out = @ \union RelationsOf(f, t), !.in = @ \union RelationsOf(f, t)]
    BY <2>2 DEF Parsed, AddEdges, k
  <2> HIDE DEF h
  <2> QED BY <2>1, <2>3 DEF WellLinked
<1> HIDE DEF h
<1>2. WellLinked(h)
  <2>1. ASSUME NEW e \in g.out PROVE EdgeReal(h.nodes, e)
    BY <1>1, <2>1 DEF WellLinked, EdgeReal
  <2>2. ASSUME NEW e \in RelationsOf(f, t) PROVE EdgeReal(h.nodes, e)
    BY <1>1, <2>2, RelationsReal, SymbolsReal DEF EdgeReal
  <2>3. ASSUME NEW n \in h.nodes PROVE n[2] # "external"
    BY <1>1, <2>3, SymbolsReal DEF WellLinked
  <2> QED BY <1>1, <2>1, <2>2, <2>3 DEF WellLinked
<1>3. Mirrors(h, f, t)
  <2>1. InFile(h, f) = SymbolsOf(f, t)
    BY <1>1, SymbolsReal DEF InFile
  <2>2. FileNode(f) \notin SymbolsOf(f, t)
    BY FileNodeApart
  <2>3. ASSUME NEW e \in g.out PROVE e[1][1] # f
    BY <2>3 DEF WellLinked, EdgeReal, InFile
  <2>4. ASSUME NEW e \in RelationsOf(f, t) PROVE e[1][1] = f /\ e[3] # "references"
    BY <2>4, RelationsReal, SymbolsReal
  <2>5. {e \in h.out : e[1][1] = f /\ e[3] # "references"} = RelationsOf(f, t)
    BY <1>1, <2>3, <2>4
  <2>6. t # Missing
    BY SemanticIndexAssumption
  <2> QED BY <2>1, <2>2, <2>5, <2>6 DEF Mirrors, SymbolsFor, RelationsFor
<1>4. ASSUME NEW q, q # f PROVE InFile(h, q) = InFile(g, q)
  BY <1>1, <1>4, SymbolsReal DEF InFile
<1>5. ASSUME NEW q, NEW s, q # f, Mirrors(g, q, s) PROVE Mirrors(h, q, s)
  <2>1. {e \in h.out : e[1][1] = q /\ e[3] # "references"}
          = {e \in g.out : e[1][1] = q /\ e[3] # "references"}
    <3>1. ASSUME NEW e \in RelationsOf(f, t) PROVE e[1][1] # q
      BY <1>5, <3>1, RelationsReal, SymbolsReal
    <3> QED BY <1>1, <3>1
  <2> QED BY <1>4, <1>5, <2>1 DEF Mirrors
<1> QED BY <1>1, <1>2, <1>3, <1>4, <1>5 DEF h

(* An import refers to a symbol of the table, by what it is looked up by.  *)
LEMMA ReferencesReal ==
  ASSUME NEW N, NEW W \in SymbolTables(N), NEW e \in ReferencesIn(N, W)
  PROVE  /\ e[1] \in N /\ e[2] \in N /\ e[3] = "references"
         /\ \E k \in {1, 2} : FoundAt(e, k)
<1>1. W \subseteq N
  BY DEF SymbolTables, Tabled
<1>2. PICK i \in N, w \in W : e = <<i, w, "references">>
  BY DEF ReferencesIn
<1>3. \E k \in {1, 2} : FoundAt(e, k)
  BY DEF ReferencesIn
<1> QED BY <1>1, <1>2, <1>3

(* A full index has of every file what the parsers find in it, or, when it *)
(* was skipped or is named as no file is, no symbol under its name.        *)
LEMMA IndexedWhole ==
  ASSUME NEW d \in [SourceFiles -> SourceTexts \union {Missing}],
         NEW Chosen \in WithinLimit(d), NEW W \in SymbolTables(IndexedNodes(d, Chosen))
  PROVE  LET h == FullIndex(d, Chosen, W)
         IN /\ DOMAIN h = {"nodes", "out", "in"}
            /\ WellLinked(h)
            /\ \A f \in SourceFiles :
                 (f \in Chosen /\ FullName[f] = f) \/ d[f] = Missing => Mirrors(h, f, d[f])
            /\ \A f \in SourceFiles : d[f] = Missing => InFile(h, f) = {}
<1> DEFINE There == {f \in SourceFiles : d[f] # Missing}
           N == IndexedNodes(d, Chosen)
           R == UNION {RelationsOf(FullName[f], d[f]) : f \in Chosen}
           h == FullIndex(d, Chosen, W)
<1>1. Chosen \subseteq There /\ \A f \in Chosen : d[f] \in SourceTexts
  BY DEF WithinLimit, Readable
<1>0. N = (UNION {SymbolsOf(FullName[f], d[f]) : f \in Chosen}) \union {FileNode(FullName[f]) : f \in There}
  BY DEF IndexedNodes
<1>10. ASSUME NEW f \in SourceFiles, NEW q \in SourceFiles, FullName[q] = f PROVE q = f
  BY <1>10, SemanticIndexAssumption
<1> HIDE DEF N
<1>2. /\ DOMAIN h = {"nodes", "out", "in"}
      /\ h.nodes = N /\ h.out = R \union ReferencesIn(N, W) /\ h.in = h.out
  <2> DEFINE E == R \union ReferencesIn(N, W)
  <2>1. {e \in E : e[1] \in N} = E
    <3>1. ASSUME NEW e \in R PROVE e[1] \in N
      BY <1>0, <1>1, <3>1, RelationsReal
    <3>2. ASSUME NEW e \in ReferencesIn(N, W) PROVE e[1] \in N
      BY <3>2, ReferencesReal DEF N
    <3> HIDE DEF R, N
    <3> QED BY <3>1, <3>2
  <2>2. h = AddEdges(AddNodes(NoGraph, N), E)
    BY DEF FullIndex, N
  <2> HIDE DEF N, E, h
  <2>3. AddNodes(NoGraph, N) = [nodes |-> N, out |-> {}, in |-> {}]
    BY DEF AddNodes, NoGraph
  <2> DEFINE k == AddNodes(NoGraph, N)
  <2>5. {e \in E : e[1] \in k.nodes} = E
    BY <2>1, <2>3
  <2>6. h = [k EXCEPT !.out = @ \union E, !.in = @ \union E]
    BY <2>2, <2>5 DEF AddEdges
  <2>7. {} \union E = E
    OBVIOUS
  <2>8. DOMAIN k = {"nodes", "out", "in"} /\ k.nodes = N /\ k.out = {} /\ k.in = {}
    BY <2>3
  <2> HIDE DEF k
  <2>4. DOMAIN h = {"nodes", "out", "in"} /\ h.nodes = N /\ h.out = E /\ h.in = E
    BY <2>6, <2>7, <2>8
  <2> QED BY <2>4 DEF E
<1>3. ASSUME NEW n \in N
      PROVE  /\ n[2] # "external"
             /\ \/ \E f \in Chosen : n \in SymbolsOf(FullName[f], d[f]) /\ n[1] = FullName[f]
                \/ \E f \in There : n = FileNode(FullName[f]) /\ n[1] = FullName[f]
  <2>1. CASE \E f \in Chosen : n \in SymbolsOf(FullName[f], d[f])
    BY <1>1, <2>1, SymbolsReal
  <2>2. CASE \E f \in There : n = FileNode(FullName[f])
    BY <2>2 DEF FileNode
  <2> QED BY <1>0, <2>1, <2>2
<1>4. ASSUME NEW e \in R
      PROVE  /\ EdgeReal(N, e) /\ e[3] # "references"
             /\ \E f \in Chosen : e[1][1] = FullName[f] /\ e \in RelationsOf(FullName[f], d[f])
  <2>1. PICK f \in Chosen : e \in RelationsOf(FullName[f], d[f])
    BY <1>4
  <2>2. /\ e[1] \in SymbolsOf(FullName[f], d[f]) /\ e[3] # "references"
        /\ e[2] \in SymbolsOf(FullName[f], d[f]) \/ e[2][2] = "external"
    BY <1>1, <2>1, RelationsReal
  <2>3. e[1][1] = FullName[f] /\ (e[2][1] = FullName[f] \/ e[2][2] = "external")
    BY <1>1, <2>2, SymbolsReal
  <2>4. SymbolsOf(FullName[f], d[f]) \subseteq N
    BY <1>0
  <2>5. EdgeReal(N, e)
    BY <2>2, <2>3, <2>4 DEF EdgeReal
  <2> QED BY <2>1, <2>2, <2>3, <2>5
<1>5. ASSUME NEW e \in ReferencesIn(N, W) PROVE EdgeReal(N, e) /\ e[3] = "references"
  BY <1>5, ReferencesReal DEF EdgeReal, N
<1> HIDE DEF h, N, R
<1>6. WellLinked(h)
  BY <1>2, <1>3, <1>4, <1>5 DEF WellLinked
<1>11. There \subseteq SourceFiles /\ Chosen \subseteq SourceFiles
  BY <1>1
<1>7. ASSUME NEW f \in SourceFiles, d[f] = Missing PROVE InFile(h, f) = {}
  <2>1. f \notin There /\ f \notin Chosen
    BY <1>1, <1>7
  <2>2. ASSUME NEW n \in N PROVE n[1] # f
    BY <1>3, <1>10, <1>11, <2>1
  <2> QED BY <1>2, <2>2 DEF InFile
<1>8. ASSUME NEW f \in Chosen, FullName[f] = f PROVE Mirrors(h, f, d[f])
  <2>0. SymbolsOf(f, d[f]) \subseteq N
    BY <1>0, <1>8
  <2>1. FileNode(f) \notin SymbolsOf(f, d[f])
    BY <1>1, FileNodeApart
  <2>2. \A n \in SymbolsOf(f, d[f]) : n[1] = f
    BY <1>1, SymbolsReal
  <2>3. ASSUME NEW n \in N, n[1] = f, n # FileNode(f) PROVE n \in SymbolsOf(f, d[f])
    BY <1>3, <1>8, <1>10, <1>11, <2>3
  <2>8. InFile(h, f) \ {FileNode(f)} = SymbolsOf(f, d[f])
    BY <1>2, <2>0, <2>1, <2>2, <2>3 DEF InFile
  <2>4. RelationsOf(f, d[f]) \subseteq R
    BY <1>8 DEF R
  <2>5. \A e \in RelationsOf(f, d[f]) : e[1][1] = f /\ e[3] # "references"
    BY <1>1, RelationsReal, SymbolsReal
  <2>9. ASSUME NEW e \in R, e[1][1] = f PROVE e \in RelationsOf(f, d[f])
    BY <1>4, <1>8, <1>10, <1>11, <2>9
  <2>6. {e \in h.out : e[1][1] = f /\ e[3] # "references"} = RelationsOf(f, d[f])
    BY <1>2, <1>5, <2>4, <2>5, <2>9
  <2>7. d[f] # Missing
    BY <1>1 DEF There
  <2> QED BY <2>8, <2>6, <2>7 DEF Mirrors, SymbolsFor, RelationsFor
<1>9. ASSUME NEW f \in SourceFiles, d[f] = Missing PROVE Mirrors(h, f, d[f])
  <2>1. \A e \in h.out : e[1][1] # f
    BY <1>6, <1>7, <1>9 DEF WellLinked, EdgeReal, InFile
  <2> QED BY <1>7, <1>9, <2>1 DEF Mirrors, SymbolsFor, RelationsFor
<1> QED BY <1>2, <1>6, <1>7, <1>8, <1>9 DEF h

----------------------------------------------------------------------------
LEMMA IndexInitSound == SemanticIndexInit => IndexInv
<1> SUFFICES ASSUME SemanticIndexInit PROVE IndexInv
  OBVIOUS
<1>1. /\ tree \in [SourceFiles -> SourceTexts \union {Missing}]
      /\ DOMAIN detected = {} /\ loading.graph.out = {}
  BY SemanticIndexAssumption DEF SemanticIndexInit, Nothing, NotLoading, NoGraph
<1>2. CASE Fresh(tree)
  <2>1. /\ DOMAIN symbolGraph = {"nodes", "out", "in"} /\ symbolGraph.nodes = {}
        /\ symbolGraph.out = {} /\ symbolGraph.in = {}
    BY <1>2 DEF Fresh, NoGraph
  <2>2. \A f : HashOf(f) = Missing
    BY <1>2 DEF Fresh, Nothing, HashOf
  <2> QED BY <1>1, <2>1, <2>2 DEF IndexInv, IndexTyped, WellLinked, Believed, UnknownIsEmpty,
             LoadedWhole, Mirrors, InFile, SymbolsFor, RelationsFor
<1>3. CASE Seeded(tree)
  <2>0. PICK Chosen \in WithinLimit(tree) : \E W \in SymbolTables(IndexedNodes(tree, Chosen)) :
          /\ symbolGraph = FullIndex(tree, Chosen, W)
          /\ hashes = [f \in {q \in SourceFiles : tree[q] # Missing} |-> tree[f]]
          /\ doubtful = {q \in SourceFiles : tree[q] # Missing} \ {f \in Chosen : FullName[f] = f}
    BY <1>3 DEF Seeded
  <2>1. PICK W \in SymbolTables(IndexedNodes(tree, Chosen)) :
          /\ symbolGraph = FullIndex(tree, Chosen, W)
          /\ hashes = [f \in {q \in SourceFiles : tree[q] # Missing} |-> tree[f]]
          /\ doubtful = {q \in SourceFiles : tree[q] # Missing} \ {f \in Chosen : FullName[f] = f}
    BY <2>0
  <2>2. \A f \in SourceFiles : HashOf(f) = tree[f]
    BY <2>1 DEF HashOf
  <2>3. Believed /\ UnknownIsEmpty
    <3>1. WiredFiles \subseteq SourceFiles
      BY SemanticIndexAssumption
    <3> QED BY <1>1, <2>1, <2>2, <3>1, IndexedWhole DEF Believed, UnknownIsEmpty
  <2>4. DOMAIN symbolGraph = {"nodes", "out", "in"} /\ WellLinked(symbolGraph)
    BY <1>1, <2>1, IndexedWhole
  <2> QED BY <1>1, <2>3, <2>4 DEF IndexInv, IndexTyped, LoadedWhole
<1> QED BY <1>2, <1>3 DEF SemanticIndexInit

(* The graph before a file is parsed again has nothing of the file.        *)
LEMMA ClearedWhole ==
  ASSUME IndexInv, NEW f \in SourceFiles
  PROVE  /\ DOMAIN Cleared(f) = {"nodes", "out", "in"}
         /\ WellLinked(Cleared(f))
         /\ InFile(Cleared(f), f) = {}
         /\ \A q, t : q # f /\ Mirrors(symbolGraph, q, t) => Mirrors(Cleared(f), q, t)
         /\ \A q : InFile(symbolGraph, q) = {} => InFile(Cleared(f), q) = {}
<1>1. CASE f \in DOMAIN hashes
  BY <1>1, Forgotten DEF Cleared, IndexInv
<1>2. CASE f \notin DOMAIN hashes
  BY <1>2 DEF Cleared, IndexInv, IndexTyped, UnknownIsEmpty
<1> QED BY <1>1, <1>2

(* The steps that change neither the graph nor what is believed of it.     *)
LEMMA IndexUntouched ==
  ASSUME IndexInv, UNCHANGED <<symbolGraph, hashes, doubtful>>,
         tree' \in [SourceFiles -> SourceTexts \union {Missing}],
         DOMAIN detected' \subseteq SourceFiles, LoadedWhole'
  PROVE  IndexInv'
BY DEF IndexInv, IndexTyped, WellLinked, Believed, UnknownIsEmpty, Mirrors, InFile, HashOf

LEMMA IndexStep == IndexInv /\ [SemanticIndexNext]_indexVars => IndexInv'
<1> SUFFICES ASSUME IndexInv, [SemanticIndexNext]_indexVars PROVE IndexInv'
  OBVIOUS
<1> DEFINE Kept == tree' \in [SourceFiles -> SourceTexts \union {Missing}]
           Less == DOMAIN detected' \subseteq SourceFiles
<1>0. ASSUME NEW f PROVE DOMAIN Without(detected, f) \subseteq SourceFiles
  BY DEF IndexInv, IndexTyped, Without
<1>1. CASE Detect
  <2>1. Kept /\ Less /\ LoadedWhole'
    BY <1>1 DEF Detect, IndexInv, IndexTyped, LoadedWhole
  <2> QED BY <1>1, <2>1, IndexUntouched DEF Detect
<1>2. ASSUME NEW f \in SourceFiles, RemoveFile(f) PROVE IndexInv'
  <2>1. /\ DOMAIN symbolGraph' = {"nodes", "out", "in"}
        /\ WellLinked(symbolGraph')
        /\ InFile(symbolGraph', f) = {}
        /\ \A q, t : q # f /\ Mirrors(symbolGraph, q, t) => Mirrors(symbolGraph', q, t)
        /\ \A q : InFile(symbolGraph, q) = {} => InFile(symbolGraph', q) = {}
    BY <1>2, Forgotten DEF RemoveFile, IndexInv
  <2>2. HashOf(f)' = Missing /\ \A q : q # f => HashOf(q)' = HashOf(q)
    BY <1>2 DEF RemoveFile, HashOf, Without
  <2>3. Mirrors(symbolGraph', f, Missing)
    BY <2>1 DEF Mirrors, SymbolsFor, RelationsFor, WellLinked, EdgeReal, InFile
  <2>4. \A q \in WiredFiles \ doubtful' : Mirrors(symbolGraph', q, HashOf(q)')
    BY <1>2, <2>1, <2>2, <2>3 DEF RemoveFile, IndexInv, Believed
  <2>5. \A q \in SourceFiles \ DOMAIN hashes' : InFile(symbolGraph', q) = {}
    BY <1>2, <2>1 DEF RemoveFile, Without, IndexInv, UnknownIsEmpty
  <2>6. IndexTyped' /\ LoadedWhole'
    BY <1>0, <1>2, <2>1 DEF RemoveFile, IndexInv, IndexTyped, LoadedWhole
  <2>7. Believed' /\ UnknownIsEmpty' /\ WellLinked(symbolGraph)'
    BY <2>1, <2>4, <2>5 DEF Believed, UnknownIsEmpty, Mirrors, WellLinked, InFile
  <2> QED BY <2>6, <2>7 DEF IndexInv
<1>3. ASSUME NEW f \in SourceFiles, SkipFile(f) PROVE IndexInv'
  <2>1. Kept /\ Less /\ LoadedWhole'
    BY <1>0, <1>3 DEF SkipFile, IndexInv, IndexTyped, LoadedWhole
  <2> QED BY <1>3, <2>1, IndexUntouched DEF SkipFile
<1>4. ASSUME NEW f \in SourceFiles, ParseFile(f) PROVE IndexInv'
  <2>0. tree[f] \in SourceTexts /\ symbolGraph' = Parsed(Cleared(f), f, tree[f])
    BY <1>4 DEF ParseFile, Parsed, IndexInv, IndexTyped
  <2>1. /\ DOMAIN symbolGraph' = {"nodes", "out", "in"}
        /\ WellLinked(symbolGraph')
        /\ Mirrors(symbolGraph', f, tree[f])
        /\ \A q, t : q # f /\ Mirrors(Cleared(f), q, t) => Mirrors(symbolGraph', q, t)
        /\ \A q : q # f /\ InFile(Cleared(f), q) = {} => InFile(symbolGraph', q) = {}
    BY <2>0, ClearedWhole, ParsedWhole
  <2>2. HashOf(f)' = detected[f] /\ \A q : q # f => HashOf(q)' = HashOf(q)
    BY <1>4 DEF ParseFile, HashOf, With
  <2>3. ASSUME NEW q \in WiredFiles \ doubtful' PROVE Mirrors(symbolGraph', q, HashOf(q)')
    <3>1. CASE q = f
      BY <1>4, <2>1, <2>2, <3>1 DEF ParseFile
    <3>2. CASE q # f
      BY <1>4, <2>1, <2>2, <3>2, ClearedWhole DEF ParseFile, IndexInv, Believed
    <3> QED BY <3>1, <3>2
  <2>4. \A q \in SourceFiles \ DOMAIN hashes' : InFile(symbolGraph', q) = {}
    BY <1>4, <2>1, ClearedWhole DEF ParseFile, With, IndexInv, UnknownIsEmpty
  <2>5. IndexTyped' /\ LoadedWhole'
    BY <1>0, <1>4, <2>1 DEF ParseFile, IndexInv, IndexTyped, LoadedWhole
  <2>6. Believed' /\ UnknownIsEmpty' /\ WellLinked(symbolGraph)'
    BY <2>1, <2>3, <2>4 DEF Believed, UnknownIsEmpty, Mirrors, WellLinked, InFile
  <2> QED BY <2>5, <2>6 DEF IndexInv
<1>5. ASSUME NEW f \in SourceFiles, ParserRaises(f) PROVE IndexInv'
  <2>1. /\ DOMAIN symbolGraph' = {"nodes", "out", "in"}
        /\ WellLinked(symbolGraph')
        /\ \A q, t : q # f /\ Mirrors(symbolGraph, q, t) => Mirrors(symbolGraph', q, t)
        /\ \A q : InFile(symbolGraph, q) = {} => InFile(symbolGraph', q) = {}
    BY <1>5, ClearedWhole DEF ParserRaises
  <2>2. \A q : HashOf(q)' = HashOf(q)
    BY <1>5 DEF ParserRaises, HashOf
  <2>3. \A q \in WiredFiles \ doubtful' : Mirrors(symbolGraph', q, HashOf(q)')
    BY <1>5, <2>1, <2>2 DEF ParserRaises, IndexInv, Believed
  <2>4. \A q \in SourceFiles \ DOMAIN hashes' : InFile(symbolGraph', q) = {}
    BY <1>5, <2>1 DEF ParserRaises, IndexInv, UnknownIsEmpty
  <2>5. IndexTyped' /\ LoadedWhole'
    BY <1>0, <1>5, <2>1 DEF ParserRaises, IndexInv, IndexTyped, LoadedWhole
  <2>6. Believed' /\ UnknownIsEmpty' /\ WellLinked(symbolGraph)'
    BY <2>1, <2>3, <2>4 DEF Believed, UnknownIsEmpty, Mirrors, WellLinked, InFile
  <2> QED BY <2>5, <2>6 DEF IndexInv
<1>6. ASSUME NEW f \in SourceFiles, EditFile(f) PROVE IndexInv'
  <2>1. Kept /\ Less /\ LoadedWhole'
    BY <1>6 DEF EditFile, IndexInv, IndexTyped, LoadedWhole
  <2> QED BY <1>6, <2>1, IndexUntouched DEF EditFile
<1>7. CASE SaveGraph
  <2>1. Kept /\ Less /\ LoadedWhole'
    BY <1>7 DEF SaveGraph, IndexInv, IndexTyped, LoadedWhole
  <2> QED BY <1>7, <2>1, IndexUntouched DEF SaveGraph
<1>8. CASE LoadSymbols
  <2>1. Kept /\ Less
    BY <1>8 DEF LoadSymbols, IndexInv, IndexTyped
  <2>2. loading'.graph.out = {}
    BY <1>8 DEF LoadSymbols, NotLoading, NoGraph
  <2> QED BY <1>8, <2>1, <2>2, IndexUntouched DEF LoadSymbols, LoadedWhole
<1>9. CASE LoadRelations
  <2>1. Kept /\ Less
    BY <1>9 DEF LoadRelations, IndexInv, IndexTyped
  <2> DEFINE N == loading.nodes
             Sourced == {e \in rows.out : e[1] \in N}
             k == AddNodes(NoGraph, N)
  <2>2. DOMAIN k = {"nodes", "out", "in"} /\ k.nodes = N /\ k.out = {}
    BY DEF AddNodes, NoGraph
  <2>3. {e \in rows.out : e[1] \in k.nodes} = Sourced
    BY <2>2
  <2>4. loading'.graph = [k EXCEPT !.out = @ \union Sourced, !.in = @ \union Sourced]
    BY <1>9, <2>3 DEF LoadRelations, AddEdges
  <2> HIDE DEF k, N, Sourced
  <2>6. loading'.graph.nodes = N /\ loading'.graph.out = Sourced
    BY <2>2, <2>4
  <2>5. LoadedWhole'
    BY <2>6 DEF LoadedWhole, Sourced
  <2> QED BY <1>9, <2>1, <2>5, IndexUntouched DEF LoadRelations
<1>10. CASE UNCHANGED indexVars
  <2>1. Kept /\ Less /\ LoadedWhole'
    BY <1>10 DEF indexVars, IndexInv, IndexTyped, LoadedWhole
  <2> QED BY <1>10, <2>1, IndexUntouched DEF indexVars
<1> QED BY <1>1, <1>2, <1>3, <1>4, <1>5, <1>6, <1>7, <1>8, <1>9, <1>10 DEF SemanticIndexNext

(* However files are edited while they are looked at, parsed, fail to be   *)
(* parsed, and the graph is stored and read back, the graph mirrors every  *)
(* file whose hash is current and whose symbols came from that text, and   *)
(* no edge is left over from a symbol that is gone.                        *)
THEOREM IndexExact == SemanticIndexSpec => []GraphExact
<1>1. IndexInv => GraphExact
  <2> SUFFICES ASSUME IndexInv PROVE GraphExact
    OBVIOUS
  <2>1. MirrorsText
    BY DEF IndexInv, Believed, Mirrors, SymbolsFor, RelationsFor, MirrorsText
  <2>2. EdgesReal
    BY DEF IndexInv, WellLinked, EdgeReal, LoadedWhole, EdgesReal
  <2> QED BY <2>1, <2>2 DEF GraphExact
<1> QED BY <1>1, IndexInitSound, IndexStep, PTL DEF SemanticIndexSpec

-----------------------------------------------------------------------------
(* What a change of a symbol affects.                                        *)

(* What a change of n reaches after each of k levels.                     *)
Levels(g, n, k, L) ==
  L = [i \in 0 .. k |-> IF i = 0 THEN {n} ELSE L[i - 1] \union DependentsOf(g, L[i - 1])]

LEMMA LevelsExist ==
  ASSUME NEW g, NEW n
  PROVE  \A k \in Nat : \E L : Levels(g, n, k, L)
<1> DEFINE Bad == {k \in Nat : ~ \E L : Levels(g, n, k, L)}
<1> SUFFICES ASSUME Bad # {} PROVE FALSE
  OBVIOUS
<1>1. PICK m \in Bad : \A j \in Bad : m <= j
  BY LeastOf
<1>2. CASE m = 0
  <2> DEFINE L == [i \in 0 .. 0 |-> {n}]
  <2>1. Levels(g, n, 0, L)
    BY DEF Levels
  <2> QED BY <1>1, <1>2, <2>1
<1>3. CASE m # 0
  <2>1. m \in Nat /\ m - 1 \in Nat /\ m - 1 \notin Bad
    BY <1>1, <1>3
  <2>2. PICK L : Levels(g, n, m - 1, L)
    BY <2>1
  <2> DEFINE After(i) == L[i] \union DependentsOf(g, L[i])
             M == [i \in 0 .. m |-> IF i = m THEN After(m - 1) ELSE L[i]]
  <2>3. ASSUME NEW i \in 0 .. m
        PROVE  M[i] = IF i = 0 THEN {n} ELSE M[i - 1] \union DependentsOf(g, M[i - 1])
    <3>1. CASE i = m
      <4>1. M[i] = After(m - 1) /\ M[i - 1] = L[m - 1]
        BY <1>3, <2>1, <3>1
      <4> QED BY <1>3, <3>1, <4>1
    <3>2. CASE i # m
      <4>1. i \in 0 .. m - 1 /\ M[i] = L[i]
        BY <2>1, <3>2
      <4>2. L[i] = IF i = 0 THEN {n} ELSE L[i - 1] \union DependentsOf(g, L[i - 1])
        BY <2>2, <4>1 DEF Levels
      <4>3. i # 0 => M[i - 1] = L[i - 1]
        BY <2>1, <4>1
      <4> QED BY <4>1, <4>2, <4>3
    <3> QED BY <3>1, <3>2
  <2>4. Levels(g, n, m, M)
    BY <2>3 DEF Levels
  <2> QED BY <1>1, <2>4
<1> QED BY <1>2, <1>3

(* The levels, one by one.                                                *)
LEMMA LevelZero ==
  ASSUME NEW g, NEW n, NEW k \in Nat, NEW L, Levels(g, n, k, L)
  PROVE  L[0] = {n}
BY DEF Levels

LEMMA LevelNext ==
  ASSUME NEW g, NEW n, NEW k \in Nat, NEW L, Levels(g, n, k, L), NEW i \in 0 .. k, i # 0
  PROVE  L[i] = L[i - 1] \union DependentsOf(g, L[i - 1])
<1>1. L[i] = IF i = 0 THEN {n} ELSE L[i - 1] \union DependentsOf(g, L[i - 1])
  BY DEF Levels
<1> QED BY <1>1

(* What is reached at a level is reached at every later one.              *)
LEMMA LevelsGrow ==
  ASSUME NEW g, NEW n, NEW k \in Nat, NEW L, Levels(g, n, k, L), NEW j \in 0 .. k, NEW x \in L[j]
  PROVE  \A i \in j .. k : x \in L[i]
<1> DEFINE Bad == {i \in j .. k : x \notin L[i]}
<1> SUFFICES ASSUME Bad # {} PROVE FALSE
  OBVIOUS
<1>1. PICK m \in Bad : \A i \in Bad : m <= i
  <2>1. Bad \subseteq Nat
    OBVIOUS
  <2> HIDE DEF Bad
  <2> QED BY <2>1, LeastOf
<1>2. m \in j .. k /\ x \notin L[m]
  BY <1>1
<1>3. m # j
  BY <1>2
<1>4. m - 1 \in j .. k /\ m - 1 \notin Bad
  BY <1>1, <1>2, <1>3
<1>5. x \in L[m - 1]
  BY <1>4
<1>6. L[m] = L[m - 1] \union DependentsOf(g, L[m - 1])
  <2>1. m \in 0 .. k /\ m # 0
    BY <1>2, <1>3
  <2> QED BY <2>1, LevelNext
<1> QED BY <1>2, <1>5, <1>6

(* Reached is what the last level reaches.                                *)
LEMMA ReachedIs ==
  ASSUME NEW g, NEW n, NEW depth \in Nat
  PROVE  \E L : Levels(g, n, depth + 1, L) /\ Reached(g, n, depth) = L[depth + 1]
<1> DEFINE L == CHOOSE F : Levels(g, n, depth + 1, F)
<1>1. depth + 1 \in Nat
  OBVIOUS
<1>2. Levels(g, n, depth + 1, L)
  BY <1>1, LevelsExist
<1>3. Reached(g, n, depth) = L[depth + 1]
  BY DEF Reached, WithDependents, Levels
<1> QED BY <1>2, <1>3

(* Two edges that are followed lead from what is changed to what it affects. *)
LEMMA TwoLevels ==
  ASSUME NEW g, NEW n, NEW depth \in Nat \ {0}, NEW a, NEW b, a # b,
         \E r \in ImpactRelations : <<a, n, r>> \in g.in,
         \E r \in ImpactRelations : <<b, a, r>> \in g.in
  PROVE  b \in Reached(g, n, depth)
<1>1. PICK L : Levels(g, n, depth + 1, L) /\ Reached(g, n, depth) = L[depth + 1]
  BY ReachedIs
<1>2. L[0] = {n} /\ L[1] = L[0] \union DependentsOf(g, L[0])
      /\ L[2] = L[1] \union DependentsOf(g, L[1])
  <2> DEFINE k == depth + 1
  <2>1. k \in Nat /\ 1 \in 0 .. k /\ 2 \in 0 .. k
    OBVIOUS
  <2>2. Levels(g, n, k, L)
    BY <1>1
  <2> HIDE DEF k
  <2>3. L[0] = {n}
    BY <2>1, <2>2, LevelZero
  <2>4. L[1] = L[1 - 1] \union DependentsOf(g, L[1 - 1])
    BY <2>1, <2>2, LevelNext
  <2>5. L[2] = L[2 - 1] \union DependentsOf(g, L[2 - 1])
    BY <2>1, <2>2, LevelNext
  <2>6. 1 - 1 = 0 /\ 2 - 1 = 1
    OBVIOUS
  <2> QED BY <2>3, <2>4, <2>5, <2>6
<1>3. a \in L[1]
  BY <1>2 DEF DependentsOf
<1>4. b \in L[2]
  BY <1>2, <1>3 DEF DependentsOf
<1>5. depth + 1 \in Nat /\ 2 \in 0 .. depth + 1 /\ depth + 1 \in 2 .. depth + 1
  OBVIOUS
<1> QED BY <1>1, <1>4, <1>5, LevelsGrow

(* An import refers to the definition that alone has its text and name,    *)
(* whichever symbols the table has.                                        *)
LEMMA ImportRefers ==
  ASSUME NEW f, NEW i, i[2] # NoName, i[1][2] # NoName, NEW N, ImportOf(f, i) \in N,
         NEW W \in SymbolTables(N), NEW a, Holders(N, <<i[1][2], i[2]>>) = {a}
  PROVE  <<ImportOf(f, i), a, "references">> \in ReferencesIn(N, W)
<1> DEFINE n == ImportOf(f, i)
           key == <<i[1][2], i[2]>>
           e == <<n, a, "references">>
<1>1. n[2] = "import" /\ n[3] = i[1] /\ n[4] = i[2] /\ n \in N
  BY DEF ImportOf
<1>2. Candidates(n) = <<key, <<i[2], i[2]>>>>
  BY <1>1 DEF Candidates
<1> HIDE DEF n
<1>3. a \in Tabled(N) /\ KeyOf(a) = key
  BY DEF Holders
<1>4. a \in W
  <2>1. a \notin Contested(N)
    BY <1>3 DEF Contested
  <2> QED BY <1>3, <2>1 DEF SymbolTables
<1> HIDE DEF key
<1>5. e[1] = n /\ e[2] = a
  OBVIOUS
<1>6. FoundAt(e, 1)
  BY <1>2, <1>3, <1>5 DEF FoundAt
<1> HIDE DEF e
<1>7. e \in {<<m, w, "references">> : m \in {l \in N : l[2] = "import"}, w \in W}
  BY <1>1, <1>4 DEF e
<1> QED BY <1>6, <1>7 DEF ReferencesIn, e, n

(* A definition that calls by an import is linked to it.                   *)
LEMMA CallerLinked ==
  ASSUME NEW f, NEW t, ~Finds[t].broken, NEW c \in Finds[t].calls, NEW i \in Finds[t].imports,
         i[2] = c[2], ImportedOnce(t, i)
  PROVE  <<DefOf(f, c[1]), ImportOf(f, i), "calls">> \in RelationsOf(f, t)
<1>1. Callee(f, t, c[2]) = ImportOf(f, i)
  <2> DEFINE I == {j \in Finds[t].imports : j[2] = c[2]}
  <2>1. I = {i}
    BY DEF ImportedOnce
  <2> QED BY <2>1 DEF Callee
<1> QED BY <1>1 DEF RelationsOf

(* A change of a definition reaches whoever calls it by an import, by way  *)
(* of the reference and the call, at any depth.                            *)
LEMMA CallersFound ==
  ASSUME tree \in [SourceFiles -> SourceTexts \union {Missing}], NEW Chosen \in WithinLimit(tree),
         NEW W \in SymbolTables(IndexedNodes(tree, Chosen)),
         NEW f \in Chosen, ~Finds[tree[f]].broken, NEW c \in Finds[tree[f]].calls,
         NEW i \in Finds[tree[f]].imports, i[2] = c[2], ImportedOnce(tree[f], i), i[1][1] = 0,
         NEW q \in Chosen \ {f}, NEW x \in Finds[tree[q]].defs, x[3] = i[2],
         Holders(IndexedNodes(tree, Chosen), <<i[1][2], i[2]>>) = {DefOf(FullName[q], x)},
         NEW d \in Depths
  PROVE  DefOf(FullName[f], c[1]) \in Impacted(FullIndex(tree, Chosen, W), DefOf(FullName[q], x), d)
<1> DEFINE g == FullIndex(tree, Chosen, W)
           N == IndexedNodes(tree, Chosen)
           called == DefOf(FullName[q], x)
           import == ImportOf(FullName[f], i)
           calling == DefOf(FullName[f], c[1])
           E == (UNION {RelationsOf(FullName[r], tree[r]) : r \in Chosen}) \union ReferencesIn(N, W)
<1>1. tree[f] \in SourceTexts /\ tree[q] \in SourceTexts
  <2>1. Chosen \subseteq Readable(tree)
    BY DEF WithinLimit
  <2> QED BY <2>1 DEF Readable
<1>2. /\ c[1] \in Finds[tree[f]].defs /\ c[1][1] \in DefKinds
      /\ i[2] # NoName /\ i[1][2] # NoName
  BY <1>1, SemanticIndexAssumption
<1>3. g = AddEdges(AddNodes(NoGraph, N), E)
  BY DEF FullIndex
<1>4. import \in N /\ calling \in N
  <2>1. SymbolsOf(FullName[f], tree[f]) \subseteq N
    BY DEF IndexedNodes
  <2>2. import \in SymbolsOf(FullName[f], tree[f]) /\ calling \in SymbolsOf(FullName[f], tree[f])
    BY <1>2 DEF SymbolsOf
  <2> QED BY <2>1, <2>2
<1>5. <<import, called, "references">> \in ReferencesIn(N, W)
  BY <1>2, <1>4, ImportRefers
<1>6. <<calling, import, "calls">> \in RelationsOf(FullName[f], tree[f])
  BY CallerLinked
<1>7. <<import, called, "references">> \in E /\ <<calling, import, "calls">> \in E
  BY <1>5, <1>6
<1> HIDE DEF E, g, N
<1>8. <<import, called, "references">> \in g.in /\ <<calling, import, "calls">> \in g.in
  BY <1>3, <1>4, <1>7 DEF AddEdges, AddNodes, NoGraph
<1>9. import # calling /\ calling # called
  <2>1. calling[2] = c[1][1] /\ import[2] = "import"
    BY DEF DefOf, ImportOf
  <2>2. c[1][1] # "import"
    BY <1>2 DEF DefKinds, TableKinds
  <2>3. calling[1] = FullName[f] /\ called[1] = FullName[q]
    BY DEF DefOf
  <2>4. FullName[f] # FullName[q]
    <3>1. f \in SourceFiles /\ q \in SourceFiles
      BY DEF WithinLimit, Readable
    <3> QED BY <3>1, SemanticIndexAssumption
  <2> QED BY <2>1, <2>2, <2>3, <2>4
<1>10. d \in Nat \ {0}
  BY SemanticIndexAssumption
<1> HIDE DEF called, import, calling
<1>11. calling \in Reached(g, called, d)
  BY <1>9, <1>10, <1>8, TwoLevels DEF ImpactRelations
<1> QED BY <1>9, <1>11 DEF Impacted, g, called, calling

(* However the files of a repository are edited, an index built of them    *)
(* afresh finds whoever calls a definition of another file by an absolute  *)
(* import of its path from the root, as long as no other symbol has that   *)
(* path and name.                                                          *)
THEOREM CallersAffected == SemanticIndexSpec => []ImpactFindsCallers
<1>1. IndexInv => ImpactFindsCallers
  <2> SUFFICES ASSUME IndexInv, NEW Chosen \in WithinLimit(tree)
               PROVE  LET N == IndexedNodes(tree, Chosen)
                          Sound == {f \in Chosen : ~Finds[tree[f]].broken}
                      IN \A f \in Sound : \A c \in Finds[tree[f]].calls :
                           \A i \in {j \in Finds[tree[f]].imports :
                                        j[2] = c[2] /\ ImportedOnce(tree[f], j) /\ j[1][1] = 0} :
                             \A q \in Sound \ {f} : \A x \in {y \in Finds[tree[q]].defs : y[3] = i[2]} :
                               LET called == DefOf(FullName[q], x)
                               IN Holders(N, <<i[1][2], i[2]>>) = {called} =>
                                    \A W \in SymbolTables(N) :
                                      LET g == FullIndex(tree, Chosen, W)
                                      IN \A d \in Depths : Truncated(g, called, d)
                                           \/ DefOf(FullName[f], c[1]) \in Impacted(g, called, d)
    BY DEF ImpactFindsCallers
  <2> DEFINE N == IndexedNodes(tree, Chosen)
             Sound == {f \in Chosen : ~Finds[tree[f]].broken}
             Once(f, c) == {j \in Finds[tree[f]].imports :
                              j[2] = c[2] /\ ImportedOnce(tree[f], j) /\ j[1][1] = 0}
  <2>1. tree \in [SourceFiles -> SourceTexts \union {Missing}]
    BY DEF IndexInv, IndexTyped
  <2>2. ASSUME NEW f \in Sound, NEW c \in Finds[tree[f]].calls, NEW i \in Once(f, c),
               NEW q \in Sound \ {f}, NEW x \in {y \in Finds[tree[q]].defs : y[3] = i[2]},
               Holders(N, <<i[1][2], i[2]>>) = {DefOf(FullName[q], x)},
               NEW W \in SymbolTables(N), NEW d \in Depths
        PROVE  DefOf(FullName[f], c[1])
                 \in Impacted(FullIndex(tree, Chosen, W), DefOf(FullName[q], x), d)
    BY <2>1, <2>2, CallersFound
  <2> HIDE DEF N
  <2> QED BY <2>2 DEF N
<1> QED BY <1>1, IndexInitSound, IndexStep, PTL DEF SemanticIndexSpec

-----------------------------------------------------------------------------
(* What the parsers return.                                                  *)

(* A rule that makes no symbol makes no edge either; no body is a file.      *)
RuleFields == {"kind", "under", "parent", "edge", "member", "bases", "opens"}

Sane(r) ==
  /\ DOMAIN r = RuleFields
  /\ r.kind = "none" => r.edge = "none" /\ r.bases = FALSE /\ r.member = FALSE
  /\ r.opens # "file"

(* A rule that links no method to its type; one that makes a symbol.         *)
Plain(r) == Sane(r) /\ r.member = FALSE
Makes(r) == Plain(r) /\ r.kind # "none"

LEMMA SymbolMakes ==
  ASSUME NEW kind, kind # "none"
  PROVE  Makes(Symbol(kind)) /\ Makes(Owned(kind))
         /\ \A prefix : Makes([Symbol(kind) EXCEPT !.under = prefix])
BY DEF Makes, Plain, Sane, RuleFields, Symbol, Owned

LEMMA ImportMakes == Makes(Import) /\ Makes(PythonImport)
BY DEF Makes, Plain, Sane, RuleFields, Symbol, Import, PythonImport

LEMMA OpeningMakes ==
  ASSUME NEW r, Makes(r), NEW body, body # "file"
  PROVE  Makes(Opening(r, body))
BY DEF Makes, Plain, Sane, RuleFields, Opening

LEMMA VariantMakes ==
  ASSUME NEW r, Makes(r)
  PROVE  Makes(Deriving(r)) /\ Makes(NoEdge(r)) /\ Makes(NoParent(r))
BY DEF Makes, Plain, Sane, RuleFields, Deriving, NoEdge, NoParent

LEMMA ThroughPlain ==
  ASSUME NEW body, body # "file"
  PROVE  Plain(Through(body))
BY DEF Plain, Sane, RuleFields, Through, Opening, NoEdge, Symbol

(* A body all of whose rules are plain; a grammar all of whose bodies are.   *)
AllPlain(nodes) == \A n \in DOMAIN nodes : Plain(nodes[n])
PlainGrammar(bodies) == \A b \in DOMAIN bodies : AllPlain(bodies[b])

LEMMA BesidePlain ==
  ASSUME NEW nodes, NEW others, AllPlain(nodes), AllPlain(others)
  PROVE  AllPlain(Beside(nodes, others))
BY DEF AllPlain, Beside
LEMMA JavaPlain == PlainGrammar(JavaNodes)
<1>1. /\ Makes(JavaClass) /\ Makes(JavaInterface) /\ Makes(JavaEnum) /\ Makes(JavaRecord)
      /\ Makes(JavaAnnotation) /\ Makes(JavaImport) /\ Makes(JavaAbstractMethod)
      /\ Makes(JavaMethod) /\ Makes(JavaConstructor) /\ Makes(JavaField)
      /\ Makes(JavaInner)
  BY SymbolMakes, ImportMakes, OpeningMakes, VariantMakes
     DEF JavaClass, JavaInterface, JavaEnum, JavaRecord, JavaAnnotation, JavaImport,
         JavaAbstractMethod, JavaMethod, JavaConstructor, JavaField, JavaInner
<1>2. AllPlain(JavaClassBody)
  BY <1>1 DEF AllPlain, Makes, JavaClassBody
<1>3. /\ AllPlain(JavaNodes.file) /\ AllPlain(JavaNodes.class_body)
      /\ AllPlain(JavaNodes.interface_body)
  BY <1>1, <1>2 DEF AllPlain, Makes, JavaNodes
<1>4. DOMAIN JavaNodes = {"file", "class_body", "interface_body"}
  BY DEF JavaNodes
<1> QED BY <1>3, <1>4 DEF PlainGrammar

LEMMA CppPlain == PlainGrammar(CppNodes)
<1>1. /\ Makes(CFunction) /\ Makes(CStruct) /\ Makes(CClass) /\ Makes(CMethod)
      /\ Makes(CField) /\ Makes(CInclude) /\ Makes(CEnum) /\ Makes(CTypedef)
  BY SymbolMakes, ImportMakes, OpeningMakes, VariantMakes
     DEF CFunction, CStruct, CClass, CMethod, CField, CInclude, CEnum, CTypedef
<1>2. Plain(CTemplate)
  BY ThroughPlain DEF CTemplate
<1>3. /\ AllPlain(CppNodes.file) /\ AllPlain(CppNodes.struct_specifier)
      /\ AllPlain(CppNodes.class_specifier)
      /\ AllPlain(CppNodes.template_declaration)
  BY <1>1, <1>2 DEF AllPlain, Makes, CppNodes
<1>4. DOMAIN CppNodes = {"file", "struct_specifier", "class_specifier", "template_declaration"}
  BY DEF CppNodes
<1> QED BY <1>3, <1>4 DEF PlainGrammar

LEMMA CPlain == PlainGrammar(CNodes)
<1> DEFINE declared == [declaration |-> CDeclaration]
<1>1. AllPlain(declared)
  BY SymbolMakes, VariantMakes DEF AllPlain, Makes, CDeclaration
<1>2. DOMAIN CppNodes = {"file", "struct_specifier", "class_specifier", "template_declaration"}
  BY DEF CppNodes
<1> HIDE DEF declared
<1>3. /\ DOMAIN CNodes = DOMAIN CppNodes /\ CNodes.file = Beside(CppNodes.file, declared)
      /\ \A b \in DOMAIN CppNodes : b # "file" => CNodes[b] = CppNodes[b]
  BY <1>2 DEF CNodes, declared
<1> QED BY <1>1, <1>2, <1>3, CppPlain, BesidePlain DEF PlainGrammar

LEMMA CSharpPlain == PlainGrammar(CSharpNodes)
<1>1. /\ Makes(CSharpUsing) /\ Makes(CSharpNamespace) /\ Makes(CSharpClass)
      /\ Makes(CSharpInterface) /\ Makes(CSharpStruct) /\ Makes(CSharpEnum)
      /\ Makes(CSharpMethod) /\ Makes(CSharpProperty) /\ Makes(CSharpField)
  BY SymbolMakes, ImportMakes, OpeningMakes, VariantMakes
     DEF CSharpUsing, CSharpNamespace, CSharpClass, CSharpInterface, CSharpStruct,
         CSharpEnum, CSharpMethod, CSharpProperty, CSharpField
<1>2. AllPlain(CSharpTypes)
  BY <1>1 DEF AllPlain, Makes, CSharpTypes
<1>3. AllPlain(CSharpClassBody)
  BY <1>1, <1>2 DEF AllPlain, Makes, CSharpClassBody
<1>4. AllPlain([using_directive |-> CSharpUsing, namespace_declaration |-> CSharpNamespace])
  BY <1>1, <1>2, <1>3 DEF AllPlain, Makes
<1>5. /\ AllPlain(CSharpNodes.file) /\ AllPlain(CSharpNodes.namespace)
      /\ AllPlain(CSharpNodes.class)
  BY <1>1, <1>2, <1>3, <1>4, BesidePlain DEF CSharpNodes
<1>6. DOMAIN CSharpNodes = {"file", "namespace", "class"}
  BY DEF CSharpNodes
<1> QED BY <1>5, <1>6 DEF PlainGrammar

LEMMA KotlinPlain == PlainGrammar(KotlinNodes)
<1>1. /\ Makes(KotlinPackage) /\ Makes(KotlinImport) /\ Makes(KotlinClass)
      /\ Makes(KotlinFunction) /\ Makes(KotlinMethod) /\ Makes(KotlinObject)
      /\ Makes(KotlinInterface)
  BY SymbolMakes, ImportMakes, OpeningMakes, VariantMakes
     DEF KotlinPackage, KotlinImport, KotlinClass, KotlinFunction, KotlinMethod,
         KotlinObject, KotlinInterface
<1>2. /\ AllPlain(KotlinNodes.file) /\ AllPlain(KotlinNodes.class_body)
  BY <1>1 DEF AllPlain, Makes, KotlinNodes
<1>3. DOMAIN KotlinNodes = {"file", "class_body"}
  BY DEF KotlinNodes
<1> QED BY <1>2, <1>3 DEF PlainGrammar

LEMMA PhpPlain == PlainGrammar(PhpNodes)
<1>1. /\ Makes(PhpNamespace) /\ Makes(PhpUse) /\ Makes(PhpClass) /\ Makes(PhpInterface)
      /\ Makes(PhpTrait) /\ Makes(PhpFunction) /\ Makes(PhpMethod)
      /\ Makes(PhpProperty)
  BY SymbolMakes, ImportMakes, OpeningMakes, VariantMakes
     DEF PhpNamespace, PhpUse, PhpClass, PhpInterface, PhpTrait, PhpFunction, PhpMethod,
         PhpProperty
<1>2. /\ AllPlain(PhpNodes.file) /\ AllPlain(PhpNodes.class_body)
  BY <1>1 DEF AllPlain, Makes, PhpNodes
<1>3. DOMAIN PhpNodes = {"file", "class_body"}
  BY DEF PhpNodes
<1> QED BY <1>2, <1>3 DEF PlainGrammar

LEMMA RubyPlain == PlainGrammar(RubyNodes)
<1>1. /\ Makes(RubyClass) /\ Makes(RubyModule) /\ Makes(RubyMethod) /\ Makes(RubyRequire)
      /\ Makes(RubyConstant)
  BY SymbolMakes, ImportMakes, OpeningMakes, VariantMakes
     DEF RubyClass, RubyModule, RubyMethod, RubyRequire, RubyConstant
<1>2. AllPlain(RubyBody)
  BY <1>1 DEF AllPlain, Makes, RubyBody
<1>3. AllPlain([constant_assignment |-> RubyConstant])
  BY <1>1, <1>2 DEF AllPlain, Makes
<1>4. /\ AllPlain(RubyNodes.file) /\ AllPlain(RubyNodes.body_statement)
  BY <1>1, <1>2, <1>3, BesidePlain DEF RubyNodes
<1>5. DOMAIN RubyNodes = {"file", "body_statement"}
  BY DEF RubyNodes
<1> QED BY <1>4, <1>5 DEF PlainGrammar

LEMMA SwiftPlain == PlainGrammar(SwiftNodes)
<1>1. /\ Makes(SwiftImport) /\ Makes(SwiftClass) /\ Makes(SwiftStruct)
      /\ Makes(SwiftFunction) /\ Makes(SwiftMethod) /\ Makes(SwiftProperty)
      /\ Makes(SwiftInitializer) /\ Makes(SwiftProtocol) /\ Makes(SwiftEnum)
  BY SymbolMakes, ImportMakes, OpeningMakes, VariantMakes
     DEF SwiftImport, SwiftClass, SwiftStruct, SwiftFunction, SwiftMethod, SwiftProperty,
         SwiftInitializer, SwiftProtocol, SwiftEnum
<1>2. AllPlain(SwiftClassBody)
  BY <1>1 DEF AllPlain, Makes, SwiftClassBody
<1>3. /\ AllPlain(SwiftNodes.file) /\ AllPlain(SwiftNodes.class_body)
  BY <1>1, <1>2 DEF AllPlain, Makes, SwiftNodes
<1>4. DOMAIN SwiftNodes = {"file", "class_body"}
  BY DEF SwiftNodes
<1> QED BY <1>3, <1>4 DEF PlainGrammar

LEMMA PythonPlain == PlainGrammar(PythonNodes)
<1>1. /\ Makes(PythonClass) /\ Makes(PythonFunction) /\ Makes(PythonMethod)
      /\ Makes(PythonProperty) /\ Makes(PythonConstant) /\ Makes(PythonImport)
      /\ Makes(InModule(PythonClass)) /\ Makes(InModule(PythonFunction))
      /\ Makes(InModule(PythonConstant))
  BY SymbolMakes, ImportMakes, OpeningMakes, VariantMakes
     DEF PythonClass, PythonFunction, PythonMethod, PythonProperty, PythonConstant, InModule
<1>2. Plain(PythonCall)
  BY ThroughPlain DEF PythonCall
<1>3. AllPlain(PythonAnywhere)
  BY <1>1, <1>2 DEF AllPlain, Makes, PythonAnywhere
<1>4. AllPlain([ClassDef |-> InModule(PythonClass), FunctionDef |-> InModule(PythonFunction),
                PropertyDef |-> InModule(PythonFunction), Assign |-> InModule(PythonConstant)])
  BY <1>1, <1>2, <1>3 DEF AllPlain, Makes
<1>5. AllPlain([ClassDef |-> PythonClass, FunctionDef |-> PythonMethod, PropertyDef |-> PythonProperty])
  BY <1>1, <1>2, <1>3, <1>4 DEF AllPlain, Makes
<1>6. AllPlain([ClassDef |-> PythonClass])
  BY <1>1, <1>2, <1>3, <1>4, <1>5 DEF AllPlain, Makes
<1>7. /\ AllPlain(PythonNodes.file) /\ AllPlain(PythonNodes.class)
      /\ AllPlain(PythonNodes.function) /\ AllPlain(PythonNodes.closed)
  BY <1>1, <1>2, <1>3, <1>4, <1>5, <1>6, BesidePlain DEF PythonNodes
<1>8. DOMAIN PythonNodes = {"file", "class", "function", "closed"}
  BY DEF PythonNodes
<1> QED BY <1>7, <1>8 DEF PlainGrammar
(* Go and Rust: the rule of a type, of a method, and any other.              *)
TypeKinds == {"struct", "interface", "type", "enum", "trait"}

TypeRule(r) ==
  Sane(r) /\ r.kind \in TypeKinds /\ r.under = "file" /\ r.parent = TRUE /\ r.member = FALSE
MethodRule(r) == Sane(r) /\ r.kind = "method" /\ r.member = TRUE
Aside(r) == Plain(r) /\ r.kind \notin TypeKinds \union {"method"}

(* Types stand in the file and only there; a method is linked to the type    *)
(* its node names, or to that of the block around it.                        *)
LinkedRule(types, b, n, r) ==
  \/ TypeRule(r) /\ b = "file" /\ n \in types
  \/ /\ MethodRule(r) /\ n \notin types
     /\ r.under = "receiver" \/ (r.under = "holder" /\ b # "file")
  \/ Aside(r) /\ (b = "file" => n \notin types)

LinkedGrammar(bodies, types) ==
  /\ "file" \in DOMAIN bodies /\ types \subseteq DOMAIN bodies.file
  /\ "closed" \notin DOMAIN bodies
  /\ \A b \in DOMAIN bodies : \A n \in DOMAIN bodies[b] :
       LinkedRule(types, b, n, bodies[b][n]) /\ n # "template_declaration"

LEMMA GoLinked == LinkedGrammar(GoNodes, TypeNodes["go"])
<1>1. TypeRule(GoStruct) /\ TypeRule(GoInterface) /\ TypeRule(GoType)
  BY DEF TypeRule, TypeKinds, Sane, RuleFields, Symbol, Opening, GoStruct, GoInterface, GoType
<1>2. MethodRule(GoMethod) /\ GoMethod.under = "receiver"
  BY DEF MethodRule, Sane, RuleFields, Symbol, Member, GoMethod
<1>3. Aside(GoFunction) /\ Aside(GoImport) /\ Aside(GoConst) /\ Aside(GoVar)
  BY DEF Aside, TypeKinds, Plain, Sane, RuleFields, Symbol, Import, GoFunction, GoImport,
         GoConst, GoVar
<1>4. Aside(GoField) /\ Aside(GoAbstractMethod)
  BY DEF Aside, TypeKinds, Plain, Sane, RuleFields, Symbol, Owned, GoField, GoAbstractMethod
<1>5. TypeNodes["go"] = {"struct_type", "interface_type", "type_spec"}
  BY DEF TypeNodes
<1>6. DOMAIN GoNodes = {"file", "struct_type", "interface_type"}
  BY DEF GoNodes
<1>7. \A n \in DOMAIN GoNodes.file :
        LinkedRule(TypeNodes["go"], "file", n, GoNodes.file[n]) /\ n # "template_declaration"
  BY <1>1, <1>2, <1>3, <1>5 DEF GoNodes, LinkedRule
<1>8. \A b \in {"struct_type", "interface_type"} : \A n \in DOMAIN GoNodes[b] :
        LinkedRule(TypeNodes["go"], b, n, GoNodes[b][n]) /\ n # "template_declaration"
  BY <1>4 DEF GoNodes, LinkedRule
<1>9. TypeNodes["go"] \subseteq DOMAIN GoNodes.file
  BY <1>5 DEF GoNodes
<1> QED BY <1>6, <1>7, <1>8, <1>9 DEF LinkedGrammar

LEMMA RustLinked == LinkedGrammar(RustNodes, TypeNodes["rust"])
<1>1. TypeRule(RustStruct) /\ TypeRule(RustEnum) /\ TypeRule(RustTrait) /\ TypeRule(RustType)
  BY DEF TypeRule, TypeKinds, Sane, RuleFields, Symbol, Opening, RustStruct, RustEnum,
         RustTrait, RustType
<1>2. MethodRule(RustMethod) /\ RustMethod.under = "holder"
  BY DEF MethodRule, Sane, RuleFields, Symbol, Owned, Member, NoEdge, RustMethod
<1>3. Aside(RustFunction) /\ Aside(RustUse) /\ Aside(RustConst) /\ Aside(RustStatic)
      /\ Aside(RustModule)
  BY DEF Aside, TypeKinds, Plain, Sane, RuleFields, Symbol, Import, RustFunction, RustUse,
         RustConst, RustStatic, RustModule
<1>4. Aside(RustField) /\ Aside(RustVariant) /\ Aside(RustImpl)
  BY DEF Aside, TypeKinds, Plain, Sane, RuleFields, Symbol, Owned, Through, Opening, NoEdge,
         RustField, RustVariant, RustImpl
<1>5. TypeNodes["rust"] = {"struct_item", "enum_item", "trait_item", "type_item"}
  BY DEF TypeNodes
<1>6. DOMAIN RustNodes = {"file", "struct_item", "enum_item", "impl_item"}
  BY DEF RustNodes
<1>7. \A n \in DOMAIN RustNodes.file :
        LinkedRule(TypeNodes["rust"], "file", n, RustNodes.file[n]) /\ n # "template_declaration"
  BY <1>1, <1>3, <1>4, <1>5 DEF RustNodes, LinkedRule
<1>8. \A b \in {"struct_item", "enum_item"} : \A n \in DOMAIN RustNodes[b] :
        LinkedRule(TypeNodes["rust"], b, n, RustNodes[b][n]) /\ n # "template_declaration"
  BY <1>4 DEF RustNodes, LinkedRule
<1>9. \A n \in DOMAIN RustNodes.impl_item :
        LinkedRule(TypeNodes["rust"], "impl_item", n, RustNodes.impl_item[n])
        /\ n # "template_declaration"
  BY <1>2, <1>5 DEF RustNodes, LinkedRule
<1>10. TypeNodes["rust"] \subseteq DOMAIN RustNodes.file
  BY <1>5 DEF RustNodes
<1> QED BY <1>6, <1>7, <1>8, <1>9, <1>10 DEF LinkedGrammar

(* The rules of every language.                                              *)
Linking == {"go", "rust"}

LEMMA Grammars ==
  /\ \A l \in Linking : l \in DOMAIN NodesOf /\ LinkedGrammar(NodesOf[l], TypeNodes[l])
  /\ \A l \in DOMAIN NodesOf \ Linking : PlainGrammar(NodesOf[l])
  /\ DOMAIN TypeNodes = Linking
<1>1. NodesOf["go"] = GoNodes /\ NodesOf["rust"] = RustNodes
  BY DEF NodesOf
<1>2. /\ NodesOf["java"] = JavaNodes /\ NodesOf["c"] = CNodes /\ NodesOf["cpp"] = CppNodes
      /\ NodesOf["csharp"] = CSharpNodes /\ NodesOf["kotlin"] = KotlinNodes
      /\ NodesOf["php"] = PhpNodes /\ NodesOf["ruby"] = RubyNodes
      /\ NodesOf["swift"] = SwiftNodes /\ NodesOf["python"] = PythonNodes
  BY DEF NodesOf
<1>3. DOMAIN NodesOf = {"java", "go", "rust", "c", "cpp", "csharp", "kotlin", "php", "ruby",
                        "swift", "python"}
  BY DEF NodesOf
<1>4. DOMAIN TypeNodes = Linking
  BY DEF TypeNodes, Linking
<1>5. \A l \in DOMAIN NodesOf \ Linking : PlainGrammar(NodesOf[l])
  BY <1>2, <1>3, JavaPlain, CPlain, CppPlain, CSharpPlain, KotlinPlain, PhpPlain, RubyPlain,
     SwiftPlain, PythonPlain DEF Linking
<1> QED BY <1>1, <1>3, <1>4, <1>5, GoLinked, RustLinked DEF Linking
(* The walk of a source: its first n declarations, met one by one.           *)
WellFormed(s) ==
  /\ s.language \in DOMAIN NodesOf
  /\ Len(s.decls) \in Nat /\ DOMAIN s.decls = 1 .. Len(s.decls)
  /\ \A i \in DOMAIN s.decls : s.decls[i].up \in 0 .. i - 1

IsWalk(s, n, W) ==
  W = [i \in 0 .. n |-> IF i = 0 THEN Root ELSE VisitNode(s, W[s.decls[i].up], s.decls[i])]

LEMMA WalkAt ==
  ASSUME NEW s, WellFormed(s), NEW n \in 0 .. Len(s.decls), NEW W, IsWalk(s, n, W)
  PROVE  /\ W[0] = Root
         /\ \A i \in 1 .. n : W[i] = VisitNode(s, W[s.decls[i].up], s.decls[i])
<1> DEFINE At(i) == IF i = 0 THEN Root ELSE VisitNode(s, W[s.decls[i].up], s.decls[i])
<1>1. W = [i \in 0 .. n |-> At(i)]
  BY DEF IsWalk
<1>2. n \in Nat
  BY DEF WellFormed
<1> HIDE DEF At
<1>3. \A i \in 0 .. n : W[i] = At(i)
  BY <1>1
<1>4. W[0] = At(0) /\ \A i \in 1 .. n : W[i] = At(i) /\ i # 0
  BY <1>2, <1>3
<1> QED BY <1>4 DEF At

(* There is a walk of the whole source.                                      *)
LEMMA WalkExists ==
  ASSUME NEW s, WellFormed(s)
  PROVE  \A n \in 0 .. Len(s.decls) : \E W : IsWalk(s, n, W)
<1> DEFINE Bad == {n \in 0 .. Len(s.decls) : ~ \E W : IsWalk(s, n, W)}
<1> SUFFICES ASSUME Bad # {} PROVE FALSE
  OBVIOUS
<1>1. PICK m \in Bad : \A j \in Bad : m <= j
  <2>1. Bad \subseteq Nat
    BY DEF WellFormed
  <2> HIDE DEF Bad
  <2> QED BY <2>1, LeastOf
<1>2. m \in 0 .. Len(s.decls) /\ m \in Nat
  BY <1>1 DEF WellFormed
<1>3. CASE m = 0
  <2> DEFINE W == [i \in 0 .. 0 |-> Root]
  <2>1. IsWalk(s, 0, W)
    BY DEF IsWalk
  <2> QED BY <1>1, <1>3, <2>1
<1>4. CASE m # 0
  <2>1. m - 1 \in 0 .. Len(s.decls) /\ m - 1 \notin Bad
    BY <1>1, <1>2, <1>4
  <2>2. PICK V : IsWalk(s, m - 1, V)
    BY <2>1
  <2> DEFINE last == VisitNode(s, V[s.decls[m].up], s.decls[m])
             W == [i \in 0 .. m |-> IF i = m THEN last ELSE V[i]]
             At(i) == IF i = 0 THEN Root ELSE VisitNode(s, W[s.decls[i].up], s.decls[i])
  <2>3. \A i \in 0 .. m - 1 : W[i] = V[i]
    BY <1>2
  <2>4. \A i \in 1 .. m : s.decls[i].up \in 0 .. m - 1
    BY <1>2 DEF WellFormed
  <2>5. ASSUME NEW i \in 0 .. m PROVE W[i] = At(i)
    <3>1. CASE i = m
      <4>1. W[i] = last
        BY <3>1
      <4>2. W[s.decls[m].up] = V[s.decls[m].up]
        BY <1>2, <1>4, <2>3, <2>4
      <4> QED BY <1>4, <3>1, <4>1, <4>2
    <3>2. CASE i # m
      <4>1. i \in 0 .. m - 1 /\ W[i] = V[i]
        BY <1>2, <2>3, <3>2
      <4>2. i = 0 => V[i] = Root
        BY <2>1, <2>2, WalkAt
      <4>3. i # 0 => i \in 1 .. m - 1 /\ i \in 1 .. m
        BY <4>1
      <4>4. i # 0 => V[i] = VisitNode(s, V[s.decls[i].up], s.decls[i])
        BY <2>1, <2>2, <4>3, WalkAt
      <4>5. i # 0 => W[s.decls[i].up] = V[s.decls[i].up]
        BY <2>3, <2>4, <4>3
      <4> QED BY <4>1, <4>2, <4>4, <4>5
    <3> QED BY <3>1, <3>2
  <2>6. W = [i \in 0 .. m |-> At(i)]
    <3> HIDE DEF At, last
    <3>1. W = [i \in 0 .. m |-> W[i]]
      OBVIOUS
    <3> HIDE DEF W
    <3> QED BY <2>5, <3>1
  <2>7. IsWalk(s, m, W)
    BY <2>6 DEF IsWalk
  <2> QED BY <1>1, <2>7
<1> QED BY <1>3, <1>4

LEMMA WalkIs ==
  ASSUME NEW s, WellFormed(s)
  PROVE  IsWalk(s, Len(s.decls), Walk(s))
<1> DEFINE n == Len(s.decls)
           W == CHOOSE V : IsWalk(s, n, V)
<1>1. n \in 0 .. n
  BY DEF WellFormed
<1>2. IsWalk(s, n, W)
  BY <1>1, WalkExists
<1>3. Walk(s) = W
  BY DEF Walk, IsWalk
<1> QED BY <1>2, <1>3

(* What is met at a place.                                                   *)
LEMMA MetIs ==
  ASSUME NEW s, NEW place, NEW d, NEW m, m = VisitNode(s, place, d)
  PROVE  /\ m.rule = RuleOf(s, place, d) /\ m.holder = Holder(m.rule, place, d)
         /\ m.id = Append(m.holder, d.name) /\ m.parent = place.at /\ m.within = place.caller
         /\ m.body = m.rule.opens /\ m.names = Names(s, place, d)
         /\ m.at = IF m.rule.kind = "none" THEN place.at ELSE m.id
         /\ m.caller = IF m.rule.kind \in {"class", "function", "method"} THEN m.id
                       ELSE place.caller
BY DEF VisitNode, Met, IdOf

(* A rule that is applied is sane, and links only in the languages that do.  *)
LEMMA RuleIs ==
  ASSUME NEW s, s.language \in DOMAIN NodesOf, NEW place, NEW d
  PROVE  /\ Sane(RuleOf(s, place, d))
         /\ s.language \notin Linking => RuleOf(s, place, d).member = FALSE
         /\ ~Handles(s, place, d) => RuleOf(s, place, d) = Through("closed")
         /\ s.language \in Linking /\ Handles(s, place, d) =>
              /\ d.name # Unnamed
              /\ LinkedRule(TypeNodes[s.language], place.body, d.node, RuleOf(s, place, d))
<1> DEFINE r == RuleOf(s, place, d)
           l == s.language
<1>1. CASE ~Handles(s, place, d)
  <2>1. r = Through("closed")
    BY <1>1 DEF RuleOf
  <2>2. Plain(Through("closed"))
    BY ThroughPlain
  <2> QED BY <1>1, <2>1, <2>2 DEF Plain
<1>2. CASE Handles(s, place, d)
  <2>1. place.body \in DOMAIN NodesOf[l] /\ d.node \in DOMAIN NodesOf[l][place.body]
        /\ r = NodesOf[l][place.body][d.node]
    BY <1>2 DEF Handles, RuleOf
  <2>2. CASE l \in Linking
    <3>1. LinkedGrammar(NodesOf[l], TypeNodes[l])
      BY <2>2, Grammars
    <3>2. LinkedRule(TypeNodes[l], place.body, d.node, r) /\ d.node # "template_declaration"
      BY <2>1, <3>1 DEF LinkedGrammar
    <3>3. Sane(r)
      BY <3>2 DEF LinkedRule, TypeRule, MethodRule, Aside, Plain
    <3> QED BY <1>2, <2>2, <3>2, <3>3 DEF Handles
  <2>3. CASE l \notin Linking
    <3>1. PlainGrammar(NodesOf[l])
      BY <2>3, Grammars
    <3>2. Plain(r)
      BY <2>1, <3>1 DEF PlainGrammar, AllPlain
    <3> QED BY <1>2, <2>3, <3>2 DEF Plain
  <2> QED BY <2>2, <2>3
<1> QED BY <1>1, <1>2

(* A node without a handler makes nothing and hides what is in it.           *)
LEMMA Unhandled ==
  ASSUME NEW s, NEW place, NEW d, ~Handles(s, place, d)
  PROVE  /\ RuleOf(s, place, d).kind = "none" /\ RuleOf(s, place, d).member = FALSE
         /\ RuleOf(s, place, d).opens = "closed"
BY DEF RuleOf, Through, Opening, NoEdge, Symbol

LEMMA RuleLinked ==
  ASSUME NEW s, s.language \in Linking, NEW place, NEW d, Handles(s, place, d)
  PROVE  d.name # Unnamed /\ LinkedRule(TypeNodes[s.language], place.body, d.node, RuleOf(s, place, d))
<1>1. s.language \in DOMAIN NodesOf
  BY Grammars
<1> QED BY <1>1, RuleIs
(* A symbol that declaration i makes; an id that is one of a symbol.         *)
Made(W, i) == W[i].rule.kind # "none"
In(s, W, id) == \E i \in DOMAIN s.decls : Made(W, i) /\ W[i].id = id

(* Declaration i is put under what stands around it; it is a method that is  *)
(* linked to its type when the file has that type.                           *)
Parented(W, i) == W[i].rule.parent = TRUE
Links(W, i) == W[i].rule.member = TRUE

(* What stands around a place is a symbol or the file.                       *)
Inside(s, W, m) == (m.at = FileId \/ In(s, W, m.at)) /\ (m.caller = Nowhere \/ In(s, W, m.caller))

(* A source and its walk.                                                    *)
Walked(s, W) ==
  /\ WellFormed(s) /\ W[0] = Root
  /\ \A i \in DOMAIN s.decls : W[i] = VisitNode(s, W[s.decls[i].up], s.decls[i])

LEMMA PlacesRecorded ==
  ASSUME NEW s, NEW W, Walked(s, W)
  PROVE  \A i \in 0 .. Len(s.decls) : Inside(s, W, W[i])
<1> DEFINE n == Len(s.decls)
           Bad == {i \in 0 .. n : ~Inside(s, W, W[i])}
<1> SUFFICES ASSUME Bad # {} PROVE FALSE
  OBVIOUS
<1>1. n \in Nat /\ DOMAIN s.decls = 1 .. n
  BY DEF Walked, WellFormed
<1>2. PICK m \in Bad : \A j \in Bad : m <= j
  <2>1. Bad \subseteq Nat
    BY <1>1
  <2> HIDE DEF Bad
  <2> QED BY <2>1, LeastOf
<1>3. m # 0
  BY <1>2 DEF Walked, Root, Inside
<1>4. m \in DOMAIN s.decls
  BY <1>1, <1>2, <1>3
<1> DEFINE d == s.decls[m]
           place == W[d.up]
<1>5. Inside(s, W, place)
  <2>1. d.up \in 0 .. m - 1
    BY <1>4 DEF Walked, WellFormed
  <2>2. d.up \in 0 .. n /\ d.up \notin Bad
    BY <1>1, <1>2, <2>1
  <2> QED BY <2>2
<1>6. W[m] = VisitNode(s, place, d)
  BY <1>4 DEF Walked
<1> HIDE DEF place, d
<1>7. /\ W[m].at = IF W[m].rule.kind = "none" THEN place.at ELSE W[m].id
      /\ W[m].caller = IF W[m].rule.kind \in {"class", "function", "method"} THEN W[m].id
                       ELSE place.caller
  BY <1>6, MetIs
<1>8. Made(W, m) => In(s, W, W[m].id)
  BY <1>4 DEF In
<1>9. Inside(s, W, W[m])
  BY <1>5, <1>7, <1>8 DEF Inside, Made
<1> QED BY <1>2, <1>9

(* What is met at a declaration, with what stands around it.                 *)
LEMMA DeclarationMet ==
  ASSUME NEW s, NEW W, Walked(s, W), NEW i \in DOMAIN s.decls
  PROVE  LET d == s.decls[i]
             place == W[d.up]
         IN /\ d.up \in 0 .. Len(s.decls) /\ (d.up # 0 => d.up \in DOMAIN s.decls)
            /\ Inside(s, W, place)
            /\ W[i].rule = RuleOf(s, place, d) /\ W[i].holder = Holder(W[i].rule, place, d)
            /\ W[i].id = Append(W[i].holder, d.name) /\ W[i].parent = place.at
            /\ W[i].within = place.caller /\ W[i].body = W[i].rule.opens
            /\ W[i].names = Names(s, place, d) /\ W[i].body # "file"
<1> DEFINE d == s.decls[i]
           place == W[d.up]
<1>1. d.up \in 0 .. Len(s.decls) /\ (d.up # 0 => d.up \in DOMAIN s.decls)
  <2>1. Len(s.decls) \in Nat /\ DOMAIN s.decls = 1 .. Len(s.decls) /\ d.up \in 0 .. i - 1
    BY DEF Walked, WellFormed
  <2> QED BY <2>1
<1>2. W[i] = VisitNode(s, place, d)
  BY DEF Walked
<1>3. Inside(s, W, place)
  BY <1>1, PlacesRecorded
<1>4. s.language \in DOMAIN NodesOf
  BY DEF Walked, WellFormed
<1> HIDE DEF d, place
<1>5. /\ W[i].rule = RuleOf(s, place, d) /\ W[i].holder = Holder(W[i].rule, place, d)
      /\ W[i].id = Append(W[i].holder, d.name) /\ W[i].parent = place.at
      /\ W[i].within = place.caller /\ W[i].body = W[i].rule.opens
      /\ W[i].names = Names(s, place, d)
  BY <1>2, MetIs
<1>6. W[i].body # "file"
  BY <1>4, <1>5, RuleIs DEF Sane
<1> QED BY <1>1, <1>3, <1>5, <1>6 DEF d, place

LEMMA BodyIs ==
  ASSUME NEW s, NEW W, Walked(s, W), NEW i \in DOMAIN s.decls
  PROVE  W[i].body # "file"
BY DeclarationMet

(* A declaration of a type is recorded under its name, in the file.          *)
LEMMA TypeRecorded ==
  ASSUME NEW s, NEW W, Walked(s, W), NEW j \in DOMAIN s.decls, IsType(s, s.decls[j]),
         s.decls[j].name # Unnamed
  PROVE  /\ W[j].rule.kind \in TypeKinds /\ Parented(W, j)
         /\ W[j].id = <<s.decls[j].name>> /\ W[j].parent = FileId
<1> DEFINE d == s.decls[j]
<1>1. s.language \in Linking /\ d.up = 0 /\ d.node \in TypeNodes[s.language]
  BY Grammars DEF IsType
<1>2. W[0].body = "file" /\ W[0].at = FileId
  BY DEF Walked, Root
<1>3. s.language \in DOMAIN NodesOf /\ LinkedGrammar(NodesOf[s.language], TypeNodes[s.language])
  BY <1>1, Grammars
<1>4. Handles(s, W[0], d)
  BY <1>1, <1>2, <1>3 DEF LinkedGrammar, Handles
<1>5. /\ W[j].rule = RuleOf(s, W[0], d) /\ W[j].holder = Holder(W[j].rule, W[0], d)
      /\ W[j].id = Append(W[j].holder, d.name) /\ W[j].parent = FileId
  BY <1>1, <1>2, DeclarationMet
<1>6. LinkedRule(TypeNodes[s.language], "file", d.node, W[j].rule)
  BY <1>1, <1>2, <1>4, <1>5, RuleLinked
<1>7. TypeRule(W[j].rule)
  BY <1>1, <1>6 DEF LinkedRule
<1>8. W[j].holder = <<>>
  BY <1>5, <1>7 DEF TypeRule, Holder
<1> QED BY <1>5, <1>7, <1>8 DEF TypeRule, Parented

(* What is recorded as a type is one.                                        *)
LEMMA TypeFound ==
  ASSUME NEW s, NEW W, Walked(s, W), s.language \in Linking, NEW j \in DOMAIN s.decls,
         W[j].rule.kind \in TypeKinds
  PROVE  IsType(s, s.decls[j]) /\ W[j].id = <<s.decls[j].name>>
<1> DEFINE d == s.decls[j]
           place == W[d.up]
<1>1. /\ d.up # 0 => d.up \in DOMAIN s.decls
      /\ W[j].rule = RuleOf(s, place, d) /\ W[j].holder = Holder(W[j].rule, place, d)
      /\ W[j].id = Append(W[j].holder, d.name)
  BY DeclarationMet
<1>2. s.language \in DOMAIN NodesOf
  BY DEF Walked, WellFormed
<1>3. Handles(s, place, d)
  <2> HIDE DEF d, place
  <2>1. ~Handles(s, place, d) => RuleOf(s, place, d).kind = "none"
    BY Unhandled
  <2> QED BY <1>1, <2>1 DEF TypeKinds
<1>4. LinkedRule(TypeNodes[s.language], place.body, d.node, W[j].rule)
  BY <1>1, <1>3, RuleLinked
<1>5. TypeRule(W[j].rule) /\ place.body = "file" /\ d.node \in TypeNodes[s.language]
  BY <1>4 DEF LinkedRule, TypeRule, MethodRule, Aside, TypeKinds
<1>6. d.up = 0
  BY <1>1, <1>5, BodyIs
<1>7. W[j].holder = <<>>
  BY <1>1, <1>5 DEF TypeRule, Holder
<1>8. s.language \in DOMAIN TypeNodes
  BY Grammars
<1>9. IsType(s, d)
  BY <1>5, <1>6, <1>8 DEF IsType
<1>10. W[j].id = <<d.name>>
  BY <1>1, <1>7
<1> QED BY <1>9, <1>10

(* A rule that links is that of a method; the method stands under one name,  *)
(* which is not missing, or under none.                                      *)
LEMMA MethodMet ==
  ASSUME NEW s, NEW W, Walked(s, W), NEW i \in DOMAIN s.decls,
         Links(W, i) \/ (s.language \in Linking /\ W[i].rule.kind = "method")
  PROVE  /\ s.language \in Linking /\ Links(W, i) /\ Made(W, i)
         /\ W[i].holder = <<>> \/ \E x : x # Unnamed /\ W[i].holder = <<x>>
<1> DEFINE d == s.decls[i]
           place == W[d.up]
<1>1. /\ d.up # 0 => d.up \in DOMAIN s.decls
      /\ W[i].rule = RuleOf(s, place, d) /\ W[i].holder = Holder(W[i].rule, place, d)
  BY DeclarationMet
<1>2. s.language \in DOMAIN NodesOf
  BY DEF Walked, WellFormed
<1>3. s.language \in Linking
  BY <1>1, <1>2, RuleIs DEF Links
<1>4. Handles(s, place, d)
  <2> HIDE DEF d, place
  <2>1. ~Handles(s, place, d) => /\ RuleOf(s, place, d).kind = "none"
                                 /\ RuleOf(s, place, d).member = FALSE
    BY Unhandled
  <2> QED BY <1>1, <1>3, <2>1 DEF Links
<1>5. LinkedRule(TypeNodes[s.language], place.body, d.node, W[i].rule)
  BY <1>1, <1>3, <1>4, RuleLinked
<1>6. /\ MethodRule(W[i].rule)
      /\ W[i].rule.under = "receiver" \/ (W[i].rule.under = "holder" /\ place.body # "file")
  BY <1>5 DEF LinkedRule, TypeRule, Aside, TypeKinds, Plain, Links
<1>7. CASE W[i].rule.under = "receiver"
  BY <1>1, <1>3, <1>6, <1>7 DEF MethodRule, Made, Holder, Links
<1>8. CASE W[i].rule.under = "holder" /\ place.body # "file"
  <2>1. d.up # 0
    BY <1>8 DEF Walked, Root
  <2>2. d.up \in DOMAIN s.decls
    BY <1>1, <2>1
  <2> DEFINE e == s.decls[d.up]
             around == W[e.up]
  <2>3. place.rule = RuleOf(s, around, e) /\ place.body = place.rule.opens
        /\ place.names = Names(s, around, e)
    BY <2>2, DeclarationMet
  <2>4. place.names = <<e.name>>
    BY <1>3, <2>3 DEF Names, Linking
  <2>5. place.body # "closed"
    BY <1>3, <1>4, Grammars DEF LinkedGrammar, Handles
  <2>6. Handles(s, around, e)
    <3> HIDE DEF e, around
    <3>1. ~Handles(s, around, e) => RuleOf(s, around, e).opens = "closed"
      BY Unhandled
    <3> HIDE DEF place
    <3> QED BY <2>3, <2>5, <3>1
  <2>7. e.name # Unnamed
    BY <1>3, <2>6, RuleLinked
  <2>8. W[i].holder = <<e.name>>
    BY <1>1, <1>8, <2>4 DEF Holder
  <2> QED BY <1>3, <1>6, <2>7, <2>8 DEF MethodRule, Made, Links
<1> QED BY <1>6, <1>7, <1>8
(* What declaration i adds.                                                  *)
LEMMA SymbolsAtIs ==
  ASSUME NEW s, NEW W, NEW i, NEW x \in SymbolsAt(s, i, W)
  PROVE  /\ Made(W, i) /\ x.id = W[i].id /\ x.kind = W[i].rule.kind
         /\ x.parent = Nowhere \/ x.parent = W[i].parent
BY DEF SymbolsAt, Made

LEMMA MadeIsRecorded ==
  ASSUME NEW s, NEW W, NEW i, Made(W, i)
  PROVE  \E x \in SymbolsAt(s, i, W) :
           /\ x.id = W[i].id /\ x.kind = W[i].rule.kind
           /\ Parented(W, i) => x.parent = W[i].parent
BY DEF SymbolsAt, Made, Parented

(* The edges of a declaration.                                               *)
Contains(W, i, e) == W[i].rule.edge = "contains" /\ e = <<W[i].parent, W[i].id, "contains">>
Imports(s, W, i, e) ==
  W[i].rule.edge = "imports" /\ e = <<Importer(s, i, W), W[i].id, "imports">>
Inherits(s, W, i, e) ==
  W[i].rule.bases # FALSE /\ e = <<W[i].id, ExternalId(s.decls[i].of), "inherits">>
Knows(s, W, i) ==
  W[i].rule.member # FALSE /\ W[i].holder # <<>> /\ W[i].holder[1] \in TypesKnown(s, i)

LEMMA EdgesAtAre ==
  ASSUME NEW s, NEW W, NEW i, NEW e \in EdgesAt(s, i, W)
  PROVE  \/ Contains(W, i, e) \/ Imports(s, W, i, e) \/ Inherits(s, W, i, e)
         \/ Knows(s, W, i) /\ e = <<W[i].id, W[i].holder, "member_of">>
BY DEF EdgesAt, Contains, Imports, Inherits, Knows

(* The symbols of a tree, and whose they are.                                *)
LEMMA TreeRecords ==
  ASSUME NEW s, NEW W, NEW S, S = AllSymbols(s, W)
  PROVE  /\ FileId \in {x.id : x \in S}
         /\ \A id : In(s, W, id) => id \in {x.id : x \in S}
<1>1. FileSymbol \in S /\ FileSymbol.id = FileId
  BY DEF AllSymbols, FileSymbol
<1>2. ASSUME NEW id, In(s, W, id) PROVE id \in {x.id : x \in S}
  <2>1. PICK i \in DOMAIN s.decls : Made(W, i) /\ W[i].id = id
    BY <1>2 DEF In
  <2>2. PICK x \in SymbolsAt(s, i, W) : x.id = id
    BY <2>1, MadeIsRecorded
  <2>3. x \in S
    BY <2>1, <2>2 DEF AllSymbols
  <2> QED BY <2>2, <2>3
<1> QED BY <1>1, <1>2

LEMMA ParentsRecorded ==
  ASSUME NEW s, NEW W, Walked(s, W), NEW S, S = AllSymbols(s, W), NEW x \in S
  PROVE  x.parent = Nowhere \/ x.parent \in {y.id : y \in S}
<1>1. CASE x = FileSymbol
  BY <1>1 DEF FileSymbol
<1>2. CASE x # FileSymbol
  <2>1. PICK i \in DOMAIN s.decls : x \in SymbolsAt(s, i, W)
    BY <1>2 DEF AllSymbols
  <2>2. W[i].parent = FileId \/ In(s, W, W[i].parent)
    BY <2>1, DeclarationMet DEF Inside
  <2>3. x.parent = Nowhere \/ x.parent = W[i].parent
    BY <2>1, SymbolsAtIs
  <2> QED BY <2>2, <2>3, TreeRecords
<1> QED BY <1>1, <1>2

(* A holder whose type is known in the file is the id of that type.          *)
LEMMA HolderRecorded ==
  ASSUME NEW s, NEW W, Walked(s, W), NEW i \in DOMAIN s.decls, Links(W, i),
         W[i].holder # <<>>, W[i].holder[1] \in TypesKnown(s, i)
  PROVE  \E j \in DOMAIN s.decls :
           /\ W[j].rule.kind \in TypeKinds /\ Parented(W, j)
           /\ W[j].id = W[i].holder /\ W[j].parent = FileId
<1>1. PICK x : x # Unnamed /\ W[i].holder = <<x>>
  BY MethodMet
<1>2. x \in TypesKnown(s, i)
  BY <1>1
<1>3. PICK j \in DOMAIN s.decls : IsType(s, s.decls[j]) /\ s.decls[j].name = x
  BY <1>2 DEF TypesKnown
<1>4. s.decls[j].name # Unnamed
  BY <1>1, <1>3
<1>5. IsType(s, s.decls[j])
  BY <1>3
<1>6. /\ W[j].rule.kind \in TypeKinds /\ Parented(W, j)
      /\ W[j].id = <<s.decls[j].name>> /\ W[j].parent = FileId
  BY <1>4, <1>5, TypeRecorded
<1> QED BY <1>1, <1>3, <1>6

(* What makes an edge or a link makes a symbol.                              *)
LEMMA EdgeMakes ==
  ASSUME NEW s, NEW W, Walked(s, W), NEW i \in DOMAIN s.decls
  PROVE  /\ W[i].rule.member # FALSE <=> Links(W, i)
         /\ W[i].rule.edge # "none" => Made(W, i)
         /\ W[i].rule.bases # FALSE => Made(W, i)
         /\ W[i].rule.member # FALSE => Made(W, i)
<1> DEFINE d == s.decls[i]
           place == W[d.up]
<1>1. W[i].rule = RuleOf(s, place, d)
  BY DeclarationMet
<1>2. s.language \in DOMAIN NodesOf
  BY DEF Walked, WellFormed
<1> HIDE DEF d, place
<1>3. Sane(W[i].rule)
  BY <1>1, <1>2, RuleIs
<1>4. W[i].rule.member \in {TRUE, FALSE}
  <2>1. CASE s.language \notin Linking
    BY <1>1, <1>2, <2>1, RuleIs
  <2>2. CASE ~Handles(s, place, d)
    BY <1>1, <2>2, Unhandled
  <2>3. CASE s.language \in Linking /\ Handles(s, place, d)
    <3>1. LinkedRule(TypeNodes[s.language], place.body, d.node, W[i].rule)
      BY <1>1, <2>3, RuleLinked
    <3> QED BY <3>1 DEF LinkedRule, TypeRule, MethodRule, Aside, Plain
  <2> QED BY <2>1, <2>2, <2>3
<1> QED BY <1>3, <1>4 DEF Sane, Made, Links

(* The greatest of a set of numbers with a bound.                            *)
LEMMA GreatestOf ==
  ASSUME NEW n \in Nat, NEW K, K \subseteq 0 .. n, K # {}
  PROVE  \E k \in K : \A j \in K : j <= k
<1> DEFINE D == {n - k : k \in K}
<1>1. D \subseteq Nat
  OBVIOUS
<1>2. D # {}
  OBVIOUS
<1> HIDE DEF D
<1>3. PICK d \in D : \A e \in D : d <= e
  BY <1>1, <1>2, LeastOf
<1>4. PICK k \in K : d = n - k
  BY DEF D
<1>5. \A j \in K : n - k <= n - j
  BY <1>3, <1>4 DEF D
<1>6. \A j \in K : j <= k
  BY <1>5
<1> QED BY <1>6

(* A call goes to a symbol, or out of the file.                              *)
LEMMA TargetRecorded ==
  ASSUME NEW s, NEW W, Walked(s, W), NEW name
  PROVE  Target(s, W, name) = ExternalId(name) \/ In(s, W, Target(s, W, name))
<1> DEFINE named == {i \in DOMAIN s.decls : W[i].rule.kind # "none" /\ s.decls[i].name = name}
           imported == {i \in named : s.decls[i].node = "Import"}
           last == IF imported # {} THEN imported ELSE named
           greatest == CHOOSE i \in last : \A j \in last : j <= i
<1>1. Target(s, W, name) = IF named = {} THEN ExternalId(name) ELSE W[greatest].id
  BY DEF Target
<1>2. CASE named = {}
  BY <1>1, <1>2
<1>3. CASE named # {}
  <2>1. Len(s.decls) \in Nat /\ named \subseteq 0 .. Len(s.decls)
    BY DEF Walked, WellFormed
  <2>2. last \subseteq named /\ last # {}
    BY <1>3
  <2> HIDE DEF last
  <2>3. \E i \in last : \A j \in last : j <= i
    BY <2>1, <2>2, GreatestOf
  <2>4. greatest \in last
    BY <2>3
  <2>5. greatest \in named
    BY <2>2, <2>4
  <2>6. In(s, W, W[greatest].id)
    <3> HIDE DEF greatest
    <3> QED BY <2>5 DEF In, Made
  <2> QED BY <1>1, <1>3, <2>6
<1> QED BY <1>2, <1>3

(* Both ends of an edge of the tree.                                         *)
Ends(s, W, e) ==
  /\ e[1] = FileId \/ In(s, W, e[1])
  /\ \/ e[2] = FileId \/ In(s, W, e[2])
     \/ e[3] \in {"calls", "inherits"} /\ e[2][1] = "__external__"

LEMMA CallsRecorded ==
  ASSUME NEW s, NEW W, Walked(s, W), NEW e \in CallsIn(s, W)
  PROVE  Ends(s, W, e) /\ e[3] = "calls"
<1>1. PICK i \in DOMAIN s.decls :
        W[i].within # Nowhere /\ e = <<W[i].within, Target(s, W, s.decls[i].name), "calls">>
  BY DEF CallsIn
<1>2. In(s, W, W[i].within)
  BY <1>1, DeclarationMet DEF Inside
<1> DEFINE target == Target(s, W, s.decls[i].name)
<1>3. target = ExternalId(s.decls[i].name) \/ In(s, W, target)
  BY TargetRecorded
<1>4. e[1] = W[i].within /\ e[2] = target /\ e[3] = "calls"
  BY <1>1
<1> HIDE DEF target
<1>5. target = ExternalId(s.decls[i].name) => target[1] = "__external__"
  BY DEF ExternalId
<1> QED BY <1>2, <1>3, <1>4, <1>5 DEF Ends

LEMMA EdgesRecorded ==
  ASSUME NEW s, NEW W, Walked(s, W), NEW i \in DOMAIN s.decls, NEW e \in EdgesAt(s, i, W)
  PROVE  Ends(s, W, e)
<1>1. W[i].parent = FileId \/ In(s, W, W[i].parent)
  BY DeclarationMet DEF Inside
<1>2. Made(W, i) => In(s, W, W[i].id)
  BY DEF In
<1>3. CASE Contains(W, i, e)
  <2>1. Made(W, i)
    BY <1>3, EdgeMakes DEF Contains
  <2> QED BY <1>1, <1>2, <1>3, <2>1 DEF Ends, Contains
<1>4. CASE Imports(s, W, i, e)
  <2>1. Made(W, i)
    BY <1>4, EdgeMakes DEF Imports
  <2>2. Importer(s, i, W) = FileId \/ In(s, W, Importer(s, i, W))
    BY <1>1 DEF Importer
  <2> QED BY <1>2, <1>4, <2>1, <2>2 DEF Ends, Imports
<1>5. CASE Inherits(s, W, i, e)
  <2>1. Made(W, i)
    BY <1>5, EdgeMakes DEF Inherits
  <2>2. e[1] = W[i].id /\ e[3] = "inherits" /\ e[2][1] = "__external__"
    BY <1>5 DEF ExternalId, Inherits
  <2> QED BY <1>2, <2>1, <2>2 DEF Ends
<1>6. CASE Knows(s, W, i) /\ e = <<W[i].id, W[i].holder, "member_of">>
  <2>1. Made(W, i) /\ Links(W, i)
    BY <1>6, EdgeMakes DEF Knows
  <2>2. PICK j \in DOMAIN s.decls : W[j].rule.kind \in TypeKinds /\ W[j].id = W[i].holder
    BY <1>6, <2>1, HolderRecorded DEF Knows
  <2>3. In(s, W, W[i].holder)
    BY <2>2 DEF In, Made, TypeKinds
  <2> QED BY <1>2, <1>6, <2>1, <2>3 DEF Ends
<1> QED BY <1>3, <1>4, <1>5, <1>6, EdgesAtAre

-----------------------------------------------------------------------------
(* FileGraphSound of a tree.                                                 *)

(* The first of two names.                                                   *)
LEMMA FirstOfTwo ==
  ASSUME NEW h, NEW name
  PROVE  Append(<<h>>, name) = <<h, name>> /\ SubSeq(<<h, name>>, 1, 1) = <<h>>
<1> DEFINE S == {h, name}
           two == <<h, name>>
<1>1. Append(<<h>>, name) = two
  <2>1. <<h>> \in Seq(S) /\ Len(<<h>>) = 1 /\ <<h>>[1] = h
    OBVIOUS
  <2> DEFINE both == Append(<<h>>, name)
             one == <<h>>
  <2>2. one \in Seq(S) /\ name \in S /\ Len(one) = 1 /\ one[1] = h
    BY <2>1
  <2> HIDE DEF one
  <2>3. /\ both \in Seq(S) /\ Len(both) = 2 /\ both[2] = name
        /\ \A i \in 1 .. 1 : both[i] = one[i]
    BY <2>2, AppendProperties
  <2>4. two \in Seq(S) /\ Len(two) = 2 /\ two[1] = h /\ two[2] = name
    OBVIOUS
  <2>5. both[1] = h
    BY <2>2, <2>3
  <2> HIDE DEF both, two
  <2>6. \A i \in 1 .. 2 : i = 1 \/ i = 2
    OBVIOUS
  <2>7. \A i \in 1 .. Len(both) : both[i] = two[i]
    BY <2>3, <2>4, <2>5, <2>6
  <2>8. both = two
    BY <2>3, <2>4, <2>7, SeqEqual
  <2> QED BY <2>8 DEF both, one
<1>2. two \in Seq(S) /\ Len(two) = 2 /\ two[1] = h
  OBVIOUS
<1> HIDE DEF two
<1>3. \A i \in 1 .. 1 : two[i] \in {h}
  BY <1>2
<1>4. SubSeq(two, 1, 1) \in Seq({h}) /\ Len(SubSeq(two, 1, 1)) = 1
      /\ SubSeq(two, 1, 1)[1] = h
  BY <1>2, <1>3, SubSeqProperties
<1>5. SubSeq(two, 1, 1) = <<h>>
  <2> DEFINE first == SubSeq(two, 1, 1)
             one == <<h>>
  <2>1. one \in Seq({h}) /\ Len(one) = 1 /\ one[1] = h
    OBVIOUS
  <2>2. first \in Seq({h}) /\ Len(first) = 1 /\ first[1] = h
    BY <1>4
  <2> HIDE DEF first, one
  <2>3. \A i \in 1 .. Len(first) : first[i] = one[i]
    BY <2>1, <2>2
  <2>4. first = one
    BY <2>1, <2>2, <2>3, SeqEqual
  <2> QED BY <2>4 DEF first, one
<1> QED BY <1>1, <1>5 DEF two

(* A method stands under one name and is linked to it when, and only when,   *)
(* that is the name of a type of the file.                                   *)
Stands(W, i, x, h) ==
  /\ x.id = W[i].id /\ Links(W, i) /\ W[i].holder = <<h>>
  /\ SubSeq(x.id, 1, 1) = <<h>>

LEMMA MethodUnder ==
  ASSUME NEW s, NEW W, Walked(s, W), s.language \in Linking, NEW x \in AllSymbols(s, W),
         x.kind = "method", Len(x.id) = 2
  PROVE  \E i \in DOMAIN s.decls : \E h : Stands(W, i, x, h)
<1>1. x # FileSymbol
  BY DEF FileSymbol
<1>2. PICK i \in DOMAIN s.decls : x \in SymbolsAt(s, i, W)
  BY <1>1 DEF AllSymbols
<1>3. x.id = W[i].id /\ W[i].rule.kind = "method"
  BY <1>2, SymbolsAtIs
<1>4. Links(W, i) /\ (W[i].holder = <<>> \/ \E h : W[i].holder = <<h>>)
  BY <1>3, MethodMet
<1>5. x.id = Append(W[i].holder, s.decls[i].name)
  BY <1>3, DeclarationMet
<1>6. W[i].holder # <<>>
  <2> DEFINE name == s.decls[i].name
  <2>1. Len(Append(<<>>, name)) = 1
    OBVIOUS
  <2> QED BY <1>5, <2>1
<1>7. PICK h : W[i].holder = <<h>>
  BY <1>4, <1>6
<1>8. SubSeq(x.id, 1, 1) = <<h>>
  <2> DEFINE name == s.decls[i].name
  <2> HIDE DEF name
  <2>1. x.id = Append(<<h>>, name)
    BY <1>5, <1>7 DEF name
  <2>2. Append(<<h>>, name) = <<h, name>> /\ SubSeq(<<h, name>>, 1, 1) = <<h>>
    BY FirstOfTwo
  <2> QED BY <2>1, <2>2
<1>9. Stands(W, i, x, h)
  BY <1>3, <1>4, <1>7, <1>8 DEF Stands
<1> QED BY <1>9

(* The types at the root of the file are those collected before the walk.    *)
RootIds(S) == {x.id : x \in {x \in S : x.parent = FileId /\ x.kind \in TypeKinds}}

LEMMA RootsAreKnown ==
  ASSUME NEW s, NEW W, Walked(s, W), s.language \in Linking, NEW i,
         NEW h, <<h>> \in RootIds(AllSymbols(s, W))
  PROVE  h \in TypesKnown(s, i)
<1>1. PICK x \in AllSymbols(s, W) : x.id = <<h>> /\ x.kind \in TypeKinds
  BY DEF RootIds
<1>2. x # FileSymbol
  BY <1>1 DEF FileSymbol, TypeKinds
<1>3. PICK j \in DOMAIN s.decls : x \in SymbolsAt(s, j, W)
  BY <1>2 DEF AllSymbols
<1>4. x.id = W[j].id /\ W[j].rule.kind \in TypeKinds
  BY <1>1, <1>3, SymbolsAtIs
<1>5. IsType(s, s.decls[j]) /\ W[j].id = <<s.decls[j].name>>
  BY <1>4, TypeFound
<1>6. h = s.decls[j].name
  BY <1>1, <1>4, <1>5
<1> QED BY <1>5, <1>6 DEF TypesKnown

LEMMA KnownAreRoots ==
  ASSUME NEW s, NEW W, Walked(s, W), NEW i \in DOMAIN s.decls, Knows(s, W, i)
  PROVE  W[i].holder \in RootIds(AllSymbols(s, W))
<1>1. Links(W, i)
  BY EdgeMakes DEF Knows
<1>2. PICK j \in DOMAIN s.decls :
        /\ W[j].rule.kind \in TypeKinds /\ Parented(W, j)
        /\ W[j].id = W[i].holder /\ W[j].parent = FileId
  BY <1>1, HolderRecorded DEF Knows
<1>3. Made(W, j)
  BY <1>2 DEF Made, TypeKinds
<1>4. PICK x \in SymbolsAt(s, j, W) :
        x.id = W[j].id /\ x.kind = W[j].rule.kind /\ x.parent = W[j].parent
  BY <1>2, <1>3, MadeIsRecorded
<1>5. x \in AllSymbols(s, W)
  BY <1>4 DEF AllSymbols
<1> QED BY <1>2, <1>4, <1>5 DEF RootIds

LEMMA LinksExact ==
  ASSUME NEW s, NEW W, Walked(s, W), s.language \in Linking, NEW x \in AllSymbols(s, W),
         x.kind = "method", Len(x.id) = 2
  PROVE  (SubSeq(x.id, 1, 1) \in RootIds(AllSymbols(s, W)))
           <=> (<<x.id, SubSeq(x.id, 1, 1), "member_of">> \in AllEdges(s, W))
<1> DEFINE of == SubSeq(x.id, 1, 1)
           e == <<x.id, of, "member_of">>
<1>1. ASSUME of \in RootIds(AllSymbols(s, W)) PROVE e \in AllEdges(s, W)
  <2>1. PICK i \in DOMAIN s.decls : \E h : Stands(W, i, x, h)
    BY MethodUnder
  <2>5. PICK h : Stands(W, i, x, h)
    BY <2>1
  <2>6. x.id = W[i].id /\ Links(W, i) /\ W[i].holder = <<h>> /\ of = <<h>>
    BY <2>5 DEF Stands
  <2>2. h \in TypesKnown(s, i)
    BY <1>1, <2>6, RootsAreKnown
  <2>3. e = <<W[i].id, W[i].holder, "member_of">> /\ W[i].holder # <<>> /\ W[i].holder[1] = h
    BY <2>6
  <2>4. e \in EdgesAt(s, i, W)
    BY <2>6, <2>2, <2>3 DEF EdgesAt, Links
  <2> QED BY <2>4 DEF AllEdges
<1>2. ASSUME e \in AllEdges(s, W) PROVE of \in RootIds(AllSymbols(s, W))
  <2>1. e[2] = of /\ e[3] = "member_of"
    OBVIOUS
  <2> HIDE DEF e
  <2>2. e \notin CallsIn(s, W)
    BY <2>1, CallsRecorded
  <2>3. PICK i \in DOMAIN s.decls : e \in EdgesAt(s, i, W)
    BY <1>2, <2>2 DEF AllEdges
  <2>4. Knows(s, W, i) /\ e = <<W[i].id, W[i].holder, "member_of">>
    <3>1. ~Contains(W, i, e)
      BY <2>1 DEF Contains
    <3>2. ~Imports(s, W, i, e)
      BY <2>1 DEF Imports
    <3>3. ~Inherits(s, W, i, e)
      <4>1. \A a, b : e = <<a, b, "inherits">> => e[3] = "inherits"
        OBVIOUS
      <4>2. "inherits" # "member_of"
        OBVIOUS
      <4>3. \A a, b : e # <<a, b, "inherits">>
        BY <2>1, <4>1, <4>2
      <4> QED BY <4>3, Zenon DEF Inherits
    <3> QED BY <2>3, <3>1, <3>2, <3>3, EdgesAtAre
  <2>5. of = W[i].holder
    BY <2>1, <2>4
  <2> QED BY <2>4, <2>5, KnownAreRoots
<1> QED BY <1>1, <1>2

(* What the assumption on the sources says of one.                           *)
LEMMA SourcesAreWellFormed ==
  ASSUME NEW s \in SourceCodes
  PROVE  WellFormed(s) /\ Walked(s, Walk(s))
<1>1. WellFormed(s)
  <2>1. s.language \in DOMAIN NodesOf
        /\ s.decls \in Seq([node : STRING, name : STRING, up : Nat, of : STRING])
        /\ \A i \in DOMAIN s.decls : s.decls[i].up < i
    BY SourceCodesAssumption
  <2>2. Len(s.decls) \in Nat /\ DOMAIN s.decls = 1 .. Len(s.decls)
    BY <2>1
  <2>3. ASSUME NEW i \in DOMAIN s.decls PROVE s.decls[i].up \in 0 .. i - 1
    <3> DEFINE Decl == [node : STRING, name : STRING, up : Nat, of : STRING]
               decls == s.decls
    <3>2. decls \in Seq(Decl) /\ i \in 1 .. Len(decls)
      BY <2>1, <2>2
    <3>1. decls[i] \in Decl
      <4> HIDE DEF decls, Decl
      <4> QED BY <3>2, ElementOfSeq
    <3>3. s.decls[i].up \in Nat
      BY <3>1
    <3> QED BY <2>1, <2>2, <3>3
  <2> QED BY <2>1, <2>2, <2>3 DEF WellFormed
<1>2. IsWalk(s, Len(s.decls), Walk(s))
  BY <1>1, WalkIs
<1>3. Len(s.decls) \in 0 .. Len(s.decls) /\ DOMAIN s.decls = 1 .. Len(s.decls)
  BY <1>1 DEF WellFormed
<1>4. Walk(s)[0] = Root
      /\ \A i \in 1 .. Len(s.decls) :
           Walk(s)[i] = VisitNode(s, Walk(s)[s.decls[i].up], s.decls[i])
  BY <1>1, <1>2, <1>3, WalkAt
<1> QED BY <1>1, <1>3, <1>4 DEF Walked

-----------------------------------------------------------------------------
(* What a parser has returned: nothing, or the tree of its source.           *)
SyntaxInv ==
  /\ source \in SourceCodes
  /\ \/ symbols = {} /\ relationships = {}
     \/ symbols = AllSymbols(source, Walk(source))
        /\ relationships = AllEdges(source, Walk(source))

LEMMA SyntaxInductive ==
  /\ SyntaxInit => SyntaxInv
  /\ SyntaxInv /\ [SyntaxNext]_parserVars => SyntaxInv'
<1>1. SyntaxInit => SyntaxInv
  BY DEF SyntaxInit, SyntaxInv
<1>2. ASSUME SyntaxInv, LoadGrammar PROVE SyntaxInv'
  BY <1>2 DEF SyntaxInv, LoadGrammar
<1>3. ASSUME SyntaxInv, ParseEmpty \/ ParseUnavailable \/ ParseRaises PROVE SyntaxInv'
  BY <1>3 DEF SyntaxInv, ParseEmpty, ParseUnavailable, ParseRaises, Returns
<1>4. ASSUME SyntaxInv, ParseTree PROVE SyntaxInv'
  BY <1>4 DEF SyntaxInv, ParseTree, Returns
<1>5. ASSUME SyntaxInv, UNCHANGED parserVars PROVE SyntaxInv'
  BY <1>5 DEF SyntaxInv, parserVars
<1> QED BY <1>1, <1>2, <1>3, <1>4, <1>5 DEF SyntaxNext

LEMMA SyntaxSound == SyntaxInv => FileGraphSound
<1> SUFFICES ASSUME SyntaxInv PROVE FileGraphSound
  OBVIOUS
<1> DEFINE W == Walk(source)
<1>1. Walked(source, W)
  BY SourcesAreWellFormed DEF SyntaxInv
<1> HIDE DEF W
<1>2. CASE symbols = {} /\ relationships = {}
  BY <1>2 DEF FileGraphSound, EndsRecorded, MembersLinked
<1>3. CASE symbols = AllSymbols(source, W) /\ relationships = AllEdges(source, W)
  <2>1. FileId \in Recorded /\ \A id : In(source, W, id) => id \in Recorded
    BY <1>3, TreeRecords DEF Recorded
  <2>2. \A x \in symbols : x.parent = Nowhere \/ x.parent \in Recorded
    BY <1>1, <1>3, ParentsRecorded DEF Recorded
  <2>3. ASSUME NEW e \in relationships PROVE Ends(source, W, e)
    <3>1. e \in CallsIn(source, W) \/ \E i \in DOMAIN source.decls : e \in EdgesAt(source, i, W)
      BY <1>3 DEF AllEdges
    <3> QED BY <1>1, <3>1, CallsRecorded, EdgesRecorded
  <2>4. EndsRecorded
    BY <2>1, <2>2, <2>3 DEF EndsRecorded, Ends
  <2>5. RootTypes = RootIds(symbols)
    BY DEF RootTypes, RootIds, TypeKinds
  <2>6. MembersLinked
    <3> SUFFICES ASSUME source.language \in Linking, NEW x \in symbols, x.kind = "method",
                        Len(x.id) = 2
                 PROVE  (SubSeq(x.id, 1, 1) \in RootTypes)
                          <=> (<<x.id, SubSeq(x.id, 1, 1), "member_of">> \in relationships)
      BY DEF MembersLinked, Linking
    <3> QED BY <1>1, <1>3, <2>5, LinksExact
  <2> QED BY <2>4, <2>6 DEF FileGraphSound
<1> QED BY <1>2, <1>3 DEF SyntaxInv, W

(* Whatever stands in a file and in whatever order, what a parser returns    *)
(* for it is a graph of its own: parents and both ends of an edge are        *)
(* recorded, and a method of Go or Rust is linked to its type exactly when   *)
(* the file has that type.                                                   *)
THEOREM FileGraphs == SyntaxSpec => []FileGraphSound
<1>1. SyntaxInit => SyntaxInv
  BY SyntaxInductive
<1>2. SyntaxInv /\ [SyntaxNext]_parserVars => SyntaxInv'
  BY SyntaxInductive
<1>3. SyntaxInv => FileGraphSound
  BY SyntaxSound
<1> QED BY <1>1, <1>2, <1>3, PTL DEF SyntaxSpec

----------------------------------------------------------------------------
(* The memories.                                                           *)

(* A commit of a session leaves a status as it is or makes it stale.       *)
LEMMA CommitRetires ==
  ASSUME NEW s, NEW id \in DOMAIN memories, NEW row,
         \/ row = Touched(s, id)
         \/ \E v : row = Stale(memories[id], v),
         memories[id].status \notin Live
  PROVE  row.status \notin Live
<1>1. CASE row = Touched(s, id)
  BY <1>1 DEF Touched, Used, Updated
<1>2. CASE \E v : row = Stale(memories[id], v)
  BY <1>2 DEF Stale, Updated, Live
<1> QED BY <1>1, <1>2

(* However sessions of the memory routes and of contexts under way overlap *)
(* and whatever runs and goals leave meanwhile, no retired memory comes    *)
(* back into use.                                                          *)
THEOREM Retired == AgentContextSpec => RetiredStaysRetired
<1> DEFINE Kept == \A id \in DOMAIN memories \intersect DOMAIN memories' :
                     memories[id].status \notin Live => memories'[id].status \notin Live
<1>1. ASSUME [AgentContextNext]_contextVars PROVE [Kept]_contextVars
  <2>1. CASE CreateMemory
    BY <2>1 DEF CreateMemory
  <2>2. ASSUME NEW s \in Sessions, RetireNamed(s) PROVE Kept
    <3>1. \A id \in DOMAIN memories \intersect DOMAIN memories' :
            memories'[id] = memories[id] \/ \E v : memories'[id] = Stale(memories[id], v)
      BY <2>2 DEF RetireNamed, Set
    <3> QED BY <3>1, CommitRetires
  <2>3. ASSUME NEW s \in Sessions, UpdateMemory(s) PROVE Kept
    <3>1. \A id \in DOMAIN memories \intersect DOMAIN memories' :
            memories'[id] = memories[id] \/ \E v : memories'[id] = Stale(memories[id], v)
      BY <2>3 DEF UpdateMemory, Set
    <3> QED BY <3>1, CommitRetires
  <2>4. ASSUME NEW s \in Sessions, NoteUse(s) \/ ReturnMemories(s) PROVE Kept
    <3>1. \A id \in DOMAIN memories \intersect DOMAIN memories' :
            memories'[id] = memories[id] \/ memories'[id] = Touched(s, id)
      BY <2>4 DEF NoteUse, ReturnMemories, Set
    <3> QED BY <3>1, CommitRetires
  <2>5. ASSUME NEW s \in Sessions, DeleteMemory(s) PROVE Kept
    BY <2>5 DEF DeleteMemory
  <2>6. ASSUME UNCHANGED memories PROVE Kept
    BY <2>6
  <2>7. CASE \E r \in toPromote.runs : PromoteRun(r)
    BY <2>6, <2>7 DEF PromoteRun
  <2>8. CASE \E g \in toPromote.goals : PromoteGoal(g)
    BY <2>6, <2>8 DEF PromoteGoal
  <2>9. ASSUME NEW s \in Sessions,
               \/ SelectNamed(s) \/ GetMemory(s) \/ RereadMemory(s)
               \/ SelectDeleted(s) \/ SelectMemories(s)
        PROVE  Kept
    BY <2>6, <2>9 DEF SelectNamed, GetMemory, RereadMemory, SelectDeleted, SelectMemories
  <2>10. CASE BeginContext \/ ReadHistory \/ MemoriesFail \/ ReadGraphs \/ ChooseItems
    BY <2>6, <2>10 DEF BeginContext, ReadHistory, MemoriesFail, ReadGraphs, ChooseItems
  <2>11. CASE UNCHANGED contextVars
    BY <2>11
  <2> HIDE DEF Kept
  <2> QED BY <1>1, <2>1, <2>2, <2>3, <2>4, <2>5, <2>7, <2>8, <2>9, <2>10, <2>11
          DEF AgentContextNext
<1> QED BY <1>1, PTL DEF AgentContextSpec, RetiredStaysRetired
-----------------------------------------------------------------------------
(* Sums of numbers.                                                        *)

Sums(f, n, s) == s = [i \in 0 .. n |-> IF i = 0 THEN 0 ELSE s[i - 1] + f[i]]

LEMMA SumsExist ==
  ASSUME NEW f
  PROVE  \A n \in Nat : \E s : Sums(f, n, s)
<1> DEFINE Bad == {n \in Nat : ~ \E s : Sums(f, n, s)}
<1> SUFFICES ASSUME Bad # {} PROVE FALSE
  OBVIOUS
<1>1. PICK m \in Bad : \A j \in Bad : m <= j
  BY LeastOf
<1>2. CASE m = 0
  <2> DEFINE none == [i \in 0 .. 0 |-> 0]
  <2>1. Sums(f, 0, none)
    BY DEF Sums
  <2> QED BY <1>1, <1>2, <2>1
<1>3. CASE m # 0
  <2>1. m \in Nat /\ m - 1 \in Nat /\ m - 1 \notin Bad
    BY <1>1, <1>3
  <2>2. PICK s : Sums(f, m - 1, s)
    BY <2>1
  <2> DEFINE more == [i \in 0 .. m |-> IF i = m THEN s[m - 1] + f[m] ELSE s[i]]
  <2>3. ASSUME NEW i \in 0 .. m
        PROVE  more[i] = IF i = 0 THEN 0 ELSE more[i - 1] + f[i]
    <3>1. CASE i = m
      <4>1. more[i] = s[m - 1] + f[m] /\ more[i - 1] = s[m - 1]
        BY <1>3, <2>1, <3>1
      <4> QED BY <1>3, <3>1, <4>1
    <3>2. CASE i # m
      <4>1. i \in 0 .. m - 1 /\ more[i] = s[i]
        BY <2>1, <3>2
      <4>2. s[i] = IF i = 0 THEN 0 ELSE s[i - 1] + f[i]
        BY <2>2, <4>1 DEF Sums
      <4>3. i # 0 => more[i - 1] = s[i - 1]
        BY <2>1, <4>1
      <4> QED BY <4>1, <4>2, <4>3
    <3> QED BY <3>1, <3>2
  <2>4. Sums(f, m, more)
    BY <2>3 DEF Sums
  <2> QED BY <1>1, <2>4
<1> QED BY <1>2, <1>3

LEMMA SumIs ==
  ASSUME NEW f, NEW n \in Nat
  PROVE  \E s : Sums(f, n, s) /\ SumOf(f, n) = s[n]
<1> DEFINE s == CHOOSE F : Sums(f, n, F)
<1>1. Sums(f, n, s)
  BY SumsExist
<1>2. SumOf(f, n) = s[n]
  BY DEF SumOf, Sums
<1> QED BY <1>1, <1>2

LEMMA SumAt ==
  ASSUME NEW f, NEW n \in Nat, NEW s, Sums(f, n, s), NEW i \in 0 .. n
  PROVE  s[i] = IF i = 0 THEN 0 ELSE s[i - 1] + f[i]
BY DEF Sums

(* The sum of the same numbers is the same.                                *)
LEMMA SumsAgree ==
  ASSUME NEW f, NEW m \in Nat, NEW s, Sums(f, m, s),
         NEW g, NEW n \in Nat, NEW t, Sums(g, n, t),
         NEW k \in Nat, k <= m, k <= n, \A i \in 1 .. k : f[i] = g[i]
  PROVE  s[k] = t[k]
<1> DEFINE Bad == {i \in 0 .. k : s[i] # t[i]}
<1> SUFFICES ASSUME Bad # {} PROVE FALSE
  OBVIOUS
<1>1. PICK b \in Bad : \A i \in Bad : b <= i
  <2>1. Bad \subseteq Nat
    OBVIOUS
  <2> HIDE DEF Bad
  <2> QED BY <2>1, LeastOf
<1>2. b \in 0 .. k /\ b \in 0 .. m /\ b \in 0 .. n /\ s[b] # t[b]
  BY <1>1
<1>3. s[b] = IF b = 0 THEN 0 ELSE s[b - 1] + f[b]
  BY <1>2, SumAt
<1>4. t[b] = IF b = 0 THEN 0 ELSE t[b - 1] + g[b]
  BY <1>2, SumAt
<1>5. b # 0
  BY <1>2, <1>3, <1>4
<1>6. b - 1 \in 0 .. k /\ b - 1 \notin Bad /\ b \in 1 .. k
  BY <1>1, <1>2, <1>5
<1>7. s[b - 1] = t[b - 1] /\ f[b] = g[b]
  BY <1>6
<1> QED BY <1>2, <1>3, <1>4, <1>5, <1>7

LEMMA SumSame ==
  ASSUME NEW f, NEW g, NEW n \in Nat, \A i \in 1 .. n : f[i] = g[i]
  PROVE  SumOf(f, n) = SumOf(g, n)
<1>1. PICK s : Sums(f, n, s) /\ SumOf(f, n) = s[n]
  BY SumIs
<1>2. PICK t : Sums(g, n, t) /\ SumOf(g, n) = t[n]
  BY SumIs
<1>3. s[n] = t[n]
  BY <1>1, <1>2, SumsAgree
<1> QED BY <1>1, <1>2, <1>3

LEMMA SumNext ==
  ASSUME NEW f, NEW n \in Nat
  PROVE  SumOf(f, 0) = 0 /\ SumOf(f, n + 1) = SumOf(f, n) + f[n + 1]
<1>1. PICK z : Sums(f, 0, z) /\ SumOf(f, 0) = z[0]
  BY SumIs
<1>2. z[0] = 0
  BY <1>1 DEF Sums
<1>3. n + 1 \in Nat /\ n + 1 \in 0 .. n + 1 /\ n + 1 # 0 /\ (n + 1) - 1 = n /\ n <= n + 1
  OBVIOUS
<1>4. PICK s : Sums(f, n, s) /\ SumOf(f, n) = s[n]
  BY SumIs
<1>5. PICK t : Sums(f, n + 1, t) /\ SumOf(f, n + 1) = t[n + 1]
  BY <1>3, SumIs
<1>6. t[n + 1] = IF n + 1 = 0 THEN 0 ELSE t[(n + 1) - 1] + f[n + 1]
  BY <1>3, <1>5, SumAt
<1>7. s[n] = t[n]
  BY <1>3, <1>4, <1>5, SumsAgree
<1> QED BY <1>1, <1>2, <1>3, <1>4, <1>5, <1>6, <1>7

LEMMA SumNat ==
  ASSUME NEW f, NEW n \in Nat, \A i \in 1 .. n : f[i] \in Nat
  PROVE  SumOf(f, n) \in Nat
<1>1. PICK s : Sums(f, n, s) /\ SumOf(f, n) = s[n]
  BY SumIs
<1> DEFINE Bad == {i \in 0 .. n : s[i] \notin Nat}
<1>2. Bad = {}
  <2> SUFFICES ASSUME Bad # {} PROVE FALSE
    OBVIOUS
  <2>1. PICK b \in Bad : \A i \in Bad : b <= i
    <3>1. Bad \subseteq Nat
      OBVIOUS
    <3> HIDE DEF Bad
    <3> QED BY <3>1, LeastOf
  <2>2. b \in 0 .. n /\ s[b] \notin Nat
    BY <2>1
  <2>3. s[b] = IF b = 0 THEN 0 ELSE s[b - 1] + f[b]
    BY <1>1, <2>2, SumAt
  <2>4. b # 0
    BY <2>2, <2>3
  <2>5. b - 1 \in 0 .. n /\ b - 1 \notin Bad /\ b \in 1 .. n
    BY <2>1, <2>2, <2>4
  <2> QED BY <2>2, <2>3, <2>4, <2>5
<1> QED BY <1>1, <1>2

-----------------------------------------------------------------------------
(* Lists of items.                                                         *)

(* A list of something, and one with no text twice.                        *)
IsList(c) == c \in Seq({c[i] : i \in DOMAIN c})
Distinct(c) == \A i, j \in DOMAIN c : c[i].text = c[j].text => i = j

LEMMA ListHas ==
  ASSUME NEW c, IsList(c)
  PROVE  Len(c) \in Nat /\ DOMAIN c = 1 .. Len(c) /\ c = [i \in 1 .. Len(c) |-> c[i]]
BY LenProperties DEF IsList

LEMMA ListIs ==
  ASSUME NEW n \in Nat, NEW c, c = [i \in 1 .. n |-> c[i]]
  PROVE  IsList(c) /\ Len(c) = n /\ DOMAIN c = 1 .. n
<1> DEFINE S == {c[i] : i \in DOMAIN c}
<1>1. DOMAIN c = 1 .. n
  OBVIOUS
<1>2. c \in [1 .. n -> S]
  BY <1>1
<1> HIDE DEF S
<1>3. c \in Seq(S)
  BY <1>2, SeqDef
<1>4. Len(c) = n
  BY <1>1, <1>3, LenProperties
<1> QED BY <1>1, <1>3, <1>4 DEF IsList, S

LEMMA ListAppend ==
  ASSUME NEW c, IsList(c), NEW x
  PROVE  /\ IsList(Append(c, x)) /\ Len(Append(c, x)) = Len(c) + 1
         /\ DOMAIN Append(c, x) = 1 .. Len(c) + 1
         /\ \A i \in 1 .. Len(c) : Append(c, x)[i] = c[i]
         /\ Append(c, x)[Len(c) + 1] = x
         /\ SubSeq(Append(c, x), 1, Len(c)) = c
<1> DEFINE S == {c[i] : i \in DOMAIN c} \union {x}
           d == Append(c, x)
<1>1. x \in S
  OBVIOUS
<1>2. c \in Seq(S)
  <2> DEFINE T == {c[i] : i \in DOMAIN c}
  <2>1. c \in Seq(T) /\ T \subseteq S
    BY DEF IsList
  <2> HIDE DEF T, S
  <2>2. c \in [1 .. Len(c) -> T] /\ Len(c) \in Nat
    BY <2>1, LenProperties
  <2>3. c \in [1 .. Len(c) -> S]
    BY <2>1, <2>2
  <2> QED BY <2>2, <2>3, SeqDef
<1> HIDE DEF S
<1>3. /\ d \in Seq(S) /\ Len(d) = Len(c) + 1 /\ d[Len(c) + 1] = x
      /\ \A i \in 1 .. Len(c) : d[i] = c[i]
  BY <1>1, <1>2, AppendProperties
<1>4. Len(c) \in Nat /\ DOMAIN c = 1 .. Len(c)
  BY ListHas
<1>5. DOMAIN d = 1 .. Len(c) + 1 /\ d \in [1 .. Len(c) + 1 -> S]
  BY <1>3, LenProperties
<1>6. IsList(d)
  <2>1. d = [i \in 1 .. Len(c) + 1 |-> d[i]]
    BY <1>5
  <2> HIDE DEF d
  <2> QED BY <1>4, <2>1, ListIs
<1>7. SubSeq(d, 1, Len(c)) = c
  <2> DEFINE e == SubSeq(d, 1, Len(c))
  <2> HIDE DEF d
  <2>1. \A i \in 1 .. Len(c) : d[i] \in S
    BY <1>4, <1>5
  <2>2. Len(c) <= Len(d)
    BY <1>3, <1>4
  <2>3. /\ e \in Seq(S) /\ Len(e) = Len(c)
        /\ \A i \in 1 .. Len(c) : e[i] = d[i]
    BY <1>3, <1>4, <2>1, <2>2, SubSeqProperties
  <2>4. \A i \in 1 .. Len(e) : e[i] = c[i]
    BY <1>3, <2>3
  <2> HIDE DEF e
  <2>5. e = c
    BY <1>2, <2>3, <2>4, SeqEqual
  <2> QED BY <2>5 DEF e
<1> QED BY <1>3, <1>5, <1>6, <1>7

LEMMA ListConcat ==
  ASSUME NEW c, IsList(c), NEW d, IsList(d)
  PROVE  /\ IsList(c \o d) /\ Len(c \o d) = Len(c) + Len(d)
         /\ \A i \in DOMAIN (c \o d) : \/ \E j \in DOMAIN c : (c \o d)[i] = c[j]
                                       \/ \E j \in DOMAIN d : (c \o d)[i] = d[j]
<1> DEFINE C == {c[i] : i \in DOMAIN c}
           D == {d[i] : i \in DOMAIN d}
           S == C \union D
           e == c \o d
<1>1. c \in Seq(C) /\ d \in Seq(D) /\ C \subseteq S /\ D \subseteq S
  BY DEF IsList
<1>2. Len(c) \in Nat /\ DOMAIN c = 1 .. Len(c) /\ Len(d) \in Nat /\ DOMAIN d = 1 .. Len(d)
  BY ListHas
<1> HIDE DEF C, D, S
<1>3. c \in [1 .. Len(c) -> C] /\ d \in [1 .. Len(d) -> D]
  BY <1>1, LenProperties
<1>4. c \in Seq(S) /\ d \in Seq(S)
  <2>1. c \in [1 .. Len(c) -> S] /\ d \in [1 .. Len(d) -> S]
    BY <1>1, <1>3
  <2> QED BY <1>2, <2>1, SeqDef
<1>5. /\ e \in Seq(S) /\ Len(e) = Len(c) + Len(d)
      /\ \A i \in 1 .. Len(c) + Len(d) :
           e[i] = IF i <= Len(c) THEN c[i] ELSE d[i - Len(c)]
  BY <1>4, ConcatProperties
<1>6. DOMAIN e = 1 .. Len(c) + Len(d) /\ e \in [1 .. Len(c) + Len(d) -> S]
  BY <1>5, LenProperties
<1> HIDE DEF e
<1>7. IsList(e)
  <2>1. e = [i \in 1 .. Len(c) + Len(d) |-> e[i]]
    BY <1>6
  <2> QED BY <1>2, <2>1, ListIs
<1>8. \A i \in DOMAIN e : (\E j \in DOMAIN c : e[i] = c[j]) \/ (\E j \in DOMAIN d : e[i] = d[j])
  <2> TAKE i \in DOMAIN e
  <2>1. CASE i <= Len(c)
    <3>1. i \in DOMAIN c /\ e[i] = c[i]
      BY <1>2, <1>5, <1>6, <2>1
    <3> QED BY <3>1
  <2>2. CASE ~(i <= Len(c))
    <3>1. i - Len(c) \in DOMAIN d /\ e[i] = d[i - Len(c)]
      BY <1>2, <1>5, <1>6, <2>2
    <3> QED BY <3>1
  <2> QED BY <2>1, <2>2
<1> QED BY <1>5, <1>7, <1>8 DEF e

-----------------------------------------------------------------------------
(* The sort.                                                               *)

Scored(items) == IsList(items) /\ \A i \in DOMAIN items : items[i].score \in Nat

Ahead(items, i) == {j \in DOMAIN items : Precedes(items, j, i)}
PlaceOf(items) == [i \in DOMAIN items |-> 1 + Cardinality(Ahead(items, i))]

(* Of two places one is before the other, and so is all that is before it. *)
LEMMA Ordered ==
  ASSUME NEW items, Scored(items), NEW i \in DOMAIN items, NEW j \in DOMAIN items
  PROVE  /\ ~ Precedes(items, i, i)
         /\ i # j => Precedes(items, i, j) \/ Precedes(items, j, i)
         /\ Precedes(items, i, j) => Ahead(items, i) \subseteq Ahead(items, j)
<1>1. DOMAIN items = 1 .. Len(items) /\ Len(items) \in Nat
  BY ListHas DEF Scored
<1>2. \A k \in DOMAIN items : items[k].score \in Nat /\ k \in Nat
  BY <1>1 DEF Scored
<1>3. ~ Precedes(items, i, i)
  BY <1>2 DEF Precedes
<1>4. i # j => Precedes(items, i, j) \/ Precedes(items, j, i)
  BY <1>2 DEF Precedes
<1>5. ASSUME Precedes(items, i, j), NEW k \in DOMAIN items, Precedes(items, k, i)
      PROVE  Precedes(items, k, j)
  BY <1>2, <1>5 DEF Precedes
<1> QED BY <1>3, <1>4, <1>5 DEF Ahead

LEMMA PlacesFill ==
  ASSUME NEW items, Scored(items)
  PROVE  PlaceOf(items) \in Injection(DOMAIN items, DOMAIN items)
         /\ PlaceOf(items) \in Surjection(DOMAIN items, DOMAIN items)
<1> DEFINE D == DOMAIN items
           n == Len(items)
           P == PlaceOf(items)
<1>1. D = 1 .. n /\ n \in Nat
  BY ListHas DEF Scored
<1>2. IsFiniteSet(D) /\ Cardinality(D) = n
  <2>1. Cardinality(1 .. n) = IF 1 > n THEN 0 ELSE n - 1 + 1
    BY <1>1, FS_Interval
  <2>2. IsFiniteSet(1 .. n)
    BY <1>1, FS_Interval
  <2> QED BY <1>1, <2>1, <2>2
<1>3. \A i \in D : Ahead(items, i) \subseteq D \ {i}
  BY Ordered DEF Ahead
<1>4. \A i \in D : IsFiniteSet(D \ {i}) /\ Cardinality(D \ {i}) = n - 1
  BY <1>2, FS_RemoveElement
<1>5. \A i \in D : /\ IsFiniteSet(Ahead(items, i)) /\ Cardinality(Ahead(items, i)) \in Nat
                   /\ Cardinality(Ahead(items, i)) <= n - 1
  <2> SUFFICES ASSUME NEW i \in D
               PROVE  /\ IsFiniteSet(Ahead(items, i)) /\ Cardinality(Ahead(items, i)) \in Nat
                      /\ Cardinality(Ahead(items, i)) <= n - 1
    OBVIOUS
  <2> DEFINE A == Ahead(items, i)
             Rest == D \ {i}
  <2>1. A \subseteq Rest /\ IsFiniteSet(Rest) /\ Cardinality(Rest) = n - 1
    BY <1>3, <1>4
  <2> HIDE DEF A, Rest
  <2>2. IsFiniteSet(A) /\ Cardinality(A) <= Cardinality(Rest)
    BY <2>1, FS_Subset
  <2>3. Cardinality(A) \in Nat
    BY <2>2, FS_CardinalityType
  <2> QED BY <2>1, <2>2, <2>3 DEF A
<1>6. P \in [D -> D]
  <2>1. \A i \in D : 1 + Cardinality(Ahead(items, i)) \in D
    BY <1>1, <1>5
  <2> QED BY <2>1 DEF PlaceOf
<1>7. ASSUME NEW i \in D, NEW j \in D, Precedes(items, i, j)
      PROVE  P[i] # P[j]
  <2> DEFINE A == Ahead(items, i)
             B == Ahead(items, j)
  <2>1. A \union {i} \subseteq B /\ i \notin A
    BY <1>7, Ordered DEF Ahead
  <2>2. IsFiniteSet(A) /\ IsFiniteSet(B) /\ Cardinality(A) \in Nat /\ Cardinality(B) \in Nat
    BY <1>5
  <2>3. P[i] = 1 + Cardinality(A) /\ P[j] = 1 + Cardinality(B)
    BY DEF PlaceOf
  <2> HIDE DEF A, B, P
  <2>4. Cardinality(A \union {i}) = Cardinality(A) + 1
    BY <2>1, <2>2, FS_AddElement
  <2>5. Cardinality(A \union {i}) <= Cardinality(B)
    BY <2>1, <2>2, FS_Subset
  <2> QED BY <2>2, <2>3, <2>4, <2>5
<1>8. \A i, j \in D : P[i] = P[j] => i = j
  <2> SUFFICES ASSUME NEW i \in D, NEW j \in D, i # j PROVE P[i] # P[j]
    OBVIOUS
  <2>1. Precedes(items, i, j) \/ Precedes(items, j, i)
    BY Ordered
  <2> HIDE DEF P, D
  <2> QED BY <1>7, <2>1
<1> HIDE DEF P, D, n
<1>9. P \in Injection(D, D)
  BY <1>6, <1>8 DEF Injection, IsInjective
<1>10. P \in Surjection(D, D)
  BY <1>2, <1>9, FS_Injection
<1> QED BY <1>9, <1>10 DEF P, D

(* The sort has each item once.                                            *)
Permutes(p, n) ==
  /\ p \in [1 .. n -> 1 .. n]
  /\ \A i, j \in 1 .. n : p[i] = p[j] => i = j
  /\ \A i \in 1 .. n : \E k \in 1 .. n : p[k] = i

LEMMA ByScoreIs ==
  ASSUME NEW items, Scored(items)
  PROVE  \E p : /\ Permutes(p, Len(items))
                /\ ByScore(items) = [k \in 1 .. Len(items) |-> items[p[k]]]
<1> DEFINE D == DOMAIN items
           P == PlaceOf(items)
           p == [k \in D |-> CHOOSE i \in D : P[i] = k]
<1>1. D = 1 .. Len(items)
  BY ListHas DEF Scored
<1>2. P \in [D -> D] /\ (\A i, j \in D : P[i] = P[j] => i = j)
  BY PlacesFill DEF Injection, IsInjective
<1>3. \A k \in D : \E i \in D : P[i] = k
  BY PlacesFill DEF Surjection
<1>4. ByScore(items) = [k \in D |-> items[p[k]]]
  BY DEF ByScore, PlaceOf, Ahead
<1> HIDE DEF P, D
<1>5. \A k \in D : p[k] \in D /\ P[p[k]] = k
  BY <1>3
<1>6. p \in [D -> D]
  BY <1>5
<1> HIDE DEF p
<1>7. \A i, j \in D : p[i] = p[j] => i = j
  BY <1>5
<1>8. \A i \in D : \E k \in D : p[k] = i
  <2> TAKE i \in D
  <2>1. P[i] \in D /\ p[P[i]] = i
    BY <1>2, <1>5
  <2> QED BY <2>1
<1>9. Permutes(p, Len(items))
  BY <1>1, <1>6, <1>7, <1>8 DEF Permutes
<1> QED BY <1>1, <1>4, <1>9

-----------------------------------------------------------------------------
(* The better of the items of one text.                                    *)

(* An item of a context for which the memories in R are out of use.        *)
Entry(x, R) ==
  /\ x = [text |-> x.text, tokens |-> x.tokens, category |-> x.category, score |-> x.score,
          provenance |-> x.provenance, memory |-> x.memory]
  /\ x.tokens \in Nat /\ x.score \in Nat
  /\ x.category = "repository_memory" => x.memory \notin R

Entries(items, R) == IsList(items) /\ \A i \in DOMAIN items : Entry(items[i], R)

(* The origins of a text in the first n of some items; one that has them   *)
(* all and is no weaker.                                                   *)
Origins(items, n, text) ==
  UNION {items[j].provenance : j \in {k \in 1 .. n : items[k].text = text}}

Best(x, items, n) ==
  /\ x.provenance = Origins(items, n, x.text)
  /\ \A j \in 1 .. n : items[j].text = x.text => items[j].score <= x.score

LEMMA OriginOf ==
  ASSUME NEW items, NEW n, NEW text, NEW e
  PROVE  e \in Origins(items, n, text) <=>
           \E j \in 1 .. n : items[j].text = text /\ e \in items[j].provenance
BY DEF Origins

(* An item with other origins, or another score.                           *)
LEMMA WithOrigins ==
  ASSUME NEW R, NEW x, Entry(x, R), NEW P
  PROVE  /\ Entry([x EXCEPT !.provenance = P], R)
         /\ [x EXCEPT !.provenance = P].text = x.text
         /\ [x EXCEPT !.provenance = P].score = x.score
         /\ [x EXCEPT !.provenance = P].provenance = P
<1> DEFINE y == [x EXCEPT !.provenance = P]
           Is(t, k, c, s, p, q) ==
             x = [text |-> t, tokens |-> k, category |-> c, score |-> s, provenance |-> p,
                  memory |-> q]
<1>1. PICK t, k, c, s, p, q : Is(t, k, c, s, p, q)
  BY Zenon DEF Entry
<1>2. k \in Nat /\ s \in Nat /\ (c = "repository_memory" => q \notin R)
  BY <1>1 DEF Entry
<1>3. y = [text |-> t, tokens |-> k, category |-> c, score |-> s, provenance |-> P,
           memory |-> q]
  BY <1>1
<1>4. x.text = t /\ x.score = s /\ x.provenance = p
  BY <1>1
<1> HIDE DEF y, Is
<1>5. Entry(y, R) /\ y.text = t /\ y.score = s /\ y.provenance = P
  BY <1>2, <1>3 DEF Entry
<1> QED BY <1>4, <1>5 DEF y

LEMMA WithScore ==
  ASSUME NEW R, NEW x, Entry(x, R), NEW n \in Nat
  PROVE  /\ Entry([x EXCEPT !.score = n], R)
         /\ [x EXCEPT !.score = n].text = x.text
         /\ [x EXCEPT !.score = n].score = n
         /\ [x EXCEPT !.score = n].provenance = x.provenance
<1> DEFINE y == [x EXCEPT !.score = n]
           Is(t, k, c, s, p, q) ==
             x = [text |-> t, tokens |-> k, category |-> c, score |-> s, provenance |-> p,
                  memory |-> q]
<1>1. PICK t, k, c, s, p, q : Is(t, k, c, s, p, q)
  BY Zenon DEF Entry
<1>2. k \in Nat /\ s \in Nat /\ (c = "repository_memory" => q \notin R)
  BY <1>1 DEF Entry
<1>3. y = [text |-> t, tokens |-> k, category |-> c, score |-> n, provenance |-> p,
           memory |-> q]
  BY <1>1
<1>4. x.text = t /\ x.score = s /\ x.provenance = p
  BY <1>1
<1> HIDE DEF y, Is
<1>5. Entry(y, R) /\ y.text = t /\ y.score = n /\ y.provenance = p
  BY <1>2, <1>3 DEF Entry
<1> QED BY <1>4, <1>5 DEF y

LEMMA MergedHas ==
  ASSUME NEW R, NEW old, Entry(old, R), NEW x, Entry(x, R), old.text = x.text
  PROVE  /\ Entry(Merged(old, x), R)
         /\ Merged(old, x).text = x.text
         /\ Merged(old, x).provenance = old.provenance \union x.provenance
         /\ old.score <= Merged(old, x).score /\ x.score <= Merged(old, x).score
<1> DEFINE P == old.provenance \union x.provenance
           b == IF x.score > old.score THEN x ELSE old
           y == [b EXCEPT !.provenance = P]
<1>1. old.score \in Nat /\ x.score \in Nat
  BY DEF Entry
<1>2. Merged(old, x) = y
  BY DEF Merged
<1>3. Entry(b, R) /\ b.text = x.text
  OBVIOUS
<1>4. old.score <= b.score /\ x.score <= b.score
  BY <1>1
<1> HIDE DEF P, b
<1>5. /\ Entry(y, R)
      /\ y.text = b.text
      /\ y.score = b.score
      /\ y.provenance = P
  BY <1>3, WithOrigins
<1> HIDE DEF y
<1>6. Entry(y, R) /\ y.text = x.text
  BY <1>3, <1>5
<1>7. old.score <= y.score /\ x.score <= y.score
  BY <1>4, <1>5
<1>8. y.provenance = old.provenance \union x.provenance
  BY <1>5 DEF P
<1> QED BY <1>2, <1>6, <1>7, <1>8

(* One item more.                                                          *)
LEMMA BestNext ==
  ASSUME NEW R, NEW items, NEW n \in Nat, \A j \in 1 .. n + 1 : Entry(items[j], R)
  PROVE  /\ \A old : /\ Best(old, items, n) /\ old.text # items[n + 1].text
                     => Best(old, items, n + 1)
         /\ \A old : /\ Best(old, items, n) /\ Entry(old, R) /\ old.text = items[n + 1].text
                     => Best(Merged(old, items[n + 1]), items, n + 1)
         /\ (\A j \in 1 .. n : items[j].text # items[n + 1].text)
              => Best(items[n + 1], items, n + 1)
<1> DEFINE x == items[n + 1]
<1>1. Entry(x, R) /\ n + 1 \in 1 .. n + 1
  OBVIOUS
<1>2. \A j \in 1 .. n + 1 : j \in 1 .. n \/ j = n + 1
  OBVIOUS
<1>3. \A j \in 1 .. n : j \in 1 .. n + 1
  OBVIOUS
<1>4. ASSUME NEW old, Best(old, items, n), old.text # x.text
      PROVE  Best(old, items, n + 1)
  <2>1. \A e : e \in Origins(items, n + 1, old.text) <=> e \in Origins(items, n, old.text)
    BY <1>2, <1>3, <1>4, OriginOf
  <2>2. Origins(items, n + 1, old.text) = Origins(items, n, old.text)
    BY <2>1
  <2> QED BY <1>2, <1>4, <2>2 DEF Best
<1>5. ASSUME NEW old, Best(old, items, n), Entry(old, R), old.text = x.text
      PROVE  Best(Merged(old, x), items, n + 1)
  <2> DEFINE m == Merged(old, x)
  <2>1. /\ m.text = x.text /\ m.provenance = old.provenance \union x.provenance
        /\ old.score <= m.score /\ x.score <= m.score /\ m.score \in Nat /\ old.score \in Nat
    BY <1>1, <1>5, MergedHas DEF Entry
  <2> HIDE DEF m
  <2>2. \A e : e \in Origins(items, n + 1, x.text)
                 <=> e \in Origins(items, n, x.text) \/ e \in x.provenance
    BY <1>1, <1>2, <1>3, OriginOf
  <2>3. m.provenance = Origins(items, n + 1, m.text)
    BY <1>5, <2>1, <2>2 DEF Best
  <2>4. \A j \in 1 .. n + 1 : items[j].text = m.text => items[j].score <= m.score
    <3> TAKE j \in 1 .. n + 1
    <3>1. CASE j = n + 1
      BY <2>1, <3>1
    <3>2. CASE j \in 1 .. n
      <4>1. items[j].score \in Nat
        BY <1>3, <3>2 DEF Entry
      <4>2. items[j].text = m.text => items[j].score <= old.score
        BY <1>5, <2>1, <3>2 DEF Best
      <4> QED BY <2>1, <4>1, <4>2
    <3> QED BY <1>2, <3>1, <3>2
  <2>5. Best(m, items, n + 1)
    BY <2>3, <2>4 DEF Best
  <2> QED BY <2>5 DEF m
<1>6. ASSUME \A j \in 1 .. n : items[j].text # x.text
      PROVE  Best(x, items, n + 1)
  <2>1. \A e : e \in Origins(items, n + 1, x.text) <=> e \in x.provenance
    BY <1>1, <1>2, <1>6, OriginOf
  <2>2. x.provenance = Origins(items, n + 1, x.text)
    BY <2>1
  <2>3. x.score <= x.score
    BY <1>1 DEF Entry
  <2> QED BY <1>2, <1>6, <2>2, <2>3 DEF Best
<1> QED BY <1>4, <1>5, <1>6

(* What is kept of the first n items.                                      *)
Deduped(kept, items, n, R) ==
  /\ Entries(kept, R) /\ Distinct(kept)
  /\ \A j \in 1 .. n : \E k \in DOMAIN kept : kept[k].text = items[j].text
  /\ \A k \in DOMAIN kept : Best(kept[k], items, n)

LEMMA JoinedKeeps ==
  ASSUME NEW R, NEW items, NEW n \in Nat, \A j \in 1 .. n + 1 : Entry(items[j], R),
         NEW kept, Deduped(kept, items, n, R)
  PROVE  Deduped(Joined(kept, items[n + 1]), items, n + 1, R)
<1> DEFINE x == items[n + 1]
           K == Joined(kept, x)
<1>1. Entry(x, R)
  OBVIOUS
<1>2. \A j \in 1 .. n + 1 : j \in 1 .. n \/ j = n + 1
  OBVIOUS
<1>3. /\ IsList(kept) /\ Len(kept) \in Nat /\ DOMAIN kept = 1 .. Len(kept)
      /\ Distinct(kept) /\ \A k \in DOMAIN kept : Entry(kept[k], R) /\ Best(kept[k], items, n)
  BY ListHas DEF Deduped, Entries
<1>4. \A j \in 1 .. n : \E k \in DOMAIN kept : kept[k].text = items[j].text
  BY DEF Deduped
<1>5. CASE \E k \in DOMAIN kept : kept[k].text = x.text
  <2> DEFINE At(k) == IF kept[k].text = x.text THEN Merged(kept[k], x) ELSE kept[k]
  <2>1. K = [k \in DOMAIN kept |-> At(k)]
    BY <1>5 DEF Joined
  <2> HIDE DEF K
  <2>2. ASSUME NEW k \in DOMAIN kept
        PROVE  /\ K[k] = At(k) /\ K[k].text = kept[k].text
               /\ Entry(K[k], R) /\ Best(K[k], items, n + 1)
    <3>1. K[k] = At(k)
      BY <2>1
    <3>2. CASE kept[k].text = x.text
      BY <1>1, <1>3, <3>1, <3>2, MergedHas, BestNext
    <3>3. CASE kept[k].text # x.text
      BY <1>3, <3>1, <3>3, BestNext
    <3> QED BY <3>1, <3>2, <3>3
  <2>3. IsList(K) /\ DOMAIN K = DOMAIN kept
    <3>1. K = [k \in 1 .. Len(kept) |-> K[k]]
      BY <1>3, <2>1
    <3> QED BY <1>3, <3>1, ListIs
  <2>4. Distinct(K)
    BY <1>3, <2>2, <2>3 DEF Distinct
  <2>5. \A j \in 1 .. n + 1 : \E k \in DOMAIN K : K[k].text = items[j].text
    BY <1>2, <1>4, <1>5, <2>2, <2>3
  <2> QED BY <2>2, <2>3, <2>4, <2>5 DEF Deduped, Entries, K
<1>6. CASE ~ \E k \in DOMAIN kept : kept[k].text = x.text
  <2>1. K = Append(kept, x)
    BY <1>6 DEF Joined
  <2> HIDE DEF K
  <2>2. /\ IsList(K) /\ DOMAIN K = 1 .. Len(kept) + 1
        /\ \A k \in 1 .. Len(kept) : K[k] = kept[k]
        /\ K[Len(kept) + 1] = x
    BY <1>3, <2>1, ListAppend
  <2>3. \A k \in DOMAIN K : k = Len(kept) + 1 \/ k \in DOMAIN kept
    BY <1>3, <2>2
  <2>4. \A j \in 1 .. n : items[j].text # x.text
    BY <1>4, <1>6
  <2>5. Best(x, items, n + 1)
    BY <2>4, BestNext
  <2>6. \A k \in DOMAIN kept : kept[k].text # x.text /\ Best(kept[k], items, n + 1)
    BY <1>3, <1>6, BestNext
  <2>7. \A k \in DOMAIN K : Entry(K[k], R) /\ Best(K[k], items, n + 1)
    BY <1>1, <1>3, <2>2, <2>3, <2>5, <2>6
  <2>8. Distinct(K)
    BY <1>3, <2>2, <2>3, <2>6 DEF Distinct
  <2>9. \A j \in 1 .. n + 1 : \E k \in DOMAIN K : K[k].text = items[j].text
    <3>1. Len(kept) + 1 \in DOMAIN K /\ \A k \in DOMAIN kept : k \in DOMAIN K
      BY <1>3, <2>2
    <3> QED BY <1>2, <1>3, <1>4, <2>2, <3>1
  <2> QED BY <2>2, <2>7, <2>8, <2>9 DEF Deduped, Entries, K
<1> QED BY <1>5, <1>6

Dedups(items, n, kept) ==
  kept = [i \in 0 .. n |-> IF i = 0 THEN <<>> ELSE Joined(kept[i - 1], items[i])]

LEMMA DedupsExist ==
  ASSUME NEW items
  PROVE  \A n \in Nat : \E kept : Dedups(items, n, kept)
<1> DEFINE Bad == {n \in Nat : ~ \E kept : Dedups(items, n, kept)}
<1> SUFFICES ASSUME Bad # {} PROVE FALSE
  OBVIOUS
<1>1. PICK m \in Bad : \A j \in Bad : m <= j
  BY LeastOf
<1>2. CASE m = 0
  <2> DEFINE none == [i \in 0 .. 0 |-> <<>>]
  <2>1. Dedups(items, 0, none)
    BY DEF Dedups
  <2> QED BY <1>1, <1>2, <2>1
<1>3. CASE m # 0
  <2>1. m \in Nat /\ m - 1 \in Nat /\ m - 1 \notin Bad
    BY <1>1, <1>3
  <2>2. PICK kept : Dedups(items, m - 1, kept)
    BY <2>1
  <2> DEFINE more == [i \in 0 .. m |-> IF i = m THEN Joined(kept[m - 1], items[m]) ELSE kept[i]]
  <2>3. ASSUME NEW i \in 0 .. m
        PROVE  more[i] = IF i = 0 THEN <<>> ELSE Joined(more[i - 1], items[i])
    <3>1. CASE i = m
      <4>1. more[i] = Joined(kept[m - 1], items[m]) /\ more[i - 1] = kept[m - 1]
        BY <1>3, <2>1, <3>1
      <4> QED BY <1>3, <3>1, <4>1
    <3>2. CASE i # m
      <4>1. i \in 0 .. m - 1 /\ more[i] = kept[i]
        BY <2>1, <3>2
      <4>2. kept[i] = IF i = 0 THEN <<>> ELSE Joined(kept[i - 1], items[i])
        BY <2>2, <4>1 DEF Dedups
      <4>3. i # 0 => more[i - 1] = kept[i - 1]
        BY <2>1, <4>1
      <4> QED BY <4>1, <4>2, <4>3
    <3> QED BY <3>1, <3>2
  <2>4. Dedups(items, m, more)
    BY <2>3 DEF Dedups
  <2> QED BY <1>1, <2>4
<1> QED BY <1>2, <1>3

LEMMA DedupsAt ==
  ASSUME NEW items, NEW n \in Nat, NEW kept,
         Dedups(items, n, kept), NEW i \in 0 .. n
  PROVE  kept[i] = IF i = 0 THEN <<>> ELSE Joined(kept[i - 1], items[i])
BY DEF Dedups

LEMMA DedupIs ==
  ASSUME NEW items, Len(items) \in Nat
  PROVE  \E kept : Dedups(items, Len(items), kept) /\ Deduplicated(items) = kept[Len(items)]
<1> DEFINE kept == CHOOSE F : Dedups(items, Len(items), F)
<1>1. Dedups(items, Len(items), kept)
  BY DedupsExist
<1>2. Deduplicated(items) = kept[Len(items)]
  BY DEF Deduplicated, Dedups
<1> QED BY <1>1, <1>2

LEMMA EmptyList == IsList(<<>>) /\ Len(<<>>) = 0 /\ DOMAIN <<>> = {}
BY DEF IsList

LEMMA DedupKeeps ==
  ASSUME NEW R, NEW items, Entries(items, R)
  PROVE  Deduped(Deduplicated(items), items, Len(items), R)
<1> DEFINE N == Len(items)
<1>1. N \in Nat /\ DOMAIN items = 1 .. N /\ \A j \in 1 .. N : Entry(items[j], R)
  BY ListHas DEF Entries
<1>2. PICK kept : Dedups(items, N, kept) /\ Deduplicated(items) = kept[N]
  BY <1>1, DedupIs
<1> HIDE DEF N
<1> DEFINE Bad == {i \in 0 .. N : ~ Deduped(kept[i], items, i, R)}
<1>3. Bad = {}
  <2> SUFFICES ASSUME Bad # {} PROVE FALSE
    OBVIOUS
  <2>1. PICK m \in Bad : \A i \in Bad : m <= i
    <3>1. Bad \subseteq Nat
      BY <1>1
    <3> HIDE DEF Bad
    <3> QED BY <3>1, LeastOf
  <2>2. m \in 0 .. N /\ m \in Nat /\ ~ Deduped(kept[m], items, m, R)
    BY <1>1, <2>1
  <2>3. kept[m] = IF m = 0 THEN <<>> ELSE Joined(kept[m - 1], items[m])
    BY <1>1, <1>2, <2>2, DedupsAt
  <2>4. CASE m = 0
    <3>1. Deduped(<<>>, items, 0, R)
      BY EmptyList DEF Deduped, Entries, Distinct
    <3> QED BY <2>2, <2>3, <2>4, <3>1
  <2>5. CASE m # 0
    <3> DEFINE k == m - 1
    <3>1. k \in Nat /\ k + 1 = m /\ k \in 0 .. N /\ k \notin Bad
      BY <1>1, <2>1, <2>2, <2>5
    <3>2. Deduped(kept[k], items, k, R)
      BY <3>1
    <3>3. \A j \in 1 .. k + 1 : Entry(items[j], R)
      BY <1>1, <2>2, <3>1
    <3> HIDE DEF k
    <3>4. Deduped(Joined(kept[k], items[k + 1]), items, k + 1, R)
      BY <3>1, <3>2, <3>3, JoinedKeeps
    <3> QED BY <2>2, <2>3, <2>5, <3>1, <3>4 DEF k
  <2> QED BY <2>4, <2>5
<1>4. N \in 0 .. N
  BY <1>1
<1> QED BY <1>2, <1>3, <1>4 DEF N

-----------------------------------------------------------------------------
(* What the budget leaves.                                                 *)

Takes(sorted, agent, n, kept) ==
  kept = [i \in 0 .. n |-> IF i = 0 THEN <<>> ELSE Taken(kept[i - 1], sorted[i], agent)]

LEMMA TakesExist ==
  ASSUME NEW sorted, NEW agent
  PROVE  \A n \in Nat : \E kept : Takes(sorted, agent, n, kept)
<1> DEFINE Bad == {n \in Nat : ~ \E kept : Takes(sorted, agent, n, kept)}
<1> SUFFICES ASSUME Bad # {} PROVE FALSE
  OBVIOUS
<1>1. PICK m \in Bad : \A j \in Bad : m <= j
  BY LeastOf
<1>2. CASE m = 0
  <2> DEFINE none == [i \in 0 .. 0 |-> <<>>]
  <2>1. Takes(sorted, agent, 0, none)
    BY DEF Takes
  <2> QED BY <1>1, <1>2, <2>1
<1>3. CASE m # 0
  <2>1. m \in Nat /\ m - 1 \in Nat /\ m - 1 \notin Bad
    BY <1>1, <1>3
  <2>2. PICK kept : Takes(sorted, agent, m - 1, kept)
    BY <2>1
  <2> DEFINE more == [i \in 0 .. m |->
                        IF i = m THEN Taken(kept[m - 1], sorted[m], agent) ELSE kept[i]]
  <2>3. ASSUME NEW i \in 0 .. m
        PROVE  more[i] = IF i = 0 THEN <<>> ELSE Taken(more[i - 1], sorted[i], agent)
    <3>1. CASE i = m
      <4>1. more[i] = Taken(kept[m - 1], sorted[m], agent) /\ more[i - 1] = kept[m - 1]
        BY <1>3, <2>1, <3>1
      <4> QED BY <1>3, <3>1, <4>1
    <3>2. CASE i # m
      <4>1. i \in 0 .. m - 1 /\ more[i] = kept[i]
        BY <2>1, <3>2
      <4>2. kept[i] = IF i = 0 THEN <<>> ELSE Taken(kept[i - 1], sorted[i], agent)
        BY <2>2, <4>1 DEF Takes
      <4>3. i # 0 => more[i - 1] = kept[i - 1]
        BY <2>1, <4>1
      <4> QED BY <4>1, <4>2, <4>3
    <3> QED BY <3>1, <3>2
  <2>4. Takes(sorted, agent, m, more)
    BY <2>3 DEF Takes
  <2> QED BY <1>1, <2>4
<1> QED BY <1>2, <1>3

LEMMA TakesAt ==
  ASSUME NEW sorted, NEW agent, NEW n \in Nat, NEW kept,
         Takes(sorted, agent, n, kept), NEW i \in 0 .. n
  PROVE  kept[i] = IF i = 0 THEN <<>> ELSE Taken(kept[i - 1], sorted[i], agent)
BY DEF Takes

LEMMA WithinIs ==
  ASSUME NEW items, NEW agent, Len(items) \in Nat
  PROVE  \E kept : /\ Takes(ByScore(items), agent, Len(items), kept)
                   /\ Within(items, agent) = kept[Len(items)]
<1> DEFINE sorted == ByScore(items)
           n == Len(items)
           kept == CHOOSE F : Takes(sorted, agent, n, F)
<1>1. Takes(sorted, agent, n, kept)
  <2> HIDE DEF sorted
  <2> QED BY TakesExist
<1>2. Within(items, agent) = kept[n]
  BY DEF Within, Takes
<1> QED BY <1>1, <1>2

(* The tokens with one item more.                                          *)
LEMMA TokensNext ==
  ASSUME NEW R, NEW c, Entries(c, R), NEW x
  PROVE  /\ TokensIn(Append(c, x), x.category) = TokensIn(c, x.category) + x.tokens
         /\ \A k : k # x.category => TokensIn(Append(c, x), k) = TokensIn(c, k)
<1> DEFINE d == Append(c, x)
           n == Len(c)
           F(k) == [i \in DOMAIN c |-> IF c[i].category = k THEN c[i].tokens ELSE 0]
           G(k) == [i \in DOMAIN d |-> IF d[i].category = k THEN d[i].tokens ELSE 0]
<1>1. /\ n \in Nat /\ DOMAIN c = 1 .. n /\ Len(d) = n + 1 /\ DOMAIN d = 1 .. n + 1
      /\ d[n + 1] = x /\ \A i \in 1 .. n : d[i] = c[i]
  BY ListHas, ListAppend DEF Entries
<1>2. \A k : TokensIn(c, k) = SumOf(F(k), n) /\ TokensIn(d, k) = SumOf(G(k), n + 1)
  BY <1>1 DEF TokensIn
<1>3. \A i \in 1 .. n : c[i].tokens \in Nat
  BY <1>1 DEF Entries, Entry
<1> HIDE DEF d, n
<1>4. ASSUME NEW k
      PROVE  /\ TokensIn(c, k) \in Nat
             /\ TokensIn(d, k) = TokensIn(c, k) + (IF x.category = k THEN x.tokens ELSE 0)
  <2>1. \A i \in 1 .. n : F(k)[i] = G(k)[i] /\ F(k)[i] \in Nat
    BY <1>1, <1>3
  <2>2. G(k)[n + 1] = IF x.category = k THEN x.tokens ELSE 0
    BY <1>1
  <2> HIDE DEF F, G
  <2>3. SumOf(F(k), n) = SumOf(G(k), n)
    BY <1>1, <2>1, SumSame
  <2>4. SumOf(G(k), n + 1) = SumOf(G(k), n) + G(k)[n + 1]
    BY <1>1, SumNext
  <2>5. SumOf(F(k), n) \in Nat
    BY <1>1, <2>1, SumNat
  <2> QED BY <1>2, <2>2, <2>3, <2>4, <2>5
<1>5. TokensIn(d, x.category) = TokensIn(c, x.category) + x.tokens
  BY <1>4
<1>6. \A k : k # x.category => TokensIn(d, k) = TokensIn(c, k)
  <2> SUFFICES ASSUME NEW k, k # x.category PROVE TokensIn(d, k) = TokensIn(c, k)
    OBVIOUS
  <2> QED BY <1>4
<1> QED BY <1>5, <1>6 DEF d

(* What is taken of the first n items, each of a text of its own.          *)
WithinShare(c, agent) ==
  \A i \in DOMAIN c : TokensIn(c, c[i].category) <= Cap(agent, c[i].category)

LastWasRoom(c) == c # <<>> => TokensOf(SubSeq(c, 1, Len(c) - 1)) < Available

Budgeted(c, sorted, n, agent, R) ==
  /\ Entries(c, R) /\ Distinct(c)
  /\ \A i \in DOMAIN c : \E j \in 1 .. n : c[i] = sorted[j]
  /\ WithinShare(c, agent) /\ LastWasRoom(c)

LEMMA TakenKeeps ==
  ASSUME NEW R, NEW agent, NEW sorted, NEW n \in Nat, Entry(sorted[n + 1], R),
         \A j \in 1 .. n : sorted[j].text # sorted[n + 1].text,
         NEW c, Budgeted(c, sorted, n, agent, R)
  PROVE  Budgeted(Taken(c, sorted[n + 1], agent), sorted, n + 1, agent, R)
<1> DEFINE x == sorted[n + 1]
           K == Taken(c, x, agent)
<1>1. \A j \in 1 .. n : j \in 1 .. n + 1
  OBVIOUS
<1>2. CASE ~ Fits(c, x, agent)
  <2>1. K = c
    BY <1>2 DEF Taken
  <2> QED BY <1>1, <2>1 DEF Budgeted
<1>3. CASE Fits(c, x, agent)
  <2>1. K = Append(c, x)
    BY <1>3 DEF Taken
  <2>2. IsList(c) /\ Len(c) \in Nat /\ DOMAIN c = 1 .. Len(c)
    BY ListHas DEF Budgeted, Entries
  <2> HIDE DEF K, x
  <2>3. /\ IsList(K) /\ Len(K) = Len(c) + 1 /\ DOMAIN K = 1 .. Len(c) + 1
        /\ \A i \in 1 .. Len(c) : K[i] = c[i]
        /\ K[Len(c) + 1] = x
        /\ SubSeq(K, 1, Len(c)) = c
    BY <2>1, <2>2, ListAppend
  <2>4. \A i \in DOMAIN K : i = Len(c) + 1 \/ i \in DOMAIN c
    BY <2>2, <2>3
  <2>5. \A i \in DOMAIN c : K[i] = c[i] /\ c[i].text # x.text
    BY <2>2, <2>3 DEF Budgeted, x
  <2>6. Entries(K, R)
    BY <2>3, <2>4, <2>5 DEF Budgeted, Entries, x
  <2>7. Distinct(K)
    BY <2>3, <2>4, <2>5 DEF Budgeted, Distinct
  <2>8. \A i \in DOMAIN K : \E j \in 1 .. n + 1 : K[i] = sorted[j]
    <3>1. n + 1 \in 1 .. n + 1 /\ K[Len(c) + 1] = sorted[n + 1]
      BY <2>3 DEF x
    <3> QED BY <1>1, <2>4, <2>5, <3>1 DEF Budgeted
  <2>9. WithinShare(K, agent)
    <3>1. /\ TokensIn(K, x.category) = TokensIn(c, x.category) + x.tokens
          /\ \A k : k # x.category => TokensIn(K, k) = TokensIn(c, k)
      BY <2>1, TokensNext DEF Budgeted
    <3>2. TokensIn(K, x.category) <= Cap(agent, x.category)
      BY <1>3, <3>1 DEF Fits
    <3>3. \A i \in DOMAIN c : TokensIn(c, c[i].category) <= Cap(agent, c[i].category)
      BY DEF Budgeted, WithinShare
    <3> SUFFICES ASSUME NEW i \in DOMAIN K
                 PROVE  TokensIn(K, K[i].category) <= Cap(agent, K[i].category)
      BY DEF WithinShare
    <3>4. CASE K[i].category = x.category
      BY <3>2, <3>4
    <3>5. CASE K[i].category # x.category
      <4>1. i \in DOMAIN c /\ K[i] = c[i]
        BY <2>3, <2>4, <2>5, <3>5
      <4> QED BY <3>1, <3>3, <3>5, <4>1
    <3> QED BY <3>4, <3>5
  <2>10. LastWasRoom(K)
    <3>1. Len(K) - 1 = Len(c) /\ TokensOf(c) < Available
      BY <1>3, <2>2, <2>3 DEF Fits
    <3> QED BY <2>3, <3>1 DEF LastWasRoom
  <2> QED BY <2>6, <2>7, <2>8, <2>9, <2>10 DEF Budgeted, K, x
<1> QED BY <1>2, <1>3

LEMMA WithinKeeps ==
  ASSUME NEW R, NEW items, Entries(items, R), Distinct(items), NEW agent
  PROVE  Budgeted(Within(items, agent), items, Len(items), agent, R)
<1> DEFINE N == Len(items)
           sorted == ByScore(items)
<1>1. N \in Nat /\ DOMAIN items = 1 .. N /\ \A j \in 1 .. N : Entry(items[j], R)
  BY ListHas DEF Entries
<1>2. PICK p : Permutes(p, N) /\ sorted = [k \in 1 .. N |-> items[p[k]]]
  <2>1. Scored(items)
    BY DEF Scored, Entries, Entry
  <2> QED BY <2>1, ByScoreIs
<1>3. PICK kept : Takes(sorted, agent, N, kept) /\ Within(items, agent) = kept[N]
  BY <1>1, WithinIs
<1> HIDE DEF N, sorted
<1>4. \A k \in 1 .. N : p[k] \in 1 .. N /\ sorted[k] = items[p[k]] /\ Entry(sorted[k], R)
  BY <1>1, <1>2 DEF Permutes
<1>5. \A j, k \in 1 .. N : j # k => sorted[j].text # sorted[k].text
  <2> SUFFICES ASSUME NEW j \in 1 .. N, NEW k \in 1 .. N, j # k
               PROVE  sorted[j].text # sorted[k].text
    OBVIOUS
  <2>1. p[j] # p[k]
    BY <1>2 DEF Permutes
  <2>2. p[j] \in DOMAIN items /\ p[k] \in DOMAIN items
    BY <1>1, <1>4
  <2>3. items[p[j]].text # items[p[k]].text
    BY <2>1, <2>2 DEF Distinct
  <2> QED BY <1>4, <2>3
<1> DEFINE Bad == {i \in 0 .. N : ~ Budgeted(kept[i], sorted, i, agent, R)}
<1>6. Bad = {}
  <2> SUFFICES ASSUME Bad # {} PROVE FALSE
    OBVIOUS
  <2>1. PICK m \in Bad : \A i \in Bad : m <= i
    <3>1. Bad \subseteq Nat
      BY <1>1
    <3> HIDE DEF Bad
    <3> QED BY <3>1, LeastOf
  <2>2. m \in 0 .. N /\ m \in Nat /\ ~ Budgeted(kept[m], sorted, m, agent, R)
    BY <1>1, <2>1
  <2>3. kept[m] = IF m = 0 THEN <<>> ELSE Taken(kept[m - 1], sorted[m], agent)
    <3>1. N \in Nat /\ m \in 0 .. N /\ Takes(sorted, agent, N, kept)
      BY <1>1, <1>3, <2>2
    <3> HIDE DEF Bad
    <3> QED BY <3>1, TakesAt
  <2>4. CASE m = 0
    <3>1. Budgeted(<<>>, sorted, 0, agent, R)
      BY EmptyList DEF Budgeted, Entries, Distinct, WithinShare, LastWasRoom
    <3> QED BY <2>2, <2>3, <2>4, <3>1
  <2>5. CASE m # 0
    <3> DEFINE k == m - 1
    <3>1. k \in Nat /\ k + 1 = m /\ k \in 0 .. N /\ k \notin Bad
      BY <1>1, <2>1, <2>2, <2>5
    <3>2. Budgeted(kept[k], sorted, k, agent, R)
      BY <3>1
    <3>3. /\ Entry(sorted[k + 1], R)
          /\ \A j \in 1 .. k : sorted[j].text # sorted[k + 1].text
      BY <1>1, <1>4, <1>5, <2>2, <3>1
    <3> HIDE DEF k
    <3>4. Budgeted(Taken(kept[k], sorted[k + 1], agent), sorted, k + 1, agent, R)
      BY <3>1, <3>2, <3>3, TakenKeeps
    <3> QED BY <2>2, <2>3, <2>5, <3>1, <3>4 DEF k
  <2> QED BY <2>4, <2>5
<1>7. N \in 0 .. N
  BY <1>1
<1>8. Budgeted(kept[N], sorted, N, agent, R)
  BY <1>6, <1>7
<1>9. \A i \in DOMAIN kept[N] : \E j \in 1 .. N : kept[N][i] = items[j]
  BY <1>4, <1>8 DEF Budgeted
<1> QED BY <1>3, <1>8, <1>9 DEF Budgeted, N

-----------------------------------------------------------------------------
(* What is chosen of some items.                                           *)

LEMMA FloorType == \A category : Floor(category) \in Nat
BY DEF Floor

LEMMA RankedIs ==
  ASSUME NEW R, NEW items, Entries(items, R)
  PROVE  /\ Entries(Ranked(items), R) /\ Len(Ranked(items)) = Len(items)
         /\ \E p : /\ Permutes(p, Len(items))
                   /\ \A k \in 1 .. Len(items) :
                        /\ Ranked(items)[k].text = items[p[k]].text
                        /\ Ranked(items)[k].provenance = items[p[k]].provenance
                        /\ items[p[k]].score <= Ranked(items)[k].score
<1> DEFINE N == Len(items)
           Better(i) == IF items[i].score < Floor(items[i].category)
                        THEN Floor(items[i].category) ELSE items[i].score
           raised == [i \in DOMAIN items |-> [items[i] EXCEPT !.score = Better(i)]]
           ranked == Ranked(items)
<1>1. N \in Nat /\ DOMAIN items = 1 .. N /\ \A j \in 1 .. N : Entry(items[j], R)
  BY ListHas DEF Entries
<1>2. ranked = ByScore(raised)
  BY DEF Ranked
<1>3. \A i \in 1 .. N : Better(i) \in Nat /\ items[i].score <= Better(i)
  <2> SUFFICES ASSUME NEW i \in 1 .. N
               PROVE  Better(i) \in Nat /\ items[i].score <= Better(i)
    OBVIOUS
  <2>1. Floor(items[i].category) \in Nat /\ items[i].score \in Nat
    BY <1>1, FloorType DEF Entry
  <2> QED BY <2>1
<1> HIDE DEF N, Better
<1>4. ASSUME NEW i \in 1 .. N
      PROVE  /\ Entry(raised[i], R) /\ raised[i].text = items[i].text
             /\ raised[i].provenance = items[i].provenance
             /\ items[i].score <= raised[i].score
  <2> DEFINE x == items[i]
             n == Better(i)
  <2>1. raised[i] = [x EXCEPT !.score = n]
    BY <1>1
  <2>2. Entry(x, R) /\ n \in Nat /\ x.score <= n
    BY <1>1, <1>3
  <2> HIDE DEF x, n, raised
  <2>3. /\ Entry([x EXCEPT !.score = n], R) /\ [x EXCEPT !.score = n].text = x.text
        /\ [x EXCEPT !.score = n].score = n
        /\ [x EXCEPT !.score = n].provenance = x.provenance
    BY <2>2, WithScore
  <2> QED BY <2>1, <2>2, <2>3 DEF x
<1>5. IsList(raised) /\ Len(raised) = N /\ DOMAIN raised = 1 .. N
  <2>1. raised = [i \in 1 .. N |-> raised[i]]
    BY <1>1
  <2> HIDE DEF raised
  <2> QED BY <1>1, <2>1, ListIs
<1> HIDE DEF raised, ranked
<1>6. PICK p : Permutes(p, N) /\ ranked = [k \in 1 .. N |-> raised[p[k]]]
  <2>1. Scored(raised)
    BY <1>4, <1>5 DEF Scored, Entry
  <2> QED BY <1>2, <1>5, <2>1, ByScoreIs
<1>7. \A k \in 1 .. N : p[k] \in 1 .. N /\ ranked[k] = raised[p[k]]
  BY <1>6 DEF Permutes
<1>8. IsList(ranked) /\ Len(ranked) = N /\ DOMAIN ranked = 1 .. N
  <2>1. ranked = [k \in 1 .. N |-> ranked[k]]
    BY <1>6
  <2> QED BY <1>1, <2>1, ListIs
<1>9. Entries(ranked, R)
  BY <1>4, <1>7, <1>8 DEF Entries
<1>10. \A k \in 1 .. N : /\ ranked[k].text = items[p[k]].text
                         /\ ranked[k].provenance = items[p[k]].provenance
                         /\ items[p[k]].score <= ranked[k].score
  BY <1>4, <1>7
<1> QED BY <1>6, <1>8, <1>9, <1>10 DEF N, ranked

(* The items of a text, and what a context that keeps its origins has.     *)
SameText(items, text) == {items[j] : j \in {k \in DOMAIN items : items[k].text = text}}

Original(x, items) ==
  /\ x.provenance = UNION {y.provenance : y \in SameText(items, x.text)}
  /\ \A y \in SameText(items, x.text) : y.score <= x.score

LEMMA ChosenSound ==
  ASSUME NEW R, NEW items, Entries(items, R), NEW agent
  PROVE  LET c == Within(Deduplicated(Ranked(items)), agent)
         IN /\ Entries(c, R) /\ Distinct(c)
            /\ WithinShare(c, agent) /\ LastWasRoom(c)
            /\ \A i \in DOMAIN c : Original(c[i], items)
<1> DEFINE N == Len(items)
           ranked == Ranked(items)
           unique == Deduplicated(ranked)
           c == Within(unique, agent)
<1>1. N \in Nat /\ DOMAIN items = 1 .. N /\ \A j \in 1 .. N : Entry(items[j], R)
  BY ListHas DEF Entries
<1>2. Entries(ranked, R) /\ Len(ranked) = N
  BY RankedIs
<1>3. PICK p : /\ Permutes(p, N)
               /\ \A k \in 1 .. N : /\ ranked[k].text = items[p[k]].text
                                    /\ ranked[k].provenance = items[p[k]].provenance
                                    /\ items[p[k]].score <= ranked[k].score
  BY RankedIs
<1>4. \A k \in 1 .. N : p[k] \in 1 .. N
  BY <1>3 DEF Permutes
<1>5. \A i \in 1 .. N : \E k \in 1 .. N : p[k] = i
  BY <1>3 DEF Permutes
<1> HIDE DEF N, ranked
<1>6. Deduped(unique, ranked, N, R)
  BY <1>2, DedupKeeps
<1> HIDE DEF unique
<1>7. Budgeted(c, unique, Len(unique), agent, R)
  BY <1>6, WithinKeeps DEF Deduped
<1> HIDE DEF c
<1>8. ASSUME NEW i \in DOMAIN c
      PROVE  Original(c[i], items)
  <2> DEFINE x == c[i]
             Same == SameText(items, x.text)
  <2>1. PICK j \in 1 .. Len(unique) : x = unique[j]
    BY <1>7 DEF Budgeted
  <2>2. DOMAIN unique = 1 .. Len(unique)
    BY <1>6, ListHas DEF Deduped, Entries
  <2>3. Best(x, ranked, N) /\ Entry(x, R)
    BY <1>6, <2>1, <2>2 DEF Deduped, Entries
  <2> HIDE DEF x
  <2>4. \A y : y \in Same <=> \E k \in 1 .. N : items[k].text = x.text /\ y = items[k]
    BY <1>1 DEF SameText
  <2> HIDE DEF Same
  <2>5. \A e : e \in Origins(ranked, N, x.text) <=> \E y \in Same : e \in y.provenance
    <3> TAKE e
    <3>1. ASSUME e \in Origins(ranked, N, x.text)
          PROVE  \E y \in Same : e \in y.provenance
      <4>1. PICK k \in 1 .. N : ranked[k].text = x.text /\ e \in ranked[k].provenance
        BY <3>1, OriginOf
      <4>2. items[p[k]] \in Same /\ e \in items[p[k]].provenance
        BY <1>3, <1>4, <2>4, <4>1
      <4> QED BY <4>2
    <3>2. ASSUME NEW y \in Same, e \in y.provenance
          PROVE  e \in Origins(ranked, N, x.text)
      <4>1. PICK m \in 1 .. N : items[m].text = x.text /\ y = items[m]
        BY <2>4
      <4>2. PICK k \in 1 .. N : p[k] = m
        BY <1>5
      <4>3. ranked[k].text = x.text /\ e \in ranked[k].provenance
        BY <1>3, <3>2, <4>1, <4>2
      <4> QED BY <4>3, OriginOf
    <3> QED BY <3>1, <3>2
  <2>6. x.provenance = UNION {y.provenance : y \in Same}
    <3>1. \A e : e \in x.provenance <=> e \in UNION {y.provenance : y \in Same}
      BY <2>3, <2>5 DEF Best
    <3> QED BY <3>1
  <2>7. \A y \in Same : y.score <= x.score
    <3> TAKE y \in Same
    <3>1. PICK m \in 1 .. N : items[m].text = x.text /\ y = items[m]
      BY <2>4
    <3>2. PICK k \in 1 .. N : p[k] = m
      BY <1>5
    <3>3. ranked[k].text = x.text /\ y.score <= ranked[k].score
      BY <1>3, <3>1, <3>2
    <3>4. ranked[k].score <= x.score
      BY <2>3, <3>3 DEF Best
    <3>5. y.score \in Nat /\ x.score \in Nat /\ ranked[k].score \in Nat
      <4>1. Entry(ranked[k], R)
        BY <1>2, ListHas DEF Entries
      <4> QED BY <1>1, <2>3, <3>1, <4>1 DEF Entry
    <3> QED BY <3>3, <3>4, <3>5
  <2> QED BY <2>6, <2>7 DEF Original, Same, x
<1> QED BY <1>7, <1>8 DEF Budgeted, c, unique, ranked

-----------------------------------------------------------------------------
(* The context being built.                                                *)

(* Memories are finitely many; what is out of use for the context is.      *)
MemoriesTyped ==
  /\ IsFiniteSet(DOMAIN memories)
  /\ \A id \in DOMAIN memories : memories[id].confidence \in Nat
  /\ \A id \in building.retired \intersect DOMAIN memories : memories[id].status \notin Live

BuildingTyped ==
  /\ building = [at |-> building.at, request |-> building.request, items |-> building.items,
                 retired |-> building.retired, chosen |-> building.chosen]
  /\ \E o \in Occasions : building.request = o.request

(* One session at a time has memories for the context, none out of use.    *)
Querying(s) == sessions[s].op = "query"

Queries ==
  /\ DOMAIN sessions = Sessions
  /\ \A s, t \in Sessions : Querying(s) /\ Querying(t) => s = t
  /\ \A s \in Sessions : Querying(s) =>
       /\ building.at = "marking"
       /\ IsFiniteSet(DOMAIN sessions[s].read)
       /\ \A id \in DOMAIN sessions[s].read :
            sessions[s].read[id].confidence \in Nat /\ id \notin building.retired

ChosenWell ==
  building.at = "built" =>
    building.chosen = Within(Deduplicated(Ranked(building.items)), building.request.agent)

ContextInv ==
  /\ MemoriesTyped /\ BuildingTyped /\ Queries
  /\ Entries(building.items, building.retired)
  /\ ChosenWell

LEMMA ContextSoundFollows == ContextInv => ContextSound
<1> SUFFICES ASSUME ContextInv, building.at = "built"
             PROVE  RetiredLeftOut /\ FitsBudget /\ KeepsOrigins
  BY DEF ContextSound
<1> DEFINE c == building.chosen
           R == building.retired
<1>1. c = Within(Deduplicated(Ranked(building.items)), building.request.agent)
  BY DEF ContextInv, ChosenWell
<1>2. /\ Entries(c, R) /\ Distinct(c)
      /\ WithinShare(c, building.request.agent) /\ LastWasRoom(c)
      /\ \A i \in DOMAIN c : Original(c[i], building.items)
  BY <1>1, ChosenSound DEF ContextInv
<1>3. RetiredLeftOut
  BY <1>2 DEF RetiredLeftOut, Entries, Entry
<1>4. FitsBudget
  BY <1>2 DEF FitsBudget, WithinShare, LastWasRoom
<1>5. KeepsOrigins
  <2>1. \A i \in DOMAIN c : \A j \in DOMAIN c \ {i} : c[i].text # c[j].text
    BY <1>2 DEF Distinct
  <2> QED BY <1>2, <2>1 DEF KeepsOrigins, Original, SameText
<1> QED BY <1>3, <1>4, <1>5

-----------------------------------------------------------------------------
(* The items the builders make.                                            *)
LEMMA EntriesConcat ==
  ASSUME NEW R, NEW a, Entries(a, R), NEW b, Entries(b, R)
  PROVE  Entries(a \o b, R)
BY ListConcat DEF Entries

LEMMA EntriesShrink ==
  ASSUME NEW R, NEW S, S \subseteq R, NEW items, Entries(items, R)
  PROVE  Entries(items, S)
BY DEF Entries, Entry

LEMMA NoEntries == \A R : Entries(<<>>, R)
BY EmptyList DEF Entries

LEMMA ItemEntry ==
  ASSUME NEW R, NEW category, category # "repository_memory", NEW score \in Nat, NEW origin,
         NEW x, x.tokens \in Nat
  PROVE  Entry(Item(category, score, origin, x), R)
BY DEF Entry, Item

LEMMA OneItemEntries ==
  ASSUME NEW R, NEW o \in Occasions, NEW name, NEW category, category # "repository_memory",
         NEW score \in Nat, NEW origin
  PROVE  Entries(OneItem(o.request, name, category, score, origin), R)
<1>1. CASE name \in DOMAIN o.request.sources
  <2> DEFINE x == Item(category, score, origin, o.request.sources[name])
  <2>1. OneItem(o.request, name, category, score, origin) = <<x>>
    BY <1>1 DEF OneItem
  <2>2. Entry(x, R)
    <3>1. o.request.sources[name].tokens \in Nat
      BY <1>1, OccasionsAssumption
    <3> QED BY <3>1, ItemEntry
  <2> HIDE DEF x
  <2>3. IsList(<<x>>) /\ DOMAIN <<x>> = {1} /\ <<x>>[1] = x
    BY DEF IsList
  <2> QED BY <2>1, <2>2, <2>3 DEF Entries
<1>2. CASE name \notin DOMAIN o.request.sources
  <2>1. OneItem(o.request, name, category, score, origin) = <<>>
    BY <1>2 DEF OneItem
  <2> QED BY <2>1, NoEntries
<1> QED BY <1>1, <1>2

LEMMA SourceEntries ==
  ASSUME NEW R, NEW o \in Occasions, NEW r, r = o.request
  PROVE  /\ Entries(TaskItems(r), R) /\ Entries(SummaryItems(r), R)
         /\ Entries(PlanItems(r), R) /\ Entries(GraphItems(r), R)
         /\ Entries(HistoryItems(r), R) /\ Entries(FailureItems(r), R)
         /\ Entries(RepairItems(r), R) /\ Entries(ReviewItems(r), R)
         /\ Entries(NoteItems(r), R) /\ Entries(EngineeringItems(r), R)
         /\ Entries(OrganizationItems(r), R)
<1>1. Entries(TaskItems(r), R)
  BY OneItemEntries DEF TaskItems
<1>2. Entries(SummaryItems(r), R)
  BY OneItemEntries DEF SummaryItems
<1>3. Entries(PlanItems(r), R)
  BY OneItemEntries DEF PlanItems
<1>4. Entries(GraphItems(r), R)
  BY OneItemEntries DEF GraphItems
<1>5. Entries(HistoryItems(r), R)
  BY OneItemEntries DEF HistoryItems
<1>6. Entries(FailureItems(r), R)
  BY OneItemEntries DEF FailureItems
<1>7. Entries(RepairItems(r), R)
  BY OneItemEntries DEF RepairItems
<1>8. Entries(ReviewItems(r), R)
  BY OneItemEntries DEF ReviewItems
<1>9. Entries(NoteItems(r), R)
  BY OneItemEntries DEF NoteItems
<1>10. Entries(EngineeringItems(r), R)
  BY OneItemEntries DEF EngineeringItems
<1>11. Entries(OrganizationItems(r), R)
  BY OneItemEntries DEF OrganizationItems
<1> QED BY <1>1, <1>2, <1>3, <1>4, <1>5, <1>6, <1>7, <1>8, <1>9, <1>10, <1>11

LEMMA HandoffEntries ==
  ASSUME NEW R, NEW o \in Occasions, NEW r, r = o.request
  PROVE  Entries(HandoffItems(r), R)
<1> DEFINE h == HandoffItems(r)
           n == Len(r.handoffs)
<1>1. n \in Nat /\ DOMAIN r.handoffs = 1 .. n /\ \A i \in 1 .. n : r.handoffs[i].tokens \in Nat
  BY OccasionsAssumption
<1> HIDE DEF n
<1>2. h = [i \in 1 .. n |-> Item("agent_handoff", 72, "handoff", r.handoffs[i])]
  BY <1>1 DEF HandoffItems
<1> HIDE DEF h
<1>3. \A i \in 1 .. n : h[i] = Item("agent_handoff", 72, "handoff", r.handoffs[i])
  BY <1>2
<1>4. \A i \in 1 .. n : Entry(h[i], R)
  <2> SUFFICES ASSUME NEW i \in 1 .. n PROVE Entry(h[i], R)
    OBVIOUS
  <2>1. r.handoffs[i].tokens \in Nat /\ h[i] = Item("agent_handoff", 72, "handoff", r.handoffs[i])
    BY <1>1, <1>3
  <2> QED BY <2>1, ItemEntry
<1>5. IsList(h) /\ DOMAIN h = 1 .. n
  <2>1. h = [i \in 1 .. n |-> h[i]]
    BY <1>2
  <2> QED BY <1>1, <2>1, ListIs
<1> QED BY <1>4, <1>5 DEF Entries, h

LEMMA ListingIs ==
  ASSUME NEW S, IsFiniteSet(S)
  PROVE  Cardinality(S) \in Nat /\ Listing(S) \in [1 .. Cardinality(S) -> S]
<1> DEFINE n == Cardinality(S)
<1>1. n \in Nat /\ ExistsBijection(1 .. n, S)
  BY FS_CardinalityType
<1>2. PICK f \in Bijection(1 .. n, S) : TRUE
  BY <1>1 DEF ExistsBijection
<1>3. f \in [1 .. n -> S] /\ \A i, j \in DOMAIN f : f[i] = f[j] => i = j
  BY <1>2 DEF Bijection, Injection, IsInjective
<1> QED BY <1>1, <1>3 DEF Listing

LEMMA MemoryItemEntry ==
  ASSUME NEW R, NEW id, id \notin R, NEW score \in Nat
  PROVE  Entry([Item("repository_memory", score, "repository_memory",
                     [text |-> id, tokens |-> 400]) EXCEPT !.memory = id], R)
<1> DEFINE from == {"repository_memory"}
           x == [text |-> id, tokens |-> 400]
           y == Item("repository_memory", score, "repository_memory", x)
           z == [y EXCEPT !.memory = id]
<1>1. y = [text |-> x.text, tokens |-> x.tokens, category |-> "repository_memory",
           score |-> score, provenance |-> from, memory |-> "none"]
  BY DEF Item
<1>2. x.text = id /\ x.tokens = 400
  OBVIOUS
<1> HIDE DEF from, x, y
<1>3. z = [text |-> id, tokens |-> 400, category |-> "repository_memory", score |-> score,
           provenance |-> from, memory |-> id]
  BY <1>1, <1>2
<1> HIDE DEF z
<1>4. Entry(z, R)
  BY <1>3 DEF Entry
<1> QED BY <1>4 DEF x, y, z

LEMMA MemoryEntries ==
  ASSUME NEW R, NEW read, IsFiniteSet(DOMAIN read),
         \A id \in DOMAIN read : read[id].confidence \in Nat /\ id \notin R
  PROVE  Entries(MemoryItems(read), R)
<1> DEFINE n == Cardinality(DOMAIN read)
           ids == Listing(DOMAIN read)
           M == MemoryItems(read)
           score(i) == IF read[ids[i]].confidence < 90 THEN read[ids[i]].confidence ELSE 90
           row(i) == Item("repository_memory", score(i), "repository_memory",
                          [text |-> ids[i], tokens |-> 400])
<1>1. n \in Nat /\ ids \in [1 .. n -> DOMAIN read]
  BY ListingIs
<1>2. M = [i \in DOMAIN ids |-> [row(i) EXCEPT !.memory = ids[i]]]
  BY DEF MemoryItems
<1> HIDE DEF n, ids, M
<1>3. \A i \in 1 .. n : M[i] = [row(i) EXCEPT !.memory = ids[i]]
  BY <1>1, <1>2
<1>4. \A i \in 1 .. n : score(i) \in Nat /\ ids[i] \notin R
  BY <1>1
<1> HIDE DEF score
<1>5. \A i \in 1 .. n : Entry(M[i], R)
  <2> SUFFICES ASSUME NEW i \in 1 .. n PROVE Entry(M[i], R)
    OBVIOUS
  <2> DEFINE id == ids[i]
             worth == score(i)
  <2>1. M[i] = [Item("repository_memory", worth, "repository_memory",
                     [text |-> id, tokens |-> 400]) EXCEPT !.memory = id]
    BY <1>3
  <2>2. id \notin R /\ worth \in Nat
    BY <1>4
  <2> HIDE DEF id, worth
  <2> QED BY <2>1, <2>2, MemoryItemEntry
<1>6. IsList(M) /\ DOMAIN M = 1 .. n
  <2>1. M = [i \in 1 .. n |-> M[i]]
    BY <1>1, <1>2
  <2> QED BY <1>1, <2>1, ListIs
<1> QED BY <1>5, <1>6 DEF Entries, M

-----------------------------------------------------------------------------
(* Every step of a session, of a promotion or of the context keeps it.     *)

(* What the steps of the sessions do with the memories.                    *)
LEMMA MemoriesKeep ==
  ASSUME MemoriesTyped, building'.retired = building.retired,
         DOMAIN memories' \subseteq DOMAIN memories,
         \A id \in DOMAIN memories' :
           /\ memories'[id].confidence = memories[id].confidence
           /\ memories'[id].status = memories[id].status \/ memories'[id].status \notin Live
  PROVE  MemoriesTyped'
<1>1. IsFiniteSet(DOMAIN memories')
  BY FS_Subset DEF MemoriesTyped
<1> QED BY <1>1 DEF MemoriesTyped

LEMMA SetKeeps ==
  ASSUME MemoriesTyped, building'.retired = building.retired, NEW s \in Sessions,
         \A id \in DOMAIN memories : \/ memories'[id] = Touched(s, id)
                                     \/ \E v : memories'[id] = Stale(memories[id], v)
                                     \/ memories'[id] = memories[id],
         DOMAIN memories' = DOMAIN memories
  PROVE  MemoriesTyped'
<1>1. ASSUME NEW id \in DOMAIN memories
      PROVE  /\ memories'[id].confidence = memories[id].confidence
             /\ memories'[id].status = memories[id].status \/ memories'[id].status \notin Live
  <2>1. CASE memories'[id] = Touched(s, id)
    BY <2>1 DEF Touched, Used, Updated
  <2>2. CASE \E v : memories'[id] = Stale(memories[id], v)
    BY <2>2 DEF Stale, Updated, Live
  <2>3. CASE memories'[id] = memories[id]
    BY <2>3
  <2> QED BY <2>1, <2>2, <2>3
<1> QED BY <1>1, MemoriesKeep

(* A session that is not, or no longer, one of the context's.              *)
LEMMA QueriesKeep ==
  ASSUME Queries, NEW s \in Sessions, NEW v, sessions' = [sessions EXCEPT ![s] = v],
         v.op # "query", building'.at = building.at,
         building'.retired = building.retired
  PROVE  Queries'
<1>1. DOMAIN sessions' = Sessions
  BY DEF Queries
<1>2. sessions'[s] = v /\ \A t \in Sessions : t # s => sessions'[t] = sessions[t]
  BY DEF Queries
<1>3. \A t \in Sessions : Querying(t)' => t # s /\ sessions'[t] = sessions[t] /\ Querying(t)
  BY <1>2 DEF Querying
<1> QED BY <1>1, <1>3 DEF Queries

LEMMA OpensKeep ==
  ASSUME Queries, NEW s \in Sessions, NEW op, op # "query", NEW ids, Opens(s, op, ids),
         building'.at = building.at, building'.retired = building.retired
  PROVE  Queries'
<1> DEFINE v == [op |-> op, read |-> Rows(ids)]
<1>1. sessions' = [sessions EXCEPT ![s] = v] /\ v.op # "query"
  BY DEF Opens
<1> HIDE DEF v
<1> QED BY <1>1, QueriesKeep

LEMMA NoQuery ==
  ASSUME Queries, building.at # "marking"
  PROVE  \A s \in Sessions : ~ Querying(s)
BY DEF Queries

LEMMA NotOfContext ==
  ASSUME ContextInv, UNCHANGED building, MemoriesTyped', Queries'
  PROVE  ContextInv'
BY DEF ContextInv, BuildingTyped, ChosenWell

LEMMA SessionSteps ==
  ASSUME ContextInv, NEW s \in Sessions,
         \/ SelectNamed(s) \/ RetireNamed(s) \/ GetMemory(s) \/ NoteUse(s)
         \/ RereadMemory(s) \/ UpdateMemory(s) \/ SelectDeleted(s) \/ DeleteMemory(s)
  PROVE  ContextInv'
<1>1. MemoriesTyped /\ Queries
  BY DEF ContextInv
<1>2. UNCHANGED building
  BY DEF SelectNamed, RetireNamed, GetMemory, NoteUse, RereadMemory, UpdateMemory,
         SelectDeleted, DeleteMemory
<1>3. ASSUME UNCHANGED memories PROVE MemoriesTyped'
  BY <1>1, <1>2, <1>3 DEF MemoriesTyped
<1>4. FreeSession.op # "query"
  BY DEF FreeSession
<1>5. CASE SelectNamed(s)
  <2>1. PICK ids : Opens(s, "symbols", ids)
    BY <1>5 DEF SelectNamed
  <2>2. Queries'
    BY <1>1, <1>2, <2>1, OpensKeep
  <2> QED BY <1>2, <1>3, <1>5, <2>2, NotOfContext DEF SelectNamed
<1>6. CASE RetireNamed(s)
  <2>1. Queries'
    BY <1>1, <1>2, <1>4, <1>6, QueriesKeep DEF RetireNamed, Closes
  <2>2. MemoriesTyped'
    <3>1. /\ DOMAIN memories' = DOMAIN memories
          /\ \A id \in DOMAIN memories : \/ \E v : memories'[id] = Stale(memories[id], v)
                                         \/ memories'[id] = memories[id]
      BY <1>6 DEF RetireNamed, Set
    <3> QED BY <1>1, <1>2, <3>1, SetKeeps
  <2> QED BY <1>2, <2>1, <2>2, NotOfContext
<1>7. CASE GetMemory(s)
  <2>1. PICK ids : Opens(s, "get", ids)
    BY <1>7 DEF GetMemory
  <2>2. Queries'
    BY <1>1, <1>2, <2>1, OpensKeep
  <2> QED BY <1>2, <1>3, <1>7, <2>2, NotOfContext DEF GetMemory
<1>8. CASE NoteUse(s)
  <2>1. Queries'
    <3> DEFINE v == IF sessions[s].read # NoMemories /\ StillThere(s)
                    THEN [op |-> "reread", read |-> sessions[s].read] ELSE FreeSession
    <3>1. v.op # "query"
      BY <1>4
    <3>2. sessions' = [sessions EXCEPT ![s] = v]
      BY <1>8 DEF NoteUse
    <3> HIDE DEF v
    <3> QED BY <1>1, <1>2, <3>1, <3>2, QueriesKeep
  <2>2. MemoriesTyped'
    <3>1. /\ DOMAIN memories' = DOMAIN memories
          /\ \A id \in DOMAIN memories : \/ memories'[id] = Touched(s, id)
                                         \/ memories'[id] = memories[id]
      BY <1>8 DEF NoteUse, Set
    <3> QED BY <1>1, <1>2, <3>1, SetKeeps
  <2> QED BY <1>2, <2>1, <2>2, NotOfContext
<1>9. CASE RereadMemory(s)
  <2>1. Queries'
    <3> DEFINE v == [op |-> "update",
                     read |-> Rows(DOMAIN sessions[s].read \intersect DOMAIN memories)]
    <3>1. sessions' = [sessions EXCEPT ![s] = v] /\ v.op # "query"
      BY <1>1, <1>9 DEF RereadMemory, Queries
    <3> HIDE DEF v
    <3> QED BY <1>1, <1>2, <3>1, QueriesKeep
  <2> QED BY <1>2, <1>3, <1>9, <2>1, NotOfContext DEF RereadMemory
<1>10. CASE UpdateMemory(s)
  <2>1. Queries'
    BY <1>1, <1>2, <1>4, <1>10, QueriesKeep DEF UpdateMemory, Closes
  <2>2. MemoriesTyped'
    <3>1. /\ DOMAIN memories' = DOMAIN memories
          /\ \A id \in DOMAIN memories : \/ \E v : memories'[id] = Stale(memories[id], v)
                                         \/ memories'[id] = memories[id]
      BY <1>10 DEF UpdateMemory, Set
    <3> QED BY <1>1, <1>2, <3>1, SetKeeps
  <2> QED BY <1>2, <2>1, <2>2, NotOfContext
<1>11. CASE SelectDeleted(s)
  <2>1. PICK ids : Opens(s, "delete", ids)
    BY <1>11 DEF SelectDeleted
  <2>2. Queries'
    BY <1>1, <1>2, <2>1, OpensKeep
  <2> QED BY <1>2, <1>3, <1>11, <2>2, NotOfContext DEF SelectDeleted
<1>12. CASE DeleteMemory(s)
  <2>1. Queries'
    BY <1>1, <1>2, <1>4, <1>12, QueriesKeep DEF DeleteMemory, Closes
  <2>2. MemoriesTyped'
    <3>1. /\ DOMAIN memories' \subseteq DOMAIN memories
          /\ \A id \in DOMAIN memories' : memories'[id] = memories[id]
      BY <1>12 DEF DeleteMemory
    <3> QED BY <1>1, <1>2, <3>1, MemoriesKeep
  <2> QED BY <1>2, <2>1, <2>2, NotOfContext
<1> QED BY <1>5, <1>6, <1>7, <1>8, <1>9, <1>10, <1>11, <1>12

(* A memory that is written is in use again.                               *)
LEMMA CreateKeeps == ContextInv /\ CreateMemory => ContextInv'
<1> SUFFICES ASSUME ContextInv, CreateMemory PROVE ContextInv'
  OBVIOUS
<1>1. UNCHANGED sessions
  BY DEF CreateMemory
<1>2. CASE UNCHANGED <<memories, building>>
  BY <1>1, <1>2 DEF ContextInv, MemoriesTyped, BuildingTyped, Queries, Querying, ChosenWell
<1>3. CASE ~ UNCHANGED <<memories, building>>
  <2> DEFINE id == Head(toPromote.writes).id
             row == RowOf(Head(toPromote.writes))
  <2>1. /\ memories' = [i \in DOMAIN memories \union {id} |-> IF i = id THEN row ELSE memories[i]]
        /\ building' = [building EXCEPT !.retired = @ \ {id}]
    BY <1>3 DEF CreateMemory
  <2>2. row.confidence \in Nat
    BY DEF RowOf, Memory
  <2> HIDE DEF id, row
  <2>3. /\ building'.at = building.at /\ building'.request = building.request
        /\ building'.items = building.items /\ building'.chosen = building.chosen
        /\ building'.retired = building.retired \ {id}
    BY <2>1 DEF ContextInv, BuildingTyped
  <2>4. MemoriesTyped'
    <3>1. IsFiniteSet(DOMAIN memories')
      BY <2>1, FS_AddElement DEF ContextInv, MemoriesTyped
    <3> QED BY <2>1, <2>2, <2>3, <3>1 DEF ContextInv, MemoriesTyped
  <2>5. BuildingTyped'
    BY <2>1, <2>3 DEF ContextInv, BuildingTyped
  <2>6. Queries'
    BY <1>1, <2>3 DEF ContextInv, Queries, Querying
  <2>7. Entries(building'.items, building'.retired)
    BY <2>3, EntriesShrink DEF ContextInv
  <2>8. ChosenWell'
    BY <2>3 DEF ContextInv, ChosenWell
  <2> QED BY <2>4, <2>5, <2>6, <2>7, <2>8 DEF ContextInv
<1> QED BY <1>2, <1>3

(* The builders, in their order.                                           *)
LEMMA NextItems ==
  ASSUME ContextInv, UNCHANGED <<memories, sessions>>,
         building.at # "marking", building'.at # "built",
         NEW R, NEW items, Entries(items, R),
         R = building.retired \/ R = {id \in DOMAIN memories : memories[id].status \notin Live},
         building' = [building EXCEPT !.at = building'.at, !.items = items, !.retired = R]
  PROVE  ContextInv'
<1>1. /\ building'.request = building.request /\ building'.items = items
      /\ building'.chosen = building.chosen /\ building'.retired = R
  BY DEF ContextInv, BuildingTyped
<1>2. BuildingTyped'
  BY <1>1 DEF ContextInv, BuildingTyped
<1>3. MemoriesTyped'
  BY <1>1 DEF ContextInv, MemoriesTyped
<1>4. Queries'
  <2>1. \A s \in Sessions : ~ Querying(s)
    BY NoQuery DEF ContextInv
  <2> QED BY <2>1 DEF ContextInv, Queries, Querying
<1>5. ChosenWell'
  BY DEF ChosenWell
<1> QED BY <1>1, <1>2, <1>3, <1>4, <1>5 DEF ContextInv

LEMMA ContextSteps ==
  ASSUME ContextInv, BeginContext \/ ReadHistory \/ MemoriesFail \/ ReadGraphs \/ ChooseItems
  PROVE  ContextInv'
<1> DEFINE r == building.request
           R == building.retired
<1>1. PICK o \in Occasions : r = o.request
  BY DEF ContextInv, BuildingTyped
<1>2. Entries(building.items, R)
  BY DEF ContextInv
<1>3. building = [at |-> building.at, request |-> building.request, items |-> building.items,
                  retired |-> building.retired, chosen |-> building.chosen]
  BY DEF ContextInv, BuildingTyped
<1>4. CASE BeginContext
  <2> DEFINE items == TaskItems(r) \o SummaryItems(r) \o PlanItems(r) \o GraphItems(r)
             S == {id \in DOMAIN memories : memories[id].status \notin Live}
  <2>1. Entries(items, S)
    BY <1>1, SourceEntries, EntriesConcat
  <2> HIDE DEF items, S
  <2>2. /\ building.at = "idle" /\ UNCHANGED <<memories, sessions>>
        /\ building' = [building EXCEPT !.at = "history", !.items = items, !.retired = S]
    BY <1>4 DEF BeginContext, items, S
  <2>3. building'.at = "history"
    BY <1>3, <2>2
  <2> QED BY <2>1, <2>2, <2>3, NextItems DEF S
<1>5. CASE ReadHistory
  <2> DEFINE Rest == FailureItems(r) \o RepairItems(r) \o ReviewItems(r) \o NoteItems(r)
                     \o HandoffItems(r)
             then == IF r.symbols = {} THEN "graphs" ELSE "memory"
  <2>1. Entries(Rest, R)
    BY <1>1, SourceEntries, HandoffEntries, EntriesConcat
  <2> HIDE DEF Rest
  <2>2. PICK found \in {HistoryItems(r), <<>>} :
          building' = [building EXCEPT !.at = then, !.items = @ \o found \o Rest]
    BY <1>5 DEF ReadHistory, Rest
  <2>3. building.at = "history" /\ UNCHANGED <<memories, sessions>>
    BY <1>5 DEF ReadHistory
  <2> DEFINE items == building.items \o found \o Rest
  <2>4. Entries(items, R)
    BY <1>1, <1>2, <2>1, SourceEntries, NoEntries, EntriesConcat
  <2>5. building' = [building EXCEPT !.at = then, !.items = items, !.retired = R]
    BY <1>3, <2>2
  <2> HIDE DEF items
  <2>6. building'.at = then /\ then # "built"
    BY <1>3, <2>2
  <2> HIDE DEF then
  <2> QED BY <2>3, <2>4, <2>5, <2>6, NextItems
<1>6. CASE MemoriesFail
  <2> DEFINE items == building.items
  <2>1. /\ building.at = "memory" /\ UNCHANGED <<memories, sessions>>
        /\ building' = [building EXCEPT !.at = "graphs"]
    BY <1>6 DEF MemoriesFail
  <2>2. building' = [building EXCEPT !.at = "graphs", !.items = items, !.retired = R]
    BY <1>3, <2>1
  <2>3. building'.at = "graphs"
    BY <1>3, <2>1
  <2> QED BY <1>2, <2>1, <2>2, <2>3, NextItems
<1>7. CASE ReadGraphs
  <2>1. PICK known \in {EngineeringItems(r), <<>>}, across \in {OrganizationItems(r), <<>>} :
          building' = [building EXCEPT !.at = "rank", !.items = @ \o known \o across]
    BY <1>7 DEF ReadGraphs
  <2>2. building.at = "graphs" /\ UNCHANGED <<memories, sessions>>
    BY <1>7 DEF ReadGraphs
  <2> DEFINE items == building.items \o known \o across
  <2>3. Entries(items, R)
    BY <1>1, <1>2, SourceEntries, NoEntries, EntriesConcat
  <2>4. building' = [building EXCEPT !.at = "rank", !.items = items, !.retired = R]
    BY <1>3, <2>1
  <2> HIDE DEF items
  <2>5. building'.at = "rank"
    BY <1>3, <2>1
  <2> QED BY <2>2, <2>3, <2>4, <2>5, NextItems
<1>8. CASE ChooseItems
  <2> DEFINE c == Within(Deduplicated(Ranked(building.items)), r.agent)
  <2>1. /\ building.at = "rank" /\ UNCHANGED <<memories, sessions>>
        /\ building' = [building EXCEPT !.at = "built", !.chosen = c]
    BY <1>8 DEF ChooseItems
  <2> HIDE DEF c
  <2>2. /\ building'.at = "built" /\ building'.request = r /\ building'.items = building.items
        /\ building'.chosen = c /\ building'.retired = R
    BY <1>3, <2>1
  <2>3. BuildingTyped'
    BY <1>1, <1>3, <2>1, <2>2 DEF BuildingTyped
  <2>4. MemoriesTyped'
    BY <2>1, <2>2 DEF ContextInv, MemoriesTyped
  <2>5. Queries'
    <3>1. \A s \in Sessions : ~ Querying(s)
      BY <2>1, NoQuery DEF ContextInv
    <3> QED BY <2>1, <3>1 DEF ContextInv, Queries, Querying
  <2>6. ChosenWell'
    BY <2>2 DEF ChosenWell, c
  <2> QED BY <1>2, <2>2, <2>3, <2>4, <2>5, <2>6 DEF ContextInv
<1> QED BY <1>4, <1>5, <1>6, <1>7, <1>8


(* The memories for the context.                                           *)
LEMMA SelectKeeps ==
  ASSUME ContextInv, NEW s \in Sessions, SelectMemories(s)
  PROVE  ContextInv'
<1>1. PICK S \in FirstOf(Wanted(building.request)) : Opens(s, "query", S)
  BY DEF SelectMemories
<1>2. /\ building.at = "memory" /\ building' = [building EXCEPT !.at = "marking"]
      /\ UNCHANGED memories
  BY DEF SelectMemories
<1>3. /\ building'.at = "marking" /\ building'.request = building.request
      /\ building'.items = building.items /\ building'.retired = building.retired
      /\ building'.chosen = building.chosen
  BY <1>2 DEF ContextInv, BuildingTyped
<1>4. BuildingTyped'
  BY <1>2, <1>3 DEF ContextInv, BuildingTyped
<1>5. MemoriesTyped'
  BY <1>2, <1>3 DEF ContextInv, MemoriesTyped
<1>6. S \subseteq DOMAIN memories /\ \A id \in S : memories[id].status \in Live
  BY <1>1 DEF FirstOf, Wanted, Named
<1>7. IsFiniteSet(S)
  BY <1>6, FS_Subset DEF ContextInv, MemoriesTyped
<1>8. \A id \in S : memories[id].confidence \in Nat /\ id \notin building.retired
  BY <1>6 DEF ContextInv, MemoriesTyped
<1>9. Queries'
  <2> DEFINE v == [op |-> "query", read |-> Rows(S)]
  <2>1. sessions' = [sessions EXCEPT ![s] = v] /\ DOMAIN sessions = Sessions
    BY <1>1 DEF Opens, ContextInv, Queries
  <2>2. DOMAIN v.read = S /\ \A id \in S : v.read[id] = memories[id]
    BY DEF Rows
  <2> HIDE DEF v
  <2>3. /\ DOMAIN sessions' = Sessions /\ sessions'[s] = v
        /\ \A t \in Sessions : t # s => sessions'[t] = sessions[t]
    BY <2>1
  <2>4. \A t \in Sessions : ~ Querying(t)
    BY <1>2, NoQuery DEF ContextInv
  <2>5. \A t \in Sessions : t # s => ~ Querying(t)'
    BY <2>3, <2>4 DEF Querying
  <2>6. /\ IsFiniteSet(DOMAIN sessions'[s].read)
        /\ \A id \in DOMAIN sessions'[s].read :
             sessions'[s].read[id].confidence \in Nat /\ id \notin building'.retired
    BY <1>3, <1>7, <1>8, <2>2, <2>3
  <2> QED BY <1>3, <2>3, <2>5, <2>6 DEF Queries
<1>10. ChosenWell'
  BY <1>3 DEF ChosenWell
<1> QED BY <1>3, <1>4, <1>5, <1>9, <1>10 DEF ContextInv

LEMMA ReturnKeeps ==
  ASSUME ContextInv, NEW s \in Sessions, ReturnMemories(s)
  PROVE  ContextInv'
<1> DEFINE found == IF StillThere(s) THEN MemoryItems(sessions[s].read) ELSE <<>>
           items == building.items \o found
           R == building.retired
<1>1. /\ Querying(s) /\ sessions' = [sessions EXCEPT ![s] = FreeSession]
      /\ building' = [building EXCEPT !.at = "graphs", !.items = items]
  BY DEF ReturnMemories, Querying, Closes
<1>2. Entries(items, R)
  <2>1. Entries(MemoryItems(sessions[s].read), R)
    BY <1>1, MemoryEntries DEF ContextInv, Queries
  <2> QED BY <2>1, NoEntries, EntriesConcat DEF ContextInv
<1> HIDE DEF items
<1>3. /\ building'.at = "graphs" /\ building'.request = building.request
      /\ building'.items = items /\ building'.retired = R
      /\ building'.chosen = building.chosen
  BY <1>1 DEF ContextInv, BuildingTyped
<1>4. BuildingTyped'
  BY <1>1, <1>3 DEF ContextInv, BuildingTyped
<1>5. MemoriesTyped'
  <2>1. /\ DOMAIN memories' = DOMAIN memories
        /\ \A id \in DOMAIN memories : \/ memories'[id] = Touched(s, id)
                                       \/ memories'[id] = memories[id]
    BY DEF ReturnMemories, Set
  <2> QED BY <1>3, <2>1, SetKeeps DEF ContextInv
<1>6. Queries'
  <2>1. /\ DOMAIN sessions' = Sessions /\ sessions'[s] = FreeSession
        /\ \A t \in Sessions : t # s => sessions'[t] = sessions[t]
    BY <1>1 DEF ContextInv, Queries
  <2>2. \A t \in Sessions : t # s => ~ Querying(t)
    BY <1>1 DEF ContextInv, Queries
  <2>3. \A t \in Sessions : ~ Querying(t)'
    BY <2>1, <2>2 DEF Querying, FreeSession
  <2> QED BY <2>1, <2>3 DEF Queries
<1>7. ChosenWell'
  BY <1>3 DEF ChosenWell
<1> QED BY <1>2, <1>3, <1>4, <1>5, <1>6, <1>7 DEF ContextInv

LEMMA ContextInvInit == AgentContextInit => ContextInv
<1> SUFFICES ASSUME AgentContextInit PROVE ContextInv
  OBVIOUS
<1>1. DOMAIN NoMemories = {}
  BY Zenon DEF NoMemories
<1>2. PICK o \in Occasions : building = NotBuilding(o.request)
  BY DEF AgentContextInit
<1>3. building = [at |-> "idle", request |-> o.request, items |-> <<>>, retired |-> {},
                  chosen |-> <<>>]
  BY <1>2 DEF NotBuilding
<1>4. MemoriesTyped
  BY <1>1, <1>3, FS_EmptySet DEF AgentContextInit, MemoriesTyped
<1>5. BuildingTyped
  BY <1>3 DEF BuildingTyped
<1>6. Queries
  BY DEF AgentContextInit, Queries, Querying, FreeSession
<1>7. Entries(building.items, building.retired) /\ ChosenWell
  BY <1>3, NoEntries DEF ChosenWell
<1> QED BY <1>4, <1>5, <1>6, <1>7 DEF ContextInv

LEMMA ContextInvNext == ContextInv /\ [AgentContextNext]_contextVars => ContextInv'
<1> SUFFICES ASSUME ContextInv, [AgentContextNext]_contextVars PROVE ContextInv'
  OBVIOUS
<1>1. ASSUME UNCHANGED <<memories, sessions, building>> PROVE ContextInv'
  BY <1>1 DEF ContextInv, MemoriesTyped, BuildingTyped, Queries, Querying, ChosenWell
<1>2. CASE \E r \in toPromote.runs : PromoteRun(r)
  BY <1>1, <1>2 DEF PromoteRun
<1>3. CASE \E g \in toPromote.goals : PromoteGoal(g)
  BY <1>1, <1>3 DEF PromoteGoal
<1>4. CASE CreateMemory
  BY <1>4, CreateKeeps
<1>5. CASE \E s \in Sessions :
             \/ SelectNamed(s) \/ RetireNamed(s) \/ GetMemory(s) \/ NoteUse(s)
             \/ RereadMemory(s) \/ UpdateMemory(s) \/ SelectDeleted(s) \/ DeleteMemory(s)
  BY <1>5, SessionSteps
<1>6. CASE \E s \in Sessions : SelectMemories(s)
  BY <1>6, SelectKeeps
<1>7. CASE \E s \in Sessions : ReturnMemories(s)
  BY <1>7, ReturnKeeps
<1>8. CASE BeginContext \/ ReadHistory \/ MemoriesFail \/ ReadGraphs \/ ChooseItems
  BY <1>8, ContextSteps
<1>9. CASE UNCHANGED contextVars
  BY <1>1, <1>9 DEF contextVars
<1> QED BY <1>2, <1>3, <1>4, <1>5, <1>6, <1>7, <1>8, <1>9 DEF AgentContextNext

(* Whatever runs, goals and the memory routes write and retire while a     *)
(* context is built, it holds no memory that was out of use, stays within  *)
(* its limits, and has each text once, with all its origins.               *)
THEOREM ContextsSound == AgentContextSpec => []ContextSound
BY ContextInvInit, ContextInvNext, ContextSoundFollows, PTL DEF AgentContextSpec
=============================================================================
