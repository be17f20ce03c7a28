----------------------- MODULE KnowledgeGraphsProofs -----------------------
(***************************************************************************)
(* Proofs about KnowledgeGraphs, for any runs, repositories and files and  *)
(* any number of recordings, acquisitions, lost writes and restarts: the   *)
(* tables hold a recording whole or not at all, a replan selects the suite *)
(* recorded last, and a traversal enters no repository without a link.     *)
(*                                                                         *)
(* The first rests on numbers: every recording has one of its own, and the *)
(* nodes that carry it are nowhere but in its graph and in those of the    *)
(* repositories it patched; its own nodes - all but files and              *)
(* repositories - are stored by nobody else.  The second rests on stamps: of two suites     *)
(* that went through one graph the later has the greater one, and the      *)
(* graph, loaded again or not, is ahead of all it gave.  The third rests   *)
(* on names: what stands in the graph of a repository, or is stored under  *)
(* it, is named after it or belongs to none.                               *)
(***************************************************************************)
EXTENDS KnowledgeGraphs, WellFoundedInduction, FiniteSetTheorems,
        SequenceTheorems, TLAPS

----------------------------------------------------------------------------
(* The knowledge graphs: what the operations on one make of it.          *)

(* The fields of a node and of a graph.                                  *)
NodeFields == {"stamp", "repo", "rec", "born"}
GraphFields == {"nodes", "edges", "version"}

(* M is N with ids written by recording rec under a version.             *)
WriteOf(N, M, ids, rec, stamp) ==
  /\ DOMAIN M = ids \union DOMAIN N
  /\ \A n \in ids : DOMAIN M[n] = NodeFields /\ M[n].rec = rec /\ M[n].stamp = stamp
  /\ \A n \in DOMAIN N \ ids : M[n] = N[n]

(* What each operation on a graph writes.                                *)
LEMMA AddNodesWrites ==
  ASSUME NEW g, DOMAIN g = GraphFields, NEW ids, NEW repo, NEW rec
  PROVE  LET h == AddNodes(g, ids, repo, rec)
         IN /\ DOMAIN h = GraphFields /\ h.edges = g.edges /\ h.version = g.version
            /\ WriteOf(g.nodes, h.nodes, ids, rec, g.version)
<1> DEFINE N == g.nodes
           F == [i \in ids |-> [stamp |-> g.version, repo |-> repo, rec |-> rec,
                                born |-> IF i \in DOMAIN N THEN N[i].born ELSE Now(N)]]
           M == Merged(N, F)
           h == [g EXCEPT !.nodes = M]
<1>1. AddNodes(g, ids, repo, rec) = h
  BY DEF AddNodes
<1>2. WriteOf(N, M, ids, rec, g.version)
  <2>1. DOMAIN F = ids /\ \A n \in ids : /\ DOMAIN F[n] = NodeFields /\ F[n].rec = rec
                                        /\ F[n].stamp = g.version
    BY DEF NodeFields
  <2> HIDE DEF F, N
  <2>2. /\ DOMAIN M = ids \union DOMAIN N
        /\ \A n \in ids : M[n] = F[n]
        /\ \A n \in DOMAIN N \ ids : M[n] = N[n]
    BY <2>1 DEF Merged
  <2> HIDE DEF M
  <2> QED BY <2>1, <2>2 DEF WriteOf
<1> HIDE DEF M
<1>3. DOMAIN h = GraphFields /\ h.edges = g.edges /\ h.version = g.version /\ h.nodes = M
  BY DEF GraphFields
<1> QED BY <1>1, <1>2, <1>3

(* New edges change nothing else.                                        *)
LEMMA AddEdgesKeeps ==
  ASSUME NEW g, DOMAIN g = GraphFields, NEW es
  PROVE  LET h == AddEdges(g, es)
         IN /\ DOMAIN h = GraphFields /\ h.nodes = g.nodes /\ h.version = g.version
            /\ h.edges \subseteq g.edges \union es
BY DEF AddEdges, GraphFields

(* A new version changes nothing else.                                   *)
LEMMA IncrementKeeps ==
  ASSUME NEW g, DOMAIN g = GraphFields
  PROVE  LET h == IncrementVersion(g)
         IN /\ DOMAIN h = GraphFields /\ h.nodes = g.nodes /\ h.version = g.version + 1
            /\ h.edges = g.edges
BY DEF IncrementVersion, GraphFields

(* What the recording of a run does to the version and to the edges.     *)
RecordRunMore(g, h) ==
  /\ h.version = g.version + 1
  /\ \A e \in h.edges \ g.edges : e.rel = "validated_by" => e.target[1] = "suite"

(* The recording of a run writes its nodes, and validates by a suite     *)
(* only.                                                                 *)
LEMMA RecordRunWrites ==
  ASSUME NEW g, DOMAIN g = GraphFields, NEW run, NEW path, NEW files, NEW tested, NEW rec
  PROVE  LET h == RecordRun(g, run, path, files, tested, rec)
             written == RunIds(run, files, tested) \union {StableId("checkout", path, Default)}
         IN /\ DOMAIN h = GraphFields /\ RecordRunMore(g, h)
            /\ WriteOf(g.nodes, h.nodes, written, rec, g.version)
<1> DEFINE written == RunIds(run, files, tested) \union {StableId("checkout", path, Default)}
           h == AddNodes(g, written, Default, rec)
           es == RunEdges(h, run, path, files, tested)
           k == AddEdges(h, es)
<1>1. /\ DOMAIN h = GraphFields /\ h.edges = g.edges /\ h.version = g.version
      /\ WriteOf(g.nodes, h.nodes, written, rec, g.version)
  BY AddNodesWrites
<1>2. \A e \in es : e.rel = "validated_by" => e.target[1] = "suite"
  BY DEF RunEdges, Edge, StableId
<1>3. RecordRun(g, run, path, files, tested, rec) = IncrementVersion(k)
  BY DEF RecordRun
<1> HIDE DEF h, es
<1>4. DOMAIN k = GraphFields /\ k.nodes = h.nodes /\ k.version = h.version
      /\ k.edges \subseteq h.edges \union es
  BY <1>1, AddEdgesKeeps
<1> HIDE DEF k
<1>5. RecordRunMore(g, IncrementVersion(k))
  BY <1>1, <1>2, <1>4, IncrementKeeps DEF RecordRunMore
<1> QED BY <1>1, <1>3, <1>4, <1>5, IncrementKeeps

(* The recording for a repository writes its nodes and validates         *)
(* nothing.                                                              *)
LEMMA IngestRunWrites ==
  ASSUME NEW g, DOMAIN g = GraphFields, NEW run, NEW repo, NEW files, NEW rec
  PROVE  LET h == IngestRun(g, run, repo, files, rec)
         IN /\ DOMAIN h = GraphFields /\ h.version = g.version + 1
            /\ WriteOf(g.nodes, h.nodes, NamespaceIds(run, repo, files), rec, g.version)
            /\ \A e \in h.edges \ g.edges : e.rel # "validated_by"
<1> DEFINE ids == NamespaceIds(run, repo, files)
           h == AddNodes(g, ids, repo, rec)
           es == NamespaceEdges(run, repo, files)
           k == AddEdges(h, es)
<1>1. /\ DOMAIN h = GraphFields /\ h.edges = g.edges /\ h.version = g.version
      /\ WriteOf(g.nodes, h.nodes, ids, rec, g.version)
  BY AddNodesWrites
<1>2. \A e \in es : e.rel # "validated_by"
  BY DEF NamespaceEdges, Edge
<1>3. IngestRun(g, run, repo, files, rec) = IncrementVersion(k)
  BY DEF IngestRun
<1> HIDE DEF h, es
<1>4. DOMAIN k = GraphFields /\ k.nodes = h.nodes /\ k.version = h.version
      /\ k.edges \subseteq h.edges \union es
  BY <1>1, AddEdgesKeeps
<1> HIDE DEF k
<1> QED BY <1>1, <1>2, <1>3, <1>4, IncrementKeeps

(* A new graph is empty.                                                 *)
LEMMA NewGraphIs ==
  DOMAIN NewGraph = GraphFields /\ DOMAIN NewGraph.nodes = {} /\ NewGraph.edges = {}
  /\ NewGraph.version = 1
BY DEF NewGraph, GraphFields

(* A repository's new graph holds nodes of no recording.                 *)
LEMMA SeedWrites ==
  ASSUME NEW repo
  PROVE  LET h == Seed(NewGraph, repo, 0)
         IN /\ DOMAIN h = GraphFields /\ h.version = 1
            /\ \A n \in DOMAIN h.nodes : /\ DOMAIN h.nodes[n] = NodeFields /\ h.nodes[n].rec = 0
                                         /\ h.nodes[n].stamp = 1
            /\ \A e \in h.edges : e.rel # "validated_by"
<1> DEFINE ids == {RepoNodeId(repo), StableId("file", "seed", repo)}
           h == AddNodes(NewGraph, ids, repo, 0)
           es == {Edge(RepoNodeId(repo), StableId("file", "seed", repo), "contains")}
<1>1. /\ DOMAIN h = GraphFields /\ h.edges = {} /\ h.version = 1
      /\ WriteOf(NewGraph.nodes, h.nodes, ids, 0, 1)
  BY NewGraphIs, AddNodesWrites
<1>2. \A e \in es : e.rel # "validated_by"
  BY DEF Edge
<1>3. Seed(NewGraph, repo, 0) = AddEdges(h, es)
  BY DEF Seed
<1> HIDE DEF h, es
<1> QED BY <1>1, <1>2, <1>3, AddEdgesKeeps, NewGraphIs DEF WriteOf

(* A registration adds what names the repository.                        *)
LEMMA RegisteredWrites ==
  ASSUME NEW g, DOMAIN g = GraphFields, NEW repo, g.version \in Nat
  PROVE  LET h == Registered(g, repo)
         IN /\ DOMAIN h = GraphFields /\ h.version \in {g.version, g.version + 1}
            /\ h.edges = g.edges
            /\ \/ h.nodes = g.nodes
               \/ /\ RepoNodeId(repo) \notin DOMAIN g.nodes
                  /\ WriteOf(g.nodes, h.nodes, {RepoNodeId(repo)}, 0, g.version)
<1>1. CASE RepoNodeId(repo) \in DOMAIN g.nodes
  BY <1>1 DEF Registered
<1>2. CASE RepoNodeId(repo) \notin DOMAIN g.nodes
  <2> DEFINE h == AddNodes(g, {RepoNodeId(repo)}, Default, 0)
  <2>1. /\ DOMAIN h = GraphFields /\ h.edges = g.edges /\ h.version = g.version
        /\ WriteOf(g.nodes, h.nodes, {RepoNodeId(repo)}, 0, g.version)
    BY AddNodesWrites
  <2>2. Registered(g, repo) = IncrementVersion(h)
    BY <1>2 DEF Registered
  <2> HIDE DEF h
  <2> QED BY <1>2, <2>1, <2>2, IncrementKeeps
<1> QED BY <1>1, <1>2

(* The rows after an upsert: of a written one only the creation time may *)
(* be another.                                                           *)
AllRows(new) == \A n \in DOMAIN new : DOMAIN new[n] = NodeFields

UpsertOf(old, new, N) ==
  /\ DOMAIN N = DOMAIN new \union DOMAIN old
  /\ \A n \in DOMAIN new : /\ DOMAIN N[n] = NodeFields
                           /\ N[n].rec = new[n].rec /\ N[n].stamp = new[n].stamp
  /\ \A n \in DOMAIN old \ DOMAIN new : N[n] = old[n]

(* The merge takes the new rows and keeps the others.                    *)
LEMMA UpsertedWrites ==
  ASSUME NEW old, NEW new, AllRows(new)
  PROVE  UpsertOf(old, new, Upserted(old, new))
<1> DEFINE Time(i) == IF i \in DOMAIN old THEN old[i].born ELSE Now(old)
           F == [i \in DOMAIN new |-> [new[i] EXCEPT !.born = Time(i)]]
<1>1. Upserted(old, new) = Merged(old, F)
  BY DEF Upserted
<1> HIDE DEF Time
<1>2. DOMAIN F = DOMAIN new /\ \A n \in DOMAIN new :
        /\ DOMAIN F[n] = NodeFields /\ F[n].rec = new[n].rec /\ F[n].stamp = new[n].stamp
  BY DEF NodeFields, AllRows
<1> HIDE DEF F
<1>3. /\ DOMAIN Merged(old, F) = DOMAIN new \union DOMAIN old
      /\ \A n \in DOMAIN new : Merged(old, F)[n] = F[n]
      /\ \A n \in DOMAIN old \ DOMAIN new : Merged(old, F)[n] = old[n]
  BY <1>2 DEF Merged
<1> QED BY <1>1, <1>2, <1>3 DEF UpsertOf

(* A graph that is loaded is made of rows, and counts on from them.      *)
LEMMA LoadReads ==
  ASSUME NEW N, NEW es, NEW versions, NEW ns
  PROVE  LET h == Load(N, es, versions, ns)
         IN /\ DOMAIN h = GraphFields
            /\ DOMAIN h.nodes \subseteq DOMAIN N
            /\ \A n \in DOMAIN h.nodes : h.nodes[n] = N[n]
            /\ \A e \in h.edges : \E r \in es : r.edge = e
            /\ h.version = IF versions = {} THEN 1 ELSE Max(versions)
BY DEF Load, GraphFields

(* The rows of a recording are its nodes.                                *)
LEMMA RowsOfAre ==
  ASSUME NEW g, NEW ids
  PROVE  DOMAIN RowsOf(g, ids) = ids /\ \A n \in ids : RowsOf(g, ids)[n] = g.nodes[n]
BY DEF RowsOf

----------------------------------------------------------------------------
(* Recordings are whole in the tables: the invariant.                    *)

(* Nodes or rows: every one is of one of n recordings, or of none.       *)
Dated(N, n) == \A id \in DOMAIN N : DOMAIN N[id] = NodeFields /\ N[id].rec \in 0 .. n

(* An acquisition under way has repositories and links left.             *)
Acquiring(a) ==
  a.at # "idle" => /\ DOMAIN a = {"at", "rest", "links"} /\ IsFiniteSet(a.links)
                   /\ a.at = "acquire" => a.rest \in Seq(Repos)

(* What the variables are, as far as the proofs need it.                 *)
GraphsTyped ==
  /\ recordings \in Nat /\ DOMAIN graphs = Instances
  /\ opened \subseteq Repos /\ namespaceRows \subseteq Repos /\ namespaces \subseteq Repos
  /\ \A i \in Instances : DOMAIN graphs[i] = GraphFields /\ Dated(graphs[i].nodes, recordings)
  /\ Dated(nodeRows, recordings)
  /\ Acquiring(acquiring)
  /\ DOMAIN tasks = Runs

(* A run whose recording is under way, and one that has rows to store.   *)
Active(r) == tasks[r].at # "idle"
Writes(t) == t.at \in {"select", "commit"}

(* A recording under way: the rows it stores are of its own number, those *)
(* of the run or those of one repository.                                *)
TaskFields == {"at", "inst", "rec", "rows", "edges", "version", "absent", "rest"}

TaskSound(t, r, n) ==
  /\ DOMAIN t = TaskFields
  /\ t.rec \in 1 .. n /\ t.inst \in Instances /\ t.rest \in Seq(Repos)
  /\ \A id \in DOMAIN t.rows : DOMAIN t.rows[id] = NodeFields /\ t.rows[id].rec = t.rec
  /\ t.inst \in Repos => DOMAIN t.rows = NamespaceIds(r, t.inst, Patched[r])
  /\ t.inst \notin Repos => /\ t.inst = Target(r)
                            /\ \A id \in DOMAIN t.rows : id[3] = Default

(* No two recordings under way have one number.                          *)
TasksSound ==
  /\ \A r \in Runs : Active(r) => TaskSound(tasks[r], r, recordings)
  /\ \A r, q \in Runs : Active(r) /\ Active(q) /\ r # q => tasks[r].rec # tasks[q].rec

(* What only one run writes.                                             *)
Private(n) == n[1] \notin {"file", "repository"}

(* What is there of a recording.                                         *)
OfRec(N, rec) == {n \in DOMAIN N : n[1] # "checkout" /\ N[n].rec = rec}

(* What a recording under way left so far in the graphs G and the table T: *)
(* nodes of its own in the graphs it is for; and all the rows of a       *)
(* repository when there is one that only it can have stored.            *)
LeftBy(G, T, O, r, rec) ==
  /\ \A repo \in O : OfRec(G[repo].nodes, rec) \subseteq NamespaceIds(r, repo, Patched[r])
  /\ \A i \in {"ekg", "org"} : \A n \in OfRec(G[i].nodes, rec) : i = Target(r) /\ n[3] = Default
  /\ \A repo \in Repos, m \in DOMAIN T :
       Private(m) /\ m[3] = repo /\ T[m].rec = rec => NamespaceIds(r, repo, Patched[r]) \subseteq DOMAIN T

(* It stores all that its graph has of it.                               *)
StoresAll(G, t) == Writes(t) => OfRec(G[t.inst].nodes, t.rec) \subseteq DOMAIN t.rows

(* Every recording under way left that, and stores all it left.          *)
LeftSound ==
  \A r \in Runs : Active(r) => /\ LeftBy(graphs, nodeRows, opened, r, tasks[r].rec)
                               /\ StoresAll(graphs, tasks[r])

(* The table has all of a recording that a graph has, or nothing that    *)
(* only this run writes.                                                 *)
WholeIn(N, T, rec) ==
  \A m \in OfRec(N, rec) \intersect DOMAIN T :
    Private(m) /\ T[m].rec = rec => OfRec(N, rec) \subseteq DOMAIN T

(* Every recording is whole, in every graph there is.                    *)
Footprints ==
  \A i \in {"ekg", "org"} \union opened : \A rec \in 1 .. recordings :
    WholeIn(graphs[i].nodes, nodeRows, rec)

(* What the invariant behind FootprintWhole says of graphs and tables.   *)
FootprintInv == GraphsTyped /\ TasksSound /\ LeftSound /\ Footprints

(* What a recording read again is of nodes that are shared, and was      *)
(* written by recordings.                                                *)
ReadFields == {"left", "asked", "newer", "live"}

ReadSound(t, look, n) ==
  /\ DOMAIN look = ReadFields
  /\ look.left \union DOMAIN look.newer \subseteq Shared(DOMAIN t.rows)
  /\ \A id \in DOMAIN look.newer :
       DOMAIN look.newer[id] = NodeFields /\ look.newer[id].rec \in 0 .. n

ReadingSound ==
  /\ DOMAIN reading = Runs
  /\ \A r \in Runs : Writes(tasks[r]) => ReadSound(tasks[r], reading[r], recordings)

----------------------------------------------------------------------------
(* The graphs of the orchestrator are none of a repository.              *)
LEMMA InstancesAre ==
  /\ {"ekg", "org"} \subseteq Instances /\ Repos \subseteq Instances
  /\ "ekg" \notin Repos /\ "org" \notin Repos /\ Default \notin Repos
  /\ \A r : Target(r) \in {"ekg", "org"}
BY GraphAssumption DEF Instances, Target

(* Writing a recording's nodes adds to what there is of it and takes from *)
(* what there is of others.                                              *)
LEMMA WrittenOf ==
  ASSUME NEW N, NEW M, NEW ids, NEW rec, NEW stamp, WriteOf(N, M, ids, rec, stamp)
  PROVE  /\ OfRec(M, rec) \subseteq OfRec(N, rec) \union {n \in ids : n[1] # "checkout"}
         /\ \A q : q # rec => OfRec(M, q) \subseteq OfRec(N, q)
BY DEF WriteOf, OfRec

(* Writing under a number given out keeps the numbers in their range.    *)
LEMMA WrittenDated ==
  ASSUME NEW N, NEW M, NEW ids, NEW n \in Nat, NEW rec \in 0 .. n, NEW stamp,
         WriteOf(N, M, ids, rec, stamp), NEW k \in 0 .. n, Dated(N, k)
  PROVE  Dated(M, n)
<1> SUFFICES ASSUME NEW id \in DOMAIN M PROVE DOMAIN M[id] = NodeFields /\ M[id].rec \in 0 .. n
  BY DEF Dated
<1>1. CASE id \in ids
  BY <1>1 DEF WriteOf
<1>2. CASE id \notin ids
  <2>1. id \in DOMAIN N /\ M[id] = N[id]
    BY <1>2 DEF WriteOf
  <2> QED BY <2>1 DEF Dated
<1> QED BY <1>1, <1>2

LEMMA NoneYet ==
  ASSUME NEW N, NEW n \in Nat, Dated(N, n)
  PROVE  OfRec(N, n + 1) = {} /\ \A id \in DOMAIN N : N[id].rec # n + 1
BY DEF Dated, OfRec

(* Less of a recording in the graphs, and no more rows of it.            *)
LEMMA LessIsLeft ==
  ASSUME NEW G, NEW H, NEW T, NEW U, NEW O, NEW P, NEW r, NEW rec,
         LeftBy(G, T, O, r, rec),
         \A i \in {"ekg", "org"} \union P :
           \/ OfRec(H[i].nodes, rec) = {}
           \/ i \in {"ekg", "org"} \union O /\ OfRec(H[i].nodes, rec) \subseteq OfRec(G[i].nodes, rec),
         P \subseteq Repos, O \subseteq Repos,
         DOMAIN T \subseteq DOMAIN U,
         \A m \in DOMAIN U : Private(m) /\ U[m].rec = rec => m \in DOMAIN T /\ T[m].rec = rec
  PROVE  LeftBy(H, U, P, r, rec)
<1>1. ASSUME NEW repo \in P
      PROVE  OfRec(H[repo].nodes, rec) \subseteq NamespaceIds(r, repo, Patched[r])
  BY <1>1, InstancesAre DEF LeftBy
<1>2. ASSUME NEW i \in {"ekg", "org"}, NEW n \in OfRec(H[i].nodes, rec)
      PROVE  i = Target(r) /\ n[3] = Default
  BY <1>2, InstancesAre DEF LeftBy
<1>3. ASSUME NEW repo \in Repos, NEW m \in DOMAIN U, Private(m), m[3] = repo, U[m].rec = rec
      PROVE  NamespaceIds(r, repo, Patched[r]) \subseteq DOMAIN U
  BY <1>3 DEF LeftBy
<1> QED BY <1>1, <1>2, <1>3 DEF LeftBy

LEMMA LessIsWhole ==
  ASSUME NEW N, NEW M, NEW T, NEW rec, WholeIn(N, T, rec), OfRec(M, rec) \subseteq OfRec(N, rec)
  PROVE  WholeIn(M, T, rec)
BY DEF WholeIn

(* A recording goes on with what it has, or ends.                        *)
Continues(t, u) ==
  /\ t.at # "idle" /\ DOMAIN u = TaskFields
  /\ u.rec = t.rec /\ u.inst = t.inst /\ u.rows = t.rows /\ u.rest \in Seq(Repos)
  /\ Writes(u) => Writes(t)

(* Steps that change no node, no row and no number.                      *)
LEMMA QuietFoot ==
  ASSUME FootprintInv, UNCHANGED <<recordings, opened, nodeRows>>,
         namespaceRows' \subseteq Repos, namespaces' \subseteq Repos,
         DOMAIN graphs' = Instances,
         \A i \in Instances : DOMAIN graphs'[i] = GraphFields /\ graphs'[i].nodes = graphs[i].nodes,
         Acquiring(acquiring'), DOMAIN tasks' = Runs,
         \A r \in Runs : tasks'[r].at = "idle" \/ Continues(tasks[r], tasks'[r])
  PROVE  FootprintInv'
<1>1. GraphsTyped'
  BY DEF FootprintInv, GraphsTyped, Dated
<1>2. ASSUME NEW r \in Runs, Active(r)'
      PROVE  Active(r) /\ Continues(tasks[r], tasks'[r])
  BY <1>2 DEF Active, Continues
<1>3. ASSUME NEW r \in Runs, Active(r)' PROVE TaskSound(tasks'[r], r, recordings')
  BY <1>2, <1>3 DEF FootprintInv, TasksSound, TaskSound, Continues
<1>4. TasksSound'
  <2>1. \A r, q \in Runs : Active(r)' /\ Active(q)' /\ r # q => tasks'[r].rec # tasks'[q].rec
    BY <1>2 DEF Continues, FootprintInv, TasksSound
  <2> QED BY <1>3, <2>1 DEF TasksSound
<1>5. \A i \in {"ekg", "org"} \union opened : graphs'[i].nodes = graphs[i].nodes
  BY InstancesAre DEF FootprintInv, GraphsTyped
<1>6. ASSUME NEW r \in Runs, Active(r)'
      PROVE  /\ LeftBy(graphs', nodeRows', opened', r, tasks'[r].rec)
             /\ StoresAll(graphs', tasks'[r])
  <2>1. LeftBy(graphs, nodeRows, opened, r, tasks[r].rec) /\ StoresAll(graphs, tasks[r])
    BY <1>2, <1>6 DEF FootprintInv, LeftSound
  <2>2. tasks'[r].rec = tasks[r].rec /\ tasks[r].inst \in Instances
    BY <1>2, <1>6 DEF Continues, FootprintInv, TasksSound, TaskSound
  <2>3. LeftBy(graphs', nodeRows', opened', r, tasks'[r].rec)
    BY <1>5, <2>1, <2>2 DEF LeftBy
  <2>4. StoresAll(graphs', tasks'[r])
    BY <1>2, <1>6, <2>1, <2>2 DEF StoresAll, Continues
  <2> QED BY <2>3, <2>4
<1>7. Footprints'
  BY <1>5 DEF FootprintInv, Footprints
<1> QED BY <1>1, <1>4, <1>6, <1>7 DEF FootprintInv, LeftSound

(* Less of every recording in the graphs that are there, and no more rows: *)
(* the recordings under way are still sound.                             *)
LEMMA ShrinkFoot ==
  ASSUME FootprintInv, nodeRows' = nodeRows, recordings' \in Nat, recordings <= recordings',
         opened' \subseteq Repos, NEW r \in Runs, Active(r), tasks'[r] = tasks[r],
         \A i \in Instances :
           OfRec(graphs'[i].nodes, tasks[r].rec) = {}
             \/ OfRec(graphs'[i].nodes, tasks[r].rec) \subseteq OfRec(graphs[i].nodes, tasks[r].rec),
         \A i \in opened' \ opened : OfRec(graphs'[i].nodes, tasks[r].rec) = {}
  PROVE  /\ TaskSound(tasks'[r], r, recordings')
         /\ LeftBy(graphs', nodeRows', opened', r, tasks'[r].rec)
         /\ StoresAll(graphs', tasks'[r])
<1>1. TaskSound(tasks[r], r, recordings)
  BY DEF FootprintInv, TasksSound
<1>2. TaskSound(tasks'[r], r, recordings')
  BY <1>1 DEF TaskSound, FootprintInv, GraphsTyped
<1>3. LeftBy(graphs, nodeRows, opened, r, tasks[r].rec) /\ StoresAll(graphs, tasks[r])
  BY DEF FootprintInv, LeftSound
<1> DEFINE rec == tasks[r].rec
<1> HIDE DEF rec
<1>4. \A i \in {"ekg", "org"} \union opened' :
        \/ OfRec(graphs'[i].nodes, rec) = {}
        \/ i \in {"ekg", "org"} \union opened /\ OfRec(graphs'[i].nodes, rec) \subseteq OfRec(graphs[i].nodes, rec)
  BY InstancesAre DEF rec
<1>5. LeftBy(graphs', nodeRows', opened', r, rec)
  BY <1>3, <1>4, LessIsLeft DEF rec, FootprintInv, GraphsTyped
<1>6. StoresAll(graphs', tasks[r])
  BY <1>1, <1>3 DEF StoresAll, TaskSound
<1> QED BY <1>2, <1>5, <1>6 DEF rec

(* Record: the nodes of the run get a new number.                        *)
LEMMA RecordFoot ==
  ASSUME FootprintInv, NEW r \in Runs, NEW tested \in BOOLEAN, Record(r, tested)
  PROVE  FootprintInv'
<1> DEFINE inst == Target(r)
           rec == recordings + 1
           ids == RunIds(r, Patched[r], tested)
           written == ids \union {StableId("checkout", "checkout", Default)}
           g == graphs[inst]
           h == RecordRun(g, r, "checkout", Patched[r], tested, rec)
<1>1. /\ tasks[r].at = "idle" /\ recordings' = rec /\ graphs' = [graphs EXCEPT ![inst] = h]
      /\ tasks' = [tasks EXCEPT ![r] =
           Storing(inst, h, ids, RunEdges(h, r, "checkout", Patched[r], tested), rec, Auxiliary[r])]
      /\ UNCHANGED <<registry, nodeRows>>
  BY DEF Record, tables
<1>2. inst \in {"ekg", "org"} /\ inst \in Instances /\ inst \notin Repos
  BY InstancesAre
<1>3. DOMAIN g = GraphFields /\ Dated(g.nodes, recordings) /\ recordings \in Nat
      /\ DOMAIN graphs = Instances /\ DOMAIN tasks = Runs
  BY <1>2 DEF FootprintInv, GraphsTyped
<1>4. /\ DOMAIN h = GraphFields
      /\ WriteOf(g.nodes, h.nodes, written, rec, g.version)
  BY <1>3, RecordRunWrites
<1>5. /\ \A n \in ids : n[3] = Default /\ n[1] # "checkout"
      /\ {n \in written : n[1] # "checkout"} = ids
  <2>1. \A n \in ids : n[3] = Default /\ n[1] # "checkout"
    BY DEF RunIds, StableId
  <2>2. StableId("checkout", "checkout", Default)[1] = "checkout"
    BY DEF StableId
  <2> HIDE DEF ids
  <2> QED BY <2>1, <2>2
<1>6. /\ tasks'[r].at = "select" /\ tasks'[r].inst = inst /\ tasks'[r].rec = rec
      /\ DOMAIN tasks'[r] = TaskFields /\ tasks'[r].rows = RowsOf(h, ids) /\ tasks'[r].rest = Auxiliary[r]
      /\ DOMAIN tasks' = Runs /\ \A q \in Runs \ {r} : tasks'[q] = tasks[q]
  BY <1>1, <1>3 DEF Storing, TaskFields
<1>7. /\ graphs'[inst] = h /\ DOMAIN graphs' = Instances
      /\ \A i \in Instances \ {inst} : graphs'[i] = graphs[i]
  BY <1>1, <1>2, <1>3
<1> HIDE DEF h, g, ids, written, inst
<1>8. /\ OfRec(h.nodes, rec) \subseteq ids
      /\ \A q : q # rec => OfRec(h.nodes, q) \subseteq OfRec(g.nodes, q)
  BY <1>3, <1>4, <1>5, WrittenOf, NoneYet
<1>9. \A i \in Instances : \A q \in 1 .. recordings :
        OfRec(graphs'[i].nodes, q) \subseteq OfRec(graphs[i].nodes, q)
  BY <1>3, <1>7, <1>8 DEF g
<1>10. /\ \A i \in Instances \ {inst} : OfRec(graphs'[i].nodes, rec) = {}
       /\ \A m \in DOMAIN nodeRows : nodeRows[m].rec # rec
  <2>1. \A i \in Instances : Dated(graphs[i].nodes, recordings)
    BY DEF FootprintInv, GraphsTyped
  <2>2. Dated(nodeRows, recordings)
    BY DEF FootprintInv, GraphsTyped
  <2> QED BY <1>3, <1>7, <2>1, <2>2, NoneYet
<1>11. GraphsTyped'
  <2>1. rec \in Nat /\ rec \in 0 .. rec /\ recordings \in 0 .. rec /\ 0 .. recordings \subseteq 0 .. rec
    BY <1>3
  <2>2. Dated(h.nodes, rec)
    BY <1>3, <1>4, <2>1, WrittenDated
  <2>3. \A i \in Instances : DOMAIN graphs'[i] = GraphFields /\ Dated(graphs'[i].nodes, rec)
    BY <1>4, <1>7, <2>1, <2>2 DEF FootprintInv, GraphsTyped, Dated
  <2>4. Dated(nodeRows, rec)
    BY <2>1 DEF FootprintInv, GraphsTyped, Dated
  <2> HIDE DEF rec
  <2> QED BY <1>1, <1>6, <1>7, <2>1, <2>3, <2>4 DEF FootprintInv, GraphsTyped, registry
<1>12. ASSUME NEW q \in Runs \ {r}, Active(q)
       PROVE  /\ tasks[q].rec \in 1 .. recordings
              /\ TaskSound(tasks'[q], q, recordings')
              /\ LeftBy(graphs', nodeRows', opened', q, tasks'[q].rec)
              /\ StoresAll(graphs', tasks'[q])
  <2>1. tasks[q].rec \in 1 .. recordings
    BY <1>12 DEF FootprintInv, TasksSound, TaskSound
  <2>2. /\ tasks'[q] = tasks[q] /\ opened' = opened /\ nodeRows' = nodeRows
        /\ recordings' \in Nat /\ recordings <= recordings' /\ opened' \subseteq Repos
    BY <1>1, <1>3, <1>6 DEF registry, FootprintInv, GraphsTyped
  <2> QED BY <1>9, <1>12, <2>1, <2>2, ShrinkFoot
<1>13. /\ TaskSound(tasks'[r], r, recordings')
       /\ LeftBy(graphs', nodeRows', opened', r, tasks'[r].rec)
       /\ StoresAll(graphs', tasks'[r])
  <2>1. DOMAIN RowsOf(h, ids) = ids /\ \A n \in ids : RowsOf(h, ids)[n] = h.nodes[n]
    BY RowsOfAre
  <2>2. \A n \in ids : DOMAIN h.nodes[n] = NodeFields /\ h.nodes[n].rec = rec
    BY <1>4 DEF WriteOf, written
  <2>3. rec \in 1 .. rec /\ Auxiliary[r] \in Seq(Repos)
    BY <1>3, GraphAssumption
  <2> HIDE DEF rec
  <2>4. TaskSound(tasks'[r], r, recordings')
    BY <1>1, <1>2, <1>5, <1>6, <2>1, <2>2, <2>3 DEF TaskSound, inst
  <2>5. \A repo \in opened' : OfRec(graphs'[repo].nodes, rec) = {}
    BY <1>1, <1>2, <1>10, InstancesAre DEF registry, FootprintInv, GraphsTyped
  <2>6. \A i \in {"ekg", "org"} : \A n \in OfRec(graphs'[i].nodes, rec) : i = Target(r) /\ n[3] = Default
    BY <1>5, <1>7, <1>8, <1>10, InstancesAre DEF inst
  <2>7. LeftBy(graphs', nodeRows', opened', r, rec)
    BY <1>1, <1>10, <2>5, <2>6 DEF LeftBy
  <2>8. StoresAll(graphs', tasks'[r])
    BY <1>6, <1>7, <1>8, <2>1 DEF StoresAll
  <2> QED BY <1>6, <2>4, <2>7, <2>8
<1>14. TasksSound' /\ LeftSound'
  <2>1. \A q \in Runs \ {r} : Active(q)' => Active(q) /\ tasks'[q].rec = tasks[q].rec
    BY <1>6 DEF Active
  <2>2. \A q \in Runs \ {r} : Active(q)' => tasks'[q].rec # tasks'[r].rec
    BY <1>3, <1>6, <1>12, <2>1
  <2>3. \A q, p \in Runs : Active(q)' /\ Active(p)' /\ q # p => tasks'[q].rec # tasks'[p].rec
    BY <2>1, <2>2 DEF FootprintInv, TasksSound
  <2> QED BY <1>12, <1>13, <2>1, <2>3 DEF TasksSound, LeftSound
<1>15. Footprints'
  <2> SUFFICES ASSUME NEW i \in {"ekg", "org"} \union opened, NEW q \in 1 .. rec
               PROVE  WholeIn(graphs'[i].nodes, nodeRows, q)
    BY <1>1 DEF Footprints, registry
  <2>1. CASE q = rec
    BY <1>10, <2>1 DEF WholeIn
  <2>2. CASE q # rec
    <3>1. q \in 1 .. recordings /\ i \in Instances
      BY <1>3, <2>2, InstancesAre DEF FootprintInv, GraphsTyped
    <3> QED BY <1>9, <3>1, LessIsWhole DEF FootprintInv, Footprints
  <2> QED BY <2>1, <2>2
<1> QED BY <1>11, <1>14, <1>15 DEF FootprintInv

(* RecordNamespace: the run gets its nodes in the next repository's graph, *)
(* or nothing when that is not registered.                               *)
LEMMA InNamespace ==
  ASSUME NEW run, NEW repo, NEW files, NEW n \in NamespaceIds(run, repo, files)
  PROVE  n[3] = repo /\ n[1] # "checkout"
BY DEF NamespaceIds, StableId, RepoNodeId

LEMMA NamespaceFoot ==
  ASSUME FootprintInv, NEW r \in Runs, RecordNamespace(r)
  PROVE  FootprintInv'
<1> DEFINE repo == Head(tasks[r].rest)
           rest == Tail(tasks[r].rest)
           rec == tasks[r].rec
           ids == NamespaceIds(r, repo, Patched[r])
           g == graphs[repo]
           h == IngestRun(g, r, repo, Patched[r], rec)
<1>1. /\ Active(r) /\ tasks[r].rest # <<>> /\ UNCHANGED <<registry, nodeRows, recordings>>
      /\ IF repo \in opened
         THEN /\ graphs' = [graphs EXCEPT ![repo] = h]
              /\ tasks' = [tasks EXCEPT ![r] =
                   Storing(repo, h, ids, NamespaceEdges(r, repo, Patched[r]), rec, rest)]
         ELSE graphs' = graphs /\ tasks' = [tasks EXCEPT ![r].rest = rest]
  BY DEF RecordNamespace, tables, Active
<1>2. /\ TaskSound(tasks[r], r, recordings) /\ DOMAIN tasks = Runs /\ DOMAIN graphs = Instances
      /\ recordings \in Nat /\ opened \subseteq Repos
  BY <1>1 DEF FootprintInv, TasksSound, GraphsTyped
<1>3. repo \in Repos /\ rest \in Seq(Repos) /\ rec \in 1 .. recordings /\ DOMAIN tasks[r] = TaskFields
  BY <1>1, <1>2, HeadTailProperties DEF TaskSound
<1>4. CASE repo \notin opened
  <2>1. tasks' = [tasks EXCEPT ![r].rest = rest] /\ graphs' = graphs
    BY <1>1, <1>4
  <2> HIDE DEF rest
  <2>2. /\ tasks'[r] = [tasks[r] EXCEPT !.rest = rest] /\ DOMAIN tasks' = Runs
        /\ \A q \in Runs \ {r} : tasks'[q] = tasks[q]
    BY <1>2, <2>1
  <2>3. Continues(tasks[r], tasks'[r])
    BY <1>1, <1>3, <2>2 DEF Continues, TaskFields, Writes, Active
  <2>4. \A q \in Runs \ {r} : Active(q) => Continues(tasks[q], tasks'[q])
    BY <2>2 DEF Continues, Active, FootprintInv, TasksSound, TaskSound
  <2>5. \A q \in Runs : tasks'[q].at = "idle" \/ Continues(tasks[q], tasks'[q])
    BY <2>2, <2>3, <2>4 DEF Active
  <2> QED BY <1>1, <2>1, <2>2, <2>5, QuietFoot DEF registry, FootprintInv, GraphsTyped
<1>5. CASE repo \in opened
  <2>1. /\ graphs' = [graphs EXCEPT ![repo] = h]
        /\ tasks' = [tasks EXCEPT ![r] =
             Storing(repo, h, ids, NamespaceEdges(r, repo, Patched[r]), rec, rest)]
    BY <1>1, <1>5
  <2>2. /\ tasks'[r].at = "select" /\ tasks'[r].inst = repo /\ tasks'[r].rec = rec
        /\ DOMAIN tasks'[r] = TaskFields /\ tasks'[r].rows = RowsOf(h, ids) /\ tasks'[r].rest = rest
        /\ DOMAIN tasks' = Runs /\ \A q \in Runs \ {r} : tasks'[q] = tasks[q]
    BY <1>2, <2>1 DEF Storing, TaskFields
  <2>3. repo \in Instances /\ repo \notin {"ekg", "org"}
    BY <1>3, InstancesAre
  <2>4. DOMAIN g = GraphFields /\ Dated(g.nodes, recordings)
    BY <2>3 DEF FootprintInv, GraphsTyped
  <2>5. /\ DOMAIN h = GraphFields
        /\ WriteOf(g.nodes, h.nodes, ids, rec, g.version)
    BY <2>4, IngestRunWrites
  <2>6. /\ graphs'[repo] = h /\ DOMAIN graphs' = Instances
        /\ \A i \in Instances \ {repo} : graphs'[i] = graphs[i]
    BY <1>2, <2>1, <2>3
  <2>7. \A n \in ids : n[3] = repo /\ n[1] # "checkout"
    BY InNamespace
  <2>8. DOMAIN RowsOf(h, ids) = ids /\ \A n \in ids : RowsOf(h, ids)[n] = h.nodes[n]
    BY RowsOfAre
  <2>9. /\ LeftBy(graphs, nodeRows, opened, r, rec)
        /\ OfRec(g.nodes, rec) \subseteq ids
    BY <1>1, <1>5 DEF FootprintInv, LeftSound, LeftBy
  <2>10. opened' = opened /\ nodeRows' = nodeRows /\ recordings' = recordings
         /\ UNCHANGED <<namespaces, namespaceRows, acquiring>>
    BY <1>1 DEF registry
  <2> HIDE DEF h, g, repo, rest, rec
  <2>11. /\ OfRec(h.nodes, rec) \subseteq ids
         /\ \A q : q # rec => OfRec(h.nodes, q) \subseteq OfRec(g.nodes, q)
    BY <2>5, <2>9, WrittenOf
  <2> HIDE DEF ids
  <2>12. \A i \in Instances : \A q \in 1 .. recordings : q # rec =>
           OfRec(graphs'[i].nodes, q) \subseteq OfRec(graphs[i].nodes, q)
    BY <2>6, <2>11 DEF g
  <2>13. GraphsTyped'
    <3>1. rec \in 0 .. recordings /\ recordings \in 0 .. recordings
      BY <1>2, <1>3
    <3>2. Dated(h.nodes, recordings)
      BY <1>2, <2>4, <2>5, <3>1, WrittenDated
    <3> QED BY <1>1, <2>2, <2>5, <2>6, <2>10, <3>2 DEF FootprintInv, GraphsTyped
  <2>14. ASSUME NEW q \in Runs \ {r}, Active(q)
         PROVE  /\ tasks[q].rec # rec
                /\ TaskSound(tasks'[q], q, recordings')
                /\ LeftBy(graphs', nodeRows', opened', q, tasks'[q].rec)
                /\ StoresAll(graphs', tasks'[q])
    <3>1. tasks[q].rec \in 1 .. recordings
      BY <2>14 DEF FootprintInv, TasksSound, TaskSound
    <3>2. tasks[q].rec # rec
      BY <1>1, <2>14 DEF FootprintInv, TasksSound, rec
    <3>3. /\ tasks'[q] = tasks[q] /\ recordings' \in Nat /\ recordings <= recordings'
      BY <1>2, <2>2, <2>10
    <3>4. \A i \in Instances : OfRec(graphs'[i].nodes, tasks[q].rec) \subseteq OfRec(graphs[i].nodes, tasks[q].rec)
      BY <2>12, <3>1, <3>2
    <3>5. opened' \subseteq Repos /\ opened' \ opened = {}
      BY <1>2, <2>10
    <3> QED BY <2>10, <2>14, <3>2, <3>3, <3>4, <3>5, ShrinkFoot
  <2>15. TaskSound(tasks'[r], r, recordings')
    <3>1. \A n \in ids : DOMAIN h.nodes[n] = NodeFields /\ h.nodes[n].rec = rec
      BY <2>5 DEF WriteOf
    <3> QED BY <1>3, <2>2, <2>3, <2>8, <2>10, <3>1 DEF TaskSound, ids
  <2>16. LeftBy(graphs', nodeRows', opened', r, tasks'[r].rec)
    <3>1. \A p \in opened : OfRec(graphs'[p].nodes, rec) \subseteq NamespaceIds(r, p, Patched[r])
      BY <1>2, <2>6, <2>9, <2>11, InstancesAre DEF LeftBy, ids
    <3>2. \A i \in {"ekg", "org"} : graphs'[i] = graphs[i]
      BY <2>3, <2>6, InstancesAre
    <3> QED BY <2>2, <2>9, <2>10, <3>1, <3>2 DEF LeftBy
  <2>17. StoresAll(graphs', tasks'[r])
    BY <2>2, <2>6, <2>8, <2>11 DEF StoresAll
  <2>18. TasksSound' /\ LeftSound'
    <3>1. \A q \in Runs \ {r} : Active(q)' => Active(q) /\ tasks'[q].rec = tasks[q].rec
      BY <2>2 DEF Active
    <3>2. \A q \in Runs \ {r} : Active(q)' => tasks'[q].rec # tasks'[r].rec
      BY <2>2, <2>14, <3>1
    <3>3. \A q, p \in Runs : Active(q)' /\ Active(p)' /\ q # p => tasks'[q].rec # tasks'[p].rec
      BY <3>1, <3>2 DEF FootprintInv, TasksSound
    <3> QED BY <2>14, <2>15, <2>16, <2>17, <3>1, <3>3 DEF TasksSound, LeftSound
  <2>19. Footprints'
    <3> SUFFICES ASSUME NEW i \in {"ekg", "org"} \union opened, NEW q \in 1 .. recordings
                 PROVE  WholeIn(graphs'[i].nodes, nodeRows, q)
      BY <2>10 DEF Footprints
    <3>1. i \in Instances /\ WholeIn(graphs[i].nodes, nodeRows, q)
      BY <1>2, InstancesAre DEF FootprintInv, Footprints
    <3>2. CASE q # rec
      BY <2>12, <3>1, <3>2, LessIsWhole
    <3>3. CASE q = rec /\ i # repo
      BY <2>6, <3>1, <3>3
    <3>4. CASE q = rec /\ i = repo
      <4> SUFFICES ASSUME NEW m \in OfRec(h.nodes, rec) \intersect DOMAIN nodeRows,
                          Private(m), nodeRows[m].rec = rec
                   PROVE  OfRec(h.nodes, rec) \subseteq DOMAIN nodeRows
        BY <2>6, <3>4 DEF WholeIn
      <4>1. m[3] = repo
        BY <2>7, <2>11
      <4>2. ids \subseteq DOMAIN nodeRows
        BY <1>3, <2>9, <4>1 DEF LeftBy, ids, repo
      <4> QED BY <2>11, <4>2
    <3> QED BY <3>2, <3>3, <3>4
  <2> QED BY <2>13, <2>18, <2>19 DEF FootprintInv
<1> QED BY <1>4, <1>5

(* The rows a recording commits: its own as it wrote them, the shared    *)
(* ones as it read them.                                                 *)
RowsRead(r) == Merged(tasks[r].rows, reading[r].newer)

LEMMA RowsReadAre ==
  ASSUME FootprintInv, ReadingSound, NEW r \in Runs, Writes(tasks[r])
  PROVE  /\ DOMAIN RowsRead(r) = DOMAIN tasks[r].rows
         /\ AllRows(RowsRead(r))
         /\ \A n \in DOMAIN RowsRead(r) : RowsRead(r)[n].rec \in 0 .. recordings
         /\ \A n \in DOMAIN RowsRead(r) : \/ RowsRead(r)[n] = tasks[r].rows[n]
                                          \/ /\ ~Private(n) /\ n \in DOMAIN reading[r].newer
                                             /\ RowsRead(r)[n] = reading[r].newer[n]
<1> DEFINE rows == tasks[r].rows
           newer == reading[r].newer
           M == RowsRead(r)
<1>1. recordings \in Nat /\ TaskSound(tasks[r], r, recordings)
  BY DEF FootprintInv, TasksSound, Active, Writes, GraphsTyped
<1>2. \A id \in DOMAIN rows : DOMAIN rows[id] = NodeFields /\ rows[id].rec \in 0 .. recordings
  BY <1>1 DEF TaskSound
<1>3. /\ \A n \in DOMAIN newer : n \in DOMAIN rows /\ ~Private(n)
      /\ \A n \in DOMAIN newer : DOMAIN newer[n] = NodeFields /\ newer[n].rec \in 0 .. recordings
  BY DEF ReadingSound, ReadSound, Shared, Private
<1> HIDE DEF rows, newer
<1>4. /\ DOMAIN M = DOMAIN rows
      /\ \A n \in DOMAIN M : M[n] = IF n \in DOMAIN newer THEN newer[n] ELSE rows[n]
  BY <1>3 DEF RowsRead, Merged, rows, newer
<1> HIDE DEF M
<1>5. AllRows(M) /\ \A n \in DOMAIN M : M[n].rec \in 0 .. recordings
  BY <1>2, <1>3, <1>4 DEF AllRows
<1>6. \A n \in DOMAIN M : \/ M[n] = rows[n]
                         \/ (~Private(n) /\ n \in DOMAIN newer /\ M[n] = newer[n])
  BY <1>3, <1>4
<1>7. /\ M = RowsRead(r) /\ rows = tasks[r].rows /\ newer = reading[r].newer
  BY DEF M, rows, newer
<1> QED BY <1>4, <1>5, <1>6, <1>7

(* CommitRows: all rows of the call, or none.                            *)
LEMMA CommitFoot ==
  ASSUME FootprintInv, ReadingSound, NEW r \in Runs, CommitRows(r)
  PROVE  FootprintInv'
<1> DEFINE t == tasks[r]
           rec == t.rec
           D == DOMAIN t.rows
<1>1. /\ t.at = "commit" /\ Active(r) /\ tasks' = [tasks EXCEPT ![r].at = "edges"]
      /\ nodeRows' = Committed(nodeRows, t, reading[r].newer)
      /\ UNCHANGED <<graphs, registry, recordings>>
  BY DEF CommitRows, Active
<1>2. /\ TaskSound(t, r, recordings) /\ DOMAIN tasks = Runs /\ DOMAIN graphs = Instances
      /\ recordings \in Nat /\ opened \subseteq Repos
  BY <1>1 DEF FootprintInv, TasksSound, GraphsTyped
<1>3. opened' = opened /\ recordings' = recordings /\ graphs' = graphs
         /\ UNCHANGED <<namespaces, namespaceRows, acquiring>>
    BY <1>1 DEF registry
<1>4. /\ tasks'[r] = [t EXCEPT !.at = "edges"] /\ DOMAIN tasks' = Runs
      /\ \A q \in Runs \ {r} : tasks'[q] = tasks[q]
  BY <1>1, <1>2
<1>5. Continues(t, tasks'[r]) /\ tasks'[r].at = "edges"
  BY <1>1, <1>2, <1>4 DEF Continues, TaskFields, Writes, TaskSound
<1> HIDE DEF t
<1>6. CASE nodeRows' = nodeRows
  <2>1. \A q \in Runs \ {r} : Active(q) => Continues(tasks[q], tasks'[q])
    BY <1>4 DEF Continues, Active, FootprintInv, TasksSound, TaskSound
  <2>2. \A q \in Runs : tasks'[q].at = "idle" \/ Continues(tasks[q], tasks'[q])
    BY <1>4, <1>5, <2>1 DEF Active, t
  <2> QED BY <1>3, <1>4, <1>6, <2>2, QuietFoot DEF FootprintInv, GraphsTyped
<1>7. CASE nodeRows' = Upserted(nodeRows, RowsRead(r))
  <2>1. \A n \in D : DOMAIN t.rows[n] = NodeFields /\ t.rows[n].rec = rec
    BY <1>2 DEF TaskSound
  <2>2. /\ DOMAIN nodeRows' = D \union DOMAIN nodeRows
        /\ \A n \in D : DOMAIN nodeRows'[n] = NodeFields /\ nodeRows'[n].rec \in 0 .. recordings
        /\ \A n \in D : Private(n) => nodeRows'[n].rec = rec
        /\ \A n \in DOMAIN nodeRows \ D : nodeRows'[n] = nodeRows[n]
    <3> DEFINE rows == RowsRead(r)
    <3>1. /\ AllRows(rows) /\ nodeRows' = Upserted(nodeRows, rows)
          /\ DOMAIN rows = D /\ \A n \in D : rows[n].rec \in 0 .. recordings
          /\ \A n \in D : Private(n) => rows[n] = t.rows[n]
      BY <1>1, <1>7, RowsReadAre DEF t, Writes
    <3> HIDE DEF rows
    <3>2. UpsertOf(nodeRows, rows, nodeRows')
      BY <3>1, UpsertedWrites, Zenon
    <3> QED BY <2>1, <3>1, <3>2 DEF UpsertOf
  <2>3. /\ rec \in 1 .. recordings /\ t.inst \in Instances
        /\ t.inst \in Repos => D = NamespaceIds(r, t.inst, Patched[r]) /\ \A n \in D : n[3] = t.inst
        /\ t.inst \notin Repos => t.inst = Target(r) /\ \A n \in D : n[3] = Default
    BY <1>2, InNamespace DEF TaskSound
  <2>4. LeftBy(graphs, nodeRows, opened, r, rec) /\ OfRec(graphs[t.inst].nodes, rec) \subseteq D
    BY <1>1 DEF FootprintInv, LeftSound, StoresAll, Writes, t
  <2> HIDE DEF D, rec
  <2>5. GraphsTyped'
    <3>1. Dated(nodeRows, recordings) /\ rec \in 0 .. recordings
      BY <1>2, <2>3 DEF FootprintInv, GraphsTyped
    <3>2. Dated(nodeRows', recordings)
      BY <2>2, <3>1 DEF Dated
    <3> QED BY <1>3, <1>4, <3>2 DEF FootprintInv, GraphsTyped
  <2>6. ASSUME NEW q \in Runs \ {r}, Active(q)
        PROVE  /\ tasks[q].rec # rec
               /\ TaskSound(tasks'[q], q, recordings')
               /\ LeftBy(graphs', nodeRows', opened', q, tasks'[q].rec)
               /\ StoresAll(graphs', tasks'[q])
    <3>1. tasks[q].rec # rec
      BY <1>1, <2>6 DEF FootprintInv, TasksSound, rec, t
    <3>2. TaskSound(tasks'[q], q, recordings')
      BY <1>3, <1>4, <2>6 DEF FootprintInv, TasksSound
    <3>3. LeftBy(graphs, nodeRows, opened, q, tasks[q].rec) /\ StoresAll(graphs, tasks[q])
      BY <2>6 DEF FootprintInv, LeftSound
    <3>4. LeftBy(graphs, nodeRows', opened, q, tasks[q].rec)
      <4> DEFINE k == tasks[q].rec
      <4>1. k # rec /\ LeftBy(graphs, nodeRows, opened, q, k)
        BY <3>1, <3>3
      <4> HIDE DEF k
      <4>2. /\ DOMAIN nodeRows \subseteq DOMAIN nodeRows'
            /\ \A m \in DOMAIN nodeRows' : Private(m) /\ nodeRows'[m].rec = k =>
                 m \in DOMAIN nodeRows /\ nodeRows[m].rec = k
        BY <2>2, <4>1
      <4>3. LeftBy(graphs, nodeRows', opened, q, k)
        BY <1>2, <4>1, <4>2, LessIsLeft
      <4> QED BY <4>3 DEF k
    <3> QED BY <1>3, <1>4, <3>1, <3>2, <3>3, <3>4
  <2>7. TaskSound(tasks'[r], r, recordings')
    BY <1>2, <1>3, <1>5 DEF TaskSound, Continues
  <2>8. LeftBy(graphs', nodeRows', opened', r, rec)
    <3>1. ASSUME NEW repo \in Repos, NEW m \in DOMAIN nodeRows', Private(m), m[3] = repo,
                 nodeRows'[m].rec = rec
          PROVE  NamespaceIds(r, repo, Patched[r]) \subseteq DOMAIN nodeRows'
      <4>1. CASE m \in D
        <5>1. repo = t.inst
          BY <2>3, <3>1, <4>1, InstancesAre
        <5> QED BY <2>2, <2>3, <5>1
      <4>2. CASE m \notin D
        <5>1. m \in DOMAIN nodeRows /\ nodeRows[m].rec = rec
          BY <2>2, <3>1, <4>2
        <5>2. NamespaceIds(r, repo, Patched[r]) \subseteq DOMAIN nodeRows
          BY <2>4, <3>1, <5>1 DEF LeftBy
        <5> QED BY <2>2, <5>2
      <4> QED BY <4>1, <4>2
    <3> QED BY <1>3, <2>4, <3>1 DEF LeftBy
  <2>9. StoresAll(graphs', tasks'[r])
    BY <1>5 DEF StoresAll, Writes
  <2>10. tasks'[r].rec = rec
    BY <1>5 DEF Continues, rec
  <2>11. TasksSound' /\ LeftSound'
    <3>1. \A q \in Runs \ {r} : Active(q)' => Active(q) /\ tasks'[q].rec = tasks[q].rec
      BY <1>4 DEF Active
    <3>2. \A q \in Runs \ {r} : Active(q)' => tasks'[q].rec # tasks'[r].rec
      BY <2>6, <2>10, <3>1
    <3>3. \A q, p \in Runs : Active(q)' /\ Active(p)' /\ q # p => tasks'[q].rec # tasks'[p].rec
      BY <3>1, <3>2 DEF FootprintInv, TasksSound
    <3> QED BY <2>6, <2>7, <2>8, <2>9, <2>10, <3>1, <3>3 DEF TasksSound, LeftSound
  <2>12. Footprints'
    <3> SUFFICES ASSUME NEW i \in {"ekg", "org"} \union opened, NEW q \in 1 .. recordings,
                        NEW m \in OfRec(graphs[i].nodes, q) \intersect DOMAIN nodeRows',
                        Private(m), nodeRows'[m].rec = q
                 PROVE  OfRec(graphs[i].nodes, q) \subseteq DOMAIN nodeRows'
      BY <1>3 DEF Footprints, WholeIn
    <3>1. WholeIn(graphs[i].nodes, nodeRows, q)
      BY DEF FootprintInv, Footprints
    <3>2. CASE m \notin D
      <4>1. m \in DOMAIN nodeRows /\ nodeRows[m].rec = q
        BY <2>2, <3>2
      <4> QED BY <2>2, <3>1, <4>1 DEF WholeIn
    <3>3. CASE m \in D
      <4>1. q = rec
        BY <2>2, <3>3
      <4>2. CASE i = t.inst
        BY <2>2, <2>4, <4>1, <4>2
      <4>3. CASE i # t.inst /\ i \in {"ekg", "org"}
        <5>1. i = Target(r) /\ m[3] = Default
          BY <2>4, <4>1, <4>3 DEF LeftBy
        <5>2. t.inst \in Repos /\ m[3] = t.inst
          BY <2>3, <3>3, <4>3, <5>1
        <5> QED BY <5>1, <5>2, InstancesAre
      <4>4. CASE i # t.inst /\ i \in opened
        <5>1. m \in NamespaceIds(r, i, Patched[r]) /\ i \in Repos
          BY <1>2, <2>4, <4>1, <4>4 DEF LeftBy
        <5>2. m[3] = i
          BY <5>1, InNamespace
        <5> QED BY <2>3, <3>3, <4>4, <5>1, <5>2, InstancesAre
      <4> QED BY <4>2, <4>3, <4>4
    <3> QED BY <3>2, <3>3
  <2> QED BY <2>5, <2>11, <2>12 DEF FootprintInv
<1> QED BY <1>1, <1>6, <1>7 DEF Committed, RowsRead, t

(* Register: the repository's graph is a new one, that of the organization *)
(* gets the repository's node.                                           *)
LEMMA RegisterFoot ==
  ASSUME FootprintInv, Register
  PROVE  FootprintInv'
<1> DEFINE repo == Head(acquiring.rest)
           k == Seed(NewGraph, repo, 0)
           o == Registered(graphs["org"], repo)
<1>1. /\ acquiring.at = "acquire" /\ acquiring.rest # <<>>
      /\ namespaces' = namespaces \union {repo} /\ opened' = opened \union {repo}
      /\ graphs' = [graphs EXCEPT ![repo] = k, !["org"] = Registered(@, repo)]
      /\ acquiring' = [acquiring EXCEPT !.rest = Tail(@)]
      /\ UNCHANGED <<namespaceRows, nodeRows, tasks, recordings>>
  BY DEF Register, tables
<1>2. DOMAIN acquiring = {"at", "rest", "links"} /\ IsFiniteSet(acquiring.links)
      /\ acquiring.rest \in Seq(Repos) /\ recordings \in Nat /\ DOMAIN graphs = Instances
      /\ opened \subseteq Repos
  BY <1>1 DEF FootprintInv, GraphsTyped, Acquiring
<1>3. repo \in Repos /\ Tail(acquiring.rest) \in Seq(Repos)
  BY <1>1, <1>2, HeadTailProperties
<1>4. repo \in Instances /\ "org" \in Instances /\ repo # "org"
  BY <1>3, InstancesAre
<1>5. /\ DOMAIN k = GraphFields
      /\ \A n \in DOMAIN k.nodes : DOMAIN k.nodes[n] = NodeFields /\ k.nodes[n].rec = 0
  BY SeedWrites
<1> HIDE DEF k, repo
<1>6. graphs' = [graphs EXCEPT ![repo] = k, !["org"] = o]
  BY <1>1, <1>2, <1>4
<1>7. DOMAIN graphs["org"] = GraphFields /\ Dated(graphs["org"].nodes, recordings)
  BY <1>4 DEF FootprintInv, GraphsTyped
<1>8. /\ DOMAIN o = GraphFields
      /\ Dated(o.nodes, recordings)
      /\ \A q \in 1 .. recordings : OfRec(o.nodes, q) \subseteq OfRec(graphs["org"].nodes, q)
  <2> DEFINE g == graphs["org"]
  <2>1. o = g \/ (DOMAIN o = GraphFields
                   /\ WriteOf(g.nodes, o.nodes, {RepoNodeId(repo)}, 0, g.version))
    <3> DEFINE h == AddNodes(g, {RepoNodeId(repo)}, Default, 0)
    <3>1. /\ DOMAIN h = GraphFields
          /\ WriteOf(g.nodes, h.nodes, {RepoNodeId(repo)}, 0, g.version)
      BY <1>7, AddNodesWrites
    <3>2. o = g \/ o = IncrementVersion(h)
      BY DEF Registered
    <3> HIDE DEF h, o
    <3> QED BY <3>1, <3>2, IncrementKeeps
  <2> HIDE DEF o, g
  <2>2. CASE o = g
    BY <1>7, <2>2 DEF g
  <2>3. CASE /\ DOMAIN o = GraphFields
             /\ WriteOf(g.nodes, o.nodes, {RepoNodeId(repo)}, 0, g.version)
    <3>1. 0 \in 0 .. recordings /\ recordings \in 0 .. recordings /\ Dated(g.nodes, recordings)
      BY <1>2, <1>7 DEF g
    <3>2. Dated(o.nodes, recordings)
      BY <1>2, <2>3, <3>1, WrittenDated
    <3>3. \A q : q # 0 => OfRec(o.nodes, q) \subseteq OfRec(g.nodes, q)
      BY <2>3, WrittenOf
    <3>4. \A q \in 1 .. recordings : q # 0
      BY <1>2
    <3> QED BY <2>3, <3>2, <3>3, <3>4 DEF g
  <2> QED BY <2>1, <2>2, <2>3
<1> HIDE DEF o
<1>9. /\ DOMAIN graphs' = Instances /\ graphs'[repo] = k /\ graphs'["org"] = o
      /\ \A i \in Instances \ {repo, "org"} : graphs'[i] = graphs[i]
  BY <1>2, <1>4, <1>6
<1>10. \A q \in 1 .. recordings : OfRec(graphs'[repo].nodes, q) = {}
  BY <1>2, <1>5, <1>9 DEF OfRec
<1>11. \A i \in Instances : \A q \in 1 .. recordings :
         OfRec(graphs'[i].nodes, q) = {}
           \/ OfRec(graphs'[i].nodes, q) \subseteq OfRec(graphs[i].nodes, q)
  BY <1>8, <1>9, <1>10
<1>12. GraphsTyped'
  <2>1. Dated(k.nodes, recordings)
    BY <1>2, <1>5 DEF Dated
  <2>2. Acquiring(acquiring')
    BY <1>1, <1>2, <1>3 DEF Acquiring
  <2>3. \A i \in Instances : DOMAIN graphs'[i] = GraphFields /\ Dated(graphs'[i].nodes, recordings)
    BY <1>5, <1>8, <1>9, <2>1 DEF FootprintInv, GraphsTyped
  <2> QED BY <1>1, <1>3, <1>9, <2>2, <2>3 DEF FootprintInv, GraphsTyped
<1>13. ASSUME NEW q \in Runs, Active(q)
       PROVE  /\ TaskSound(tasks'[q], q, recordings')
              /\ LeftBy(graphs', nodeRows', opened', q, tasks'[q].rec)
              /\ StoresAll(graphs', tasks'[q])
  <2>1. tasks[q].rec \in 1 .. recordings
    BY <1>13 DEF FootprintInv, TasksSound, TaskSound
  <2>2. /\ nodeRows' = nodeRows /\ recordings' \in Nat /\ recordings <= recordings'
        /\ opened' \subseteq Repos /\ tasks'[q] = tasks[q]
    BY <1>1, <1>2, <1>3
  <2>3. \A i \in opened' \ opened : OfRec(graphs'[i].nodes, tasks[q].rec) = {}
    BY <1>1, <1>10, <2>1
  <2> QED BY <1>11, <1>13, <2>1, <2>2, <2>3, ShrinkFoot
<1>14. TasksSound' /\ LeftSound'
  <2>1. \A q \in Runs : Active(q)' <=> Active(q)
    BY <1>1 DEF Active
  <2>2. \A q, p \in Runs : Active(q)' /\ Active(p)' /\ q # p => tasks'[q].rec # tasks'[p].rec
    BY <1>1, <2>1 DEF FootprintInv, TasksSound
  <2> QED BY <1>13, <2>1, <2>2 DEF TasksSound, LeftSound
<1>15. Footprints'
  <2> SUFFICES ASSUME NEW i \in {"ekg", "org"} \union opened', NEW q \in 1 .. recordings
               PROVE  WholeIn(graphs'[i].nodes, nodeRows, q)
    BY <1>1 DEF Footprints
  <2>1. CASE OfRec(graphs'[i].nodes, q) = {}
    BY <2>1 DEF WholeIn
  <2>2. CASE OfRec(graphs'[i].nodes, q) # {}
    <3>1. i # repo /\ i \in {"ekg", "org"} \union opened /\ i \in Instances
      BY <1>1, <1>2, <1>10, <2>2, InstancesAre
    <3>2. WholeIn(graphs[i].nodes, nodeRows, q)
      BY <3>1 DEF FootprintInv, Footprints
    <3> QED BY <1>11, <2>2, <3>1, <3>2, LessIsWhole
  <2> QED BY <2>1, <2>2
<1> QED BY <1>12, <1>14, <1>15 DEF FootprintInv

(* A process that dies, and one that reads the tables back.              *)
LEMMA RestartFoot ==
  ASSUME FootprintInv, Restart \/ Recover
  PROVE  FootprintInv'
<1>1. /\ UNCHANGED <<nodeRows, recordings, namespaceRows>>
      /\ DOMAIN tasks' = Runs /\ \A r \in Runs : tasks'[r].at = "idle"
      /\ acquiring'.at = "idle" /\ namespaces' \subseteq Repos /\ opened' \subseteq Repos
  BY DEF Restart, Recover, tables, Idle, NotAcquiring, FootprintInv, GraphsTyped
<1>2. TasksSound' /\ LeftSound'
  BY <1>1 DEF TasksSound, LeftSound, Active
<1>3. /\ DOMAIN graphs' = Instances
      /\ \A i \in Instances : DOMAIN graphs'[i] = GraphFields /\ Dated(graphs'[i].nodes, recordings)
      /\ \A i \in {"ekg", "org"} \union opened' : DOMAIN graphs'[i].nodes \subseteq DOMAIN nodeRows
  <2>1. CASE Restart
    <3>1. graphs' = [i \in Instances |-> NewGraph] /\ opened' = {}
      BY <2>1 DEF Restart
    <3>2. \A i \in Instances : graphs'[i] = NewGraph
      BY <3>1
    <3> QED BY <3>1, <3>2, NewGraphIs, InstancesAre DEF Dated
  <2>2. CASE Recover
    <3> DEFINE L(i) == Load(nodeRows, edgeRows, versionRows, NamespaceOf(i))
    <3>1. graphs' = [i \in Instances |-> IF i \in {"ekg", "org"} \union opened' THEN L(i) ELSE graphs[i]]
      BY <2>2 DEF Recover
    <3>2. \A i : /\ DOMAIN L(i) = GraphFields /\ DOMAIN L(i).nodes \subseteq DOMAIN nodeRows
                 /\ \A n \in DOMAIN L(i).nodes : L(i).nodes[n] = nodeRows[n]
      BY LoadReads
    <3> HIDE DEF L
    <3>3. \A i : Dated(L(i).nodes, recordings)
      BY <3>2 DEF Dated, FootprintInv, GraphsTyped
    <3>4. \A i \in Instances : graphs'[i] = L(i) \/ graphs'[i] = graphs[i]
      BY <3>1
    <3>5. \A i \in {"ekg", "org"} \union opened' : graphs'[i] = L(i)
      BY <1>1, <3>1, InstancesAre
    <3>6. \A i \in Instances : DOMAIN graphs'[i] = GraphFields /\ Dated(graphs'[i].nodes, recordings)
      BY <3>2, <3>3, <3>4 DEF FootprintInv, GraphsTyped
    <3> QED BY <3>1, <3>2, <3>5, <3>6
  <2> QED BY <2>1, <2>2
<1>4. GraphsTyped'
  BY <1>1, <1>3 DEF FootprintInv, GraphsTyped, Acquiring
<1>5. Footprints'
  BY <1>1, <1>3 DEF Footprints, WholeIn, OfRec
<1> QED BY <1>2, <1>4, <1>5 DEF FootprintInv

(* A look-up, a stored edge or version and a lost write move a recording *)
(* on and change nothing else of it.                                     *)
LEMMA MoveKeeps ==
  ASSUME FootprintInv, NEW r \in Runs,
         ReadNode(r) \/ SelectRows(r) \/ StoreEdges(r) \/ StoreVersion(r) \/ LoseWrite(r)
  PROVE  /\ Active(r) /\ \A q \in Runs \ {r} : tasks'[q] = tasks[q]
         /\ tasks'[r].rows = tasks[r].rows /\ tasks'[r].version = tasks[r].version
         /\ tasks'[r].edges = tasks[r].edges
         /\ tasks[r].at = "edges" => tasks'[r].at = "version"
         /\ tasks[r].at = "version" => tasks'[r].at = "next"
<1> DEFINE t == tasks[r]
<1>1. Active(r)
  BY DEF ReadNode, SelectRows, StoreEdges, StoreVersion, LoseWrite, Active
<1>2. DOMAIN tasks = Runs /\ DOMAIN t = TaskFields
  BY <1>1 DEF FootprintInv, GraphsTyped, TasksSound, TaskSound
<1>3. CASE SelectRows(r)
  <2>1. PICK at, absent :
          /\ at \in {"select", "commit"} /\ tasks[r].at = "select"
          /\ tasks' = [tasks EXCEPT ![r] = [tasks[r] EXCEPT !.at = at, !.absent = absent]]
    BY <1>2, <1>3 DEF SelectRows
  <2> QED BY <1>1, <1>2, <2>1 DEF TaskFields
<1>5. CASE ReadNode(r)
  BY <1>1, <1>5 DEF ReadNode
<1>4. CASE StoreEdges(r) \/ StoreVersion(r) \/ LoseWrite(r)
  <2>1. PICK at \in {"edges", "version", "next"} :
           /\ tasks' = [tasks EXCEPT ![r].at = at]
           /\ t.at = "edges" => at = "version"
           /\ t.at = "version" => at = "next"
    BY <1>4 DEF StoreEdges, StoreVersion, LoseWrite
  <2>2. tasks'[r] = [t EXCEPT !.at = at] /\ \A q \in Runs \ {r} : tasks'[q] = tasks[q]
    BY <1>2, <2>1
  <2> HIDE DEF t
  <2>3. tasks'[r].at = at /\ tasks'[r].rows = t.rows /\ tasks'[r].version = t.version
        /\ tasks'[r].edges = t.edges
    BY <1>2, <2>2 DEF TaskFields
  <2> QED BY <1>1, <2>1, <2>2, <2>3 DEF t
<1> QED BY <1>3, <1>4, <1>5

(* Links and synchronizations write no node, and edges and versions only *)
(* in the organization's graph.                                          *)
LEMMA LinkedGraphs ==
  ASSUME FootprintInv,
         \/ \E r \in Runs : LinkRun(r)
         \/ \E m \in Manifests : StartAcquisition(m)
         \/ AcquisitionFails \/ LinkAll \/ SyncNamespaces \/ LoseSync \/ SyncCross
  PROVE  /\ DOMAIN graphs' = Instances
         /\ \A i \in Instances : DOMAIN graphs'[i] = GraphFields /\ graphs'[i].nodes = graphs[i].nodes
         /\ \A i \in Instances \ {"org"} : graphs'[i] = graphs[i]
<1>1. /\ DOMAIN graphs = Instances /\ "org" \in Instances
      /\ DOMAIN graphs["org"] = GraphFields
  BY InstancesAre DEF FootprintInv, GraphsTyped
<1>2. graphs' = graphs \/ \E h : /\ DOMAIN h = GraphFields /\ h.nodes = graphs["org"].nodes
                                 /\ graphs' = [graphs EXCEPT !["org"] = h]
  <2>1. CASE \E r \in Runs : LinkRun(r)
    <3>1. PICK es : \/ graphs' = graphs
                    \/ graphs' = [graphs EXCEPT !["org"] = IncrementVersion(AddEdges(graphs["org"], es))]
      BY <2>1 DEF LinkRun
    <3> DEFINE h == IncrementVersion(AddEdges(graphs["org"], es))
    <3>2. DOMAIN h = GraphFields /\ h.nodes = graphs["org"].nodes
      BY <1>1, AddEdgesKeeps, IncrementKeeps
    <3> QED BY <3>1, <3>2
  <2>2. CASE LinkAll
    <3> DEFINE es == {Edge(RepoNodeId(l[1]), RepoNodeId(l[2]), "depends_on") : l \in acquiring.links}
               k == AddEdges(graphs["org"], es)
               h == [k EXCEPT !.version = @ + Cardinality(acquiring.links)]
    <3>1. graphs' = [graphs EXCEPT !["org"] = h]
      BY <2>2 DEF LinkAll
    <3>2. DOMAIN k = GraphFields /\ k.nodes = graphs["org"].nodes
      BY <1>1, AddEdgesKeeps
    <3> HIDE DEF k
    <3>3. DOMAIN h = GraphFields /\ h.nodes = graphs["org"].nodes
      BY <3>2 DEF GraphFields
    <3> QED BY <3>1, <3>3
  <2>3. CASE SyncCross
    <3> DEFINE h == IncrementVersion(graphs["org"])
    <3>1. graphs' = [graphs EXCEPT !["org"] = h]
      BY <1>1, <2>3 DEF SyncCross
    <3>2. DOMAIN h = GraphFields /\ h.nodes = graphs["org"].nodes
      BY <1>1, IncrementKeeps
    <3> QED BY <3>1, <3>2
  <2>4. CASE \/ \E m \in Manifests : StartAcquisition(m)
             \/ AcquisitionFails \/ SyncNamespaces \/ LoseSync
    BY <2>4 DEF StartAcquisition, AcquisitionFails, SyncNamespaces, LoseSync
  <2> QED BY <2>1, <2>2, <2>3, <2>4
<1>3. CASE graphs' = graphs
  BY <1>3 DEF FootprintInv, GraphsTyped
<1>4. CASE graphs' # graphs
  <2>1. PICK h : /\ DOMAIN h = GraphFields /\ h.nodes = graphs["org"].nodes
                 /\ graphs' = [graphs EXCEPT !["org"] = h]
    BY <1>2, <1>4
  <2>2. graphs'["org"] = h /\ DOMAIN graphs' = Instances
        /\ \A i \in Instances \ {"org"} : graphs'[i] = graphs[i]
    BY <1>1, <2>1
  <2> QED BY <2>1, <2>2 DEF FootprintInv, GraphsTyped
<1> QED BY <1>3, <1>4

(* The steps of a recording that only move it on.                        *)
LEMMA TaskFoot ==
  ASSUME FootprintInv, NEW r \in Runs,
         ReadNode(r) \/ SelectRows(r) \/ StoreEdges(r) \/ StoreVersion(r) \/ LoseWrite(r)
  PROVE  FootprintInv'
<1>1. /\ UNCHANGED <<recordings, opened, nodeRows, namespaceRows, namespaces, acquiring, graphs>>
      /\ Active(r)
  BY DEF ReadNode, SelectRows, StoreEdges, StoreVersion, LoseWrite, registry, tables, Active
<1>2. DOMAIN tasks = Runs /\ TaskSound(tasks[r], r, recordings)
  BY <1>1 DEF FootprintInv, GraphsTyped, TasksSound
<1>3. /\ DOMAIN tasks' = Runs /\ \A q \in Runs \ {r} : tasks'[q] = tasks[q]
      /\ Continues(tasks[r], tasks'[r])
  <2>3. CASE ReadNode(r)
    BY <1>1, <1>2, <2>3 DEF ReadNode, Active, Continues, TaskSound
  <2>1. CASE SelectRows(r)
    <3>1. PICK at, absent :
            /\ at \in {"select", "commit"} /\ tasks[r].at = "select"
            /\ tasks' = [tasks EXCEPT ![r] = [tasks[r] EXCEPT !.at = at, !.absent = absent]]
      BY <1>2, <2>1 DEF SelectRows
    <3> QED BY <1>2, <3>1 DEF Continues, TaskSound, TaskFields, Writes
  <2>2. CASE StoreEdges(r) \/ StoreVersion(r) \/ LoseWrite(r)
    <3>1. \E at \in {"edges", "version", "next"} :
             tasks[r].at # "idle" /\ tasks' = [tasks EXCEPT ![r].at = at]
      BY <2>2 DEF StoreEdges, StoreVersion, LoseWrite
    <3> QED BY <1>2, <3>1 DEF Continues, TaskSound, TaskFields, Writes
  <2> QED BY <2>1, <2>2, <2>3
<1>4. \A q \in Runs : tasks'[q].at = "idle" \/ Continues(tasks[q], tasks'[q])
  <2>1. \A q \in Runs \ {r} : Active(q) => Continues(tasks[q], tasks'[q])
    BY <1>3 DEF Continues, Active, FootprintInv, TasksSound, TaskSound
  <2> QED BY <1>3, <2>1 DEF Active
<1> QED BY <1>1, <1>3, <1>4, QuietFoot DEF FootprintInv, GraphsTyped

LEMMA LinkRunFoot ==
  ASSUME FootprintInv, NEW r \in Runs, LinkRun(r)
  PROVE  FootprintInv'
<1>1. /\ UNCHANGED <<recordings, opened, nodeRows, namespaceRows, namespaces, acquiring>>
      /\ tasks' = [tasks EXCEPT ![r] = Idle]
  BY DEF LinkRun, registry, tables
<1>2. DOMAIN tasks = Runs
  BY DEF FootprintInv, GraphsTyped
<1>3. \A q \in Runs : tasks'[q].at = "idle" \/ Continues(tasks[q], tasks'[q])
  <2>1. tasks'[r].at = "idle" /\ \A q \in Runs \ {r} : tasks'[q] = tasks[q]
    BY <1>1, <1>2 DEF Idle
  <2> QED BY <2>1 DEF Continues, Active, FootprintInv, TasksSound, TaskSound
<1>4. /\ DOMAIN graphs' = Instances
      /\ \A i \in Instances : DOMAIN graphs'[i] = GraphFields /\ graphs'[i].nodes = graphs[i].nodes
  BY LinkedGraphs
<1> QED BY <1>1, <1>2, <1>3, <1>4, QuietFoot DEF FootprintInv, GraphsTyped

(* The steps of an acquisition that change no node.                      *)
LEMMA AcquireFoot ==
  ASSUME FootprintInv,
         \/ \E m \in Manifests : StartAcquisition(m)
         \/ AcquisitionFails \/ LinkAll \/ SyncNamespaces \/ LoseSync \/ SyncCross
  PROVE  FootprintInv'
<1>1. UNCHANGED <<recordings, opened, nodeRows, namespaces, tasks>>
      /\ (namespaceRows' = namespaceRows \/ namespaceRows' = namespaceRows \union namespaces)
  BY DEF StartAcquisition, AcquisitionFails, LinkAll, SyncNamespaces, LoseSync, SyncCross, tables
<1>2. DOMAIN tasks = Runs /\ Acquiring(acquiring)
  BY DEF FootprintInv, GraphsTyped
<1>3. \A q \in Runs : tasks'[q].at = "idle" \/ Continues(tasks[q], tasks'[q])
  BY <1>1 DEF Continues, Active, FootprintInv, TasksSound, TaskSound
<1>4. Acquiring(acquiring')
  <2>1. CASE \E m \in Manifests : StartAcquisition(m)
    <3>1. PICK m \in Manifests : acquiring' = [at |-> "acquire", rest |-> m.repos, links |-> m.links]
      BY <2>1 DEF StartAcquisition
    <3> QED BY <3>1, GraphAssumption DEF Acquiring
  <2>2. CASE acquiring'.at = "idle" \/ acquiring' = acquiring
    BY <1>2, <2>2 DEF Acquiring
  <2>3. CASE /\ acquiring.at # "idle"
             /\ \E at \in {"namespaces", "cross"} : acquiring' = [acquiring EXCEPT !.at = at]
    BY <1>2, <2>3 DEF Acquiring
  <2> QED BY <2>1, <2>2, <2>3
      DEF AcquisitionFails, LinkAll, SyncNamespaces, LoseSync, SyncCross, NotAcquiring
<1>5. /\ DOMAIN graphs' = Instances
      /\ \A i \in Instances : DOMAIN graphs'[i] = GraphFields /\ graphs'[i].nodes = graphs[i].nodes
  BY LinkedGraphs
<1> QED BY <1>1, <1>2, <1>3, <1>4, <1>5, QuietFoot DEF FootprintInv, GraphsTyped

(* Nothing is recorded at first.                                         *)
LEMMA FootprintInit == Init => FootprintInv
<1> SUFFICES ASSUME Init PROVE FootprintInv
  OBVIOUS
<1>1. /\ DOMAIN graphs = Instances /\ \A i \in Instances : graphs[i] = NewGraph
      /\ DOMAIN tasks = Runs /\ \A r \in Runs : tasks[r].at = "idle"
      /\ acquiring.at = "idle" /\ DOMAIN nodeRows = {} /\ opened = {} /\ recordings = 0
      /\ namespaces = {} /\ namespaceRows = {}
  BY DEF Init, Idle, NotAcquiring
<1>2. GraphsTyped
  BY <1>1, NewGraphIs DEF GraphsTyped, Dated, Acquiring
<1>3. TasksSound /\ LeftSound
  BY <1>1 DEF TasksSound, LeftSound, Active
<1>4. Footprints
  BY <1>1 DEF Footprints, WholeIn
<1> QED BY <1>2, <1>3, <1>4 DEF FootprintInv

(* Every step keeps recordings whole.                                    *)
LEMMA FootprintStep == FootprintInv /\ ReadingSound /\ [Next]_vars => FootprintInv'
<1> SUFFICES ASSUME FootprintInv, ReadingSound, [Next]_vars PROVE FootprintInv'
  OBVIOUS
<1>1. ASSUME NEW r \in Runs, \/ \E tested \in BOOLEAN : Record(r, tested)
                             \/ Store(r) \/ RecordNamespace(r) \/ LinkRun(r)
      PROVE  FootprintInv'
  BY <1>1, RecordFoot, NamespaceFoot, LinkRunFoot, CommitFoot, TaskFoot DEF Store
<1>2. CASE \E m \in Manifests : StartAcquisition(m)
  BY <1>2, AcquireFoot
<1>3. CASE Acquire
  BY <1>3, AcquireFoot, RegisterFoot DEF Acquire
<1>4. CASE Restart \/ Recover
  BY <1>4, RestartFoot
<1>5. CASE UNCHANGED vars
  <2>1. UNCHANGED <<recordings, opened, nodeRows, namespaceRows, namespaces, acquiring, graphs, tasks>>
    BY <1>5 DEF vars, registry, tables
  <2>2. \A q \in Runs : tasks'[q].at = "idle" \/ Continues(tasks[q], tasks'[q])
    BY <2>1 DEF Continues, Active, FootprintInv, TasksSound, TaskSound
  <2> QED BY <2>1, <2>2, QuietFoot DEF FootprintInv, GraphsTyped
<1> QED BY <1>1, <1>2, <1>3, <1>4, <1>5 DEF Next

(* What a recording reads again are shared nodes of its own, as it wrote *)
(* them or as another recording did that is under way.                   *)
ReadFrom(q) ==
  \A id \in DOMAIN reading'[q].newer :
    \/ /\ Writes(tasks[q]) /\ id \in DOMAIN reading[q].newer
       /\ reading'[q].newer[id] = reading[q].newer[id]
    \/ \E r \in Runs : /\ Active(r)' /\ id \in DOMAIN tasks'[r].rows
                      /\ reading'[q].newer[id] = tasks'[r].rows[id]

(* What the recording of one run does to what another reads.             *)
LEMMA InformedIs ==
  ASSUME NEW t, NEW look, NEW inst, NEW g, NEW ids, t.at \in {"select", "commit"} => DOMAIN look = ReadFields,
         Writes(t), NEW u, u = Informed(t, look, inst, g, ids)
  PROVE  /\ DOMAIN u = ReadFields /\ u.left = look.left
         /\ DOMAIN u.newer \subseteq DOMAIN look.newer \union (look.left \intersect ids)
         /\ \A id \in DOMAIN u.newer : \/ id \in DOMAIN look.newer /\ u.newer[id] = look.newer[id]
                                       \/ id \in ids /\ u.newer[id] = g.nodes[id]
<1> DEFINE more == look.left \intersect ids
           N == Merged(look.newer, RowsOf(g, more))
<1>1. DOMAIN look = ReadFields
  BY DEF Writes
<1>2. CASE u = look
  <2> HIDE DEF N
  <2> QED BY <1>1, <1>2
<1>3. CASE u = [look EXCEPT !.newer = N]
  <2>1. DOMAIN RowsOf(g, more) = more /\ \A n \in more : RowsOf(g, more)[n] = g.nodes[n]
    BY RowsOfAre
  <2> HIDE DEF more
  <2>2. /\ DOMAIN N = DOMAIN look.newer \union more
        /\ \A id \in DOMAIN N : N[id] = IF id \in more THEN g.nodes[id] ELSE look.newer[id]
    BY <2>1 DEF Merged
  <2>3. DOMAIN u = ReadFields /\ u.left = look.left /\ u.newer = N
    <3> HIDE DEF N
    <3> QED BY <1>1, <1>3 DEF ReadFields
  <2> HIDE DEF N
  <2> QED BY <2>2, <2>3 DEF more
<1> QED BY <1>2, <1>3 DEF Informed

(* The steps that write shared nodes.                                    *)
LEMMA OverwritesReads ==
  ASSUME FootprintInv, ReadingSound, FootprintInv', NEW r \in Runs, NEW inst, NEW g, NEW ids,
         Overwrites(r, inst, g, ids),
         DOMAIN tasks'[r].rows = ids, \A n \in ids : tasks'[r].rows[n] = g.nodes[n],
         Active(r)', \A q \in Runs \ {r} : tasks'[q] = tasks[q],
         recordings' \in {recordings, recordings + 1}
  PROVE  ReadingSound' /\ \A q \in Runs : Writes(tasks'[q]) => ReadFrom(q)
<1>1. /\ DOMAIN reading' = Runs
      /\ reading'[r] = Reading(ids)
      /\ \A q \in Runs \ {r} : reading'[q] = Informed(tasks[q], reading[q], inst, g, ids)
  BY DEF Overwrites
<1>2. /\ recordings \in Nat /\ 0 .. recordings \subseteq 0 .. recordings'
      /\ \A n \in ids : DOMAIN tasks'[r].rows[n] = NodeFields
                       /\ tasks'[r].rows[n].rec \in 0 .. recordings'
  <2>1. recordings \in Nat /\ recordings' \in Nat /\ TaskSound(tasks'[r], r, recordings')
    BY DEF FootprintInv, GraphsTyped, TasksSound
  <2>2. 0 .. recordings \subseteq 0 .. recordings'
    BY <2>1
  <2> QED BY <2>1, <2>2 DEF TaskSound
<1>3. /\ DOMAIN reading'[r] = ReadFields /\ reading'[r].left = Shared(ids)
      /\ DOMAIN reading'[r].newer = {}
  BY <1>1 DEF Reading, ReadFields
<1>4. ReadSound(tasks'[r], reading'[r], recordings') /\ ReadFrom(r)
  BY <1>3 DEF ReadSound, ReadFrom
<1>5. ASSUME NEW q \in Runs \ {r}, Writes(tasks'[q])
      PROVE  ReadSound(tasks'[q], reading'[q], recordings') /\ ReadFrom(q)
  <2> DEFINE look == reading[q]
             u == reading'[q]
             t == tasks[q]
  <2>1. tasks'[q] = t /\ Writes(t) /\ ReadSound(t, look, recordings)
    BY <1>5 DEF ReadingSound
  <2>2. u = Informed(t, look, inst, g, ids)
    BY <1>1
  <2> HIDE DEF u, t, look
  <2>3. /\ DOMAIN u = ReadFields /\ u.left = look.left
        /\ DOMAIN u.newer \subseteq DOMAIN look.newer \union (look.left \intersect ids)
        /\ \A id \in DOMAIN u.newer : \/ id \in DOMAIN look.newer /\ u.newer[id] = look.newer[id]
                                      \/ id \in ids /\ u.newer[id] = g.nodes[id]
    BY <2>1, <2>2, InformedIs DEF ReadSound
  <2>4. \A id \in DOMAIN u.newer : DOMAIN u.newer[id] = NodeFields /\ u.newer[id].rec \in 0 .. recordings'
    BY <1>2, <2>1, <2>3 DEF ReadSound
  <2>5. ReadSound(t, u, recordings')
    BY <2>1, <2>3, <2>4 DEF ReadSound
  <2>6. ReadFrom(q)
    BY <2>1, <2>3 DEF ReadFrom, u, t, look
  <2> QED BY <2>1, <2>5, <2>6 DEF u
<1> QED BY <1>1, <1>4, <1>5 DEF ReadingSound

(* The steps that write none: what a recording read stays, until it has  *)
(* stored its rows.                                                      *)
ReadsOn(q) ==
  /\ Writes(tasks[q]) /\ tasks'[q].rows = tasks[q].rows
  /\ DOMAIN reading'[q] = ReadFields /\ reading'[q].newer = reading[q].newer
  /\ reading'[q].left \subseteq reading[q].left

LEMMA QuietReads ==
  ASSUME ReadingSound, recordings' = recordings, DOMAIN reading' = Runs,
         \A q \in Runs : Writes(tasks'[q]) => ReadsOn(q)
  PROVE  ReadingSound' /\ \A q \in Runs : Writes(tasks'[q]) => ReadFrom(q)
<1>1. ASSUME NEW q \in Runs, Writes(tasks'[q])
      PROVE  ReadSound(tasks'[q], reading'[q], recordings') /\ ReadFrom(q)
  <2>1. ReadSound(tasks[q], reading[q], recordings) /\ ReadsOn(q)
    BY <1>1 DEF ReadingSound, ReadsOn
  <2> QED BY <2>1 DEF ReadSound, ReadsOn, ReadFrom
<1> QED BY <1>1 DEF ReadingSound

(* Every step keeps what is read sound.                                  *)
LEMMA ReadingStep ==
  ASSUME FootprintInv, ReadingSound, FootprintInv', [Next]_vars
  PROVE  ReadingSound' /\ \A q \in Runs : Writes(tasks'[q]) => ReadFrom(q)
<1>1. DOMAIN tasks = Runs /\ DOMAIN reading = Runs /\ DOMAIN tasks' = Runs
  BY DEF FootprintInv, GraphsTyped, ReadingSound
<1>2. \A q \in Runs : Writes(tasks[q]) => DOMAIN reading[q] = ReadFields /\ DOMAIN tasks[q] = TaskFields
  BY DEF ReadingSound, ReadSound, FootprintInv, TasksSound, TaskSound, Active, Writes
<1>3. ASSUME NEW r \in Runs, NEW tested \in BOOLEAN, Record(r, tested)
      PROVE  ReadingSound' /\ \A q \in Runs : Writes(tasks'[q]) => ReadFrom(q)
  <2> DEFINE inst == Target(r)
             ids == RunIds(r, Patched[r], tested)
             h == RecordRun(graphs[inst], r, "checkout", Patched[r], tested, recordings')
             es == RunEdges(h, r, "checkout", Patched[r], tested)
  <2>1. /\ recordings' = recordings + 1 /\ Overwrites(r, inst, h, ids)
        /\ tasks' = [tasks EXCEPT ![r] = Storing(inst, h, ids, es, recordings', Auxiliary[r])]
    BY <1>3 DEF Record
  <2> HIDE DEF inst, ids, h, es
  <2>2. /\ tasks'[r].at = "select" /\ tasks'[r].rows = RowsOf(h, ids)
        /\ \A q \in Runs \ {r} : tasks'[q] = tasks[q]
    BY <1>1, <2>1 DEF Storing
  <2>3. DOMAIN RowsOf(h, ids) = ids /\ \A n \in ids : RowsOf(h, ids)[n] = h.nodes[n]
    BY RowsOfAre
  <2>4. Active(r)'
    BY <2>2 DEF Active
  <2> QED BY <2>1, <2>2, <2>3, <2>4, OverwritesReads
<1>4. ASSUME NEW r \in Runs, RecordNamespace(r)
      PROVE  ReadingSound' /\ \A q \in Runs : Writes(tasks'[q]) => ReadFrom(q)
  <2> DEFINE repo == Head(tasks[r].rest)
             rest == Tail(tasks[r].rest)
             ids == NamespaceIds(r, repo, Patched[r])
             h == IngestRun(graphs[repo], r, repo, Patched[r], tasks[r].rec)
             es == NamespaceEdges(r, repo, Patched[r])
  <2>1. /\ tasks[r].at = "next" /\ recordings' = recordings
        /\ \/ /\ Overwrites(r, repo, h, ids)
              /\ tasks' = [tasks EXCEPT ![r] = Storing(repo, h, ids, es, tasks[r].rec, rest)]
           \/ tasks' = [tasks EXCEPT ![r].rest = rest] /\ reading' = reading
    BY <1>4 DEF RecordNamespace
  <2> HIDE DEF repo, ids, h, es, rest
  <2>2. CASE /\ Overwrites(r, repo, h, ids)
             /\ tasks' = [tasks EXCEPT ![r] = Storing(repo, h, ids, es, tasks[r].rec, rest)]
    <3>1. /\ tasks'[r].at = "select" /\ tasks'[r].rows = RowsOf(h, ids)
          /\ \A q \in Runs \ {r} : tasks'[q] = tasks[q]
      BY <1>1, <2>2 DEF Storing
    <3>2. DOMAIN RowsOf(h, ids) = ids /\ \A n \in ids : RowsOf(h, ids)[n] = h.nodes[n]
      BY RowsOfAre
    <3>3. Active(r)'
      BY <3>1 DEF Active
    <3> QED BY <2>1, <2>2, <3>1, <3>2, <3>3, OverwritesReads
  <2>3. CASE tasks' = [tasks EXCEPT ![r].rest = rest] /\ reading' = reading
    <3>1. DOMAIN tasks[r] = TaskFields
      BY <2>1 DEF FootprintInv, TasksSound, TaskSound, Active
    <3>2. tasks'[r].at = "next" /\ \A q \in Runs \ {r} : tasks'[q] = tasks[q]
      BY <1>1, <2>1, <2>3, <3>1 DEF TaskFields
    <3>3. \A q \in Runs : Writes(tasks'[q]) => ReadsOn(q)
      BY <1>2, <2>3, <3>2 DEF ReadsOn, Writes
    <3> QED BY <1>1, <2>1, <2>3, <3>3, QuietReads
  <2> QED BY <2>1, <2>2, <2>3
<1>5. ASSUME NEW r \in Runs, ReadNode(r) \/ SelectRows(r)
      PROVE  ReadingSound' /\ \A q \in Runs : Writes(tasks'[q]) => ReadFrom(q)
  <2>1. PICK left, asked : /\ recordings' = recordings /\ left \subseteq reading[r].left
                           /\ reading' = [reading EXCEPT ![r] = [reading[r] EXCEPT !.left = left, !.asked = asked]]
    <3>1. CASE ReadNode(r)
      <4>1. PICK id \in reading[r].left :
              reading' = [reading EXCEPT ![r].left = @ \ {id}, ![r].asked = {id}]
        BY <3>1 DEF ReadNode
      <4> QED BY <1>1, <3>1, <4>1 DEF ReadNode
    <3>2. CASE SelectRows(r)
      <4>1. reading' = [reading EXCEPT ![r].asked = {}] /\ Writes(tasks[r])
        BY <3>2 DEF SelectRows, Writes
      <4> DEFINE look == reading[r]
      <4>2. [look EXCEPT !.asked = {}] = [look EXCEPT !.left = look.left, !.asked = {}]
        <5>1. DOMAIN look = ReadFields
          BY <1>2, <4>1
        <5> HIDE DEF look
        <5> QED BY <5>1 DEF ReadFields
      <4>3. reading' = [reading EXCEPT ![r] = [look EXCEPT !.left = look.left, !.asked = {}]]
        BY <1>1, <4>1, <4>2
      <4> QED BY <3>2, <4>3 DEF SelectRows
    <3> QED BY <1>5, <3>1, <3>2
  <2>2. Writes(tasks[r])
    BY <1>5 DEF ReadNode, SelectRows, Writes
  <2>3. /\ DOMAIN reading' = Runs /\ \A q \in Runs \ {r} : reading'[q] = reading[q]
        /\ DOMAIN reading'[r] = ReadFields /\ reading'[r].left = left
        /\ reading'[r].newer = reading[r].newer
    BY <1>1, <1>2, <2>1, <2>2 DEF ReadFields
  <2>4. tasks'[r].rows = tasks[r].rows /\ \A q \in Runs \ {r} : tasks'[q] = tasks[q]
    BY <1>5, MoveKeeps
  <2>5. \A q \in Runs : Writes(tasks'[q]) => ReadsOn(q)
    BY <1>2, <2>1, <2>2, <2>3, <2>4 DEF ReadsOn
  <2> QED BY <2>1, <2>3, <2>5, QuietReads
<1>6. ASSUME NEW r \in Runs, CommitRows(r) \/ StoreEdges(r) \/ StoreVersion(r) \/ LoseWrite(r)
      PROVE  ReadingSound' /\ \A q \in Runs : Writes(tasks'[q]) => ReadFrom(q)
  <2>1. /\ recordings' = recordings /\ DOMAIN reading' = Runs
        /\ \A q \in Runs \ {r} : reading'[q] = reading[q]
        /\ \E at \in {"edges", "version", "next"} : tasks' = [tasks EXCEPT ![r].at = at]
        /\ tasks[r].at # "idle"
    BY <1>1, <1>6 DEF CommitRows, StoreEdges, StoreVersion, LoseWrite
  <2>2. DOMAIN tasks[r] = TaskFields
    BY <2>1 DEF FootprintInv, TasksSound, TaskSound, Active
  <2>3. ~Writes(tasks'[r]) /\ \A q \in Runs \ {r} : tasks'[q] = tasks[q]
    BY <1>1, <2>1, <2>2 DEF Writes, TaskFields
  <2>4. \A q \in Runs : Writes(tasks'[q]) => ReadsOn(q)
    BY <1>2, <2>1, <2>3 DEF ReadsOn
  <2> QED BY <2>1, <2>4, QuietReads
<1>7. CASE Register
  <2>1. /\ UNCHANGED <<recordings, tasks>> /\ DOMAIN reading' = Runs
        /\ \A q \in Runs : reading'[q] \in {reading[q], [reading[q] EXCEPT !.live = FALSE]}
    BY <1>7 DEF Register
  <2>2. ASSUME NEW q \in Runs, Writes(tasks'[q]) PROVE ReadsOn(q)
    <3>1. DOMAIN reading[q] = ReadFields /\ tasks'[q] = tasks[q]
      BY <1>2, <2>1, <2>2
    <3> DEFINE look == reading[q]
    <3>2. reading'[q] \in {look, [look EXCEPT !.live = FALSE]} /\ DOMAIN look = ReadFields
      BY <2>1, <3>1
    <3> HIDE DEF look
    <3>3. DOMAIN reading'[q] = ReadFields /\ reading'[q].newer = look.newer /\ reading'[q].left = look.left
      BY <3>2 DEF ReadFields
    <3> QED BY <2>2, <3>1, <3>3 DEF ReadsOn, look
  <2> QED BY <2>1, <2>2, QuietReads
<1>8. CASE Restart \/ Recover \/ \E r \in Runs : LinkRun(r)
  <2>3. ASSUME NEW r \in Runs, LinkRun(r)
        PROVE  /\ UNCHANGED <<recordings, reading>> /\ tasks'[r].at = "idle"
               /\ \A q \in Runs \ {r} : tasks'[q] = tasks[q]
    BY <1>1, <2>3 DEF LinkRun, Idle
  <2>4. /\ recordings' = recordings /\ DOMAIN reading' = Runs
        /\ \A q \in Runs : tasks'[q].at = "idle" \/ (tasks'[q] = tasks[q] /\ reading'[q] = reading[q])
    <3>1. CASE Restart
      BY <3>1 DEF Restart, Idle
    <3>2. CASE Recover
      BY <1>1, <3>2 DEF Recover
    <3>3. CASE \E r \in Runs : LinkRun(r)
      BY <1>1, <2>3, <3>3
    <3> QED BY <1>8, <3>1, <3>2, <3>3
  <2>5. \A q \in Runs : Writes(tasks'[q]) => ReadsOn(q)
    BY <1>2, <2>4 DEF ReadsOn, Writes
  <2> QED BY <2>4, <2>5, QuietReads
<1>9. CASE \/ UNCHANGED vars \/ \E m \in Manifests : StartAcquisition(m)
           \/ AcquisitionFails \/ LinkAll \/ SyncNamespaces \/ LoseSync \/ SyncCross
  <2>1. UNCHANGED <<recordings, tasks, reading>>
    BY <1>9 DEF vars, StartAcquisition, AcquisitionFails, LinkAll, SyncNamespaces, LoseSync, SyncCross
  <2>2. \A q \in Runs : Writes(tasks'[q]) => ReadsOn(q)
    BY <1>2, <2>1 DEF ReadsOn
  <2> QED BY <1>1, <2>1, <2>2, QuietReads
<1> QED BY <1>3, <1>4, <1>5, <1>6, <1>7, <1>8, <1>9 DEF Next, Store, Acquire

(* The invariant behind FootprintWhole.                                  *)
WholeInv == FootprintInv /\ ReadingSound

LEMMA WholeInit == Init => WholeInv
<1>1. Init => ReadingSound
  BY DEF Init, ReadingSound, Idle, Writes
<1> QED BY <1>1, FootprintInit DEF WholeInv

LEMMA WholeStep == WholeInv /\ [Next]_vars => WholeInv'
BY FootprintStep, ReadingStep DEF WholeInv

(* A recording is in the tables whole or not at all, though other runs,  *)
(* lost writes and dying processes come between its transactions and     *)
(* others write its files while it stores them.                          *)
THEOREM Footprint == Spec => []FootprintWhole
<1>1. WholeInv => FootprintWhole
  <2> SUFFICES ASSUME WholeInv, NEW i \in {"ekg", "org"} \union opened
               PROVE  LET g == graphs[i].nodes
                          stored == {n \in DOMAIN g : n[1] # "checkout" /\ g[n].rec > 0}
                          own == stored \ Shared(stored)
                      IN  \A m \in own \intersect DOMAIN nodeRows : nodeRows[m].rec = g[m].rec =>
                            \A n \in stored : g[n].rec = g[m].rec => n \in DOMAIN nodeRows
    BY DEF FootprintWhole
  <2> DEFINE g == graphs[i].nodes
  <2> SUFFICES ASSUME NEW m \in DOMAIN g \intersect DOMAIN nodeRows, m[1] # "checkout", g[m].rec > 0,
                      Private(m), nodeRows[m].rec = g[m].rec,
                      NEW n \in DOMAIN g, n[1] # "checkout", g[n].rec = g[m].rec
               PROVE  n \in DOMAIN nodeRows
    BY DEF Shared, Private
  <2>1. i \in Instances /\ Dated(g, recordings) /\ recordings \in Nat
    BY InstancesAre DEF WholeInv, FootprintInv, GraphsTyped
  <2>2. g[m].rec \in 1 .. recordings
    BY <2>1 DEF Dated
  <2>3. WholeIn(g, nodeRows, g[m].rec)
    BY <2>2 DEF WholeInv, FootprintInv, Footprints
  <2> HIDE DEF g
  <2> QED BY <2>3 DEF WholeIn, OfRec
<1> QED BY <1>1, WholeInit, WholeStep, PTL DEF Spec

----------------------------------------------------------------------------
(* The newest suite is selected.                                         *)

(* A set of natural numbers has a least.                                 *)
LEMMA LeastOf ==
  ASSUME NEW S, S \subseteq Nat, S # {}
  PROVE  \E m \in S : \A j \in S : m <= j
<1>1. PICK d \in S : \A e \in S : ~(<<e, d>> \in OpToRel(<, Nat))
  BY WFMin, NatLessThanWellFounded, Zenon
<1>2. \A e \in S : ~(e < d)
  BY <1>1, Zenon DEF OpToRel
<1> QED BY <1>2

(* A bounded set of numbers has a greatest, and Max chooses it.          *)
LEMMA GreatestOf ==
  ASSUME NEW n \in Nat, NEW K, K \subseteq 0 .. n, K # {}
  PROVE  \E k \in K : \A j \in K : j <= k
<1> DEFINE D == {n - k : k \in K}
<1>1. D \subseteq Nat
  OBVIOUS
<1>2. D # {}
  OBVIOUS
<1> HIDE DEF D
<1>3. PICK d \in D : \A e \in D : d <= e
  BY <1>1, <1>2, LeastOf
<1>4. PICK k \in K : d = n - k
  BY DEF D
<1>5. \A j \in K : n - k <= n - j
  BY <1>3, <1>4 DEF D
<1>6. \A j \in K : j <= k
  BY <1>5
<1> QED BY <1>6

(* Max is the greatest of a set of numbers with a bound.                 *)
LEMMA MaxIs ==
  ASSUME NEW n \in Nat, NEW K, K \subseteq 0 .. n, K # {}
  PROVE  Max(K) \in K /\ \A j \in K : j <= Max(K)
<1>1. PICK k \in K : \A j \in K : j <= k
  BY GreatestOf
<1>2. \A j \in K : k >= j
  BY <1>1
<1>3. Max(K) \in K /\ \A j \in K : Max(K) >= j
  BY <1>2, Zenon DEF Max
<1>4. \A j \in K : j \in Int
  OBVIOUS
<1> QED BY <1>3, <1>4

(* Times of creation are numbers with a bound.                           *)
Born(N) == \E b \in Nat : \A n \in DOMAIN N : N[n].born \in 0 .. b

(* The next time of creation is a number above the earlier ones.         *)
LEMMA NowIs ==
  ASSUME NEW N, Born(N)
  PROVE  Now(N) \in Nat
<1> DEFINE K == {N[i].born : i \in DOMAIN N} \union {0}
<1>1. PICK b \in Nat : \A n \in DOMAIN N : N[n].born \in 0 .. b
  BY DEF Born
<1>2. K \subseteq 0 .. b /\ K # {}
  BY <1>1
<1>3. Now(N) = Max(K) + 1
  BY DEF Now
<1> HIDE DEF K
<1>4. Max(K) \in K
  BY <1>1, <1>2, MaxIs, Zenon
<1>5. \A x \in K : x + 1 \in Nat
  BY <1>1, <1>2
<1> QED BY <1>3, <1>4, <1>5, Zenon

(* A dictionary in which every entry has an old time or that of now.     *)
LEMMA StillBorn ==
  ASSUME NEW N, NEW M, Born(N),
         \A n \in DOMAIN M : \/ n \in DOMAIN N /\ M[n].born = N[n].born
                             \/ M[n].born = Now(N)
  PROVE  Born(M)
<1>1. PICK b \in Nat : \A n \in DOMAIN N : N[n].born \in 0 .. b
  BY DEF Born
<1>2. Now(N) \in Nat
  BY NowIs
<1>3. b + Now(N) \in Nat
  BY <1>2
<1>4. \A n \in DOMAIN M : M[n].born \in 0 .. (b + Now(N))
  BY <1>1, <1>2
<1> QED BY <1>3, <1>4 DEF Born

(* Adding nodes keeps the times of creation within bounds.               *)
LEMMA AddNodesBorn ==
  ASSUME NEW g, DOMAIN g = GraphFields, NEW ids, NEW repo, NEW rec, Born(g.nodes)
  PROVE  Born(AddNodes(g, ids, repo, rec).nodes)
<1> DEFINE N == g.nodes
           F == [i \in ids |-> [stamp |-> g.version, repo |-> repo, rec |-> rec,
                                born |-> IF i \in DOMAIN N THEN N[i].born ELSE Now(N)]]
           M == Merged(N, F)
<1>1. AddNodes(g, ids, repo, rec).nodes = M
  BY DEF AddNodes, GraphFields
<1>2. DOMAIN F = ids /\ \A n \in ids : F[n].born = IF n \in DOMAIN N THEN N[n].born ELSE Now(N)
  OBVIOUS
<1> HIDE DEF F, N
<1>3. DOMAIN M = ids \union DOMAIN N
      /\ \A n \in DOMAIN M : M[n] = IF n \in ids THEN F[n] ELSE N[n]
  BY <1>2 DEF Merged
<1> HIDE DEF M
<1>4. \A n \in DOMAIN M : (n \in DOMAIN N /\ M[n].born = N[n].born) \/ M[n].born = Now(N)
  BY <1>2, <1>3
<1>5. Born(N)
  BY DEF N
<1> QED BY <1>1, <1>4, <1>5, StillBorn

(* So does the merge with the rows.                                      *)
LEMMA UpsertedBorn ==
  ASSUME NEW old, NEW new, AllRows(new), Born(old)
  PROVE  Born(Upserted(old, new))
<1> DEFINE Time(i) == IF i \in DOMAIN old THEN old[i].born ELSE Now(old)
           F == [i \in DOMAIN new |-> [new[i] EXCEPT !.born = Time(i)]]
           M == Merged(old, F)
<1>1. Upserted(old, new) = M
  BY DEF Upserted
<1> HIDE DEF Time
<1>2. DOMAIN F = DOMAIN new /\ \A n \in DOMAIN new : F[n].born = Time(n)
  BY DEF NodeFields, AllRows
<1> HIDE DEF F
<1>3. DOMAIN M = DOMAIN new \union DOMAIN old
      /\ \A n \in DOMAIN M : M[n] = IF n \in DOMAIN new THEN F[n] ELSE old[n]
  BY <1>2 DEF Merged
<1> HIDE DEF M
<1>4. \A n \in DOMAIN M : (n \in DOMAIN old /\ M[n].born = old[n].born) \/ M[n].born = Now(old)
  BY <1>2, <1>3 DEF Time
<1> QED BY <1>1, <1>4, StillBorn

----------------------------------------------------------------------------
(* What is noted of suites: the graph they were recorded through, their  *)
(* stamp and the number of the recording.                                *)
NotesOf(N) ==
  {[to |-> Target(n[2]), stamp |-> N[n].stamp, rec |-> N[n].rec] :
     n \in {n \in DOMAIN N : n[1] = "suite"}}

(* Suites in the orchestrator's graph, in the table and on the way there. *)
Noted(G, T, ts) ==
  NotesOf(G["ekg"].nodes) \union NotesOf(T)
    \union UNION {NotesOf(ts[r].rows) : r \in {r \in Runs : ts[r].at # "idle"}}

(* Only suites validate.                                                 *)
Validating(es) == \A e \in es : e.rel = "validated_by" => e.target[1] = "suite"

(* What is compared is numbers.                                          *)
NotesTyped ==
  /\ \A i \in Instances : graphs[i].version \in Nat
  /\ \E b \in Nat : versionRows \subseteq 0 .. b
  /\ Born(graphs["ekg"].nodes) /\ Born(nodeRows)
  /\ Validating(graphs["ekg"].edges) /\ \A row \in edgeRows : Validating({row.edge})
  /\ \A r \in Runs : Active(r) => /\ \A row \in tasks[r].edges : Validating({row.edge})
                                  /\ tasks[r].version \in Nat
  /\ \A a \in Noted(graphs, nodeRows, tasks) : a.stamp \in Nat

(* Of two suites that went through one graph, the later has the greater  *)
(* stamp, and the graph will stamp the next one with a greater one still; *)
(* while the tables are not read back, nothing is recorded.              *)
Ordered(A) == \A a, b \in A : a.to = b.to /\ a.rec < b.rec => a.stamp < b.stamp

(* A graph is ahead of what it stamped, unless nothing is loaded.        *)
Ahead ==
  IF loaded THEN \A a \in Noted(graphs, nodeRows, tasks) : a.stamp < graphs[a.to].version
  ELSE DOMAIN graphs["ekg"].nodes = {} /\ \A r \in Runs : ~Active(r)

(* A stored suite is below a stored version, or below one about to be.   *)
Covered(a, V, ts) ==
  \/ \E v \in V : a.stamp < v
  \/ \E r \in Runs : ts[r].at \in {"edges", "version"} /\ a.stamp < ts[r].version

(* The order of all suites, as long as nothing was lost.                 *)
InOrder ==
  /\ Ordered(Noted(graphs, nodeRows, tasks)) /\ Ahead
  /\ \A a \in NotesOf(nodeRows) : Covered(a, versionRows, tasks)
  /\ \A r \in Runs : Active(r) => \A a \in NotesOf(tasks[r].rows) : a.stamp < tasks[r].version

(* The invariant behind SelectionNewest.                                 *)
NewestInv == FootprintInv /\ NotesTyped /\ (sound => InOrder)

(* Fewer suites are in order too.                                        *)
LEMMA OrderedLess == ASSUME NEW A, NEW B, B \subseteq A, Ordered(A) PROVE Ordered(B)
BY DEF Ordered

(* A note is of a suite.                                                 *)
LEMMA NoteIs ==
  ASSUME NEW N, NEW a
  PROVE  a \in NotesOf(N) <=>
           \E n \in DOMAIN N : /\ n[1] = "suite"
                               /\ a = [to |-> Target(n[2]), stamp |-> N[n].stamp, rec |-> N[n].rec]
BY DEF NotesOf

(* Less of the nodes has less of the notes.                              *)
LEMMA NotesSame ==
  ASSUME NEW N, NEW M, DOMAIN M \subseteq DOMAIN N, \A n \in DOMAIN M : M[n] = N[n]
  PROVE  NotesOf(M) \subseteq NotesOf(N)
BY DEF NotesOf

(* Where a note may stand.                                               *)
LEMMA NotedAre ==
  ASSUME NEW G, NEW T, NEW ts, NEW a
  PROVE  a \in Noted(G, T, ts) <=>
           \/ a \in NotesOf(G["ekg"].nodes) \/ a \in NotesOf(T)
           \/ \E r \in Runs : ts[r].at # "idle" /\ a \in NotesOf(ts[r].rows)
BY DEF Noted

(* After a write: the notes there were, and those of what was written.   *)
LEMMA WrittenNotes ==
  ASSUME NEW N, NEW M, NEW ids, NEW rec, NEW stamp, WriteOf(N, M, ids, rec, stamp),
         NEW a \in NotesOf(M)
  PROVE  \/ a \in NotesOf(N)
         \/ \E n \in ids : n[1] = "suite" /\ a = [to |-> Target(n[2]), stamp |-> stamp, rec |-> rec]
<1>1. PICK n \in DOMAIN M : n[1] = "suite"
        /\ a = [to |-> Target(n[2]), stamp |-> M[n].stamp, rec |-> M[n].rec]
  BY NoteIs
<1>2. CASE n \in ids
  BY <1>1, <1>2 DEF WriteOf
<1>3. CASE n \notin ids
  <2>1. n \in DOMAIN N /\ M[n] = N[n]
    BY <1>1, <1>3 DEF WriteOf
  <2> QED BY <1>1, <2>1, NoteIs
<1> QED BY <1>2, <1>3

(* The merge has no suites but the old and the new.                      *)
LEMMA UpsertedNotes ==
  ASSUME NEW old, NEW new, NEW N, UpsertOf(old, new, N), NEW a \in NotesOf(N)
  PROVE  a \in NotesOf(old) \/ a \in NotesOf(new)
<1>1. PICK n \in DOMAIN N : n[1] = "suite"
        /\ a = [to |-> Target(n[2]), stamp |-> N[n].stamp, rec |-> N[n].rec]
  BY NoteIs
<1>2. CASE n \in DOMAIN new
  <2>1. a = [to |-> Target(n[2]), stamp |-> new[n].stamp, rec |-> new[n].rec]
    BY <1>1, <1>2 DEF UpsertOf
  <2> QED BY <1>1, <1>2, <2>1, NoteIs
<1>3. CASE n \notin DOMAIN new
  <2>1. n \in DOMAIN old /\ N[n] = old[n]
    BY <1>1, <1>3 DEF UpsertOf
  <2> QED BY <1>1, <2>1, NoteIs
<1> QED BY <1>2, <1>3

(* Suites go to the graphs of the orchestrator.                          *)
LEMMA NotedTo ==
  ASSUME NEW G, NEW T, NEW ts, NEW a \in Noted(G, T, ts)
  PROVE  a.to \in {"ekg", "org"}
<1>1. \A N : a \in NotesOf(N) => a.to \in {"ekg", "org"}
  BY NoteIs, InstancesAre
<1> QED BY <1>1, NotedAre

(* Suites have numbers that were given out.                              *)
LEMMA NotedDated ==
  ASSUME FootprintInv, NEW a \in Noted(graphs, nodeRows, tasks)
  PROVE  a.rec \in 0 .. recordings
<1>1. ASSUME NEW N, a \in NotesOf(N), Dated(N, recordings) PROVE a.rec \in 0 .. recordings
  BY <1>1, NoteIs DEF Dated
<1>2. Dated(graphs["ekg"].nodes, recordings) /\ Dated(nodeRows, recordings) /\ recordings \in Nat
  BY InstancesAre DEF FootprintInv, GraphsTyped
<1>3. \A r \in Runs : tasks[r].at # "idle" => Dated(tasks[r].rows, recordings)
  <2> SUFFICES ASSUME NEW r \in Runs, Active(r) PROVE Dated(tasks[r].rows, recordings)
    BY DEF Active
  <2>1. TaskSound(tasks[r], r, recordings)
    BY DEF FootprintInv, TasksSound
  <2> QED BY <1>2, <2>1 DEF TaskSound, Dated
<1> QED BY <1>1, <1>2, <1>3, NotedAre

(* A recording that goes on notes no other suites.                       *)
Carries(t, u) ==
  /\ t.at # "idle" /\ NotesOf(u.rows) \subseteq NotesOf(t.rows)
  /\ u.version \in Nat /\ \A row \in u.edges : Validating({row.edge})
  /\ u.version = t.version \/ NotesOf(u.rows) = {}

(* Steps that record nothing and store no node.                          *)
LEMMA QuietNotes ==
  ASSUME NewestInv, FootprintInv', nodeRows' = nodeRows, loaded' = loaded, sound' => sound,
         graphs'["ekg"].nodes = graphs["ekg"].nodes, graphs'["ekg"].edges = graphs["ekg"].edges,
         \A i \in Instances : graphs'[i].version \in Nat,
         \A i \in {"ekg", "org"} : graphs[i].version <= graphs'[i].version,
         \E b \in Nat : versionRows' \subseteq 0 .. b, versionRows \subseteq versionRows',
         \A row \in edgeRows' : Validating({row.edge}),
         \A r \in Runs : tasks'[r].at = "idle" \/ Carries(tasks[r], tasks'[r]),
         sound' => \A r \in Runs : tasks[r].at \in {"edges", "version"} =>
           \/ tasks'[r].at \in {"edges", "version"} /\ tasks'[r].version = tasks[r].version
           \/ tasks[r].version \in versionRows'
  PROVE  NewestInv'
<1> DEFINE A == Noted(graphs, nodeRows, tasks)
           B == Noted(graphs', nodeRows', tasks')
<1>1. ASSUME NEW r \in Runs, tasks'[r].at # "idle" PROVE Active(r) /\ Carries(tasks[r], tasks'[r])
  BY <1>1 DEF Carries, Active
<1>2. B \subseteq A
  <2> SUFFICES ASSUME NEW a \in B PROVE a \in A
    OBVIOUS
  <2>1. \/ a \in NotesOf(graphs["ekg"].nodes) \/ a \in NotesOf(nodeRows)
        \/ \E r \in Runs : tasks'[r].at # "idle" /\ a \in NotesOf(tasks'[r].rows)
    BY NotedAre
  <2>2. ASSUME NEW r \in Runs, tasks'[r].at # "idle", a \in NotesOf(tasks'[r].rows)
        PROVE  tasks[r].at # "idle" /\ a \in NotesOf(tasks[r].rows)
    BY <1>1, <2>2 DEF Carries
  <2> QED BY <2>1, <2>2, NotedAre
<1>3. NotesTyped'
  <2>1. \A a \in B : a.stamp \in Nat
    BY <1>2 DEF NewestInv, NotesTyped
  <2>2. \A r \in Runs : Active(r)' => /\ \A row \in tasks'[r].edges : Validating({row.edge})
                                      /\ tasks'[r].version \in Nat
    BY <1>1 DEF Active, Carries
  <2>3. Born(graphs["ekg"].nodes) /\ Born(nodeRows) /\ Validating(graphs["ekg"].edges)
    BY DEF NewestInv, NotesTyped
  <2> QED BY <2>1, <2>2, <2>3 DEF NotesTyped
<1>4. ASSUME sound' PROVE InOrder'
  <2>1. InOrder
    BY <1>4 DEF NewestInv
  <2>2. Ordered(B)
    BY <1>2, <2>1, OrderedLess DEF InOrder
  <2>3. Ahead'
    <3>1. CASE loaded
      <4>1. ASSUME NEW a \in B PROVE a.stamp < graphs'[a.to].version
        <5>1. a.stamp < graphs[a.to].version /\ a.stamp \in Nat
          BY <1>2, <2>1, <3>1, <4>1 DEF InOrder, Ahead, NewestInv, NotesTyped
        <5>2. a.to \in {"ekg", "org"} /\ a.to \in Instances
          BY <4>1, NotedTo, InstancesAre
        <5>3. graphs[a.to].version \in Nat /\ graphs'[a.to].version \in Nat
              /\ graphs[a.to].version <= graphs'[a.to].version
          BY <5>2 DEF NewestInv, NotesTyped
        <5> QED BY <5>1, <5>3
      <4> QED BY <3>1, <4>1 DEF Ahead
    <3>2. CASE ~loaded
      BY <1>1, <2>1, <3>2 DEF InOrder, Ahead, Active
    <3> QED BY <3>1, <3>2
  <2>4. ASSUME NEW a \in NotesOf(nodeRows) PROVE Covered(a, versionRows', tasks')
    <3>1. Covered(a, versionRows, tasks)
      BY <2>1 DEF InOrder
    <3>2. CASE \E v \in versionRows : a.stamp < v
      BY <3>2 DEF Covered
    <3>3. CASE \E r \in Runs : tasks[r].at \in {"edges", "version"} /\ a.stamp < tasks[r].version
      BY <1>4, <3>3 DEF Covered
    <3> QED BY <3>1, <3>2, <3>3 DEF Covered
  <2>5. ASSUME NEW r \in Runs, Active(r)', NEW a \in NotesOf(tasks'[r].rows)
        PROVE  a.stamp < tasks'[r].version
    <3>1. Active(r) /\ a \in NotesOf(tasks[r].rows) /\ tasks'[r].version = tasks[r].version
      BY <1>1, <2>5 DEF Active, Carries
    <3> QED BY <2>1, <3>1 DEF InOrder
  <2> QED BY <2>2, <2>3, <2>4, <2>5 DEF InOrder
<1> QED BY <1>3, <1>4 DEF NewestInv

(* A recording that is not touched, or only moves on.                    *)
LEMMA SameCarries ==
  ASSUME NewestInv, NEW r \in Runs, Active(r), NEW u,
         u.rows = tasks[r].rows, u.version = tasks[r].version, u.edges = tasks[r].edges
  PROVE  Carries(tasks[r], u)
BY DEF Carries, Active, NewestInv, NotesTyped

(* A look-up, the edges, the version and a lost write.                   *)
LEMMA MovesNotes ==
  ASSUME NewestInv, FootprintInv',
         NEW r \in Runs,
         ReadNode(r) \/ SelectRows(r) \/ StoreEdges(r) \/ StoreVersion(r) \/ LoseWrite(r)
  PROVE  NewestInv'
<1> DEFINE t == tasks[r]
<1>1. /\ UNCHANGED <<nodeRows, loaded, graphs>> /\ Active(r) /\ (sound' => sound)
  BY DEF ReadNode, SelectRows, StoreEdges, StoreVersion, LoseWrite, registry, tables, Active
<1>2. FootprintInv
  BY DEF NewestInv
<1>3. /\ \A q \in Runs \ {r} : tasks'[q] = tasks[q]
      /\ tasks'[r].rows = t.rows /\ tasks'[r].version = t.version /\ tasks'[r].edges = t.edges
      /\ t.at = "edges" => tasks'[r].at = "version"
      /\ t.at = "version" => tasks'[r].at = "next"
  BY <1>2, MoveKeeps
<1>4. /\ \E b \in Nat : versionRows' \subseteq 0 .. b
      /\ versionRows \subseteq versionRows'
      /\ t.at = "version" /\ sound' => t.version \in versionRows'
  <2>1. CASE versionRows' = versionRows /\ (t.at = "version" => ~sound')
    BY <2>1 DEF NewestInv, NotesTyped
  <2>2. CASE versionRows' = versionRows \union {t.version}
    <3>1. PICK b \in Nat : versionRows \subseteq 0 .. b
      BY DEF NewestInv, NotesTyped
    <3>2. t.version \in Nat
      BY <1>1 DEF NewestInv, NotesTyped
    <3> DEFINE v == t.version
    <3> HIDE DEF v
    <3>3. b + v \in Nat /\ versionRows \union {v} \subseteq 0 .. (b + v)
      <4>1. v \in Nat
        BY <3>2 DEF v
      <4> QED BY <3>1, <4>1
    <3>4. versionRows' = versionRows \union {v}
      BY <2>2 DEF v
    <3>5. v \in versionRows'
      BY <3>4
    <3> QED BY <3>3, <3>4, <3>5 DEF v
  <2> QED BY <2>1, <2>2 DEF ReadNode, SelectRows, StoreEdges, StoreVersion, LoseWrite, tables
<1>5. \A row \in edgeRows' : Validating({row.edge})
  <2>1. edgeRows' = edgeRows \/ edgeRows' = edgeRows \union t.edges
    BY DEF ReadNode, SelectRows, StoreEdges, StoreVersion, LoseWrite, tables
  <2> QED BY <1>1, <2>1 DEF NewestInv, NotesTyped
<1> HIDE DEF t
<1>6. \A q \in Runs : tasks'[q].at = "idle" \/ Carries(tasks[q], tasks'[q])
  <2>1. Carries(tasks[r], tasks'[r])
    BY <1>1, <1>3, SameCarries DEF t
  <2>2. \A q \in Runs \ {r} : Active(q) => Carries(tasks[q], tasks'[q])
    BY <1>3, SameCarries
  <2> QED BY <1>3, <2>1, <2>2 DEF Active
<1>7. sound' => \A q \in Runs : tasks[q].at \in {"edges", "version"} =>
           \/ tasks'[q].at \in {"edges", "version"} /\ tasks'[q].version = tasks[q].version
           \/ tasks[q].version \in versionRows'
  BY <1>3, <1>4 DEF t
<1>8. /\ \A i \in Instances : graphs'[i].version \in Nat
      /\ \A i \in {"ekg", "org"} : graphs[i].version <= graphs'[i].version
  BY <1>1, InstancesAre DEF NewestInv, NotesTyped
<1> QED BY <1>1, <1>4, <1>5, <1>6, <1>7, <1>8, QuietNotes

(* Edge rows are of edges.                                               *)
LEMMA EdgeRowsAre ==
  ASSUME NEW g, NEW es, NEW row \in EdgeRowsOf(g, es)
  PROVE  row.edge \in es
BY DEF EdgeRowsOf

(* The recording in the graph of a repository has no suite.              *)
LEMMA NamespaceNotes ==
  ASSUME NewestInv, FootprintInv', NEW r \in Runs, RecordNamespace(r)
  PROVE  NewestInv'
<1> DEFINE repo == Head(tasks[r].rest)
           rest == Tail(tasks[r].rest)
           rec == tasks[r].rec
           ids == NamespaceIds(r, repo, Patched[r])
           g == graphs[repo]
           es == NamespaceEdges(r, repo, Patched[r])
           h == IngestRun(g, r, repo, Patched[r], rec)
<1>1. /\ tasks[r].at = "next" /\ Active(r) /\ tasks[r].rest # <<>>
      /\ UNCHANGED <<nodeRows, edgeRows, versionRows, loaded, sound>>
      /\ IF repo \in opened
         THEN /\ graphs' = [graphs EXCEPT ![repo] = h]
              /\ tasks' = [tasks EXCEPT ![r] = Storing(repo, h, ids, es, rec, rest)]
         ELSE graphs' = graphs /\ tasks' = [tasks EXCEPT ![r].rest = rest]
  BY DEF RecordNamespace, tables, Active
<1>2. /\ TaskSound(tasks[r], r, recordings) /\ DOMAIN tasks = Runs /\ DOMAIN graphs = Instances
      /\ opened \subseteq Repos
  BY <1>1 DEF NewestInv, FootprintInv, TasksSound, GraphsTyped
<1>3. \A q \in Runs : q # r => tasks'[q] = tasks[q]
  BY <1>1, <1>2
<1>4. /\ \A i \in Instances : graphs'[i].version \in Nat
      /\ \A i \in {"ekg", "org"} : graphs'[i] = graphs[i]
      /\ tasks'[r].at = "idle" \/ Carries(tasks[r], tasks'[r])
  <2>1. CASE repo \notin opened
    <3>1. tasks' = [tasks EXCEPT ![r].rest = rest] /\ graphs' = graphs
      BY <1>1, <2>1
    <3> HIDE DEF rest
    <3>2. tasks'[r].rows = tasks[r].rows /\ tasks'[r].version = tasks[r].version
          /\ tasks'[r].edges = tasks[r].edges
      BY <1>2, <3>1 DEF TaskSound, TaskFields
    <3>3. Carries(tasks[r], tasks'[r])
      BY <1>1, <3>2, SameCarries
    <3> QED BY <3>1, <3>3 DEF NewestInv, NotesTyped
  <2>2. CASE repo \in opened
    <3>1. /\ graphs' = [graphs EXCEPT ![repo] = h]
          /\ tasks' = [tasks EXCEPT ![r] = Storing(repo, h, ids, es, rec, rest)]
      BY <1>1, <2>2
    <3>2. repo \in Instances /\ repo \notin {"ekg", "org"}
      BY <1>2, <2>2, InstancesAre
    <3>3. DOMAIN g = GraphFields /\ g.version \in Nat
      BY <3>2 DEF NewestInv, FootprintInv, GraphsTyped, NotesTyped
    <3>4. h.version = g.version + 1
      BY <3>3, IngestRunWrites
    <3>5. DOMAIN RowsOf(h, ids) = ids
      BY RowsOfAre
    <3>6. \A n \in ids : n[1] # "suite"
      BY DEF NamespaceIds, StableId, RepoNodeId
    <3>7. \A e \in es : e.rel # "validated_by"
      BY DEF NamespaceEdges, Edge
    <3>8. /\ tasks'[r].rows = RowsOf(h, ids) /\ tasks'[r].version = h.version
          /\ tasks'[r].edges = EdgeRowsOf(h, es)
      BY <1>2, <3>1 DEF Storing
    <3> HIDE DEF h, ids, es, g
    <3>9. NotesOf(tasks'[r].rows) = {}
      BY <3>5, <3>6, <3>8, NoteIs
    <3>10. \A row \in tasks'[r].edges : Validating({row.edge})
      BY <3>7, <3>8, EdgeRowsAre DEF Validating
    <3>11. h.version \in Nat
      BY <3>3, <3>4
    <3>12. Carries(tasks[r], tasks'[r])
      BY <1>1, <3>8, <3>9, <3>10, <3>11 DEF Carries
    <3>13. graphs'[repo] = h /\ \A i \in Instances \ {repo} : graphs'[i] = graphs[i]
      BY <1>2, <3>1, <3>2
    <3>14. \A i \in Instances : graphs'[i].version \in Nat
      BY <3>11, <3>13 DEF NewestInv, NotesTyped
    <3>15. \A i \in {"ekg", "org"} : graphs'[i] = graphs[i]
      BY <3>2, <3>13, InstancesAre
    <3> QED BY <3>12, <3>14, <3>15
  <2> QED BY <2>1, <2>2
<1>5. \A q \in Runs : tasks'[q].at = "idle" \/ Carries(tasks[q], tasks'[q])
  <2>1. \A q \in Runs \ {r} : Active(q) => Carries(tasks[q], tasks'[q])
    BY <1>3, SameCarries
  <2> QED BY <1>3, <1>4, <2>1 DEF Active
<1>6. \A q \in Runs : tasks[q].at \in {"edges", "version"} =>
         tasks'[q].at \in {"edges", "version"} /\ tasks'[q].version = tasks[q].version
  BY <1>1, <1>3
<1>7. /\ \E b \in Nat : versionRows' \subseteq 0 .. b
      /\ \A row \in edgeRows' : Validating({row.edge})
      /\ \A i \in {"ekg", "org"} : graphs[i].version <= graphs'[i].version
  BY <1>1, <1>4, InstancesAre DEF NewestInv, NotesTyped
<1> HIDE DEF h, ids, es, g, repo, rest, rec
<1> QED BY <1>1, <1>4, <1>5, <1>6, <1>7, QuietNotes

(* Steps that change only the registry and the organization's graph.     *)
LEMMA RegistryNotes ==
  ASSUME NewestInv, FootprintInv', UNCHANGED <<nodeRows, edgeRows, versionRows, loaded, sound>>,
         graphs'["ekg"] = graphs["ekg"], graphs["org"].version <= graphs'["org"].version,
         \A i \in Instances : graphs'[i].version \in Nat,
         \A q \in Runs : \/ tasks'[q] = tasks[q]
                         \/ tasks'[q].at = "idle" /\ tasks[q].at \notin {"edges", "version"}
  PROVE  NewestInv'
<1>1. \A q \in Runs : tasks'[q].at = "idle" \/ Carries(tasks[q], tasks'[q])
  BY SameCarries DEF Active
<1>2. /\ \E b \in Nat : versionRows' \subseteq 0 .. b
      /\ \A row \in edgeRows' : Validating({row.edge})
      /\ \A i \in {"ekg", "org"} : graphs[i].version <= graphs'[i].version
  BY InstancesAre DEF NewestInv, NotesTyped
<1>3. \A q \in Runs : tasks[q].at \in {"edges", "version"} =>
         tasks'[q].at \in {"edges", "version"} /\ tasks'[q].version = tasks[q].version
  OBVIOUS
<1> QED BY <1>1, <1>2, <1>3, QuietNotes

(* Links, acquisitions and steps that change nothing here.               *)
LEMMA OrganizationNotes ==
  ASSUME NewestInv, FootprintInv',
         \/ \E r \in Runs : LinkRun(r)
         \/ \E m \in Manifests : StartAcquisition(m)
         \/ Acquire
         \/ UNCHANGED vars
  PROVE  NewestInv'
<1> DEFINE g == graphs["org"]
           k == graphs'["org"]
<1>1. UNCHANGED <<nodeRows, edgeRows, versionRows, loaded, sound>>
  BY DEF LinkRun, StartAcquisition, Acquire, Register, AcquisitionFails, LinkAll, SyncNamespaces,
         LoseSync, SyncCross, vars, tables
<1>2. /\ DOMAIN graphs = Instances /\ DOMAIN tasks = Runs /\ Acquiring(acquiring) /\ "org" \in Instances
      /\ "ekg" \in Instances /\ DOMAIN g = GraphFields /\ g.version \in Nat
  BY InstancesAre DEF NewestInv, FootprintInv, GraphsTyped, NotesTyped
<1>3. \A q \in Runs : \/ tasks'[q] = tasks[q]
                      \/ tasks'[q].at = "idle" /\ tasks[q].at \notin {"edges", "version"}
  <2>1. CASE tasks' = tasks
    BY <2>1
  <2>2. CASE \E r \in Runs : LinkRun(r)
    <3>1. PICK r \in Runs : tasks[r].at = "next" /\ tasks' = [tasks EXCEPT ![r] = Idle]
      BY <2>2 DEF LinkRun
    <3>2. tasks'[r].at = "idle" /\ \A q \in Runs \ {r} : tasks'[q] = tasks[q]
      BY <1>2, <3>1 DEF Idle
    <3> QED BY <3>1, <3>2
  <2> QED BY <2>1, <2>2 DEF StartAcquisition, Acquire, Register, AcquisitionFails, LinkAll,
         SyncNamespaces, LoseSync, SyncCross, vars
<1>4. /\ graphs'["ekg"] = graphs["ekg"] /\ g.version <= k.version
      /\ \A i \in Instances : graphs'[i].version \in Nat
  <2>1. CASE graphs' = graphs
    BY <1>2, <2>1 DEF NewestInv, NotesTyped
  <2>2. ASSUME NEW h, graphs' = [graphs EXCEPT !["org"] = h], h.version \in Nat, g.version <= h.version
        PROVE  <1>4!:
    <3>1. k = h /\ \A i \in Instances \ {"org"} : graphs'[i] = graphs[i]
      BY <1>2, <2>2
    <3> HIDE DEF k
    <3> QED BY <1>2, <2>2, <3>1 DEF NewestInv, NotesTyped
  <2>3. CASE \E r \in Runs : LinkRun(r)
    <3>1. PICK es : graphs' = graphs \/ graphs' = [graphs EXCEPT !["org"] = IncrementVersion(AddEdges(g, es))]
      BY <2>3 DEF LinkRun
    <3> DEFINE h == IncrementVersion(AddEdges(g, es))
    <3>2. h.version = g.version + 1
      BY <1>2, AddEdgesKeeps, IncrementKeeps
    <3> HIDE DEF h, g, k
    <3> QED BY <1>2, <2>1, <2>2, <3>1, <3>2 DEF h
  <2>4. CASE LinkAll
    <3> DEFINE es == {Edge(RepoNodeId(l[1]), RepoNodeId(l[2]), "depends_on") : l \in acquiring.links}
               j == AddEdges(g, es)
               c == Cardinality(acquiring.links)
               h == [j EXCEPT !.version = @ + c]
    <3>1. graphs' = [graphs EXCEPT !["org"] = h]
      BY <2>4 DEF LinkAll
    <3>2. DOMAIN j = GraphFields /\ j.version = g.version
      BY <1>2, AddEdgesKeeps
    <3>3. c \in Nat
      <4>1. acquiring.at = "acquire"
        BY <2>4 DEF LinkAll
      <4>2. IsFiniteSet(acquiring.links)
        BY <1>2, <4>1 DEF Acquiring
      <4> QED BY <4>2, FS_CardinalityType
    <3> HIDE DEF j, c
    <3>4. h.version = g.version + c
      BY <3>2 DEF GraphFields
    <3>5. h.version \in Nat /\ g.version <= h.version
      BY <1>2, <3>3, <3>4
    <3> HIDE DEF h, g, k
    <3> QED BY <2>2, <3>1, <3>5
  <2>5. CASE SyncCross
    <3> DEFINE h == IncrementVersion(g)
    <3>1. graphs' = [graphs EXCEPT !["org"] = h]
      BY <1>2, <2>5 DEF SyncCross
    <3>2. h.version = g.version + 1
      BY <1>2, IncrementKeeps
    <3>3. h.version \in Nat /\ g.version <= h.version
      BY <1>2, <3>2
    <3> HIDE DEF h, g, k
    <3> QED BY <2>2, <3>1, <3>3
  <2>6. CASE Register
    <3> DEFINE repo == Head(acquiring.rest)
               s == Seed(NewGraph, repo, 0)
               h == Registered(g, repo)
    <3>1. /\ acquiring.at = "acquire" /\ acquiring.rest # <<>>
          /\ graphs' = [graphs EXCEPT ![repo] = s, !["org"] = Registered(@, repo)]
      BY <2>6 DEF Register
    <3>2. repo \in Repos /\ repo \in Instances /\ repo \notin {"ekg", "org"}
      BY <1>2, <3>1, HeadTailProperties, InstancesAre DEF Acquiring
    <3>3. s.version = 1 /\ h.version \in {g.version, g.version + 1}
      BY <1>2, SeedWrites, RegisteredWrites
    <3> HIDE DEF s, repo
    <3>4. graphs' = [graphs EXCEPT ![repo] = s, !["org"] = h]
      BY <1>2, <3>1, <3>2
    <3> HIDE DEF h
    <3>5. graphs'[repo] = s /\ k = h /\ \A i \in Instances \ {repo, "org"} : graphs'[i] = graphs[i]
      BY <1>2, <3>2, <3>4
    <3> HIDE DEF g, k
    <3>6. graphs'["ekg"] = graphs["ekg"]
      BY <1>2, <3>2, <3>5
    <3>7. s.version \in Nat /\ h.version \in Nat /\ g.version <= h.version
      BY <1>2, <3>3
    <3>8. \A i \in Instances : graphs'[i].version \in Nat
      BY <3>5, <3>7 DEF NewestInv, NotesTyped, k
    <3> QED BY <3>5, <3>6, <3>7, <3>8
  <2>7. CASE \/ \E m \in Manifests : StartAcquisition(m)
             \/ AcquisitionFails \/ SyncNamespaces \/ LoseSync \/ UNCHANGED vars
    <3>1. graphs' = graphs
      BY <2>7 DEF StartAcquisition, AcquisitionFails, SyncNamespaces, LoseSync, vars
    <3> QED BY <2>1, <3>1
  <2> QED BY <2>3, <2>4, <2>5, <2>6, <2>7 DEF Acquire
<1> QED BY <1>1, <1>3, <1>4, RegistryNotes

(* CommitRows: what was noted on the way is noted in the table.          *)
LEMMA CommitNotes ==
  ASSUME NewestInv, ReadingSound, FootprintInv', NEW r \in Runs, CommitRows(r)
  PROVE  NewestInv'
<1> DEFINE t == tasks[r]
<1>1. /\ t.at = "commit" /\ Active(r) /\ tasks' = [tasks EXCEPT ![r].at = "edges"]
      /\ nodeRows' = Committed(nodeRows, t, reading[r].newer)
      /\ UNCHANGED <<graphs, edgeRows, versionRows, loaded, sound>>
  BY DEF CommitRows, Active
<1>2. /\ TaskSound(t, r, recordings) /\ DOMAIN tasks = Runs
  BY <1>1 DEF NewestInv, FootprintInv, TasksSound, GraphsTyped
<1>3. tasks'[r] = [t EXCEPT !.at = "edges"] /\ \A q \in Runs \ {r} : tasks'[q] = tasks[q]
  BY <1>1, <1>2
<1> HIDE DEF t
<1>4. /\ tasks'[r].at = "edges" /\ tasks'[r].rows = t.rows /\ tasks'[r].version = t.version
      /\ tasks'[r].edges = t.edges
  BY <1>2, <1>3 DEF TaskSound, TaskFields
<1>5. /\ \E b \in Nat : versionRows' \subseteq 0 .. b
      /\ \A row \in edgeRows' : Validating({row.edge})
      /\ \A i \in {"ekg", "org"} : graphs[i].version <= graphs'[i].version
      /\ \A i \in Instances : graphs'[i].version \in Nat
  BY <1>1, InstancesAre DEF NewestInv, NotesTyped
<1>6. CASE nodeRows' = nodeRows
  <2>1. Carries(tasks[r], tasks'[r])
    BY <1>1, <1>4, SameCarries DEF t
  <2>2. \A q \in Runs \ {r} : Active(q) => Carries(tasks[q], tasks'[q])
    BY <1>3, SameCarries
  <2>3. \A q \in Runs : tasks'[q].at = "idle" \/ Carries(tasks[q], tasks'[q])
    BY <1>3, <2>1, <2>2 DEF Active
  <2>4. \A q \in Runs : tasks[q].at \in {"edges", "version"} =>
          tasks'[q].at \in {"edges", "version"} /\ tasks'[q].version = tasks[q].version
    BY <1>1, <1>3 DEF t
  <2> QED BY <1>1, <1>5, <1>6, <2>3, <2>4, QuietNotes
<1>7. CASE nodeRows' = Upserted(nodeRows, RowsRead(r))
  <2> DEFINE rows == RowsRead(r)
             A == Noted(graphs, nodeRows, tasks)
             B == Noted(graphs', nodeRows', tasks')
  <2>1. AllRows(rows) /\ nodeRows' = Upserted(nodeRows, rows)
    BY <1>1, <1>7, RowsReadAre DEF NewestInv, Writes, t
  <2>9. NotesOf(rows) \subseteq NotesOf(t.rows)
    <3> SUFFICES ASSUME NEW a \in NotesOf(rows) PROVE a \in NotesOf(t.rows)
      OBVIOUS
    <3>1. PICK n \in DOMAIN rows : n[1] = "suite"
            /\ a = [to |-> Target(n[2]), stamp |-> rows[n].stamp, rec |-> rows[n].rec]
      BY NoteIs
    <3>2. n \in DOMAIN t.rows /\ rows[n] = t.rows[n]
      BY <1>1, <3>1, RowsReadAre DEF NewestInv, Writes, Private, t
    <3> HIDE DEF rows
    <3> QED BY <3>1, <3>2, NoteIs
  <2> HIDE DEF rows
  <2>2. UpsertOf(nodeRows, rows, nodeRows')
    BY <2>1, UpsertedWrites, Zenon
  <2>3. Born(nodeRows')
    <3>1. Born(nodeRows)
      BY DEF NewestInv, NotesTyped
    <3> QED BY <2>1, <3>1, UpsertedBorn, Zenon
  <2>4. \A a \in NotesOf(nodeRows') : a \in NotesOf(nodeRows) \/ a \in NotesOf(rows)
    BY <2>2, UpsertedNotes
  <2>5. \A q \in Runs : /\ (tasks'[q].at # "idle") <=> Active(q)
                        /\ tasks'[q].rows = tasks[q].rows /\ tasks'[q].version = tasks[q].version
                        /\ tasks'[q].edges = tasks[q].edges
                        /\ tasks[q].at \in {"edges", "version"} => tasks'[q].at \in {"edges", "version"}
    BY <1>1, <1>3, <1>4 DEF Active, t
  <2>6. B \subseteq A
    <3> SUFFICES ASSUME NEW a \in B PROVE a \in A
      OBVIOUS
    <3>1. \/ a \in NotesOf(graphs["ekg"].nodes) \/ a \in NotesOf(nodeRows')
          \/ \E q \in Runs : tasks'[q].at # "idle" /\ a \in NotesOf(tasks'[q].rows)
      BY <1>1, NotedAre
    <3>2. ASSUME a \in NotesOf(rows) PROVE a \in A
      <4>1. a \in NotesOf(tasks[r].rows) /\ tasks[r].at # "idle"
        BY <1>1, <2>9, <3>2 DEF t, Active
      <4> QED BY <4>1, NotedAre
    <3>3. ASSUME NEW q \in Runs, tasks'[q].at # "idle", a \in NotesOf(tasks'[q].rows) PROVE a \in A
      <4>1. tasks[q].at # "idle" /\ a \in NotesOf(tasks[q].rows)
        BY <2>5, <3>3 DEF Active
      <4> QED BY <4>1, NotedAre
    <3> QED BY <2>4, <3>1, <3>2, <3>3, NotedAre
  <2>7. NotesTyped'
    <3>1. \A a \in B : a.stamp \in Nat
      BY <2>6 DEF NewestInv, NotesTyped
    <3>2. \A q \in Runs : Active(q)' => /\ \A row \in tasks'[q].edges : Validating({row.edge})
                                        /\ tasks'[q].version \in Nat
      BY <2>5 DEF Active, NewestInv, NotesTyped
    <3> QED BY <1>1, <2>3, <3>1, <3>2 DEF NewestInv, NotesTyped
  <2>8. ASSUME sound' PROVE InOrder'
    <3>1. InOrder
      BY <1>1, <2>8 DEF NewestInv
    <3>2. Ordered(B)
      BY <2>6, <3>1, OrderedLess DEF InOrder
    <3>3. Ahead'
      <4>1. loaded
        BY <1>1, <3>1 DEF InOrder, Ahead
      <4> QED BY <1>1, <2>6, <3>1, <4>1 DEF InOrder, Ahead
    <3>4. \A q \in Runs : Active(q)' => \A a \in NotesOf(tasks'[q].rows) : a.stamp < tasks'[q].version
      BY <2>5, <3>1 DEF InOrder, Active
    <3>5. ASSUME NEW a \in NotesOf(nodeRows') PROVE Covered(a, versionRows', tasks')
      <4>1. CASE a \in NotesOf(nodeRows)
        <5>1. Covered(a, versionRows, tasks)
          BY <3>1, <4>1 DEF InOrder
        <5> QED BY <1>1, <2>5, <5>1 DEF Covered
      <4>2. CASE a \in NotesOf(rows)
        <5>1. a.stamp < t.version
          BY <1>1, <2>9, <3>1, <4>2 DEF InOrder, t
        <5> QED BY <1>4, <5>1 DEF Covered
      <4> QED BY <2>4, <4>1, <4>2
    <3> QED BY <3>2, <3>3, <3>4, <3>5 DEF InOrder
  <2> QED BY <2>7, <2>8 DEF NewestInv
<1> QED BY <1>1, <1>6, <1>7 DEF Committed, RowsRead, t

(* A process that dies takes its graph with it.                          *)
LEMMA RestartNotes ==
  ASSUME NewestInv, FootprintInv', Restart
  PROVE  NewestInv'
<1> DEFINE A == Noted(graphs, nodeRows, tasks)
           B == Noted(graphs', nodeRows', tasks')
<1>1. /\ graphs' = [i \in Instances |-> NewGraph] /\ tasks' = [r \in Runs |-> Idle] /\ loaded' = FALSE
      /\ UNCHANGED <<nodeRows, edgeRows, versionRows>>
      /\ sound' => sound /\ \A r \in Runs : tasks[r].at \notin {"edges", "version"}
  BY DEF Restart, tables
<1>2. /\ \A i \in Instances : graphs'[i] = NewGraph
      /\ \A r \in Runs : tasks'[r].at = "idle"
  BY <1>1 DEF Idle
<1>3. /\ DOMAIN graphs'["ekg"].nodes = {} /\ graphs'["ekg"].edges = {}
      /\ \A i \in Instances : graphs'[i].version = 1
  BY <1>2, NewGraphIs, InstancesAre
<1>4. B \subseteq NotesOf(nodeRows) /\ B \subseteq A
  <2>1. \A a : a \notin NotesOf(graphs'["ekg"].nodes)
    BY <1>3, NoteIs
  <2>2. \A a \in B : a \in NotesOf(nodeRows)
    BY <1>1, <1>2, <2>1, NotedAre
  <2> QED BY <2>2, NotedAre
<1>5. Born(graphs'["ekg"].nodes)
  <2>1. 0 \in Nat /\ \A n \in DOMAIN graphs'["ekg"].nodes : graphs'["ekg"].nodes[n].born \in 0 .. 0
    BY <1>3
  <2> QED BY <2>1 DEF Born
<1>6. NotesTyped'
  <2>1. \A a \in B : a.stamp \in Nat
    BY <1>4 DEF NewestInv, NotesTyped
  <2>2. \A r \in Runs : ~Active(r)'
    BY <1>2 DEF Active
  <2>3. Validating(graphs'["ekg"].edges)
    BY <1>3 DEF Validating
  <2> QED BY <1>1, <1>3, <1>5, <2>1, <2>2, <2>3 DEF NewestInv, NotesTyped
<1>7. ASSUME sound' PROVE InOrder'
  <2>1. InOrder /\ \A r \in Runs : tasks[r].at \notin {"edges", "version"}
    BY <1>1, <1>7 DEF NewestInv
  <2>2. Ordered(B)
    BY <1>4, <2>1, OrderedLess DEF InOrder
  <2>3. \A a \in NotesOf(nodeRows) : Covered(a, versionRows', tasks')
    BY <1>1, <2>1 DEF InOrder, Covered
  <2>4. \A r \in Runs : ~Active(r)'
    BY <1>2 DEF Active
  <2>5. Ahead'
    BY <1>1, <1>3, <2>4 DEF Ahead
  <2> QED BY <1>1, <2>2, <2>3, <2>4, <2>5 DEF InOrder
<1> QED BY <1>6, <1>7 DEF NewestInv

(* Reading the tables back: the graph continues above all that is stored. *)
LEMMA RecoverNotes ==
  ASSUME NewestInv, FootprintInv', Recover
  PROVE  NewestInv'
<1> DEFINE L(i) == Load(nodeRows, edgeRows, versionRows, NamespaceOf(i))
           top == IF versionRows = {} THEN 1 ELSE Max(versionRows)
           A == Noted(graphs, nodeRows, tasks)
           B == Noted(graphs', nodeRows', tasks')
<1>1. /\ graphs' = [i \in Instances |-> IF i \in {"ekg", "org"} \union opened' THEN L(i) ELSE graphs[i]]
      /\ loaded' = TRUE /\ UNCHANGED <<nodeRows, edgeRows, versionRows, tasks, sound>>
      /\ \A r \in Runs : tasks[r].at = "idle"
  BY DEF Recover, tables
<1>2. \A i : /\ DOMAIN L(i).nodes \subseteq DOMAIN nodeRows
             /\ \A n \in DOMAIN L(i).nodes : L(i).nodes[n] = nodeRows[n]
             /\ \A e \in L(i).edges : \E row \in edgeRows : row.edge = e
             /\ L(i).version = top
  BY LoadReads
<1>3. top \in Nat /\ \A v \in versionRows : v <= top
  <2>1. PICK b \in Nat : versionRows \subseteq 0 .. b
    BY DEF NewestInv, NotesTyped
  <2>2. CASE versionRows = {}
    BY <2>2
  <2>3. CASE versionRows # {}
    <3>1. Max(versionRows) \in versionRows /\ \A v \in versionRows : v <= Max(versionRows)
      BY <2>1, <2>3, MaxIs, Zenon
    <3>2. top = Max(versionRows)
      BY <2>3
    <3> HIDE DEF top
    <3>3. top \in versionRows /\ \A v \in versionRows : v <= top
      BY <3>1, <3>2, Zenon
    <3> QED BY <2>1, <3>3
  <2> QED BY <2>2, <2>3
<1> HIDE DEF L, top
<1>4. /\ graphs'["ekg"] = L("ekg") /\ graphs'["org"] = L("org")
      /\ \A i \in Instances : graphs'[i] = L(i) \/ graphs'[i] = graphs[i]
  BY <1>1, InstancesAre
<1>5. B \subseteq NotesOf(nodeRows) /\ B \subseteq A
  <2>1. NotesOf(graphs'["ekg"].nodes) \subseteq NotesOf(nodeRows)
    BY <1>2, <1>4, NotesSame
  <2>2. \A a \in B : a \in NotesOf(nodeRows)
    BY <1>1, <2>1, NotedAre
  <2> QED BY <2>2, NotedAre
<1>6. NotesTyped'
  <2>1. \A a \in B : a.stamp \in Nat
    BY <1>5 DEF NewestInv, NotesTyped
  <2>2. \A r \in Runs : ~Active(r)'
    BY <1>1 DEF Active
  <2>3. Validating(graphs'["ekg"].edges)
    BY <1>2, <1>4 DEF Validating, NewestInv, NotesTyped
  <2>4. Born(graphs'["ekg"].nodes)
    BY <1>2, <1>4 DEF Born, NewestInv, NotesTyped
  <2>5. \A i \in Instances : graphs'[i].version \in Nat
    BY <1>2, <1>3, <1>4 DEF NewestInv, NotesTyped
  <2> QED BY <1>1, <2>1, <2>2, <2>3, <2>4, <2>5 DEF NewestInv, NotesTyped
<1>7. ASSUME sound' PROVE InOrder'
  <2>1. InOrder
    BY <1>1, <1>7 DEF NewestInv
  <2>2. Ordered(B)
    BY <1>5, <2>1, OrderedLess DEF InOrder
  <2>3. \A a \in NotesOf(nodeRows) : \E v \in versionRows : a.stamp < v
    BY <1>1, <2>1 DEF InOrder, Covered
  <2>4. \A a \in NotesOf(nodeRows) : Covered(a, versionRows', tasks')
    BY <1>1, <2>3 DEF Covered
  <2>5. ASSUME NEW a \in B PROVE a.stamp < graphs'[a.to].version
    <3>1. a.to \in {"ekg", "org"}
      BY NotedTo
    <3>2. graphs'[a.to].version = top
      BY <1>2, <1>4, <3>1
    <3>3. PICK v \in versionRows : a.stamp < v
      BY <1>5, <2>3
    <3>4. a.stamp \in Nat /\ v \in Nat
      BY <1>5 DEF NewestInv, NotesTyped
    <3> QED BY <1>3, <3>2, <3>3, <3>4
  <2>6. Ahead'
    BY <1>1, <2>5 DEF Ahead
  <2>7. \A r \in Runs : ~Active(r)'
    BY <1>1 DEF Active
  <2> QED BY <1>1, <2>2, <2>4, <2>6, <2>7 DEF InOrder
<1> QED BY <1>6, <1>7 DEF NewestInv

(* The edges of a run validate by its suite only.                        *)
LEMMA RunEdgesValidate ==
  ASSUME NEW g, NEW run, NEW path, NEW files, NEW tested
  PROVE  Validating(RunEdges(g, run, path, files, tested))
BY DEF RunEdges, Edge, StableId, Validating

(* A recording keeps the times of creation within bounds.                *)
LEMMA RecordRunBorn ==
  ASSUME NEW g, DOMAIN g = GraphFields, NEW run, NEW path, NEW files, NEW tested, NEW rec,
         Born(g.nodes)
  PROVE  Born(RecordRun(g, run, path, files, tested, rec).nodes)
<1> DEFINE written == RunIds(run, files, tested) \union {StableId("checkout", path, Default)}
           h == AddNodes(g, written, Default, rec)
           es == RunEdges(h, run, path, files, tested)
           k == AddEdges(h, es)
<1>1. DOMAIN h = GraphFields /\ Born(h.nodes)
  BY AddNodesWrites, AddNodesBorn
<1>2. RecordRun(g, run, path, files, tested, rec) = IncrementVersion(k)
  BY DEF RecordRun
<1> HIDE DEF h, es
<1>3. DOMAIN k = GraphFields /\ k.nodes = h.nodes
  BY <1>1, AddEdgesKeeps
<1> HIDE DEF k
<1>4. IncrementVersion(k).nodes = k.nodes
  BY <1>3, IncrementKeeps
<1> QED BY <1>1, <1>2, <1>3, <1>4


(* Record: the suite of the run gets the version of its graph as a stamp, *)
(* above all stamps given there so far.                                  *)
LEMMA RecordNotes ==
  ASSUME NewestInv, FootprintInv', NEW r \in Runs, NEW tested \in BOOLEAN, Record(r, tested)
  PROVE  NewestInv'
<1> DEFINE inst == Target(r)
           rec == recordings + 1
           ids == RunIds(r, Patched[r], tested)
           written == ids \union {StableId("checkout", "checkout", Default)}
           g == graphs[inst]
           h == RecordRun(g, r, "checkout", Patched[r], tested, rec)
           es == RunEdges(h, r, "checkout", Patched[r], tested)
           new == [to |-> inst, stamp |-> g.version, rec |-> rec]
           A == Noted(graphs, nodeRows, tasks)
           B == Noted(graphs', nodeRows', tasks')
<1>1. /\ tasks[r].at = "idle" /\ recordings' = rec /\ graphs' = [graphs EXCEPT ![inst] = h]
      /\ tasks' = [tasks EXCEPT ![r] = Storing(inst, h, ids, es, rec, Auxiliary[r])]
      /\ UNCHANGED <<nodeRows, edgeRows, versionRows, loaded>> /\ sound' = (sound /\ loaded)
  BY DEF Record, tables
<1>2. inst \in {"ekg", "org"} /\ inst \in Instances /\ "ekg" \in Instances
  BY InstancesAre
<1>3. /\ DOMAIN g = GraphFields /\ g.version \in Nat /\ recordings \in Nat
      /\ DOMAIN graphs = Instances /\ DOMAIN tasks = Runs
  BY <1>2 DEF NewestInv, FootprintInv, GraphsTyped, NotesTyped
<1>4. /\ h.version = g.version + 1 /\ WriteOf(g.nodes, h.nodes, written, rec, g.version)
      /\ \A e \in h.edges \ g.edges : e.rel = "validated_by" => e.target[1] = "suite"
  <2>1. DOMAIN g = GraphFields
    BY <1>3
  <2>2. WriteOf(g.nodes, h.nodes, written, rec, g.version)
    BY <2>1, RecordRunWrites
  <2>3. RecordRunMore(g, h)
    <3> HIDE DEF rec, g
    <3> QED BY <2>1, RecordRunWrites DEF h
  <2> QED BY <2>2, <2>3 DEF RecordRunMore
<1>5. Born(g.nodes) => Born(h.nodes)
  BY <1>3, RecordRunBorn
<1>6. Validating(es)
  BY RunEdgesValidate
<1>7. \A n \in written : n[1] = "suite" => Target(n[2]) = inst
  BY DEF RunIds, StableId
<1>8. DOMAIN RowsOf(h, ids) = ids /\ \A n \in ids : RowsOf(h, ids)[n] = h.nodes[n]
  BY RowsOfAre
<1>9. /\ tasks'[r].at = "select" /\ tasks'[r].rows = RowsOf(h, ids) /\ tasks'[r].version = h.version
      /\ tasks'[r].edges = EdgeRowsOf(h, es) /\ \A q \in Runs \ {r} : tasks'[q] = tasks[q]
  BY <1>1, <1>3 DEF Storing
<1>10. graphs'[inst] = h /\ \A i \in Instances \ {inst} : graphs'[i] = graphs[i]
  BY <1>1, <1>2, <1>3
<1>11. ids \subseteq written
  OBVIOUS
<1> HIDE DEF h, g, es, ids, written, inst, rec
<1>12. \A a \in NotesOf(h.nodes) : a \in NotesOf(g.nodes) \/ a = new
  <2> SUFFICES ASSUME NEW a \in NotesOf(h.nodes), a \notin NotesOf(g.nodes) PROVE a = new
    OBVIOUS
  <2>1. \E n \in written : n[1] = "suite" /\ a = [to |-> Target(n[2]), stamp |-> g.version, rec |-> rec]
    BY <1>4, WrittenNotes
  <2> QED BY <1>7, <2>1
<1>13. \A a \in NotesOf(tasks'[r].rows) : a = new
  <2> SUFFICES ASSUME NEW a \in NotesOf(RowsOf(h, ids)) PROVE a = new
    BY <1>9
  <2> DEFINE rows == RowsOf(h, ids)
  <2> HIDE DEF rows
  <2>1. PICK n \in DOMAIN rows : n[1] = "suite"
          /\ a = [to |-> Target(n[2]), stamp |-> rows[n].stamp, rec |-> rows[n].rec]
    BY NoteIs DEF rows
  <2>2. n \in ids /\ rows[n] = h.nodes[n]
    BY <1>8, <2>1 DEF rows
  <2>3. rows[n].stamp = g.version /\ rows[n].rec = rec
    BY <1>4, <1>11, <2>2 DEF WriteOf
  <2> QED BY <1>7, <1>11, <2>1, <2>2, <2>3
<1>14. \A a \in B : a \in A \/ a = new
  <2> SUFFICES ASSUME NEW a \in B PROVE a \in A \/ a = new
    OBVIOUS
  <2>1. \/ a \in NotesOf(graphs'["ekg"].nodes) \/ a \in NotesOf(nodeRows)
        \/ \E q \in Runs : tasks'[q].at # "idle" /\ a \in NotesOf(tasks'[q].rows)
    BY <1>1, NotedAre
  <2>2. ASSUME a \in NotesOf(graphs'["ekg"].nodes) PROVE a \in NotesOf(graphs["ekg"].nodes) \/ a = new
    BY <1>2, <1>10, <1>12, <2>2 DEF g
  <2>3. ASSUME NEW q \in Runs, tasks'[q].at # "idle", a \in NotesOf(tasks'[q].rows)
        PROVE  a = new \/ (tasks[q].at # "idle" /\ a \in NotesOf(tasks[q].rows))
    BY <1>9, <1>13, <2>3
  <2> QED BY <2>1, <2>2, <2>3, NotedAre
<1>15. new.to = inst /\ new.stamp = g.version /\ new.rec = rec
  OBVIOUS
<1> HIDE DEF new
<1>16. NotesTyped'
  <2>1. \A i \in Instances : graphs'[i].version \in Nat
    BY <1>3, <1>4, <1>10 DEF NewestInv, NotesTyped
  <2>2. Born(graphs'["ekg"].nodes)
    BY <1>2, <1>5, <1>10 DEF g, NewestInv, NotesTyped
  <2>3. Validating(graphs'["ekg"].edges)
    BY <1>2, <1>4, <1>10 DEF g, Validating, NewestInv, NotesTyped
  <2>4. \A q \in Runs : Active(q)' => /\ \A row \in tasks'[q].edges : Validating({row.edge})
                                      /\ tasks'[q].version \in Nat
    <3>1. \A row \in tasks'[r].edges : Validating({row.edge})
      BY <1>6, <1>9, EdgeRowsAre DEF Validating
    <3>2. tasks'[r].version \in Nat
      BY <1>3, <1>4, <1>9
    <3> QED BY <1>9, <3>1, <3>2 DEF Active, NewestInv, NotesTyped
  <2>5. \A a \in B : a.stamp \in Nat
    BY <1>3, <1>14, <1>15 DEF NewestInv, NotesTyped
  <2> QED BY <1>1, <2>1, <2>2, <2>3, <2>4, <2>5 DEF NewestInv, NotesTyped
<1>17. ASSUME sound' PROVE InOrder'
  <2>1. InOrder /\ loaded /\ \A a \in A : a.stamp < graphs[a.to].version
    BY <1>1, <1>17 DEF NewestInv, InOrder, Ahead
  <2>2. \A a \in A : a.rec < rec /\ (a.to = inst => a.stamp < g.version)
    <3>1. \A a \in A : a.rec \in 0 .. recordings
      BY NotedDated DEF NewestInv
    <3>2. \A a \in A : a.rec < rec
      BY <1>3, <3>1 DEF rec
    <3> QED BY <2>1, <3>2 DEF g
  <2>3. rec \in Nat /\ \A a \in A : a.rec \in Nat
    <3>1. \A a \in A : a.rec \in 0 .. recordings
      BY NotedDated DEF NewestInv
    <3> QED BY <1>3, <3>1 DEF rec
  <2>4. Ordered(B)
    <3> SUFFICES ASSUME NEW a \in B, NEW b \in B, a.to = b.to, a.rec < b.rec PROVE a.stamp < b.stamp
      BY DEF Ordered
    <3>1. CASE a \in A /\ b \in A
      BY <2>1, <3>1 DEF InOrder, Ordered
    <3>2. CASE a \in A /\ b = new
      BY <1>15, <2>2, <3>2
    <3>3. CASE a = new
      BY <1>14, <1>15, <2>2, <2>3, <3>3
    <3> QED BY <1>14, <3>1, <3>2, <3>3
  <2>5. Ahead'
    <3>1. ASSUME NEW a \in B PROVE a.stamp < graphs'[a.to].version
      <4>1. CASE a \in A
        <5>1. a.stamp < graphs[a.to].version /\ a.stamp \in Nat /\ a.to \in Instances
          BY <2>1, <4>1, NotedTo, InstancesAre DEF NewestInv, NotesTyped
        <5>2. CASE a.to = inst
          BY <1>3, <1>4, <1>10, <5>1, <5>2 DEF g
        <5>3. CASE a.to # inst
          BY <1>10, <5>1, <5>3
        <5> QED BY <5>2, <5>3
      <4>2. CASE a = new
        BY <1>3, <1>4, <1>10, <1>15, <4>2
      <4> QED BY <1>14, <4>1, <4>2
    <3> QED BY <1>1, <2>1, <3>1 DEF Ahead
  <2>6. ASSUME NEW a \in NotesOf(nodeRows) PROVE Covered(a, versionRows', tasks')
    <3>1. Covered(a, versionRows, tasks)
      BY <2>1 DEF InOrder
    <3> QED BY <1>1, <1>9, <3>1 DEF Covered
  <2>7. ASSUME NEW q \in Runs, Active(q)', NEW a \in NotesOf(tasks'[q].rows)
        PROVE  a.stamp < tasks'[q].version
    <3>1. CASE q = r
      BY <1>3, <1>4, <1>9, <1>13, <1>15, <2>7, <3>1
    <3>2. CASE q # r
      BY <1>9, <2>1, <2>7, <3>2 DEF Active, InOrder
    <3> QED BY <3>1, <3>2
  <2> QED BY <1>1, <2>4, <2>5, <2>6, <2>7 DEF InOrder
<1> QED BY <1>16, <1>17 DEF NewestInv

(* There are no suites at first.                                         *)
LEMMA NewestInit == Init => NewestInv
<1> SUFFICES ASSUME Init PROVE NewestInv
  OBVIOUS
<1>1. /\ \A i \in Instances : graphs[i] = NewGraph
      /\ \A r \in Runs : tasks[r].at = "idle"
      /\ DOMAIN nodeRows = {} /\ edgeRows = {} /\ versionRows = {} /\ loaded
  BY DEF Init, Idle
<1>2. /\ DOMAIN graphs["ekg"].nodes = {} /\ graphs["ekg"].edges = {}
      /\ \A i \in Instances : graphs[i].version = 1
  BY <1>1, NewGraphIs, InstancesAre
<1>3. \A a : a \notin Noted(graphs, nodeRows, tasks) /\ a \notin NotesOf(nodeRows)
  BY <1>1, <1>2, NoteIs, NotedAre
<1>4. \A r \in Runs : ~Active(r)
  BY <1>1 DEF Active
<1>5. \A N : DOMAIN N = {} => Born(N)
  <2>1. 0 \in Nat
    OBVIOUS
  <2> QED BY <2>1 DEF Born
<1>6. NotesTyped
  <2>1. versionRows \subseteq 0 .. 0
    BY <1>1
  <2>2. \E b \in Nat : versionRows \subseteq 0 .. b
    BY <2>1
  <2>3. Born(graphs["ekg"].nodes) /\ Born(nodeRows)
    BY <1>1, <1>2, <1>5
  <2>4. Validating(graphs["ekg"].edges) /\ \A row \in edgeRows : Validating({row.edge})
    BY <1>1, <1>2 DEF Validating
  <2>5. \A i \in Instances : graphs[i].version \in Nat
    BY <1>2
  <2> HIDE DEF Born, Validating
  <2> QED BY <1>3, <1>4, <2>2, <2>3, <2>4, <2>5, Zenon DEF NotesTyped
<1>7. InOrder
  BY <1>1, <1>3, <1>4 DEF InOrder, Ordered, Ahead
<1> QED BY <1>6, <1>7, FootprintInit DEF NewestInv

(* Every step keeps the suites in order.                                 *)
LEMMA NewestStep == NewestInv /\ ReadingSound /\ [Next]_vars => NewestInv'
<1> SUFFICES ASSUME NewestInv, ReadingSound, [Next]_vars PROVE NewestInv'
  OBVIOUS
<1>1. FootprintInv'
  BY FootprintStep DEF NewestInv
<1>2. ASSUME NEW r \in Runs, \/ \E tested \in BOOLEAN : Record(r, tested)
                             \/ Store(r) \/ RecordNamespace(r) \/ LinkRun(r)
      PROVE  NewestInv'
  BY <1>1, <1>2, RecordNotes, MovesNotes, CommitNotes, NamespaceNotes, OrganizationNotes DEF Store
<1>3. CASE (\E m \in Manifests : StartAcquisition(m)) \/ Acquire \/ UNCHANGED vars
  BY <1>1, <1>3, OrganizationNotes
<1>4. CASE Restart \/ Recover
  BY <1>1, <1>4, RestartNotes, RecoverNotes
<1> QED BY <1>2, <1>3, <1>4 DEF Next

(* Among suites with stamps and times of creation there is one none is   *)
(* newer than.                                                           *)
LEMMA NoneNewer ==
  ASSUME NEW N, NEW S, S # {}, S \subseteq DOMAIN N, Born(N),
         NEW v \in Nat, \A n \in S : N[n].stamp \in 0 .. v
  PROVE  \E s \in S : \A t \in S : ~Newer(N[t], N[s])
<1> DEFINE K == {N[n].stamp : n \in S}
<1>1. PICK k \in K : \A j \in K : j <= k
  <2>1. K \subseteq 0 .. v /\ K # {}
    OBVIOUS
  <2> HIDE DEF K
  <2> QED BY <2>1, GreatestOf
<1> DEFINE T == {n \in S : N[n].stamp = k}
           J == {N[n].born : n \in T}
<1>2. PICK b \in Nat : \A n \in DOMAIN N : N[n].born \in 0 .. b
  BY DEF Born
<1>3. PICK m \in J : \A j \in J : j <= m
  <2>1. J \subseteq 0 .. b /\ J # {}
    BY <1>1, <1>2
  <2> HIDE DEF J
  <2> QED BY <2>1, GreatestOf
<1>4. PICK s \in S : N[s].stamp = k /\ N[s].born = m
  BY <1>3
<1>5. ASSUME NEW t \in S PROVE ~Newer(N[t], N[s])
  <2>1. N[t].stamp <= k /\ N[t].stamp \in Nat /\ k \in Nat
    BY <1>1
  <2>2. N[t].stamp = k => N[t].born <= m /\ N[t].born \in Nat /\ m \in Nat
    BY <1>2, <1>3
  <2> QED BY <1>4, <2>1, <2>2 DEF Newer
<1> QED BY <1>5

(* The suite selected for a replan is the one recorded last through its  *)
(* graph, whatever was recorded again, lost or recovered in between.     *)
THEOREM Newest == Spec => []SelectionNewest
<1>1. NewestInv => SelectionNewest
  <2> DEFINE g == graphs["ekg"]
             N == graphs["ekg"].nodes
  <2> SUFFICES ASSUME NewestInv, sound, NEW f \in Files, SelectSuite(g, f) # None,
                      NEW t \in SuitesFor(g, f), Target(t[2]) = Target(SelectSuite(g, f)[2])
               PROVE  N[t].rec <= N[SelectSuite(g, f)].rec
    BY DEF SelectionNewest
  <2> DEFINE S == SuitesFor(g, f)
             s == SelectSuite(g, f)
  <2>1. S \subseteq DOMAIN N /\ \A n \in S : n[1] = "suite"
    BY DEF SuitesFor, NewestInv, NotesTyped, Validating
  <2>2. S # {} /\ InOrder
    BY DEF NewestInv
  <2>3. \A n \in S : [to |-> Target(n[2]), stamp |-> N[n].stamp, rec |-> N[n].rec]
                       \in Noted(graphs, nodeRows, tasks)
    BY <2>1, NoteIs, NotedAre
  <2>4. loaded
    BY <2>1, <2>2 DEF InOrder, Ahead
  <2>5. \A n \in S : N[n].stamp \in Nat /\ N[n].rec \in Nat
    <3> SUFFICES ASSUME NEW n \in S PROVE N[n].stamp \in Nat /\ N[n].rec \in Nat
      OBVIOUS
    <3> DEFINE a == [to |-> Target(n[2]), stamp |-> N[n].stamp, rec |-> N[n].rec]
    <3>1. a \in Noted(graphs, nodeRows, tasks)
      BY <2>3
    <3>2. a.stamp \in Nat
      BY <3>1 DEF NewestInv, NotesTyped
    <3>3. a.rec \in Nat
      BY <3>1, NotedDated DEF NewestInv
    <3> QED BY <3>2, <3>3
  <2>6. PICK v \in Nat : \A n \in S : N[n].stamp \in 0 .. v
    <3>1. graphs["ekg"].version \in Nat /\ graphs["org"].version \in Nat
      BY InstancesAre DEF NewestInv, NotesTyped
    <3> DEFINE v == graphs["ekg"].version + graphs["org"].version
    <3>2. ASSUME NEW n \in S PROVE N[n].stamp \in 0 .. v
      <4>1. N[n].stamp < graphs[Target(n[2])].version /\ Target(n[2]) \in {"ekg", "org"}
        BY <2>2, <2>3, <2>4, InstancesAre DEF InOrder, Ahead
      <4> QED BY <2>5, <3>1, <4>1
    <3>3. v \in Nat
      BY <3>1
    <3> QED BY <3>2, <3>3
  <2>7. \E n \in S : \A q \in S : ~Newer(N[q], N[n])
    <3>1. Born(N)
      BY DEF NewestInv, NotesTyped
    <3> HIDE DEF S, N
    <3> QED BY <2>1, <2>2, <2>6, <3>1, NoneNewer
  <2>8. s \in S /\ \A q \in S : ~Newer(N[q], N[s])
    <3>1. s = CHOOSE n \in S : \A q \in S : ~Newer(N[q], N[n])
      BY <2>2 DEF SelectSuite
    <3> HIDE DEF s, S, N
    <3> QED BY <2>7, <3>1
  <2>9. ~(N[s].rec < N[t].rec)
    <3> SUFFICES ASSUME N[s].rec < N[t].rec PROVE FALSE
      OBVIOUS
    <3> DEFINE a == [to |-> Target(s[2]), stamp |-> N[s].stamp, rec |-> N[s].rec]
               b == [to |-> Target(t[2]), stamp |-> N[t].stamp, rec |-> N[t].rec]
    <3>1. a \in Noted(graphs, nodeRows, tasks) /\ b \in Noted(graphs, nodeRows, tasks)
      BY <2>3, <2>8
    <3>2. a.stamp < b.stamp
      BY <2>2, <3>1 DEF InOrder, Ordered
    <3>3. Newer(N[t], N[s])
      BY <2>5, <2>8, <3>2 DEF Newer
    <3> QED BY <2>8, <3>3
  <2> QED BY <2>5, <2>8, <2>9
<1>2. Spec => [](NewestInv /\ ReadingSound)
  <2>1. Init => NewestInv /\ ReadingSound
    BY NewestInit, WholeInit DEF WholeInv
  <2>2. NewestInv /\ ReadingSound /\ [Next]_vars => (NewestInv /\ ReadingSound)'
    BY NewestStep, WholeStep DEF NewestInv, WholeInv
  <2> QED BY <2>1, <2>2, PTL DEF Spec
<1> QED BY <1>1, <1>2, PTL

----------------------------------------------------------------------------
(* Repositories are apart: whom the nodes and edges belong to.           *)

(* A node a graph of repository i may name: its own, or one of none.     *)
Home(x, i) == x[3] \in {i, Default} /\ (x[1] = "repository" => x[2] = i)
OwnEdge(e, i) == Home(e.source, i) /\ Home(e.target, i)

(* The graph of a repository holds its own nodes, and leads to nothing   *)
(* but them and what is in no repository.                                *)
Own(g, i) ==
  /\ \A x \in DOMAIN g.nodes : x[3] = i /\ Home(x, i)
  /\ \A e \in g.edges : OwnEdge(e, i)

(* Nodes belong to the repository they are named after, or to none.      *)
Named(N) == \A x \in DOMAIN N : N[x].repo \in {x[3], Default}

(* Rows of nodes belong to it always, rows of edges lead no farther than *)
(* the graph of the repository they belong to may.                       *)
RowsNamed(N) == \A x \in DOMAIN N : N[x].repo = x[3] /\ (x[1] = "repository" => x[2] = x[3])
EdgesNamed(R) == \A row \in R : row.repo \in Repos => OwnEdge(row.edge, row.repo)

(* Repositories are apart in the graphs, in the tables and on the way.   *)
Apart ==
  /\ \A i \in opened : Own(graphs[i], i)
  /\ \A i \in {"ekg", "org"} \union opened : Named(graphs[i].nodes)
  /\ RowsNamed(nodeRows) /\ EdgesNamed(edgeRows)
  /\ \A r \in Runs : Active(r) => RowsNamed(tasks[r].rows) /\ EdgesNamed(tasks[r].edges)
  /\ Born(graphs["org"].nodes)

(* M is N with ids written for a repository.                             *)
WrittenFor(N, M, ids, repo) ==
  /\ DOMAIN M = ids \union DOMAIN N
  /\ \A n \in ids : M[n].repo = repo
  /\ \A n \in DOMAIN N \ ids : M[n] = N[n]

(* New nodes are written for the repository named.                       *)
LEMMA AddNodesFor ==
  ASSUME NEW g, DOMAIN g = GraphFields, NEW ids, NEW repo, NEW rec
  PROVE  WrittenFor(g.nodes, AddNodes(g, ids, repo, rec).nodes, ids, repo)
<1> DEFINE N == g.nodes
           F == [i \in ids |-> [stamp |-> g.version, repo |-> repo, rec |-> rec,
                                born |-> IF i \in DOMAIN N THEN N[i].born ELSE Now(N)]]
           M == Merged(N, F)
<1>1. AddNodes(g, ids, repo, rec).nodes = M
  BY DEF AddNodes, GraphFields
<1>2. DOMAIN F = ids /\ \A n \in ids : F[n].repo = repo
  OBVIOUS
<1> HIDE DEF F, N
<1>3. /\ DOMAIN M = ids \union DOMAIN N
      /\ \A n \in ids : M[n] = F[n]
      /\ \A n \in DOMAIN N \ ids : M[n] = N[n]
  BY <1>2 DEF Merged
<1> HIDE DEF M
<1> QED BY <1>1, <1>2, <1>3 DEF WrittenFor, N

(* Nodes written for whom they are named after, or for none, are named.  *)
LEMMA WrittenNamed ==
  ASSUME NEW N, NEW M, NEW ids, NEW repo, WrittenFor(N, M, ids, repo), Named(N),
         repo = Default \/ \A n \in ids : n[3] = repo
  PROVE  Named(M)
BY DEF WrittenFor, Named

(* The first node of a run: it is one of the kind asked for.             *)
LEMMA FindRunNodeIs ==
  ASSUME NEW g, Born(g.nodes), NEW x \in DOMAIN g.nodes
  PROVE  LET found == FindRunNode(g, x[2], x[1])
         IN  found \in DOMAIN g.nodes /\ found[1] = x[1]
<1> DEFINE found == {i \in DOMAIN g.nodes : i[1] = x[1] /\ i[2] = x[2]}
           times == {g.nodes[i].born : i \in found}
           first(i) == \A j \in found : g.nodes[i].born <= g.nodes[j].born
<1>1. x \in found /\ \A i \in found : i \in DOMAIN g.nodes /\ i[1] = x[1]
  OBVIOUS
<1>2. times \subseteq Nat
  BY DEF Born
<1>3. FindRunNode(g, x[2], x[1]) = CHOOSE i \in found : first(i)
  BY <1>1 DEF FindRunNode
<1> HIDE DEF found
<1>4. PICK m \in times : \A j \in times : m <= j
  <2>1. times # {}
    BY <1>1
  <2> HIDE DEF times
  <2> QED BY <1>2, <2>1, LeastOf
<1>5. \E i \in found : first(i)
  BY <1>4
<1> HIDE DEF first
<1>6. (CHOOSE i \in found : first(i)) \in found
  BY <1>5
<1> QED BY <1>1, <1>3, <1>6

(* What the recording of a run stores of its edges stays with whom the   *)
(* first patch node of the run belongs to.                               *)
LEMMA RunEdgesNamed ==
  ASSUME NEW h, Named(h.nodes), Born(h.nodes), NEW run, NEW path, NEW files, NEW tested,
         \A x \in RunIds(run, files, tested) : x \in DOMAIN h.nodes /\ h.nodes[x].repo = Default
  PROVE  EdgesNamed(EdgeRowsOf(h, RunEdges(h, run, path, files, tested)))
<1> DEFINE es == RunEdges(h, run, path, files, tested)
           patch == FindRunNode(h, run, "patch")
           own == {StableId("run", run, Default), StableId("patch", run, Default)}
<1>1. own \subseteq RunIds(run, files, tested)
  BY DEF RunIds
<1>2. patch \in DOMAIN h.nodes /\ patch[1] = "patch"
  <2> DEFINE x == StableId("patch", run, Default)
  <2>1. x \in DOMAIN h.nodes /\ x[1] = "patch" /\ x[2] = run
    BY <1>1 DEF StableId
  <2> HIDE DEF x
  <2>2. FindRunNode(h, x[2], x[1]) \in DOMAIN h.nodes /\ FindRunNode(h, x[2], x[1])[1] = x[1]
    BY <2>1, FindRunNodeIs
  <2> QED BY <2>1, <2>2
<1>3. \A e \in es : \/ e.source \in own
                    \/ e.source = patch /\ e.target[3] = Default /\ e.target[1] # "repository"
  BY DEF RunEdges, Edge, StableId
<1> SUFFICES ASSUME NEW row \in EdgeRowsOf(h, es), row.repo \in Repos
             PROVE  OwnEdge(row.edge, row.repo)
  BY DEF EdgesNamed
<1>4. row.edge \in es /\ row.repo = h.nodes[row.edge.source].repo
  BY DEF EdgeRowsOf
<1> HIDE DEF es, patch
<1>5. row.edge.source \notin own
  BY <1>1, <1>4, InstancesAre
<1> HIDE DEF own
<1>6. /\ row.edge.source = patch /\ row.edge.target[3] = Default
      /\ row.edge.target[1] # "repository"
  BY <1>3, <1>4, <1>5
<1>7. row.repo = patch[3]
  BY <1>2, <1>4, <1>6, InstancesAre DEF Named
<1> QED BY <1>2, <1>6, <1>7 DEF OwnEdge, Home

(* The footprint of a run for a repository stays in it.                  *)
LEMMA NamespaceOwn ==
  ASSUME NEW run, NEW repo, NEW files
  PROVE  /\ \A x \in NamespaceIds(run, repo, files) : x[3] = repo /\ Home(x, repo)
         /\ \A e \in NamespaceEdges(run, repo, files) :
              OwnEdge(e, repo) /\ e.source \in NamespaceIds(run, repo, files)
<1>1. \A x \in NamespaceIds(run, repo, files) : x[3] = repo /\ Home(x, repo)
  BY DEF NamespaceIds, StableId, RepoNodeId, Home
<1>2. \A e \in NamespaceEdges(run, repo, files) :
        e.source \in NamespaceIds(run, repo, files) /\ e.target \in NamespaceIds(run, repo, files)
  BY DEF NamespaceIds, NamespaceEdges, Edge
<1> QED BY <1>1, <1>2 DEF OwnEdge

LEMMA IngestRunFor ==
  ASSUME NEW g, DOMAIN g = GraphFields, NEW run, NEW repo, NEW files, NEW rec
  PROVE  LET h == IngestRun(g, run, repo, files, rec)
         IN  /\ WrittenFor(g.nodes, h.nodes, NamespaceIds(run, repo, files), repo)
             /\ h.edges \subseteq g.edges \union NamespaceEdges(run, repo, files)
<1> DEFINE ids == NamespaceIds(run, repo, files)
           h == AddNodes(g, ids, repo, rec)
           es == NamespaceEdges(run, repo, files)
           k == AddEdges(h, es)
<1>1. /\ DOMAIN h = GraphFields /\ h.edges = g.edges
      /\ WrittenFor(g.nodes, h.nodes, ids, repo)
  BY AddNodesWrites, AddNodesFor
<1>2. IngestRun(g, run, repo, files, rec) = IncrementVersion(k)
  BY DEF IngestRun
<1> HIDE DEF h, es, ids
<1>3. DOMAIN k = GraphFields /\ k.nodes = h.nodes /\ k.edges \subseteq h.edges \union es
  BY <1>1, AddEdgesKeeps
<1> HIDE DEF k
<1>4. IncrementVersion(k).nodes = k.nodes /\ IncrementVersion(k).edges = k.edges
  BY <1>3, IncrementKeeps
<1> QED BY <1>1, <1>2, <1>3, <1>4 DEF ids, es

(* A graph of a repository is its own after a recording, when it is new  *)
(* and when it is loaded.                                                *)
LEMMA IngestRunOwn ==
  ASSUME NEW g, DOMAIN g = GraphFields, NEW run, NEW repo, NEW files, NEW rec,
         Own(g, repo), Named(g.nodes)
  PROVE  LET h == IngestRun(g, run, repo, files, rec)
             ids == NamespaceIds(run, repo, files)
         IN  /\ Own(h, repo) /\ Named(h.nodes)
             /\ RowsNamed(RowsOf(h, ids))
             /\ EdgesNamed(EdgeRowsOf(h, NamespaceEdges(run, repo, files)))
<1> DEFINE h == IngestRun(g, run, repo, files, rec)
           ids == NamespaceIds(run, repo, files)
           es == NamespaceEdges(run, repo, files)
<1>1. WrittenFor(g.nodes, h.nodes, ids, repo) /\ h.edges \subseteq g.edges \union es
  BY IngestRunFor
<1>2. /\ \A x \in ids : x[3] = repo /\ Home(x, repo)
      /\ \A e \in es : OwnEdge(e, repo) /\ e.source \in ids
  BY NamespaceOwn
<1> HIDE DEF h, ids, es
<1>3. Own(h, repo)
  BY <1>1, <1>2 DEF Own, WrittenFor
<1>4. Named(h.nodes)
  BY <1>1, <1>2, WrittenNamed
<1>5. RowsNamed(RowsOf(h, ids))
  <2>1. DOMAIN RowsOf(h, ids) = ids /\ \A n \in ids : RowsOf(h, ids)[n] = h.nodes[n]
    BY RowsOfAre
  <2> QED BY <1>1, <1>2, <2>1 DEF RowsNamed, WrittenFor, Home
<1>6. EdgesNamed(EdgeRowsOf(h, es))
  <2> SUFFICES ASSUME NEW row \in EdgeRowsOf(h, es) PROVE OwnEdge(row.edge, row.repo)
    BY DEF EdgesNamed
  <2>1. row.edge \in es /\ row.repo = h.nodes[row.edge.source].repo
    BY DEF EdgeRowsOf
  <2>2. row.repo = repo
    BY <1>1, <1>2, <2>1 DEF WrittenFor
  <2> QED BY <1>2, <2>1, <2>2
<1> QED BY <1>3, <1>4, <1>5, <1>6 DEF h, ids, es

LEMMA SeedOwn ==
  ASSUME NEW repo
  PROVE  LET h == Seed(NewGraph, repo, 0) IN Own(h, repo) /\ Named(h.nodes)
<1> DEFINE ids == {RepoNodeId(repo), StableId("file", "seed", repo)}
           h == AddNodes(NewGraph, ids, repo, 0)
           es == {Edge(RepoNodeId(repo), StableId("file", "seed", repo), "contains")}
<1>1. /\ DOMAIN h = GraphFields /\ h.edges = {}
      /\ WrittenFor(NewGraph.nodes, h.nodes, ids, repo)
  BY NewGraphIs, AddNodesWrites, AddNodesFor
<1>2. \A x \in ids : x[3] = repo /\ Home(x, repo)
  BY DEF RepoNodeId, StableId, Home
<1>3. \A e \in es : e.source \in ids /\ e.target \in ids
  BY DEF Edge
<1>4. Seed(NewGraph, repo, 0) = AddEdges(h, es)
  BY DEF Seed
<1> HIDE DEF h, es, ids
<1>5. AddEdges(h, es).nodes = h.nodes /\ AddEdges(h, es).edges \subseteq es
  BY <1>1, AddEdgesKeeps
<1>6. DOMAIN h.nodes = ids /\ \A x \in ids : h.nodes[x].repo = repo
  BY <1>1, NewGraphIs DEF WrittenFor
<1> QED BY <1>2, <1>3, <1>4, <1>5, <1>6 DEF Own, OwnEdge, Named

LEMMA LoadOwn ==
  ASSUME NEW N, NEW es, NEW versions, NEW ns, RowsNamed(N), EdgesNamed(es)
  PROVE  LET h == Load(N, es, versions, ns)
         IN  /\ Named(h.nodes)
             /\ ns \in Repos => Own(h, ns)
<1> DEFINE h == Load(N, es, versions, ns)
<1>1. Named(h.nodes)
  BY LoadReads DEF RowsNamed, Named
<1>2. ASSUME ns \in Repos PROVE Own(h, ns)
  <2>1. \A x \in DOMAIN h.nodes : x \in DOMAIN N /\ N[x].repo = ns
    BY <1>2, InstancesAre DEF Load
  <2>2. \A e \in h.edges : \E row \in es : row.edge = e /\ row.repo = ns
    BY <1>2, InstancesAre DEF Load
  <2> HIDE DEF h
  <2>3. \A x \in DOMAIN h.nodes : x[3] = ns /\ Home(x, ns)
    BY <2>1 DEF RowsNamed, Home
  <2>4. \A e \in h.edges : OwnEdge(e, ns)
    BY <1>2, <2>2 DEF EdgesNamed
  <2> QED BY <2>3, <2>4 DEF Own
<1> QED BY <1>1, <1>2

(* A merge with named rows keeps rows named.                             *)
LEMMA UpsertedNamed ==
  ASSUME NEW old, NEW new, AllRows(new), RowsNamed(old), RowsNamed(new)
  PROVE  RowsNamed(Upserted(old, new))
<1> DEFINE Time(i) == IF i \in DOMAIN old THEN old[i].born ELSE Now(old)
           F == [i \in DOMAIN new |-> [new[i] EXCEPT !.born = Time(i)]]
           M == Merged(old, F)
<1>1. Upserted(old, new) = M
  BY DEF Upserted
<1> HIDE DEF Time
<1>2. DOMAIN F = DOMAIN new /\ \A n \in DOMAIN new : F[n].repo = new[n].repo
  BY DEF NodeFields, AllRows
<1> HIDE DEF F
<1>3. DOMAIN M = DOMAIN new \union DOMAIN old
      /\ \A n \in DOMAIN M : M[n] = IF n \in DOMAIN new THEN F[n] ELSE old[n]
  BY <1>2 DEF Merged
<1> HIDE DEF M
<1> QED BY <1>1, <1>2, <1>3 DEF RowsNamed

(* A registration names a node after its repository and for none.        *)
LEMMA RegisteredNamed ==
  ASSUME NEW g, DOMAIN g = GraphFields, NEW repo, Named(g.nodes), Born(g.nodes)
  PROVE  LET h == Registered(g, repo) IN Named(h.nodes) /\ Born(h.nodes)
<1>1. CASE RepoNodeId(repo) \in DOMAIN g.nodes
  BY <1>1 DEF Registered
<1>2. CASE RepoNodeId(repo) \notin DOMAIN g.nodes
  <2> DEFINE ids == {RepoNodeId(repo)}
             h == AddNodes(g, ids, Default, 0)
  <2>1. /\ DOMAIN h = GraphFields /\ WrittenFor(g.nodes, h.nodes, ids, Default) /\ Born(h.nodes)
    BY AddNodesWrites, AddNodesFor, AddNodesBorn
  <2>2. Registered(g, repo) = IncrementVersion(h)
    BY <1>2 DEF Registered
  <2> HIDE DEF h, ids
  <2>3. Named(h.nodes)
    BY <2>1, WrittenNamed
  <2> QED BY <2>1, <2>2, <2>3, IncrementKeeps
<1> QED BY <1>1, <1>2

(* The recording of a run writes its nodes for no repository.            *)
LEMMA RecordRunFor ==
  ASSUME NEW g, DOMAIN g = GraphFields, NEW run, NEW path, NEW files, NEW tested, NEW rec
  PROVE  LET h == RecordRun(g, run, path, files, tested, rec)
             written == RunIds(run, files, tested) \union {StableId("checkout", path, Default)}
         IN  WrittenFor(g.nodes, h.nodes, written, Default)
<1> DEFINE written == RunIds(run, files, tested) \union {StableId("checkout", path, Default)}
           h == AddNodes(g, written, Default, rec)
           es == RunEdges(h, run, path, files, tested)
           k == AddEdges(h, es)
<1>1. DOMAIN h = GraphFields /\ WrittenFor(g.nodes, h.nodes, written, Default)
  BY AddNodesWrites, AddNodesFor
<1>2. RecordRun(g, run, path, files, tested, rec) = IncrementVersion(k)
  BY DEF RecordRun
<1> HIDE DEF h, es, written
<1>3. DOMAIN k = GraphFields /\ k.nodes = h.nodes
  BY <1>1, AddEdgesKeeps
<1> HIDE DEF k
<1>4. IncrementVersion(k).nodes = k.nodes
  BY <1>3, IncrementKeeps
<1> QED BY <1>1, <1>2, <1>3, <1>4 DEF written

(* What a recording read again is named as its own rows are.             *)
ReadNamed == \A r \in Runs : Writes(tasks[r]) => RowsNamed(reading[r].newer)

(* The invariant behind TraversalIsolated.                               *)
ApartInv == NewestInv /\ ReadingSound /\ Apart /\ ReadNamed

(* A recording on its way keeps its rows and edges, or ends.             *)
Keeps(t, u) == u.at # "idle" => t.at # "idle" /\ u.rows = t.rows /\ u.edges = t.edges

(* Steps that write no node and store no edge but one of a recording.    *)
LEMMA QuietApart ==
  ASSUME Apart, opened' = opened, nodeRows' = nodeRows,
         \A i \in opened : graphs'[i] = graphs[i],
         \A i \in {"ekg", "org"} : graphs'[i].nodes = graphs[i].nodes,
         \A row \in edgeRows' :
           row \in edgeRows \/ \E r \in Runs : Active(r) /\ row \in tasks[r].edges,
         \A r \in Runs : Keeps(tasks[r], tasks'[r])
  PROVE  Apart'
<1>1. \A i \in opened' : Own(graphs'[i], i)
  BY DEF Apart
<1>2. \A i \in {"ekg", "org"} \union opened' : Named(graphs'[i].nodes)
  BY DEF Apart
<1>3. EdgesNamed(edgeRows')
  BY DEF Apart, EdgesNamed
<1>4. \A r \in Runs : Active(r)' => RowsNamed(tasks'[r].rows) /\ EdgesNamed(tasks'[r].edges)
  BY DEF Apart, Keeps, Active
<1>5. Born(graphs'["org"].nodes) /\ RowsNamed(nodeRows')
  BY DEF Apart
<1> QED BY <1>1, <1>2, <1>3, <1>4, <1>5 DEF Apart

LEMMA MoveApart ==
  ASSUME ApartInv, NEW r \in Runs,
         ReadNode(r) \/ SelectRows(r) \/ StoreEdges(r) \/ StoreVersion(r) \/ LoseWrite(r)
  PROVE  Apart'
<1>1. UNCHANGED <<opened, nodeRows, graphs>>
  BY DEF ReadNode, SelectRows, StoreEdges, StoreVersion, LoseWrite, registry, tables
<1>2. Active(r) /\ \A q \in Runs : Keeps(tasks[q], tasks'[q])
  BY MoveKeeps DEF ApartInv, NewestInv, Keeps, Active
<1>3. edgeRows' = edgeRows \/ edgeRows' = edgeRows \union tasks[r].edges
  BY DEF ReadNode, SelectRows, StoreEdges, StoreVersion, LoseWrite, tables
<1>4. \A row \in edgeRows' :
        row \in edgeRows \/ \E q \in Runs : Active(q) /\ row \in tasks[q].edges
  BY <1>2, <1>3
<1> QED BY <1>1, <1>2, <1>4, QuietApart DEF ApartInv

LEMMA LinkApart ==
  ASSUME ApartInv,
         \/ \E r \in Runs : LinkRun(r)
         \/ \E m \in Manifests : StartAcquisition(m)
         \/ AcquisitionFails \/ LinkAll \/ SyncNamespaces \/ LoseSync \/ SyncCross
  PROVE  Apart'
<1>1. UNCHANGED <<opened, nodeRows, edgeRows>> /\ opened \subseteq Repos /\ DOMAIN tasks = Runs
  BY DEF LinkRun, StartAcquisition, AcquisitionFails, LinkAll, SyncNamespaces, LoseSync,
         SyncCross, tables, registry, ApartInv, NewestInv, FootprintInv, GraphsTyped
<1>2. \A i \in opened : graphs'[i] = graphs[i]
  BY <1>1, LinkedGraphs, InstancesAre DEF ApartInv, NewestInv
<1>3. \A i \in {"ekg", "org"} : graphs'[i].nodes = graphs[i].nodes
  BY LinkedGraphs, InstancesAre DEF ApartInv, NewestInv
<1>4. \A q \in Runs : Keeps(tasks[q], tasks'[q])
  <2>1. CASE tasks' = tasks
    BY <2>1 DEF Keeps
  <2>2. CASE \E r \in Runs : LinkRun(r)
    <3>1. PICK r \in Runs : tasks' = [tasks EXCEPT ![r] = Idle]
      BY <2>2 DEF LinkRun
    <3>2. tasks'[r].at = "idle" /\ \A q \in Runs \ {r} : tasks'[q] = tasks[q]
      BY <1>1, <3>1 DEF Idle
    <3> QED BY <3>2 DEF Keeps
  <2> QED BY <2>1, <2>2 DEF StartAcquisition, AcquisitionFails, LinkAll, SyncNamespaces, LoseSync,
         SyncCross
<1> QED BY <1>1, <1>2, <1>3, <1>4, QuietApart DEF ApartInv

(* Record: the run's own nodes are in no repository.                     *)
LEMMA RecordApart ==
  ASSUME ApartInv, NEW r \in Runs, NEW tested \in BOOLEAN, Record(r, tested)
  PROVE  Apart'
<1> DEFINE inst == Target(r)
           rec == recordings + 1
           ids == RunIds(r, Patched[r], tested)
           written == ids \union {StableId("checkout", "checkout", Default)}
           g == graphs[inst]
           h == RecordRun(g, r, "checkout", Patched[r], tested, rec)
           es == RunEdges(h, r, "checkout", Patched[r], tested)
<1>1. /\ graphs' = [graphs EXCEPT ![inst] = h]
      /\ tasks' = [tasks EXCEPT ![r] = Storing(inst, h, ids, es, rec, Auxiliary[r])]
      /\ UNCHANGED <<nodeRows, edgeRows, opened>>
  BY DEF Record, tables, registry
<1>2. inst \in {"ekg", "org"} /\ inst \in Instances /\ inst \notin Repos /\ "org" \in Instances
  BY InstancesAre
<1>3. /\ DOMAIN g = GraphFields /\ DOMAIN graphs = Instances /\ DOMAIN tasks = Runs
      /\ opened \subseteq Repos /\ opened \subseteq Instances
  BY <1>2, InstancesAre DEF ApartInv, NewestInv, FootprintInv, GraphsTyped
<1>4. Named(g.nodes) /\ Born(g.nodes)
  BY <1>2 DEF ApartInv, Apart, NewestInv, NotesTyped
<1>5. WrittenFor(g.nodes, h.nodes, written, Default)
  BY <1>3, RecordRunFor
<1>6. Born(h.nodes)
  BY <1>3, <1>4, RecordRunBorn
<1>7. \A n \in ids : n[3] = Default /\ n[1] # "repository"
  BY DEF RunIds, StableId
<1>8. DOMAIN RowsOf(h, ids) = ids /\ \A n \in ids : RowsOf(h, ids)[n] = h.nodes[n]
  BY RowsOfAre
<1>9. /\ tasks'[r].rows = RowsOf(h, ids) /\ tasks'[r].edges = EdgeRowsOf(h, es)
      /\ \A q \in Runs \ {r} : tasks'[q] = tasks[q]
  BY <1>1, <1>3 DEF Storing
<1>10. ids \subseteq written
  OBVIOUS
<1> HIDE DEF h, g, written, rec
<1>11. Named(h.nodes)
  BY <1>4, <1>5, WrittenNamed
<1>12. \A x \in ids : x \in DOMAIN h.nodes /\ h.nodes[x].repo = Default
  BY <1>5, <1>10 DEF WrittenFor
<1>13. EdgesNamed(EdgeRowsOf(h, es))
  BY <1>6, <1>11, <1>12, RunEdgesNamed
<1> HIDE DEF ids, es, inst
<1>14. RowsNamed(RowsOf(h, ids))
  BY <1>7, <1>8, <1>12 DEF RowsNamed
<1>15. /\ graphs'[inst] = h
       /\ \A i \in Instances \ {inst} : graphs'[i] = graphs[i]
  BY <1>1, <1>2, <1>3
<1>16. \A i \in opened : graphs'[i] = graphs[i]
  BY <1>2, <1>3, <1>15
<1>17. Born(graphs'["org"].nodes)
  BY <1>2, <1>6, <1>15 DEF ApartInv, Apart
<1>18. \A i \in {"ekg", "org"} \union opened : Named(graphs'[i].nodes)
  BY <1>2, <1>3, <1>11, <1>15, InstancesAre DEF ApartInv, Apart
<1>19. \A q \in Runs : Active(q)' => RowsNamed(tasks'[q].rows) /\ EdgesNamed(tasks'[q].edges)
  BY <1>9, <1>13, <1>14 DEF Active, ApartInv, Apart
<1> QED BY <1>1, <1>16, <1>17, <1>18, <1>19 DEF ApartInv, Apart

(* RecordNamespace: the graph of a repository gets nodes of its own.     *)
LEMMA NamespaceApart ==
  ASSUME ApartInv, NEW r \in Runs, RecordNamespace(r)
  PROVE  Apart'
<1> DEFINE repo == Head(tasks[r].rest)
           rest == Tail(tasks[r].rest)
           rec == tasks[r].rec
           ids == NamespaceIds(r, repo, Patched[r])
           g == graphs[repo]
           es == NamespaceEdges(r, repo, Patched[r])
           h == IngestRun(g, r, repo, Patched[r], rec)
<1>1. /\ Active(r) /\ UNCHANGED <<nodeRows, edgeRows, opened>>
      /\ IF repo \in opened
         THEN /\ graphs' = [graphs EXCEPT ![repo] = h]
              /\ tasks' = [tasks EXCEPT ![r] = Storing(repo, h, ids, es, rec, rest)]
         ELSE graphs' = graphs /\ tasks' = [tasks EXCEPT ![r].rest = rest]
  BY DEF RecordNamespace, tables, Active, registry
<1>2. /\ DOMAIN tasks = Runs /\ DOMAIN graphs = Instances /\ DOMAIN tasks[r] = TaskFields
      /\ opened \subseteq Repos /\ opened \subseteq Instances
  BY <1>1, InstancesAre
     DEF ApartInv, NewestInv, FootprintInv, TasksSound, TaskSound, GraphsTyped
<1>3. CASE repo \notin opened
  <2>1. tasks' = [tasks EXCEPT ![r].rest = rest] /\ graphs' = graphs
    BY <1>1, <1>3
  <2> HIDE DEF rest
  <2>2. /\ tasks'[r].rows = tasks[r].rows /\ tasks'[r].edges = tasks[r].edges
        /\ \A q \in Runs \ {r} : tasks'[q] = tasks[q]
    BY <1>2, <2>1 DEF TaskFields
  <2>3. \A q \in Runs : Keeps(tasks[q], tasks'[q])
    BY <1>1, <2>2 DEF Keeps, Active
  <2> QED BY <1>1, <2>1, <2>3, QuietApart DEF ApartInv
<1>4. CASE repo \in opened
  <2>1. /\ graphs' = [graphs EXCEPT ![repo] = h]
        /\ tasks' = [tasks EXCEPT ![r] = Storing(repo, h, ids, es, rec, rest)]
    BY <1>1, <1>4
  <2>2. repo \in Instances /\ repo \notin {"ekg", "org"}
    BY <1>2, <1>4, InstancesAre
  <2>3. DOMAIN g = GraphFields /\ Own(g, repo) /\ Named(g.nodes)
    BY <1>4, <2>2 DEF ApartInv, Apart, NewestInv, FootprintInv, GraphsTyped
  <2>4. /\ tasks'[r].rows = RowsOf(h, ids) /\ tasks'[r].edges = EdgeRowsOf(h, es)
        /\ \A q \in Runs \ {r} : tasks'[q] = tasks[q]
    BY <1>2, <2>1 DEF Storing
  <2>5. graphs'[repo] = h /\ \A i \in Instances \ {repo} : graphs'[i] = graphs[i]
    BY <1>2, <2>1, <2>2
  <2> HIDE DEF g, repo, rec
  <2>6. /\ Own(h, repo) /\ Named(h.nodes)
        /\ RowsNamed(RowsOf(h, ids)) /\ EdgesNamed(EdgeRowsOf(h, es))
    BY <2>3, IngestRunOwn
  <2> HIDE DEF h, ids, es
  <2>7. \A i \in opened : Own(graphs'[i], i)
    BY <1>2, <2>5, <2>6 DEF ApartInv, Apart
  <2>8. \A i \in {"ekg", "org"} \union opened : Named(graphs'[i].nodes)
    BY <1>2, <2>2, <2>5, <2>6, InstancesAre DEF ApartInv, Apart
  <2>9. Born(graphs'["org"].nodes)
    BY <2>2, <2>5, InstancesAre DEF ApartInv, Apart
  <2>10. \A q \in Runs : Active(q)' => RowsNamed(tasks'[q].rows) /\ EdgesNamed(tasks'[q].edges)
    BY <2>4, <2>6 DEF Active, ApartInv, Apart
  <2> QED BY <1>1, <2>7, <2>8, <2>9, <2>10 DEF ApartInv, Apart
<1> QED BY <1>3, <1>4

(* CommitRows: the rows of the call are named, or none is written.       *)
LEMMA CommitApart ==
  ASSUME ApartInv, NEW r \in Runs, CommitRows(r)
  PROVE  Apart'
<1> DEFINE t == tasks[r]
           rows == RowsRead(r)
<1>1. /\ Active(r) /\ Writes(t) /\ tasks' = [tasks EXCEPT ![r].at = "edges"]
      /\ nodeRows' = Committed(nodeRows, t, reading[r].newer) /\ UNCHANGED <<graphs, edgeRows, opened>>
  BY DEF CommitRows, Active, Writes, registry
<1>2. DOMAIN tasks = Runs /\ DOMAIN t = TaskFields
  BY <1>1 DEF ApartInv, NewestInv, FootprintInv, TasksSound, TaskSound, GraphsTyped
<1>3. AllRows(rows) /\ RowsNamed(rows) /\ RowsNamed(nodeRows)
  <2>1. RowsNamed(t.rows) /\ RowsNamed(reading[r].newer) /\ RowsNamed(nodeRows)
    BY <1>1 DEF ApartInv, Apart, ReadNamed
  <2>2. /\ AllRows(rows) /\ DOMAIN rows = DOMAIN t.rows
        /\ \A n \in DOMAIN rows : \/ rows[n] = t.rows[n]
                                  \/ n \in DOMAIN reading[r].newer /\ rows[n] = reading[r].newer[n]
    BY <1>1, RowsReadAre DEF ApartInv, NewestInv
  <2> HIDE DEF rows
  <2> QED BY <2>1, <2>2 DEF RowsNamed
<1>4. RowsNamed(nodeRows')
  <2>1. nodeRows' = nodeRows \/ nodeRows' = Upserted(nodeRows, rows)
    BY <1>1 DEF Committed, RowsRead
  <2> HIDE DEF rows
  <2> QED BY <1>3, <2>1, UpsertedNamed
<1>5. \A q \in Runs : Active(q)' =>
        Active(q) /\ tasks'[q].rows = tasks[q].rows /\ tasks'[q].edges = tasks[q].edges
  BY <1>1, <1>2 DEF Active, TaskFields
<1> QED BY <1>1, <1>4, <1>5 DEF ApartInv, Apart

(* Register: the new graph of a repository is its own.                   *)
LEMMA RegisterApart ==
  ASSUME ApartInv, Register
  PROVE  Apart'
<1> DEFINE repo == Head(acquiring.rest)
           s == Seed(NewGraph, repo, 0)
           o == Registered(graphs["org"], repo)
<1>1. /\ acquiring.at = "acquire" /\ acquiring.rest # <<>> /\ opened' = opened \union {repo}
      /\ graphs' = [graphs EXCEPT ![repo] = s, !["org"] = Registered(@, repo)]
      /\ UNCHANGED <<nodeRows, edgeRows, tasks>>
  BY DEF Register, tables
<1>2. /\ acquiring.rest \in Seq(Repos) /\ DOMAIN graphs = Instances /\ opened \subseteq Repos
      /\ DOMAIN graphs["org"] = GraphFields
  BY <1>1, InstancesAre DEF ApartInv, NewestInv, FootprintInv, GraphsTyped, Acquiring
<1>3. repo \in Repos /\ repo \in Instances /\ repo \notin {"ekg", "org"} /\ "org" \in Instances
  BY <1>1, <1>2, HeadTailProperties, InstancesAre
<1>4. Own(s, repo) /\ Named(s.nodes)
  BY SeedOwn
<1>5. Named(o.nodes) /\ Born(o.nodes)
  BY <1>2, RegisteredNamed DEF ApartInv, Apart
<1> HIDE DEF s, repo
<1>6. graphs' = [graphs EXCEPT ![repo] = s, !["org"] = o]
  BY <1>1, <1>2, <1>3
<1> HIDE DEF o
<1>7. /\ graphs'[repo] = s /\ graphs'["org"] = o
      /\ \A i \in Instances \ {repo, "org"} : graphs'[i] = graphs[i]
  BY <1>2, <1>3, <1>6
<1>8. \A i \in opened' : Own(graphs'[i], i)
  BY <1>1, <1>2, <1>4, <1>7, InstancesAre DEF ApartInv, Apart
<1>9. \A i \in {"ekg", "org"} \union opened' : Named(graphs'[i].nodes)
  BY <1>1, <1>2, <1>4, <1>5, <1>7, InstancesAre DEF ApartInv, Apart
<1>10. \A q \in Runs : Active(q)' => Active(q)
  BY <1>1 DEF Active
<1> QED BY <1>1, <1>5, <1>7, <1>8, <1>9, <1>10 DEF ApartInv, Apart

(* An empty graph holds nothing of anybody.                              *)
LEMMA NewGraphApart ==
  \A i : Own(NewGraph, i) /\ Named(NewGraph.nodes) /\ Born(NewGraph.nodes)
<1>1. \A n \in DOMAIN NewGraph.nodes : NewGraph.nodes[n].born \in 0 .. 0
  BY NewGraphIs
<1>2. 0 \in Nat
  OBVIOUS
<1> QED BY <1>1, <1>2, NewGraphIs DEF Own, Named, Born

(* Restart: empty graphs, and the tables as they were.                    *)
LEMMA RestartApart ==
  ASSUME ApartInv, Restart
  PROVE  Apart'
<1>1. /\ graphs' = [i \in Instances |-> NewGraph] /\ opened' = {} /\ tasks' = [r \in Runs |-> Idle]
      /\ UNCHANGED <<nodeRows, edgeRows>>
  BY DEF Restart, tables
<1>2. graphs'["ekg"] = NewGraph /\ graphs'["org"] = NewGraph
  BY <1>1, InstancesAre
<1>3. \A r \in Runs : ~Active(r)'
  BY <1>1 DEF Active, Idle
<1> QED BY <1>1, <1>2, <1>3, NewGraphApart DEF ApartInv, Apart

(* Recover: every graph is loaded from rows that are apart.              *)
LEMMA RecoverApart ==
  ASSUME ApartInv, Recover
  PROVE  Apart'
<1> DEFINE L(i) == Load(nodeRows, edgeRows, versionRows, NamespaceOf(i))
<1>1. /\ graphs' = [i \in Instances |-> IF i \in {"ekg", "org"} \union opened' THEN L(i) ELSE graphs[i]]
      /\ UNCHANGED <<nodeRows, edgeRows, tasks>> /\ opened' \subseteq Repos
  BY DEF Recover, tables, ApartInv, NewestInv, FootprintInv, GraphsTyped
<1>2. RowsNamed(nodeRows) /\ EdgesNamed(edgeRows)
  BY DEF ApartInv, Apart
<1>3. \A i : Named(L(i).nodes) /\ (NamespaceOf(i) \in Repos => Own(L(i), NamespaceOf(i)))
  <2> TAKE i
  <2> DEFINE ns == NamespaceOf(i)
  <2> HIDE DEF ns
  <2>1. LET h == Load(nodeRows, edgeRows, versionRows, ns)
        IN  Named(h.nodes) /\ (ns \in Repos => Own(h, ns))
    BY <1>2, LoadOwn
  <2> QED BY <2>1 DEF ns
<1>4. Born(L("org").nodes)
  <2>1. \A n \in DOMAIN L("org").nodes : n \in DOMAIN nodeRows /\ L("org").nodes[n] = nodeRows[n]
    BY LoadReads
  <2>2. Born(nodeRows)
    BY DEF ApartInv, NewestInv, NotesTyped
  <2> HIDE DEF L
  <2> QED BY <2>1, <2>2 DEF Born
<1> HIDE DEF L
<1>5. \A i \in {"ekg", "org"} \union opened' : graphs'[i] = L(i)
  BY <1>1, InstancesAre
<1>6. \A i \in opened' : NamespaceOf(i) = i /\ i \in Repos
  BY <1>1 DEF NamespaceOf
<1>7. \A i \in opened' : Own(graphs'[i], i)
  BY <1>3, <1>5, <1>6
<1>8. \A q \in Runs : Active(q)' => Active(q)
  BY <1>1 DEF Active
<1> QED BY <1>1, <1>3, <1>4, <1>5, <1>7, <1>8 DEF ApartInv, Apart

(* There is nothing to be kept apart at first.                           *)
LEMMA ApartInit == Init => ApartInv
<1> SUFFICES ASSUME Init PROVE ApartInv
  OBVIOUS
<1>1. /\ graphs = [i \in Instances |-> NewGraph] /\ opened = {} /\ nodeRows = <<>> /\ edgeRows = {}
      /\ \A r \in Runs : ~Active(r)
  BY DEF Init, Idle, Active
<1>2. graphs["ekg"] = NewGraph /\ graphs["org"] = NewGraph
  BY <1>1, InstancesAre
<1>3. RowsNamed(nodeRows) /\ EdgesNamed(edgeRows)
  BY <1>1 DEF RowsNamed, EdgesNamed
<1>4. Apart
  BY <1>1, <1>2, <1>3, NewGraphApart DEF Apart
<1>5. ReadNamed
  BY <1>1 DEF ReadNamed, Writes, Active
<1> QED BY <1>4, <1>5, NewestInit, WholeInit DEF ApartInv, WholeInv

(* Every step keeps repositories apart.                                  *)
LEMMA ApartStep == ApartInv /\ [Next]_vars => ApartInv'
<1>1. ASSUME ApartInv, [Next]_vars
      PROVE  /\ NewestInv' /\ ReadingSound'
             /\ \A q \in Runs : Writes(tasks'[q]) => ReadFrom(q)
  <2>1. NewestInv'
    BY <1>1, NewestStep DEF ApartInv
  <2> QED BY <1>1, <2>1, ReadingStep DEF ApartInv, NewestInv
<1>6. ASSUME ApartInv, [Next]_vars, Apart' PROVE ReadNamed'
  <2> SUFFICES ASSUME NEW q \in Runs, Writes(tasks'[q]) PROVE RowsNamed(reading'[q].newer)
    BY DEF ReadNamed
  <2>1. ReadFrom(q)
    BY <1>1, <1>6
  <2>2. Writes(tasks[q]) => RowsNamed(reading[q].newer)
    BY <1>6 DEF ApartInv, ReadNamed
  <2>3. \A r \in Runs : Active(r)' => RowsNamed(tasks'[r].rows)
    BY <1>6 DEF Apart
  <2> QED BY <2>1, <2>2, <2>3 DEF ReadFrom, RowsNamed
<1> SUFFICES ASSUME ApartInv, [Next]_vars PROVE Apart'
  BY <1>1, <1>6 DEF ApartInv
<1>2. ASSUME NEW r \in Runs, \/ \E tested \in BOOLEAN : Record(r, tested)
                             \/ Store(r) \/ RecordNamespace(r) \/ LinkRun(r)
      PROVE  Apart'
  BY <1>2, RecordApart, MoveApart, CommitApart, NamespaceApart, LinkApart DEF Store
<1>3. CASE (\E m \in Manifests : StartAcquisition(m)) \/ Acquire
  BY <1>3, LinkApart, RegisterApart DEF Acquire
<1>4. CASE Restart \/ Recover
  BY <1>4, RestartApart, RecoverApart
<1>5. CASE UNCHANGED vars
  <2>1. UNCHANGED <<graphs, opened, nodeRows, edgeRows, tasks>>
    BY <1>5 DEF vars, tables, registry
  <2>2. \A q \in Runs : Keeps(tasks[q], tasks'[q])
    BY <2>1 DEF Keeps
  <2> QED BY <2>1, <2>2, QuietApart DEF ApartInv
<1> QED BY <1>2, <1>3, <1>4, <1>5 DEF Next

----------------------------------------------------------------------------
(* Where a walk may be that started in a set of repositories which links *)
(* do not leave: in the graph of one of them, at a node this may name.   *)
Inside(p, S) == p.graph \in opened \intersect S /\ Home(p.id, p.graph)
Closed(S) == \A l \in cross : l[1] \in S => l[2] \in S

LEMMA VisitInside ==
  ASSUME Apart, NEW S, Closed(S), NEW P, \A p \in P : Inside(p, S)
  PROVE  \A p \in Visit(P) : Inside(p, S)
<1>1. ASSUME NEW p \in P, NEW q \in InRepository(p) PROVE Inside(q, S)
  <2>1. Own(graphs[p.graph], p.graph) /\ Inside(p, S)
    BY DEF Inside, Apart
  <2>2. q.graph = p.graph /\ q.id \in Neighbours(graphs[p.graph], p.id)
    BY <1>1 DEF InRepository
  <2>3. Home(q.id, p.graph)
    BY <2>1, <2>2 DEF Neighbours, Own, OwnEdge
  <2> QED BY <2>1, <2>2, <2>3 DEF Inside
<1>2. ASSUME NEW p \in P, NEW q \in Bridges(p) PROVE Inside(q, S)
  <2>1. PICK l \in cross : /\ p.id[1] = "repository" /\ l[1] = p.id[2] /\ l[2] \in opened
                           /\ q.graph = l[2] /\ q.id \in DOMAIN graphs[l[2]].nodes
    BY <1>2 DEF Bridges
  <2>2. l[2] \in S
    BY <2>1 DEF Inside, Home, Closed
  <2>3. Home(q.id, l[2])
    BY <2>1 DEF Apart, Own
  <2> QED BY <2>1, <2>2, <2>3 DEF Inside
<1>3. \A q \in Visit(P) : q \in P \/ \E p \in P : q \in InRepository(p) \/ q \in Bridges(p)
  BY DEF Visit
<1> QED BY <1>1, <1>2, <1>3

(* The places of a walk after each of k steps.                           *)
Walk(start, f, k) == f = [n \in 0 .. k |-> IF n = 0 THEN {start} ELSE Visit(f[n - 1])]

(* There is a walk of any length.                                        *)
LEMMA WalkExists ==
  ASSUME NEW start
  PROVE  \A k \in Nat : \E f : Walk(start, f, k)
<1> DEFINE Bad == {k \in Nat : ~ \E f : Walk(start, f, k)}
<1> SUFFICES ASSUME Bad # {} PROVE FALSE
  OBVIOUS
<1>1. PICK m \in Bad : \A j \in Bad : m <= j
  BY LeastOf
<1>2. CASE m = 0
  <2> DEFINE f == [n \in 0 .. 0 |-> {start}]
  <2>1. Walk(start, f, 0)
    BY DEF Walk
  <2> QED BY <1>1, <1>2, <2>1
<1>3. CASE m # 0
  <2>1. m \in Nat /\ m - 1 \in Nat /\ m - 1 \notin Bad
    BY <1>1, <1>3
  <2>2. PICK f : Walk(start, f, m - 1)
    BY <2>1
  <2> DEFINE g == [n \in 0 .. m |-> IF n = m THEN Visit(f[m - 1]) ELSE f[n]]
  <2>3. ASSUME NEW n \in 0 .. m PROVE g[n] = IF n = 0 THEN {start} ELSE Visit(g[n - 1])
    <3>1. CASE n = m
      <4>1. g[n] = Visit(f[m - 1]) /\ g[m - 1] = f[m - 1]
        BY <1>3, <2>1, <3>1
      <4> QED BY <1>3, <3>1, <4>1
    <3>2. CASE n # m
      <4>1. n \in 0 .. m - 1 /\ g[n] = f[n]
        BY <2>1, <3>2
      <4>2. f[n] = IF n = 0 THEN {start} ELSE Visit(f[n - 1])
        BY <2>2, <4>1 DEF Walk
      <4>3. n # 0 => g[n - 1] = f[n - 1]
        BY <2>1, <4>1
      <4> QED BY <4>1, <4>2, <4>3
    <3> QED BY <3>1, <3>2
  <2>4. Walk(start, g, m)
    BY <2>3 DEF Walk
  <2> QED BY <1>1, <2>4
<1> QED BY <1>2, <1>3

(* A walk that starts inside stays there.                                *)
LEMMA WalkInside ==
  ASSUME Apart, NEW S, Closed(S), NEW start, Inside(start, S), NEW k \in Nat, NEW f, Walk(start, f, k)
  PROVE  \A n \in 0 .. k : \A p \in f[n] : Inside(p, S)
<1> DEFINE Bad == {n \in 0 .. k : ~ \A p \in f[n] : Inside(p, S)}
<1> SUFFICES ASSUME Bad # {} PROVE FALSE
  OBVIOUS
<1>1. PICK m \in Bad : \A j \in Bad : m <= j
  <2>1. Bad \subseteq Nat
    OBVIOUS
  <2> HIDE DEF Bad
  <2> QED BY <2>1, LeastOf
<1>2. m \in 0 .. k /\ f[m] = IF m = 0 THEN {start} ELSE Visit(f[m - 1])
  BY <1>1 DEF Walk
<1>3. m # 0
  BY <1>1, <1>2
<1>4. m - 1 \in 0 .. k /\ m - 1 \notin Bad
  BY <1>1, <1>2, <1>3
<1>5. \A p \in f[m - 1] : Inside(p, S)
  BY <1>4
<1>6. \A p \in f[m] : Inside(p, S)
  BY <1>2, <1>3, <1>5, VisitInside
<1> QED BY <1>1, <1>6

(* The repository of a node of its own graph, when it has one.           *)
LEMMA HomeIs ==
  ASSUME Apart, opened \subseteq Repos, NEW i \in opened, NEW n \in DOMAIN graphs[i].nodes,
         FindGlobally(n).repo # Default
  PROVE  FindGlobally(n).repo = i
<1> DEFINE held == {j \in {"org"} \union opened : n \in DOMAIN graphs[j].nodes}
           at == IF "org" \in held THEN "org" ELSE CHOOSE j \in held : TRUE
<1>1. i \in held
  OBVIOUS
<1>2. at \in held
  BY <1>1
<1>3. FindGlobally(n) = graphs[at].nodes[n]
  BY DEF FindGlobally
<1>4. n[3] = i
  BY DEF Apart, Own
<1>5. at \in {"ekg", "org"} \union opened /\ n \in DOMAIN graphs[at].nodes
  BY <1>2
<1> HIDE DEF at
<1>6. graphs[at].nodes[n].repo \in {n[3], Default}
  BY <1>5 DEF Apart, Named
<1> QED BY <1>3, <1>4, <1>6

(* A walk that starts at a node of no repository enters the graphs of    *)
(* repositories a link leads to only.                                    *)
LEMMA WalkEnters ==
  ASSUME NEW start, start.graph = "org", NEW k \in Nat, NEW f, Walk(start, f, k)
  PROVE  \A n \in 0 .. k : \A p \in f[n] : p.graph \in {"org"} \union {l[2] : l \in cross}
<1> DEFINE entered == {"org"} \union {l[2] : l \in cross}
           Bad == {n \in 0 .. k : ~ \A p \in f[n] : p.graph \in entered}
<1> SUFFICES ASSUME Bad # {} PROVE FALSE
  OBVIOUS
<1>1. PICK m \in Bad : \A j \in Bad : m <= j
  <2>1. Bad \subseteq Nat
    OBVIOUS
  <2> HIDE DEF Bad
  <2> QED BY <2>1, LeastOf
<1>2. m \in 0 .. k /\ f[m] = IF m = 0 THEN {start} ELSE Visit(f[m - 1])
  BY <1>1 DEF Walk
<1>3. m # 0
  BY <1>1, <1>2
<1>4. \A p \in f[m - 1] : p.graph \in entered
  <2>1. m - 1 \in 0 .. k /\ m - 1 \notin Bad
    BY <1>1, <1>2, <1>3
  <2> QED BY <2>1
<1>5. ASSUME NEW q \in f[m] PROVE q.graph \in entered
  <2>1. q \in f[m - 1] \/ \E p \in f[m - 1] : q \in InRepository(p) \/ q \in Bridges(p)
    BY <1>2, <1>3 DEF Visit
  <2>2. \A p \in f[m - 1] : q \in InRepository(p) => q.graph = p.graph
    BY DEF InRepository
  <2>3. \A p : q \in Bridges(p) => q.graph \in entered
    BY DEF Bridges
  <2> QED BY <1>4, <2>1, <2>2, <2>3
<1> QED BY <1>1, <1>5

(* A traversal from a node in the namespace of a registered repository   *)
(* enters no repository its links do not lead to, whatever is recorded,  *)
(* lost, recovered and acquired again; one from its REPOSITORY node, when *)
(* that is in no namespace, enters the graphs of none but repositories   *)
(* some link leads to.                                                   *)
THEOREM Isolated == Spec => []TraversalIsolated
<1>1. ApartInv => TraversalIsolated
  <2> SUFFICES ASSUME ApartInv, NEW i \in opened, NEW n \in DOMAIN graphs[i].nodes, NEW p \in Traversal(n)
               PROVE  IF FindGlobally(n).repo # Default
                      THEN p.id[3] \in LinkedFrom(FindGlobally(n).repo) \union {Default}
                      ELSE p.graph \in {"org"} \union {l[2] : l \in cross}
    BY DEF TraversalIsolated
  <2>1. Apart /\ opened \subseteq Repos /\ Depth \in Nat
    BY GraphAssumption DEF ApartInv, NewestInv, FootprintInv, GraphsTyped
  <2>2. CASE FindGlobally(n).repo # Default
    <3> DEFINE start == [graph |-> i, id |-> n]
               R == CHOOSE f : Walk(start, f, Depth)
    <3>1. FindGlobally(n).repo = i
      BY <2>1, <2>2, HomeIs
    <3>2. Walk(start, R, Depth)
      <4> HIDE DEF start
      <4>1. \E f : Walk(start, f, Depth)
        BY <2>1, WalkExists
      <4> QED BY <4>1
    <3>3. Traversal(n) = R[Depth]
      BY <3>1 DEF Traversal, Walk
    <3>4. ASSUME NEW S, i \in S, Closed(S) PROVE Inside(p, S)
      <4>1. Inside(start, S)
        BY <2>1, <3>4 DEF Inside, Apart, Own
      <4> HIDE DEF start, R
      <4>2. \A k \in 0 .. Depth : \A q \in R[k] : Inside(q, S)
        BY <2>1, <3>2, <3>4, <4>1, WalkInside
      <4> QED BY <2>1, <3>3, <4>2
    <3> HIDE DEF R, start
    <3>5. p.graph \in Repos /\ p.id[3] \in {p.graph, Default}
      <4>1. i \in Repos /\ Closed(Repos \union {l[2] : l \in cross})
        BY <2>1 DEF Closed
      <4> QED BY <2>1, <3>4, <4>1 DEF Inside, Home
    <3>6. p.graph \in LinkedFrom(i)
      BY <3>4, <3>5 DEF LinkedFrom, Inside, Closed
    <3> QED BY <2>2, <3>1, <3>5, <3>6
  <2>3. CASE FindGlobally(n).repo = Default
    <3> DEFINE start == [graph |-> "org", id |-> n]
               R == CHOOSE f : Walk(start, f, Depth)
    <3>1. Default \notin opened
      BY <2>1, InstancesAre
    <3>2. Walk(start, R, Depth)
      <4> HIDE DEF start
      <4>1. \E f : Walk(start, f, Depth)
        BY <2>1, WalkExists
      <4> QED BY <4>1
    <3>3. Traversal(n) = R[Depth]
      BY <2>3, <3>1 DEF Traversal, Walk
    <3>4. start.graph = "org"
      OBVIOUS
    <3> HIDE DEF start, R
    <3> QED BY <2>1, <2>3, <3>2, <3>3, <3>4, WalkEnters
  <2> QED BY <2>2, <2>3
<1> QED BY <1>1, ApartInit, ApartStep, PTL DEF Spec
============================================================================
