---------------------------- MODULE KnowledgeGraphs ----------------------------
(***************************************************************************)
(* The knowledge graphs of the orchestrator's process: its own             *)
(* EngineeringKnowledgeGraphService ("ekg"), the default graph of its      *)
(* OrganizationKnowledgeGraphService ("org",                               *)
(* app/services/organization_graph_service.py) and one graph for each      *)
(* registered repository.  All of them store into the same three tables.   *)
(*                                                                         *)
(* Recording a run changes the graph in one go and then stores nodes,      *)
(* edges and version in three transactions of their own, each best effort; *)
(* other runs are recorded meanwhile and the process may die between any   *)
(* two of them.  recover() reads the tables back: tests and demos call it  *)
(* on a new process before or after its first recordings, the application  *)
(* never does.  The organization service has a session factory, as there.  *)
(***************************************************************************)
EXTENDS EngineeringGraph, Sequences

CONSTANTS
  Runs,        \* the runs
  Repos,       \* the repositories a run may acquire besides its checkout
  Files,       \* paths of the checkout
  Patched,     \* Patched[r]: the paths of the checkout that run r patches
  Auxiliary,   \* Auxiliary[r]: the repositories of its other patches, in order
  Manifests,   \* what acquire_and_link_repositories may be given
  Depth,       \* depth of cross_repository_traversal
  Workloads    \* the recordings of each run, acquisitions, lost writes and
               \* restarts there may be

VARIABLES
  graphs,        \* the graph of every instance
  namespaces,    \* _namespaces: the registered repositories
  opened,        \* the keys of _graphs
  cross,         \* _cross_edges: <<source, target>> pairs
  acquiring,     \* acquire_and_link_repositories, between two of its awaits
  nodeRows, edgeRows, versionRows,  \* ekg_nodes, ekg_edges, ekg_versions
  namespaceRows, crossRows,     \* ekg_repository_namespaces, ekg_cross_repository_edges
  tasks,         \* tasks[r]: the recording of run r, between two of its awaits
  reading,       \* reading[r]: its look-ups of the nodes others write as well
  loaded,        \* instances that have seen what the tables held at the start
  sound,         \* every version row was stored and recovery came first
  work,          \* what is left of the workload
  recordings     \* number of the last recording

tables == <<nodeRows, edgeRows, versionRows>>
registry == <<namespaces, opened, cross, acquiring, namespaceRows, crossRows>>
vars == <<graphs, registry, tables, tasks, reading, loaded, sound, work, recordings>>

Instances == {"ekg", "org"} \union Repos
NamespaceOf(inst) == IF inst \in Repos THEN inst ELSE Default

Idle == [at |-> "idle"]
NotReading == [left |-> {}, asked |-> {}, newer |-> <<>>, live |-> FALSE]
NotAcquiring == [at |-> "idle"]

ASSUME GraphAssumption ==
  /\ {"ekg", "org", Default} \intersect Repos = {}
  /\ Patched \in [Runs -> SUBSET Files]
  /\ \A r \in Runs : Auxiliary[r] \in Seq(Repos)
  /\ Workloads \subseteq
       [records : [Runs -> Nat], acquisitions : Nat, losses : Nat, restarts : Nat]
  /\ \A m \in Manifests : m.repos \in Seq(Repos) /\ IsFiniteSet(m.links)
  /\ Depth \in Nat

Init ==
  /\ graphs = [i \in Instances |-> NewGraph]
  /\ namespaces = {} /\ opened = {} /\ cross = {} /\ acquiring = NotAcquiring
  /\ nodeRows = <<>> /\ edgeRows = {} /\ versionRows = {}
  /\ namespaceRows = {} /\ crossRows = {}
  /\ tasks = [r \in Runs |-> Idle] /\ reading = [r \in Runs |-> NotReading]
  /\ loaded = TRUE /\ sound = TRUE
  /\ work \in Workloads /\ recordings = 0

(***************************************************************************)
(* Recording a run.  A task carries the rows of the call in progress and   *)
(* the repositories whose namespaces are still to come.                    *)
(***************************************************************************)
Storing(inst, g, ids, es, rec, rest) ==
  [ at |-> "select", inst |-> inst, rec |-> rec, rows |-> RowsOf(g, ids), edges |-> EdgeRowsOf(g, es),
    version |-> g.version, absent |-> {}, rest |-> rest ]

(* Nodes that other runs write under the same id: files and repositories.  *)
Shared(ids) == {i \in ids : i[1] \in {"file", "repository"}}

(* _persist_ingested_nodes reads the graph again, node by node, between    *)
(* its look-ups.  Of a shared node not yet read (left) it gets what was    *)
(* written last (newer), unless the graph was replaced by a new one and    *)
(* the recording goes on with the old one (not live).                      *)
Reading(ids) == [left |-> Shared(ids), asked |-> {}, newer |-> <<>>, live |-> TRUE]

Informed(t, look, inst, g, ids) ==
  IF t.at = "select" /\ t.inst = inst /\ look.live
  THEN [look EXCEPT !.newer = Merged(@, RowsOf(g, look.left \intersect ids))] ELSE look

(* Run r wrote the nodes ids of the graph and starts to store them.        *)
Overwrites(r, inst, g, ids) ==
  reading' = [q \in Runs |-> IF q = r THEN Reading(ids)
                             ELSE Informed(tasks[q], reading[q], inst, g, ids)]

(* _ingest_into_graph: a run with auxiliary repositories goes to the       *)
(* organization's graph, any other to the orchestrator's.                  *)
Target(r) == IF Auxiliary[r] = <<>> THEN "ekg" ELSE "org"

Record(r, tested) ==
  /\ tasks[r].at = "idle" /\ work.records[r] > 0
  /\ work' = [work EXCEPT !.records[r] = @ - 1] /\ recordings' = recordings + 1
  /\ LET inst == Target(r)
         g == RecordRun(graphs[inst], r, "checkout", Patched[r], tested, recordings')
     IN  /\ graphs' = [graphs EXCEPT ![inst] = g]
         /\ tasks' = [tasks EXCEPT ![r] =
              Storing(inst, g, RunIds(r, Patched[r], tested),
                      RunEdges(g, r, "checkout", Patched[r], tested), recordings', Auxiliary[r])]
         /\ Overwrites(r, inst, g, RunIds(r, Patched[r], tested))
         /\ sound' = (sound /\ loaded)
  /\ UNCHANGED <<registry, tables, loaded>>

(* record_run_across_namespaces: the next repository's own footprint, left *)
(* out when it is not registered.                                          *)
RecordNamespace(r) ==
  /\ tasks[r].at = "next" /\ tasks[r].rest # <<>>
  /\ LET repo == Head(tasks[r].rest)
         rest == Tail(tasks[r].rest)
         g == IngestRun(graphs[repo], r, repo, Patched[r], tasks[r].rec)
     IN  IF repo \in opened
         THEN /\ graphs' = [graphs EXCEPT ![repo] = g]
              /\ Overwrites(r, repo, g, NamespaceIds(r, repo, Patched[r]))
              /\ tasks' = [tasks EXCEPT ![r] =
                   Storing(repo, g, NamespaceIds(r, repo, Patched[r]),
                           NamespaceEdges(r, repo, Patched[r]), tasks[r].rec, rest)]
         ELSE tasks' = [tasks EXCEPT ![r].rest = rest] /\ UNCHANGED <<graphs, reading>>
  /\ UNCHANGED <<registry, tables, loaded, sound, work, recordings>>

(* _link_run_to_repositories: the run refers to the repositories the       *)
(* organization's graph knows.  Nothing of it is stored.                   *)
LinkRun(r) ==
  /\ tasks[r].at = "next" /\ tasks[r].rest = <<>>
  /\ LET g == graphs["org"]
         run == FindRunNode(g, r, "run")
         repos == {p \in {Auxiliary[r][i] : i \in DOMAIN Auxiliary[r]} :
                     RepoNodeId(p) \in DOMAIN g.nodes}
         es == {Edge(run, RepoNodeId(p), "references") : p \in repos}
     IN  graphs' = IF Target(r) = "org" /\ run # None /\ repos # {}
                   THEN [graphs EXCEPT !["org"] = IncrementVersion(AddEdges(g, es))]
                   ELSE graphs
  /\ tasks' = [tasks EXCEPT ![r] = Idle]
  /\ UNCHANGED <<registry, tables, reading, loaded, sound, work, recordings>>

(* _persist_ingested_nodes: the transaction reads each node and looks its  *)
(* row up, then inserts or updates all of them at its commit.  Only for    *)
(* the shared nodes does it matter when: no other run has the others.      *)
ReadNode(r) ==
  /\ tasks[r].at = "select" /\ reading[r].asked = {}
  /\ \E id \in reading[r].left :
       reading' = [reading EXCEPT ![r].left = @ \ {id}, ![r].asked = {id}]
  /\ UNCHANGED <<graphs, registry, tables, tasks, loaded, sound, work, recordings>>

SelectRows(r) ==
  /\ tasks[r].at = "select" /\ (reading[r].asked # {} \/ reading[r].left = {})
  /\ LET rows == DOMAIN tasks[r].rows
         done == reading[r].left = {}
         asked == reading[r].asked \union IF done THEN rows \ Shared(rows) ELSE {}
     IN  tasks' = [tasks EXCEPT ![r].at = IF done THEN "commit" ELSE @,
                                ![r].absent = @ \union (asked \ DOMAIN nodeRows)]
  /\ reading' = [reading EXCEPT ![r].asked = {}]
  /\ UNCHANGED <<graphs, registry, tables, loaded, sound, work, recordings>>

(* The rows after the commit: an update keeps the creation time.           *)
Upserted(old, new) ==
  Merged(old, [i \in DOMAIN new |->
                  [new[i] EXCEPT !.born = IF i \in DOMAIN old THEN old[i].born ELSE Now(old)]])

(* Mutant: the rows before the one that conflicts are kept.                *)
CommittedInPart(old, task, newer) ==
  LET rows == Merged(task.rows, newer)
  IN  Upserted(old, [i \in {i \in DOMAIN rows :
                              task.absent \intersect DOMAIN old = {} \/ i[1] \in {"run", "patch"}}
                       |-> rows[i]])

(* An id inserted by somebody else meanwhile violates the unique node_id,  *)
(* and the whole batch is rolled back.                                     *)
Committed(old, task, newer) ==
  IF task.absent \intersect DOMAIN old # {} THEN old ELSE Upserted(old, Merged(task.rows, newer))

CommitRows(r) ==
  /\ tasks[r].at = "commit"
  /\ nodeRows' = Committed(nodeRows, tasks[r], reading[r].newer)
  /\ tasks' = [tasks EXCEPT ![r].at = "edges"]
  /\ reading' = [reading EXCEPT ![r] = NotReading]
  /\ UNCHANGED <<graphs, registry, edgeRows, versionRows, loaded, sound, work, recordings>>

(* _persist_ingested_edges: edges are looked up by their own id.           *)
StoreEdges(r) ==
  /\ tasks[r].at = "edges"
  /\ edgeRows' = edgeRows \union tasks[r].edges
  /\ tasks' = [tasks EXCEPT ![r].at = "version"]
  /\ UNCHANGED <<graphs, registry, nodeRows, versionRows, reading, loaded, sound, work, recordings>>

(* _persist_version: a number that is already there is left alone.         *)
StoreVersion(r) ==
  /\ tasks[r].at = "version"
  /\ versionRows' = versionRows \union {tasks[r].version}
  /\ tasks' = [tasks EXCEPT ![r].at = "next"]
  /\ UNCHANGED <<graphs, registry, nodeRows, edgeRows, reading, loaded, sound, work, recordings>>

(* _with_session swallows whatever the database raises.                    *)
LoseWrite(r) ==
  /\ work.losses > 0 /\ work' = [work EXCEPT !.losses = @ - 1]
  /\ \/ tasks[r].at = "commit" /\ tasks' = [tasks EXCEPT ![r].at = "edges"] /\ sound' = sound
     \/ tasks[r].at = "edges" /\ tasks' = [tasks EXCEPT ![r].at = "version"] /\ sound' = sound
     \/ tasks[r].at = "version" /\ tasks' = [tasks EXCEPT ![r].at = "next"] /\ sound' = FALSE
  /\ reading' = [reading EXCEPT ![r] = NotReading]
  /\ UNCHANGED <<graphs, registry, tables, loaded, recordings>>

(***************************************************************************)
(* acquire_and_link_repositories: every repository of the manifest is      *)
(* acquired, registered and seeded, then all links are made, then the      *)
(* registry is stored in two transactions.                                 *)
(***************************************************************************)
StartAcquisition(m) ==
  /\ acquiring.at = "idle" /\ work.acquisitions > 0
  /\ acquiring' = [at |-> "acquire", rest |-> m.repos, links |-> m.links]
  /\ work' = [work EXCEPT !.acquisitions = @ - 1]
  /\ UNCHANGED <<graphs, namespaces, opened, cross, namespaceRows, crossRows, tables, tasks,
                 reading, loaded, sound, recordings>>

(* register_repository: the repository gets a new graph, whatever graph it *)
(* had; the organization's graph gets its node the first time.             *)
Registered(org, repo) ==
  IF RepoNodeId(repo) \in DOMAIN org.nodes THEN org
  ELSE IncrementVersion(AddNodes(org, {RepoNodeId(repo)}, Default, 0))

Register ==
  /\ acquiring.at = "acquire" /\ acquiring.rest # <<>>
  /\ LET repo == Head(acquiring.rest)
     IN  /\ namespaces' = namespaces \union {repo}
         /\ opened' = opened \union {repo}
         /\ graphs' = [graphs EXCEPT ![repo] = Seed(NewGraph, repo, 0),
                                     !["org"] = Registered(@, repo)]
         /\ reading' = [q \in Runs |-> IF tasks[q].at = "select" /\ tasks[q].inst = repo
                                        THEN [reading[q] EXCEPT !.live = FALSE] ELSE reading[q]]
  /\ acquiring' = [acquiring EXCEPT !.rest = Tail(@)]
  /\ UNCHANGED <<cross, namespaceRows, crossRows, tables, tasks, loaded, sound,
                 work, recordings>>

(* The acquisition of the next repository raises: what was registered      *)
(* before it stays, no link is made.                                       *)
AcquisitionFails ==
  /\ acquiring.at = "acquire" /\ acquiring.rest # <<>>
  /\ acquiring' = NotAcquiring
  /\ UNCHANGED <<graphs, namespaces, opened, cross, namespaceRows, crossRows,
                 tables, tasks, reading, loaded, sound, work, recordings>>

(* link_repositories for each link, mirrored in the organization's graph.  *)
LinkAll ==
  /\ acquiring.at = "acquire" /\ acquiring.rest = <<>>
  /\ LET es == {Edge(RepoNodeId(l[1]), RepoNodeId(l[2]), "depends_on") : l \in acquiring.links}
         g == graphs["org"]
     IN  graphs' = [graphs EXCEPT !["org"] =
                      [AddEdges(g, es) EXCEPT !.version = @ + Cardinality(acquiring.links)]]
  /\ cross' = cross \union acquiring.links
  /\ acquiring' = [acquiring EXCEPT !.at = "namespaces"]
  /\ UNCHANGED <<namespaces, opened, namespaceRows, crossRows, tables, tasks,
                 reading, loaded, sound, work, recordings>>

(* synchronize: _persist_namespaces, then _persist_cross_edges.            *)
SyncNamespaces ==
  /\ acquiring.at = "namespaces"
  /\ namespaceRows' = namespaceRows \union namespaces
  /\ acquiring' = [acquiring EXCEPT !.at = "cross"]
  /\ UNCHANGED <<graphs, namespaces, opened, cross, crossRows, tables, tasks,
                 reading, loaded, sound, work, recordings>>

(* A failed transaction counts as nothing written; the other one follows.  *)
LoseSync ==
  /\ work.losses > 0 /\ work' = [work EXCEPT !.losses = @ - 1]
  /\ \/ acquiring.at = "namespaces" /\ acquiring' = [acquiring EXCEPT !.at = "cross"]
     \/ acquiring.at = "cross" /\ acquiring' = NotAcquiring
  /\ UNCHANGED <<graphs, namespaces, opened, cross, namespaceRows, crossRows,
                 tables, tasks, reading, loaded, sound, recordings>>

SyncCross ==
  /\ acquiring.at = "cross"
  /\ crossRows' = crossRows \union cross
  /\ graphs' = [graphs EXCEPT !["org"] = IncrementVersion(@)]
  /\ acquiring' = NotAcquiring
  /\ UNCHANGED <<namespaces, opened, cross, namespaceRows, tables, tasks, reading, loaded,
                 sound, work, recordings>>

(***************************************************************************)
(* The process dies; a new one starts with empty graphs.  A version row    *)
(* still owed for stored nodes is lost.                                    *)
(***************************************************************************)
Restart ==
  /\ work.restarts > 0 /\ work' = [work EXCEPT !.restarts = @ - 1]
  /\ graphs' = [i \in Instances |-> NewGraph]
  /\ namespaces' = {} /\ opened' = {} /\ cross' = {} /\ acquiring' = NotAcquiring
  /\ sound' = (sound /\ \A r \in Runs : tasks[r].at \notin {"edges", "version"})
  /\ tasks' = [r \in Runs |-> Idle] /\ reading' = [r \in Runs |-> NotReading]
  /\ loaded' = FALSE
  /\ UNCHANGED <<namespaceRows, crossRows, tables, recordings>>

(* recover of the organization service: the registry, a graph for every    *)
(* stored namespace, every repository graph and the default one; and       *)
(* recover of the orchestrator's own graph.                                *)
Recover ==
  /\ ~ loaded /\ acquiring.at = "idle" /\ \A r \in Runs : tasks[r].at = "idle"
  /\ namespaces' = namespaceRows /\ cross' = crossRows
  /\ opened' = opened \union namespaceRows
  /\ graphs' = [i \in Instances |->
                  IF i \in {"ekg", "org"} \union opened'
                  THEN Load(nodeRows, edgeRows, versionRows, NamespaceOf(i)) ELSE graphs[i]]
  /\ loaded' = TRUE
  /\ UNCHANGED <<acquiring, namespaceRows, crossRows, tables, tasks, reading, sound,
                 work, recordings>>

Store(r) == \/ ReadNode(r) \/ SelectRows(r) \/ CommitRows(r)
            \/ StoreEdges(r) \/ StoreVersion(r) \/ LoseWrite(r)
Acquire == Register \/ AcquisitionFails \/ LinkAll \/ SyncNamespaces \/ LoseSync \/ SyncCross

Next ==
  \/ \E r \in Runs : \/ \E tested \in BOOLEAN : Record(r, tested)
                     \/ Store(r) \/ RecordNamespace(r) \/ LinkRun(r)
  \/ \E m \in Manifests : StartAcquisition(m)
  \/ Acquire \/ Restart \/ Recover

Spec == Init /\ [][Next]_vars
-------------------------------------------------------------------------------
(***************************************************************************)
(* cross_repository_traversal.  A place is a node in the graph it is       *)
(* walked in: a step goes to the neighbours in that graph and, at the node *)
(* of a repository, to all nodes of the repositories it is linked to.      *)
(***************************************************************************)
FindGlobally(id) ==
  LET held == {i \in {"org"} \union opened : id \in DOMAIN graphs[i].nodes}
  IN  graphs[IF "org" \in held THEN "org" ELSE CHOOSE i \in held : TRUE].nodes[id]

InRepository(p) == {[graph |-> p.graph, id |-> n] : n \in Neighbours(graphs[p.graph], p.id)}

(* Mutant: links are followed both ways, as edges in a repository are.     *)
BridgesBothWays(p) ==
  UNION {{[graph |-> r, id |-> n] : n \in DOMAIN graphs[r].nodes} :
           r \in {r \in opened : /\ p.id[1] = "repository"
                                 /\ {<<p.id[2], r>>, <<r, p.id[2]>>} \intersect cross # {}}}

Bridges(p) ==
  UNION {{[graph |-> l[2], id |-> n] : n \in DOMAIN graphs[l[2]].nodes} :
           l \in {l \in cross : p.id[1] = "repository" /\ l[1] = p.id[2] /\ l[2] \in opened}}

Visit(places) ==
  places \union {q \in UNION {InRepository(p) \union Bridges(p) : p \in places} :
                   \A p \in places : p.id # q.id}

(* The places seen from node id, walked in the graph of its repository, or *)
(* in the organization's when that repository has none.                    *)
Traversal(id) ==
  LET home == FindGlobally(id).repo
      start == [graph |-> IF home \in opened THEN home ELSE "org", id |-> id]
      Reach[n \in 0..Depth] == IF n = 0 THEN {start} ELSE Visit(Reach[n - 1])
  IN  Reach[Depth]
-------------------------------------------------------------------------------
(* The suite chosen for a replan is the one recorded last among those      *)
(* recorded through the same graph, re-recorded and recovered ones         *)
(* included, as long as recovery came before the first recording and no    *)
(* version row was lost (select_tests_for_changes, increment_version,      *)
(* recover).                                                               *)
SelectionNewest ==
  sound => \A f \in Files :
    LET g == graphs["ekg"]
        s == SelectSuite(g, f)
    IN  s # None => \A t \in SuitesFor(g, f) :
          Target(t[2]) = Target(s[2]) => g.nodes[t].rec <= g.nodes[s].rec

(* A recording is in the tables whole or not at all, though another run    *)
(* may insert or replace one of its files during the look-ups, writes are  *)
(* lost and the process dies: when the row of one of its own nodes, of     *)
(* which no other run has a copy, is the one a graph recorded last, every  *)
(* node of that recording is stored, files included.  The row of a file    *)
(* says nothing: it may be another recording's that stored it              *)
(* (_persist_ingested_nodes).                                              *)
FootprintWhole ==
  \A i \in {"ekg", "org"} \union opened :
    LET g == graphs[i].nodes
        stored == {n \in DOMAIN g : n[1] # "checkout" /\ g[n].rec > 0}
        own == stored \ Shared(stored)
    IN  \A m \in own \intersect DOMAIN nodeRows : nodeRows[m].rec = g[m].rec =>
          \A n \in stored : g[n].rec = g[m].rec => n \in DOMAIN nodeRows

(* The repositories the links of one lead to: what every set has that has  *)
(* this one and is closed under the links.                                 *)
LinkedFrom(repo) ==
  {r \in Repos : \A S \in SUBSET Repos :
     repo \in S /\ (\A l \in cross : l[1] \in S => l[2] \in S) => r \in S}

(* A traversal from a node in the namespace of a registered repository     *)
(* enters no repository that its links do not lead to, recovered graphs    *)
(* included: what it sees beyond is in no repository.  The REPOSITORY node *)
(* of a repository is usually in no namespace but the default one          *)
(* (register_repository), and from there it is walked in the               *)
(* organization's graph, links backwards too.  All that can be said is     *)
(* that the graphs it enters are of repositories some link leads to        *)
(* (cross_repository_traversal, recover).                                  *)
TraversalIsolated ==
  \A i \in opened : \A n \in DOMAIN graphs[i].nodes :
    LET home == FindGlobally(n).repo
        linked == LinkedFrom(home) \union {Default}
        entered == {"org"} \union {l[2] : l \in cross}
    IN  \A p \in Traversal(n) : IF home # Default THEN p.id[3] \in linked ELSE p.graph \in entered

(* "Only explicit cross-repo edges allow the boundary to be crossed"       *)
(* (organization_graph_service.py:822): it sees nothing of the             *)
(* organization's own namespace either.                                    *)
BoundaryKept ==
  \A i \in opened : \A n \in DOMAIN graphs[i].nodes :
    LET home == FindGlobally(n).repo
    IN  home # Default => \A p \in Traversal(n) : p.id[3] # Default
===============================================================================
