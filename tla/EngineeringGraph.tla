--------------------------- MODULE EngineeringGraph ---------------------------
(***************************************************************************)
(* One EngineeringKnowledgeGraphService                                    *)
(* (app/services/engineering_graph_service.py): the graph an instance      *)
(* holds in memory and what its operations make of it.  Operators only;    *)
(* KnowledgeGraphs gives the instances their state and their tables.       *)
(*                                                                         *)
(* A node id is <<kind, ref, namespace>>: _stable_id folds the namespace   *)
(* in unless it is the default one.  Payloads, names and weights are left  *)
(* out; requirement, plan, repair, review and notebook nodes enter and     *)
(* leave the graph as the "gate" node does.                                *)
(***************************************************************************)
EXTENDS Integers, FiniteSets, FiniteSetsExt

Default == "default"
None == "none"

StableId(kind, ref, ns) == <<kind, ref, ns>>
(* _repo_node_id: one id for a repository, whatever graph the node is in.  *)
RepoNodeId(repo) == <<"repository", repo, repo>>
Edge(source, target, rel) == [source |-> source, target |-> target, rel |-> rel]

NewGraph == [nodes |-> <<>>, edges |-> {}, version |-> 1]

(* A time of creation after that of every node there is.                   *)
Now(nodes) == Max({nodes[i].born : i \in DOMAIN nodes} \union {0}) + 1

(* A dictionary after it was updated with another.                         *)
Merged(old, new) ==
  [i \in DOMAIN old \union DOMAIN new |-> IF i \in DOMAIN new THEN new[i] ELSE old[i]]

(* add_node for each of ids.  A node is stamped with the version the graph *)
(* has at that moment and keeps its creation time.  rec is history: the    *)
(* number of the recording that wrote the node last.                       *)
AddNodes(g, ids, repo, rec) ==
  [g EXCEPT !.nodes =
     Merged(@, [i \in ids |-> [stamp |-> g.version, repo |-> repo, rec |-> rec,
                                born |-> IF i \in DOMAIN @ THEN @[i].born ELSE Now(@)]])]

(* add_edge for each of es: an edge with a missing end is dropped, one     *)
(* that is there already is the same edge.                                 *)
AddEdges(g, es) ==
  [g EXCEPT !.edges = @ \union {e \in es : {e.source, e.target} \subseteq DOMAIN g.nodes}]

IncrementVersion(g) == [g EXCEPT !.version = @ + 1]

(* The first node of the run of that kind, in the order of the dictionary. *)
FindRunNode(g, run, kind) ==
  LET found == {i \in DOMAIN g.nodes : i[1] = kind /\ i[2] = run}
  IN  IF found = {} THEN None
      ELSE CHOOSE i \in found : \A j \in found : g.nodes[i].born <= g.nodes[j].born

(* The nodes record_run writes for a run that patched files of the         *)
(* checkout at path: the run, the patch and its files, the suite if the    *)
(* run got as far as testing, and the gate.                                *)
RunIds(run, files, tested) ==
  {StableId("run", run, Default), StableId("patch", run, Default)}
    \union {StableId("file", f, Default) : f \in files}
    \union IF tested THEN {StableId(k, run, Default) : k \in {"suite", "gate"}} ELSE {}

RunEdges(g, run, path, files, tested) ==
  LET patch == FindRunNode(g, run, "patch")
  IN  {Edge(StableId("run", run, Default), StableId("checkout", path, Default), "references")}
        \union {Edge(StableId("patch", run, Default), StableId("file", f, Default), "modifies") : f \in files}
        \union IF tested
               THEN {Edge(patch, StableId("suite", run, Default), "validated_by"),
                     Edge(patch, StableId("gate", run, Default), "approved_by")}
               ELSE {}

(* The in-memory part of record_run.  The node of the checkout enters the  *)
(* graph and is not among the nodes that are stored.                       *)
RecordRun(g, run, path, files, tested, rec) ==
  LET h == AddNodes(g, RunIds(run, files, tested) \union {StableId("checkout", path, Default)},
                    Default, rec)
  IN  IncrementVersion(AddEdges(h, RunEdges(h, run, path, files, tested)))

(* What the call stores: the rows of the nodes and edges it names.         *)
RowsOf(g, ids) == [i \in ids |-> g.nodes[i]]
EdgeRowsOf(g, es) ==
  {[edge |-> e, repo |-> g.nodes[e.source].repo] : e \in es \intersect g.edges}

(* _ingest_run_into_repository_namespace: the footprint of a run in the    *)
(* graph of one of the repositories it patched.                            *)
NamespaceIds(run, repo, files) ==
  {StableId("run", run, repo), StableId("patch", run, repo), RepoNodeId(repo)}
    \union {StableId("file", f, repo) : f \in files}

NamespaceEdges(run, repo, files) ==
  {Edge(StableId("run", run, repo), t, "references") :
      t \in {RepoNodeId(repo), StableId("patch", run, repo)}}
    \union {Edge(StableId("patch", run, repo), StableId("file", f, repo), "modifies") : f \in files}

IngestRun(g, run, repo, files, rec) ==
  IncrementVersion(AddEdges(AddNodes(g, NamespaceIds(run, repo, files), repo, rec),
                            NamespaceEdges(run, repo, files)))

(* _seed_repository_evidence: the repository and its files, in memory.     *)
Seed(g, repo, rec) ==
  AddEdges(AddNodes(g, {RepoNodeId(repo), StableId("file", "seed", repo)}, repo, rec),
           {Edge(RepoNodeId(repo), StableId("file", "seed", repo), "contains")})

(* select_tests_for_changes for one changed path: among the suites that    *)
(* validated a patch of the path, the one with the highest stamp, then the *)
(* latest creation.                                                        *)
SuitesFor(g, path) ==
  LET known == DOMAIN g.nodes
      files == {i \in known : i[1] = "file" /\ i[2] = path}
      patches == {e.source : e \in {e \in g.edges : e.rel = "modifies" /\ e.target \in files}}
  IN  {e.target : e \in {e \in g.edges : /\ e.rel = "validated_by"
                                          /\ e.source \in patches \intersect known
                                          /\ e.target \in known}}

Newer(m, n) == m.stamp > n.stamp \/ (m.stamp = n.stamp /\ m.born > n.born)

SelectSuite(g, path) ==
  LET suites == SuitesFor(g, path)
  IN  IF suites = {} THEN None
      ELSE CHOOSE s \in suites : \A t \in suites : ~ Newer(g.nodes[t], g.nodes[s])

(* Mutant: recovery starts counting versions from one again.               *)
LoadForgetsVersion(rows, edgeRows, versionRows, ns) ==
  [ nodes |-> [i \in {i \in DOMAIN rows : ns = Default \/ rows[i].repo = ns} |-> rows[i]],
    edges |-> {r.edge : r \in {r \in edgeRows : ns = Default \/ r.repo = ns}},
    version |-> 1 ]

(* recover: everything is cleared and read again.  A graph bound to a      *)
(* repository reads that namespace only, the default graph reads all of    *)
(* them, and both continue from the highest version in the table.          *)
Load(rows, edgeRows, versionRows, ns) ==
  [ nodes |-> LET mine == {i \in DOMAIN rows : ns = Default \/ rows[i].repo = ns}
              IN  [i \in mine |-> rows[i]],
    edges |-> {r.edge : r \in {r \in edgeRows : ns = Default \/ r.repo = ns}},
    version |-> IF versionRows = {} THEN 1 ELSE Max(versionRows) ]

(* get_edges and get_reverse_edges of a node: the other ends.              *)
Neighbours(g, id) ==
  {e.target : e \in {e \in g.edges : e.source = id}}
    \union {e.source : e \in {e \in g.edges : e.target = id}}
===============================================================================
