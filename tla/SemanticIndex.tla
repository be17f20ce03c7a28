----------------------------- MODULE SemanticIndex -----------------------------
(***************************************************************************)
(* The semantic graph of a repository (code_intelligence/): a graph of     *)
(* symbols is built from the files, kept up to date by an indexer that     *)
(* looks at the hashes of the files, stored and read back, and asked what  *)
(* depends on a symbol.  Files are edited by others at any time.           *)
(*                                                                         *)
(* A text stands for a file's content and for its hash; what the parsers   *)
(* find in it is given.  A symbol is <<file, kind, owner, name>>; the one  *)
(* of an import has for its owner what it imports from.  Lists of edges    *)
(* between the same two symbols are one edge.                              *)
(***************************************************************************)
EXTENDS Naturals, FiniteSets

CONSTANTS
  SourceFiles,  \* files of a language some parser knows
  WiredFiles,   \* those the incremental indexer has a parser for
  SourceTexts,  \* contents of a file
  Finds,        \* text |-> [defs, imports, calls, broken, large]
  FullName,     \* what a full index calls a file: one of the root ./file
  ModuleText,   \* the dotted module path of such a name
  Packages,     \* the names that end in __init__
  FirstTrees,   \* the files a history starts from
  MaxParsed,    \* CodeIntelligenceService.max_files
  MaxFanOut, MaxVisited, \* bounds of a traversal
  Depths,       \* max_depth of an impact analysis
  MaxTreeEdits, MaxParserFailures, MaxSaves  \* bounds

Missing == "missing"
NoName == ""   \* what an import of a whole module names; the owner of what a
               \* file defines itself

(* The kinds the resolver's table holds, and the others of a definition.   *)
TableKinds == {"class", "function", "async_function", "method", "interface", "type", "enum",
               "constant"}
DefKinds == TableKinds \union {"async_method", "magic_method", "property", "variable"}

ASSUME SemanticIndexAssumption ==
  /\ WiredFiles \subseteq SourceFiles /\ Missing \notin SourceTexts
  /\ FirstTrees \subseteq [SourceFiles -> SourceTexts \union {Missing}]
  /\ \A t \in SourceTexts :
       /\ \A c \in Finds[t].calls : c[1] \in Finds[t].defs
       /\ \A x \in Finds[t].defs : x[1] \in DefKinds /\ x[3] # NoName
       /\ \A i \in Finds[t].imports : i[1][1] = 0 => i[1][2] # NoName
  /\ \A f \in SourceFiles : FullName[f] = f \/ FullName[f] \notin SourceFiles
  /\ \A f, q \in SourceFiles : FullName[f] = FullName[q] => f = q
  /\ {MaxParsed, MaxFanOut, MaxVisited} \subseteq Nat /\ Depths \subseteq Nat \ {0}
  /\ {MaxTreeEdits, MaxParserFailures, MaxSaves} \subseteq Nat

VARIABLES
  tree,      \* the files on disk
  symbolGraph,  \* the graph the indexer maintains: [nodes, out, in]
  hashes,    \* IncrementalIndexer._file_hashes
  detected,  \* changes not yet applied: file |-> its hash at detection
  doubtful,  \* history: files whose symbols come from another text than
             \* the one their hash is of, or stand under another name
  rows,      \* what save_graph stored for the index
  loading,   \* a load_graph under way and what it has read
  treeEdits, parserFailures, saves

indexVars == <<tree, symbolGraph, hashes, detected, doubtful, rows, loading, treeEdits,
               parserFailures, saves>>

Nothing == [q \in {} |-> Missing]
NoGraph == [nodes |-> {}, out |-> {}, in |-> {}]
NotLoading == [at |-> "idle", nodes |-> {}, graph |-> NoGraph]

----------------------------------------------------------------------------
(* What a parser finds in a file: a module, its definitions, those of a    *)
(* class with the class as owner, and its imports, each of a name from     *)
(* <<level, text>>.  A call goes to the last symbol of the file that has   *)
(* the name, imports come after definitions, or to an external one; which  *)
(* is last is up to the text.                                              *)
ModuleOf(f) == <<f, "module", NoName, NoName>>
DefOf(f, x) == <<f, x[1], x[2], x[3]>>
ImportOf(f, i) == <<f, "import", i[1], i[2]>>
FileNode(f) == <<f, "file", NoName, NoName>>
External(n) == <<NoName, "external", NoName, n>>

SymbolsOf(f, t) ==
  IF Finds[t].broken THEN {}
  ELSE {ModuleOf(f)} \union {DefOf(f, n) : n \in Finds[t].defs}
       \union {ImportOf(f, i) : i \in Finds[t].imports}

Callee(f, t, n) ==
  LET imported == {i \in Finds[t].imports : i[2] = n}
      defined == {x \in Finds[t].defs : x[3] = n}
  IN IF imported # {} THEN ImportOf(f, CHOOSE i \in imported : TRUE)
     ELSE IF defined # {} THEN DefOf(f, CHOOSE x \in defined : TRUE)
     ELSE External(n)

RelationsOf(f, t) ==
  IF Finds[t].broken THEN {}
  ELSE {<<ModuleOf(f), ImportOf(f, i), "imports">> : i \in Finds[t].imports}
       \union {<<DefOf(f, c[1]), Callee(f, t, c[2]), "calls">> :
                 c \in Finds[t].calls}

----------------------------------------------------------------------------
(* SemanticRepositoryGraph                                                 *)
AddNodes(g, N) == [g EXCEPT !.nodes = @ \union N]

(* add_edge raises when the source is not there; the callers skip the edge.*)
AddEdges(g, E) ==
  LET Known == {e \in E : e[1] \in g.nodes}
  IN [g EXCEPT !.out = @ \union Known, !.in = @ \union Known]

(* remove_node drops the symbol's own edges and, by way of the two maps,   *)
(* its entries in the maps of the symbols at the other end.                *)
RemoveNodes(g, N) ==
  LET Gone == N \intersect g.nodes
      Leave == {e \in g.out : e[1] \in Gone}
      Enter == {e \in g.in : e[2] \in Gone}
  IN [nodes |-> g.nodes \ Gone,
      out |-> g.out \ (Leave \union Enter),
      in |-> g.in \ (Leave \union Enter)]

InFile(g, f) == {n \in g.nodes : n[1] = f}

----------------------------------------------------------------------------
(* CrossFileSymbolResolver: a table has the last symbol of each module     *)
(* text and short name, methods too.  The files come in any order and so   *)
(* may the symbols of one.  A module is there under no name, but not that  *)
(* of a package, which is looked for as what it is not called.             *)
Tabled(N) == {n \in N : n[2] \in TableKinds \/ (n[2] = "module" /\ n[1] \notin Packages)}

KeyOf(n) == <<ModuleText[n[1]], n[4]>>

Holders(N, key) == {n \in Tabled(N) : KeyOf(n) = key}

Contested(N) == {n \in Tabled(N) : Holders(N, KeyOf(n)) # {n}}

SymbolTables(N) ==
  LET tabled == Tabled(N)
      contested == Contested(N)
  IN {W \in {tabled \ Replaced : Replaced \in SUBSET contested} :
        \A n \in contested : \E w \in W : Holders(W, KeyOf(n)) = {w}}

(* Where an import is looked up: its text without its level, and for a     *)
(* name also the module of that name.                                      *)
CandidatesByNameOnly(i) == <<<<i[4], i[4]>>>>

Candidates(i) == IF i[4] = NoName THEN <<<<i[3][2], NoName>>>>
                 ELSE IF i[3][2] = NoName THEN <<<<i[4], i[4]>>>>
                 ELSE <<<<i[3][2], i[4]>>, <<i[4], i[4]>>>>

FoundAt(e, k) == k \in DOMAIN Candidates(e[1]) /\ KeyOf(e[2]) = Candidates(e[1])[k]

ReferencesIn(N, W) ==
  {e \in {<<i, w, "references">> : i \in {n \in N : n[2] = "import"}, w \in W} :
     \E k \in {1, 2} : /\ FoundAt(e, k)
                       /\ k = 2 => Holders(W, Candidates(e[1])[1]) = {}}

(* index_repository: the files in some order until the limit; a large or a *)
(* binary file is skipped; every file gets a node; imports are resolved.   *)
Readable(d) == {f \in SourceFiles : d[f] # Missing /\ ~Finds[d[f]].large}

IndexedNodes(d, Chosen) ==
  (UNION {SymbolsOf(FullName[f], d[f]) : f \in Chosen})
    \union {FileNode(FullName[f]) : f \in {q \in SourceFiles : d[q] # Missing}}

FullIndex(d, Chosen, W) ==
  LET N == IndexedNodes(d, Chosen)
      E == (UNION {RelationsOf(FullName[f], d[f]) : f \in Chosen}) \union ReferencesIn(N, W)
  IN AddEdges(AddNodes(NoGraph, N), E)

WithinLimit(d) ==
  IF Cardinality(Readable(d)) <= MaxParsed THEN {Readable(d)}
  ELSE {S \in SUBSET Readable(d) : Cardinality(S) = MaxParsed}

----------------------------------------------------------------------------
(* IncrementalIndexer.detect_changes: every file on disk against its hash, *)
(* and the hashes whose file is gone.                                      *)
HashOf(f) == IF f \in DOMAIN hashes THEN hashes[f] ELSE Missing

Detect ==
  /\ detected = Nothing
  /\ detected' = [f \in {q \in SourceFiles : HashOf(q) # tree[q]} |-> tree[f]]
  /\ UNCHANGED <<tree, symbolGraph, hashes, doubtful, rows, loading, treeEdits,
                 parserFailures, saves>>

Without(F, f) == [q \in DOMAIN F \ {f} |-> F[q]]
With(F, f, t) == [q \in DOMAIN F \union {f} |-> IF q = f THEN t ELSE F[q]]

(* update_graph, a file that is gone.                                      *)
RemoveFile(f) ==
  /\ f \in DOMAIN detected /\ detected[f] = Missing
  /\ symbolGraph' = RemoveNodes(symbolGraph, InFile(symbolGraph, f))
  /\ hashes' = Without(hashes, f)
  /\ detected' = Without(detected, f)
  /\ doubtful' = doubtful \ {f}
  /\ UNCHANGED <<tree, rows, loading, treeEdits, parserFailures, saves>>

(* A file with no parser, or one that can no longer be read: nothing       *)
(* changes, and its hash stays what it was.                                *)
SkipFile(f) ==
  /\ f \in DOMAIN detected /\ detected[f] # Missing
  /\ f \notin WiredFiles \/ tree[f] = Missing
  /\ detected' = Without(detected, f)
  /\ UNCHANGED <<tree, symbolGraph, hashes, doubtful, rows, loading, treeEdits,
                 parserFailures, saves>>

ClearedNever(f) == symbolGraph

(* The old symbols are those of a file that had a hash.                    *)
Cleared(f) ==
  IF f \in DOMAIN hashes THEN RemoveNodes(symbolGraph, InFile(symbolGraph, f))
  ELSE symbolGraph

(* The text is read now; the hash that is kept is the one of detection.  A *)
(* syntax error is a warning.                                              *)
ParseFile(f) ==
  /\ f \in DOMAIN detected /\ detected[f] # Missing
  /\ f \in WiredFiles /\ tree[f] # Missing
  /\ symbolGraph' = AddEdges(AddNodes(Cleared(f), SymbolsOf(f, tree[f])),
                          RelationsOf(f, tree[f]))
  /\ hashes' = With(hashes, f, detected[f])
  /\ detected' = Without(detected, f)
  /\ doubtful' = IF tree[f] = detected[f] THEN doubtful \ {f}
                 ELSE doubtful \union {f}
  /\ UNCHANGED <<tree, rows, loading, treeEdits, parserFailures, saves>>

(* The parser raises: the old symbols are gone and the hash is kept.       *)
ParserRaises(f) ==
  /\ parserFailures < MaxParserFailures
  /\ f \in DOMAIN detected /\ detected[f] # Missing
  /\ f \in WiredFiles /\ tree[f] # Missing
  /\ symbolGraph' = Cleared(f)
  /\ detected' = Without(detected, f)
  /\ doubtful' = doubtful \union {f}
  /\ parserFailures' = parserFailures + 1
  /\ UNCHANGED <<tree, hashes, rows, loading, treeEdits, saves>>

(* Another program writes or deletes a file.                               *)
EditFile(f) ==
  /\ treeEdits < MaxTreeEdits
  /\ \E t \in (SourceTexts \union {Missing}) \ {tree[f]} :
       tree' = [tree EXCEPT ![f] = t]
  /\ treeEdits' = treeEdits + 1
  /\ UNCHANGED <<symbolGraph, hashes, detected, doubtful, rows, loading,
                 parserFailures, saves>>

----------------------------------------------------------------------------
(* save_graph: one transaction replaces the rows of the index.             *)
SaveGraph ==
  /\ saves < MaxSaves
  /\ rows' = [nodes |-> symbolGraph.nodes, out |-> symbolGraph.out]
  /\ saves' = saves + 1
  /\ UNCHANGED <<tree, symbolGraph, hashes, detected, doubtful, loading, treeEdits,
                 parserFailures>>

(* load_graph reads the symbols and the relationships one after the other, *)
(* each as it is stored then; an edge whose source is not there is left    *)
(* out.                                                                    *)
LoadSymbols ==
  /\ saves > 0 /\ loading.at = "idle"
  /\ loading' = [NotLoading EXCEPT !.at = "symbols", !.nodes = rows.nodes]
  /\ UNCHANGED <<tree, symbolGraph, hashes, detected, doubtful, rows, treeEdits,
                 parserFailures, saves>>

LoadRelations ==
  /\ loading.at = "symbols"
  /\ loading' = [at |-> "loaded", nodes |-> {},
                 graph |-> AddEdges(AddNodes(NoGraph, loading.nodes), rows.out)]
  /\ UNCHANGED <<tree, symbolGraph, hashes, detected, doubtful, rows, treeEdits,
                 parserFailures, saves>>

----------------------------------------------------------------------------
(* traverse_dependents over the relations of ImpactAnalysisService: level  *)
(* by level; the levels run to one past the depth asked for.               *)
ImpactRelations == {"calls", "references"}

DependentsOf(g, S) ==
  {e[1] : e \in {x \in g.in : x[2] \in S /\ x[3] \in ImpactRelations}}

WithDependents(g, S) == S \union DependentsOf(g, S)

Reached(g, n, depth) ==
  LET within[i \in 0 .. depth + 1] ==
        IF i = 0 THEN {n} ELSE WithDependents(g, within[i - 1])
  IN within[depth + 1]

(* More than max_nodes visited, or more dependents than max_fan_out.       *)
Truncated(g, n, depth) ==
  LET visited == Reached(g, n, depth)
  IN \/ Cardinality(visited) > MaxVisited
     \/ \E m \in visited :
          Cardinality({e \in g.in : e[2] = m /\ e[3] \in ImpactRelations}) > MaxFanOut

Impacted(g, n, depth) == Reached(g, n, depth) \ {n}

----------------------------------------------------------------------------
(* An indexer that starts on nothing, or on the graph of a full index of   *)
(* files whose hashes it was given; a file of the root has its symbols     *)
(* there under another name.                                               *)
Fresh(d) ==
  /\ symbolGraph = NoGraph /\ hashes = Nothing /\ doubtful = {}

Seeded(d) ==
  LET There == {f \in SourceFiles : d[f] # Missing}
  IN \E Chosen \in WithinLimit(d) : \E W \in SymbolTables(IndexedNodes(d, Chosen)) :
       /\ symbolGraph = FullIndex(d, Chosen, W)
       /\ hashes = [f \in There |-> d[f]]
       /\ doubtful = There \ {f \in Chosen : FullName[f] = f}

SemanticIndexInit ==
  /\ tree \in FirstTrees
  /\ Fresh(tree) \/ Seeded(tree)
  /\ detected = Nothing
  /\ rows = [nodes |-> {}, out |-> {}] /\ loading = NotLoading
  /\ treeEdits = 0 /\ parserFailures = 0 /\ saves = 0

NoSemanticIndex ==
  /\ tree = [f \in SourceFiles |-> Missing] /\ symbolGraph = NoGraph
  /\ hashes = Nothing /\ doubtful = {} /\ detected = Nothing
  /\ rows = [nodes |-> {}, out |-> {}] /\ loading = [NotLoading EXCEPT !.at = "loaded"]
  /\ treeEdits = MaxTreeEdits /\ parserFailures = MaxParserFailures
  /\ saves = MaxSaves

SemanticIndexNext ==
  \/ Detect
  \/ \E f \in SourceFiles : RemoveFile(f) \/ SkipFile(f) \/ ParseFile(f)
                            \/ ParserRaises(f) \/ EditFile(f)
  \/ SaveGraph \/ LoadSymbols \/ LoadRelations

SemanticIndexSpec == SemanticIndexInit /\ [][SemanticIndexNext]_indexVars

----------------------------------------------------------------------------
(* Once a file's hash is the one on disk and its symbols came from that    *)
(* text, the graph has exactly the symbols and the relations inside the    *)
(* file that a parse of it finds today, however often it was changed,      *)
(* removed or created again (incremental_indexer.py:156-258).  The cases   *)
(* left out, a file changed between detection and parse or a parser that   *)
(* raised, are where a file set back to its old text is taken for          *)
(* unchanged; and a file of the root is not in what a full index seeded    *)
(* under its own name until it is parsed again.                            *)
MirrorsText ==
  \A f \in WiredFiles \ (doubtful \union DOMAIN detected) :
    HashOf(f) = tree[f] =>
      /\ InFile(symbolGraph, f) \ {FileNode(f)} =
           IF tree[f] = Missing THEN {} ELSE SymbolsOf(f, tree[f])
      /\ {e \in symbolGraph.out : e[1][1] = f /\ e[3] # "references"} =
           IF tree[f] = Missing THEN {} ELSE RelationsOf(f, tree[f])

(* No edge is left over from a symbol that is gone: the two maps of the    *)
(* graph hold the same edges, from a symbol that is there to one that is   *)
(* there or an external one, a reference goes to a symbol of a text and    *)
(* name its import is looked up by;                                        *)
(* a graph read back while it was saved again has no edge without a source *)
(* (semantic_graph.py:235-275, postgres_run_store.py:1444-1460).           *)
EdgesReal ==
  /\ symbolGraph.out = symbolGraph.in
  /\ \A e \in symbolGraph.out :
       /\ e[1] \in symbolGraph.nodes
       /\ e[2] \in symbolGraph.nodes \/ e[2][2] = "external"
       /\ e[3] = "references" => \E k \in {1, 2} : FoundAt(e, k)
  /\ \A e \in loading.graph.out : e[1] \in loading.graph.nodes

(* The graph an agent is given is of the files as they are, however it was *)
(* brought up to date.                                                     *)
GraphExact == MirrorsText /\ EdgesReal

(* A name a text imports once.                                             *)
ImportedOnce(t, i) == \A j \in Finds[t].imports : j[2] = i[2] => j = i

(* The impact of changing a definition names every definition of another   *)
(* file that calls it by the one import of its name, if the import is      *)
(* absolute and its text is the path of the definition's file from the     *)
(* root of the repository, and no other symbol, of the file or of another, *)
(* has that text and name: whenever the index is built afresh and the      *)
(* analysis does not say it was cut short (symbol_resolver.py:59-207,      *)
(* impact_analyzer.py:116-201).                                            *)
ImpactFindsCallers ==
  \A Chosen \in WithinLimit(tree) :
    LET N == IndexedNodes(tree, Chosen)
        Sound == {f \in Chosen : ~Finds[tree[f]].broken}
    IN \A f \in Sound : \A c \in Finds[tree[f]].calls :
         \A i \in {j \in Finds[tree[f]].imports :
                      j[2] = c[2] /\ ImportedOnce(tree[f], j) /\ j[1][1] = 0} :
           \A q \in Sound \ {f} : \A x \in {y \in Finds[tree[q]].defs : y[3] = i[2]} :
             LET called == DefOf(FullName[q], x)
             IN Holders(N, <<i[1][2], i[2]>>) = {called} =>
                  \A W \in SymbolTables(N) :
                    LET g == FullIndex(tree, Chosen, W)
                    IN \A d \in Depths : Truncated(g, called, d)
                                        \/ DefOf(FullName[f], c[1]) \in Impacted(g, called, d)
=============================================================================
