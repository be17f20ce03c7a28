----------------------------- MODULE MCPlanning -----------------------------
(***************************************************************************)
(* What a run is given before it codes: the plan, the index of the         *)
(* repository, the symbols of its files, the context of an agent.  These   *)
(* share nothing; a behaviour is of one of them.                           *)
(***************************************************************************)
EXTENDS Planning, SemanticIndex, SyntaxParsers, AgentContext

(* Answers of up to four steps: three names with any dependencies, only    *)
(* the first on itself; every pattern of repetition that matters with      *)
(* dependencies on two names, one of which no step may have.               *)
A == <<"a">>
B == <<"b">>
C == <<"c">>
A2 == <<"a", 2>>   \* what the second a is renamed to when it comes third

Step(id, deps) == [id |-> id, deps |-> deps]

Patterns == {<<A>>, <<A, B>>, <<A, A, B>>, <<A, B, A>>, <<A2, A, A>>}

Steps(p, names) == {[i \in DOMAIN p |-> Step(p[i], d[i])] : d \in [DOMAIN p -> SUBSET names]}

Graphs3 == {s \in Steps(<<A, B, C>>, {A, B, C}) : B \notin s[2].deps /\ C \notin s[3].deps}

Short == Graphs3 \union UNION {Steps(p, {A, B}) : p \in Patterns}

(* A fourth step that _build_plan drops, on which others depend.           *)
Long == {<<Step(A, x), Step(B, {A}), Step(C, {B}), Step(A2, {})>> :
           x \in SUBSET {C, A2}}

AllResponses == {<<>>} \union Short \union Long

-----------------------------------------------------------------------------
(* Three files: one of the root, one of a directory, and one of a package, *)
(* of a language the indexer is not wired for, whose module text is that   *)
(* of the second; contents that define, import and call, do not parse, or  *)
(* are too large.  A function is imported by its path, another, of which a *)
(* method has the name, relative to what is not this path.                 *)
MCSourceFiles == {"app", "util", "core"}
MCFullName == [app |-> "./app", util |-> "util", core |-> "core"]
MCModuleText == [n \in {"./app", "util", "core"} |-> IF n = "./app" THEN "..app" ELSE "lib.util"]

Text(defs, imports, calls) ==
  [defs |-> defs, imports |-> imports, calls |-> calls, broken |-> FALSE, large |-> FALSE]

Function(name) == <<"function", NoName, name>>
Path == <<0, "lib.util">>
Relative == <<1, "lib.util">>

MCFinds ==
  [defines |-> Text({Function("run"), Function("stop"), <<"method", "Job", "stop">>}, {}, {}),
   imports |-> Text({Function("main")},
                    {<<Path, "run">>, <<Relative, "stop">>, <<Path, NoName>>},
                    {<<Function("main"), n>> : n \in {"run", "stop", "open"}}),
   broken |-> [Text({}, {}, {}) EXCEPT !.broken = TRUE],
   large |-> [Text({Function("run")}, {}, {<<Function("run"), "run">>}) EXCEPT !.large = TRUE]]

MCFirstTrees ==
  {[app |-> "imports", util |-> "defines", core |-> Missing],
   [app |-> "broken", util |-> Missing, core |-> "imports"]}

-----------------------------------------------------------------------------
(* An agent whose items fill the budget, one with texts that repeat, and   *)
(* one asked for while two runs and a goal end; the runs share an id.      *)
X(text, tokens) == [text |-> text, tokens |-> tokens]
Lost(id) == [rejected |-> TRUE, symbols |-> {"f"}, id |-> id]

Approved == [repo |-> "app", verdict |-> "approved", changes |-> TRUE, changeId |-> "m1",
             handoffs |-> <<Lost("m2")>>]
Rejected == [repo |-> "app", verdict |-> "rejected", changes |-> TRUE, changeId |-> "m4",
             handoffs |-> <<Lost("m2"), [Lost("m5") EXCEPT !.rejected = FALSE]>>]
Cancelled == [Rejected EXCEPT !.verdict = "cancelled"]

MCRetirements ==
  {[op |-> "symbols", repo |-> "app", symbols |-> {"f"}, id |-> "m2"],
   [op |-> "one", repo |-> "app", symbols |-> {}, id |-> "m2"],
   [op |-> "delete", repo |-> "app", symbols |-> {}, id |-> "m2"]}

Request(agent, sources, handoffs) ==
  [agent |-> agent, repo |-> "app", symbols |-> {"f"}, sources |-> sources, handoffs |-> handoffs]

Full == Request("repair",
  [task |-> X("t", 400), plan |-> X("p", 400), summary |-> X("s", 400), graph |-> X("g", 400),
   failures |-> X("fail", 800), repairs |-> X("rep", 600), notes |-> X("note", 600),
   engineering |-> X("g", 400)],
  <<X("h", 700), X("note", 100)>>)
Repeating == [Request("reviewer",
  [task |-> X("t", 500), plan |-> X("t", 500), history |-> X("old", 150),
   findings |-> X("rep", 300), repairs |-> X("rep", 300), graph |-> X("g", 300),
   organization |-> X("o", 200)],
  <<X("h", 300)>>) EXCEPT !.symbols = {}]
Small == Request("coding", [task |-> X("t", 100)], <<>>)

MCOccasions ==
  {[runs |-> {Approved}, goals |-> {}, request |-> Full],
   [runs |-> {Cancelled, [Approved EXCEPT !.handoffs = <<>>]},
    goals |-> {[repo |-> "app", id |-> "m6"]}, request |-> Repeating],
   [runs |-> {Rejected, [Approved EXCEPT !.handoffs = <<Lost("m2"), Lost("m3")>>]}, goals |-> {},
    request |-> Small]}

-----------------------------------------------------------------------------
(* Every source of up to two declarations, the first one named a: each     *)
(* stands in the file or in the one before, with two names or a missing    *)
(* one and what it may refer to; and a third one in the second.            *)
Declaration(node, name, up, of) == [node |-> node, name |-> name, up |-> up, of |-> of]

Refers(rule) == rule.bases \/ rule.under = "receiver"

(* What may stand at u, after decls, where the nodes are those of a body.  *)
Placed(decls, u, names, nodes) ==
  {Append(decls, Declaration(n, x, u, "")) : n \in DOMAIN nodes \union {"other"}, x \in names}
  \union {Append(decls, Declaration(n, x, u, "a")) :
            n \in {k \in DOMAIN nodes : Refers(nodes[k])}, x \in names}

NodesIn(bodies, body) == IF body \in DOMAIN bodies THEN bodies[body] ELSE <<>>

Under(language, decls, u, names) ==
  Placed(decls, u, names,
         NodesIn(NodesOf[language], Walk([language |-> language, decls |-> decls])[u].body))

UnderAll(language, sources, u, names) ==
  UNION {Under(language, decls, u, names) : decls \in sources}

Inner(sources) == {decls \in sources : decls[2].node # "other" /\ decls[2].name # ""}

WithThird(language, two) == two \union UnderAll(language, Inner(two), 2, {"a", "b"})

(* All sources that begin with one declaration of a set.                   *)
Growing(language, one) ==
  {<<>>} \union one \union UnderAll(language, one, 0, {"", "a", "b"})
    \union WithThird(language, UnderAll(language, one, 1, {"", "a", "b"}))

AllSources ==
  UNION {{[language |-> language, decls |-> decls] : decls \in Growing(language, Under(language, <<>>, 0, {"a"}))} :
           language \in DOMAIN NodesOf}

-----------------------------------------------------------------------------
NoPlanning ==
  /\ caller = "run" /\ stage = "planning" /\ at = "ended" /\ outcome = "failed"
  /\ tries = 1 /\ attempt = 0
  /\ reqs = "unknown" /\ plan = NoPlan /\ judged = "none"
  /\ SearchInit

PreparationInit ==
  \/ Init /\ NoSemanticIndex /\ NoSyntaxParser /\ NoAgentContext
  \/ NoPlanning /\ SemanticIndexInit /\ NoSyntaxParser /\ NoAgentContext
  \/ NoPlanning /\ NoSemanticIndex /\ SyntaxInit /\ NoAgentContext
  \/ NoPlanning /\ NoSemanticIndex /\ NoSyntaxParser /\ AgentContextInit

PreparationNext ==
  \/ Next /\ UNCHANGED <<indexVars, parserVars, contextVars>>
  \/ SemanticIndexNext /\ UNCHANGED <<vars, parserVars, contextVars>>
  \/ SyntaxNext /\ UNCHANGED <<vars, indexVars, contextVars>>
  \/ AgentContextNext /\ UNCHANGED <<vars, indexVars, parserVars>>

(* Planning goes on as in FairSpec.                                        *)
PreparationSpec ==
  PreparationInit /\ [][PreparationNext]_<<vars, indexVars, parserVars, contextVars>> /\ WF_vars(Next)
=============================================================================
