------------------------------ MODULE AgentContext ------------------------------
(***************************************************************************)
(* What an agent is told before it works: ContextEngine.build_context and  *)
(* the repository memory it reads, which ended runs and goals write and    *)
(* the memory routes retire, each through database sessions of its own.    *)
(*                                                                         *)
(* A text stands for itself; two items of one text have one dedup key.     *)
(* Scores are in hundredths, tokens as _estimate_tokens counts them.       *)
(***************************************************************************)
EXTENDS Naturals, Sequences, FiniteSets

CONSTANTS
  Occasions,     \* [runs, goals, request]: the runs that end with their
                 \* [repo, verdict, changes, changeId, handoffs], the goals with
                 \* their [repo, id], and the context that is asked for meanwhile,
                 \* [agent, repo, symbols, sources, handoffs]
  Sessions,      \* database sessions in use at a time
  Retirements,   \* requests of the memory routes: [op, repo, symbols, id]
  MemoryLimit,   \* memories a context asks for
  MinConfidence, \* of a memory a context asks for
  Available,     \* ContextBudget.available_context_tokens
  MaxRetirements \* bound

(* What the caller of build_context passes has a text of some tokens each. *)
ASSUME OccasionsAssumption ==
  \A o \in Occasions :
    /\ \A name \in DOMAIN o.request.sources : o.request.sources[name].tokens \in Nat
    /\ Len(o.request.handoffs) \in Nat
    /\ DOMAIN o.request.handoffs = 1 .. Len(o.request.handoffs)
    /\ \A i \in DOMAIN o.request.handoffs : o.request.handoffs[i].tokens \in Nat

VARIABLES
  memories,      \* table repository_memories: id |-> row
  sessions,      \* transactions under way: session |-> [op, read, request]
  toPromote,     \* memories that ended runs and goals still have to write
  serviceMade,   \* CollaborationService has its memory service
  building,      \* the context being built; retired is a history: memories
                 \* out of use when it was begun and not written anew
  retirements    \* requests of the memory routes so far

contextVars == <<memories, sessions, toPromote, serviceMade, building, retirements>>

Live == {"verified", "provisional"}

Memory(repo, kind, status, confidence, symbols) ==
  [repo |-> repo, kind |-> kind, status |-> status, confidence |-> confidence,
   symbols |-> symbols, version |-> 1, used |-> FALSE]

NoMemories == [id \in {} |-> Memory("", "", "", 0, {})]
FreeSession == [op |-> "free", read |-> NoMemories]

-----------------------------------------------------------------------------
(* promote_memory: a run that ended approved or rejected leaves what it    *)
(* changed, and the approaches its handoffs lost.  No patch result has     *)
(* changed_symbols, so an approved change names none.  A memory still to be *)
(* written says what it is of.                                             *)
ToWrite(id, of, repo, symbols) == [id |-> id, of |-> of, repo |-> repo, symbols |-> symbols]

RowOf(w) ==
  IF w.of = "approach" THEN Memory(w.repo, "failed_approach", "provisional", 60, w.symbols)
  ELSE Memory(w.repo, "successful_change", "verified", IF w.of = "goal" THEN 90 ELSE 85, w.symbols)

ApprovedChange(r) ==
  IF r.verdict = "approved" /\ r.changes
  THEN <<ToWrite(r.changeId, "change", r.repo, {})>> ELSE <<>>

FailedApproaches(r) ==
  LET First == SubSeq(r.handoffs, 1, IF Len(r.handoffs) < 5 THEN Len(r.handoffs) ELSE 5)
      Lost == SelectSeq(First, LAMBDA h : h.rejected /\ h.symbols # {})
  IN [i \in DOMAIN Lost |-> ToWrite(Lost[i].id, "approach", r.repo, Lost[i].symbols)]

PromoteRun(r) ==
  /\ toPromote' =
       [toPromote EXCEPT
          !.runs = @ \ {r},
          !.writes = IF r.verdict \in {"approved", "rejected"}
                     THEN @ \o ApprovedChange(r) \o FailedApproaches(r) ELSE @]
  /\ serviceMade' = (serviceMade \/ r.verdict \in {"approved", "rejected"})
  /\ UNCHANGED <<memories, sessions, building, retirements>>

(* A completed goal leaves one, if a run was promoted before it.           *)
PromoteGoal(g) ==
  /\ toPromote' =
       [toPromote EXCEPT
          !.goals = @ \ {g},
          !.writes = IF serviceMade THEN Append(@, ToWrite(g.id, "goal", g.repo, {})) ELSE @]
  /\ UNCHANGED <<memories, sessions, serviceMade, building, retirements>>

(* create_memory, one transaction each, in turn: an id that is taken, or a store    *)
(* that fails, loses the memory and nothing else.                          *)
CreateMemory ==
  /\ toPromote.writes # <<>>
  /\ LET id == Head(toPromote.writes).id
         row == RowOf(Head(toPromote.writes))
     IN \/ /\ id \notin DOMAIN memories
           /\ memories' = [i \in DOMAIN memories \union {id} |->
                             IF i = id THEN row ELSE memories[i]]
           /\ building' = [building EXCEPT !.retired = @ \ {id}]
        \/ UNCHANGED <<memories, building>>
  /\ toPromote' = [toPromote EXCEPT !.writes = Tail(@)]
  /\ UNCHANGED <<sessions, serviceMade, retirements>>

-----------------------------------------------------------------------------
(* A session reads rows, and writes and commits later.  An update changes  *)
(* the columns that were set, by primary key; a row that another           *)
(* transaction deleted meanwhile makes the whole commit fail.              *)
Named(symbols) == {id \in DOMAIN memories : memories[id].symbols \intersect symbols # {}}
InRepo(repo) == {id \in DOMAIN memories : memories[id].repo = repo}
Rows(ids) == [id \in ids |-> memories[id]]

StillThere(s) == DOMAIN sessions[s].read \subseteq DOMAIN memories

Opens(s, op, ids) ==
  /\ sessions[s].op = "free"
  /\ sessions' = [sessions EXCEPT ![s] = [op |-> op, read |-> Rows(ids)]]

Closes(s) == sessions' = [sessions EXCEPT ![s] = FreeSession]

(* A row whose status, version and note of use were set.                   *)
Updated(m, status, version, used) ==
  [repo |-> m.repo, kind |-> m.kind, status |-> status, confidence |-> m.confidence,
   symbols |-> m.symbols, version |-> version, used |-> used]

Stale(m, version) == Updated(m, "stale", version, m.used)
Used(m) == Updated(m, m.status, m.version, TRUE)

Set(s, Changed(_)) ==
  memories' = IF StillThere(s)
              THEN [id \in DOMAIN memories |->
                      IF id \in DOMAIN sessions[s].read THEN Changed(id) ELSE memories[id]]
              ELSE memories

(* invalidate_memories_for_symbols.                                        *)
SelectNamed(s) ==
  /\ retirements < MaxRetirements
  /\ \E q \in Retirements :
       /\ q.op = "symbols"
       /\ Opens(s, "symbols",
                {id \in Named(q.symbols) \intersect InRepo(q.repo) : memories[id].status \in Live})
  /\ retirements' = retirements + 1
  /\ UNCHANGED <<memories, toPromote, serviceMade, building>>

RetireNamed(s) ==
  /\ sessions[s].op = "symbols"
  /\ Set(s, LAMBDA id : Stale(memories[id], memories[id].version))
  /\ Closes(s)
  /\ UNCHANGED <<toPromote, serviceMade, building, retirements>>

(* invalidate_memory: get_memory, which notes the use, then update_memory  *)
(* in a session of its own.                                                *)
GetMemory(s) ==
  /\ retirements < MaxRetirements
  /\ \E q \in Retirements :
       q.op = "one" /\ Opens(s, "get", {q.id} \intersect DOMAIN memories)
  /\ retirements' = retirements + 1
  /\ UNCHANGED <<memories, toPromote, serviceMade, building>>

(* Mutant: the whole row is written as it was read.                        *)
TouchedWhole(s, id) == Used(sessions[s].read[id])

Touched(s, id) == Used(memories[id])

NoteUse(s) ==
  /\ sessions[s].op = "get"
  /\ Set(s, LAMBDA id : Touched(s, id))
  /\ sessions' = [sessions EXCEPT ![s] =
                    IF sessions[s].read # NoMemories /\ StillThere(s)
                    THEN [op |-> "reread", read |-> sessions[s].read] ELSE FreeSession]
  /\ UNCHANGED <<toPromote, serviceMade, building, retirements>>

RereadMemory(s) ==
  /\ sessions[s].op = "reread"
  /\ sessions' = [sessions EXCEPT ![s] =
                    [op |-> "update", read |-> Rows(DOMAIN @.read \intersect DOMAIN memories)]]
  /\ UNCHANGED <<memories, toPromote, serviceMade, building, retirements>>

(* The version is one more than the one that was read.                     *)
UpdateMemory(s) ==
  /\ sessions[s].op = "update"
  /\ Set(s, LAMBDA id : Stale(memories[id], sessions[s].read[id].version + 1))
  /\ Closes(s)
  /\ UNCHANGED <<toPromote, serviceMade, building, retirements>>

(* delete_memory; a row that is gone already is no error.                  *)
SelectDeleted(s) ==
  /\ retirements < MaxRetirements
  /\ \E q \in Retirements :
       q.op = "delete" /\ Opens(s, "delete", {q.id} \intersect DOMAIN memories)
  /\ retirements' = retirements + 1
  /\ UNCHANGED <<memories, toPromote, serviceMade, building>>

DeleteMemory(s) ==
  /\ sessions[s].op = "delete"
  /\ memories' = [id \in DOMAIN memories \ DOMAIN sessions[s].read |-> memories[id]]
  /\ Closes(s)
  /\ UNCHANGED <<toPromote, serviceMade, building, retirements>>

-----------------------------------------------------------------------------
(* query_memories for some symbols: live ones, verified before provisional *)
(* and by confidence; the order in which they were last written breaks a   *)
(* tie, here any order does.                                               *)
WantedAnyStatus(r) ==
  {id \in Named(r.symbols) \intersect InRepo(r.repo) : memories[id].confidence >= MinConfidence}

Wanted(r) ==
  {id \in Named(r.symbols) \intersect InRepo(r.repo) :
     memories[id].status \in Live /\ memories[id].confidence >= MinConfidence}

Before(a, b) ==
  IF memories[a].status = memories[b].status
  THEN memories[a].confidence > memories[b].confidence
  ELSE memories[a].status = "verified"

FirstOf(W) ==
  {S \in SUBSET W : /\ Cardinality(S) = IF Cardinality(W) < MemoryLimit
                                         THEN Cardinality(W) ELSE MemoryLimit
                    /\ \A a \in S, b \in W \ S : ~Before(b, a)}

-----------------------------------------------------------------------------
(* The builders, each an item or more of its category.  r.sources gives    *)
(* what the caller passed, the repository summary and the graph text.      *)
Item(category, score, source, x) ==
  [text |-> x.text, tokens |-> x.tokens, category |-> category, score |-> score,
   provenance |-> {source}, memory |-> "none"]

OneItem(r, name, category, score, source) ==
  IF name \in DOMAIN r.sources THEN <<Item(category, score, source, r.sources[name])>>
  ELSE <<>>

TaskItems(r) == OneItem(r, "task", "task", 100, "requirements")
SummaryItems(r) == OneItem(r, "summary", "repository_summary", 90, "graph")
PlanItems(r) == OneItem(r, "plan", "implementation_plan", 95, "plan")
GraphItems(r) == OneItem(r, "graph", "graph_evidence", 85, "graph")
HistoryItems(r) == OneItem(r, "history", "run_history", 60, "run_memory")
FailureItems(r) == OneItem(r, "failures", "previous_failures", 90, "test_failure")
RepairItems(r) == OneItem(r, "repairs", "previous_repairs", 80, "repair_history")
ReviewItems(r) == OneItem(r, "findings", "review_findings", 70, "review_finding")
NoteItems(r) == OneItem(r, "notes", "agent_notes", 75, "cross_agent")
EngineeringItems(r) == OneItem(r, "engineering", "graph_evidence", 82, "graph")
OrganizationItems(r) == OneItem(r, "organization", "graph_evidence", 80, "graph")

HandoffItems(r) ==
  [i \in DOMAIN r.handoffs |-> Item("agent_handoff", 72, "handoff", r.handoffs[i])]

Listing(S) ==
  CHOOSE f \in [1 .. Cardinality(S) -> S] : \A i, j \in DOMAIN f : f[i] = f[j] => i = j

MemoryItems(read) ==
  LET ids == Listing(DOMAIN read)
  IN [i \in DOMAIN ids |->
        [Item("repository_memory", IF read[ids[i]].confidence < 90
                                    THEN read[ids[i]].confidence ELSE 90,
              "repository_memory", [text |-> ids[i], tokens |-> 400])
           EXCEPT !.memory = ids[i]]]

(* build_context calls them in this order; four of them wait for a store   *)
(* or a graph, and any of these may fail and leave nothing.                *)
NotBuilding(r) ==
  [at |-> "idle", request |-> r, items |-> <<>>, retired |-> {},
   chosen |-> <<>>]

BeginContext ==
  /\ building.at = "idle"
  /\ LET r == building.request
     IN building' =
          [building EXCEPT
             !.at = "history",
             !.items = TaskItems(r) \o SummaryItems(r) \o PlanItems(r) \o GraphItems(r),
             !.retired = {id \in DOMAIN memories : memories[id].status \notin Live}]
  /\ UNCHANGED <<memories, sessions, toPromote, serviceMade, retirements>>

ReadHistory ==
  /\ building.at = "history"
  /\ LET r == building.request
         Rest == FailureItems(r) \o RepairItems(r) \o ReviewItems(r) \o NoteItems(r)
                 \o HandoffItems(r)
     IN \E found \in {HistoryItems(r), <<>>} :
          building' = [building EXCEPT !.at = IF r.symbols = {} THEN "graphs" ELSE "memory",
                                       !.items = @ \o found \o Rest]
  /\ UNCHANGED <<memories, sessions, toPromote, serviceMade, retirements>>

SelectMemories(s) ==
  /\ building.at = "memory"
  /\ \E S \in FirstOf(Wanted(building.request)) : Opens(s, "query", S)
  /\ building' = [building EXCEPT !.at = "marking"]
  /\ UNCHANGED <<memories, toPromote, serviceMade, retirements>>

(* The use of the memories is noted before they are returned.              *)
ReturnMemories(s) ==
  /\ sessions[s].op = "query"
  /\ Set(s, LAMBDA id : Touched(s, id))
  /\ building' = [building EXCEPT !.at = "graphs",
                    !.items = @ \o IF StillThere(s) THEN MemoryItems(sessions[s].read) ELSE <<>>]
  /\ Closes(s)
  /\ UNCHANGED <<toPromote, serviceMade, retirements>>

(* The store of the memories cannot be reached.                            *)
MemoriesFail ==
  /\ building.at = "memory"
  /\ building' = [building EXCEPT !.at = "graphs"]
  /\ UNCHANGED <<memories, sessions, toPromote, serviceMade, retirements>>

ReadGraphs ==
  /\ building.at = "graphs"
  /\ \E known \in {EngineeringItems(building.request), <<>>},
        across \in {OrganizationItems(building.request), <<>>} :
       building' = [building EXCEPT !.at = "rank", !.items = @ \o known \o across]
  /\ UNCHANGED <<memories, sessions, toPromote, serviceMade, retirements>>

-----------------------------------------------------------------------------
(* _rank_candidates: the score of some categories is raised; the sort is   *)
(* stable.                                                                 *)
Floor(category) ==
  CASE category = "task" -> 100
    [] category = "implementation_plan" -> 95
    [] category = "primary_code" -> 90
    [] category = "dependencies" -> 80
    [] category = "callers" -> 70
    [] category = "callees" -> 65
    [] category = "related_tests" -> 60
    [] category = "warnings" -> 50
    [] OTHER -> 0

Precedes(items, i, j) ==
  \/ items[i].score > items[j].score
  \/ items[i].score = items[j].score /\ i < j

ByScore(items) ==
  LET place[i \in DOMAIN items] == 1 + Cardinality({j \in DOMAIN items : Precedes(items, j, i)})
  IN [k \in DOMAIN items |-> items[CHOOSE i \in DOMAIN items : place[i] = k]]

Ranked(items) ==
  ByScore([i \in DOMAIN items |->
             [items[i] EXCEPT !.score = IF @ < Floor(items[i].category)
                                        THEN Floor(items[i].category) ELSE @]])

(* _deduplicate keeps the better of two items of one text where the first  *)
(* stood, with where both came from.                                       *)
Merged(old, x) ==
  [(IF x.score > old.score THEN x ELSE old) EXCEPT
     !.provenance = old.provenance \union x.provenance]

Joined(kept, x) ==
  IF \E k \in DOMAIN kept : kept[k].text = x.text
  THEN [k \in DOMAIN kept |-> IF kept[k].text = x.text THEN Merged(kept[k], x) ELSE kept[k]]
  ELSE Append(kept, x)

Deduplicated(items) ==
  LET kept[i \in 0 .. Len(items)] == IF i = 0 THEN <<>> ELSE Joined(kept[i - 1], items[i])
  IN kept[Len(items)]

-----------------------------------------------------------------------------
(* ContextBudget.config_for_agent: the share and the limit of a category;  *)
(* one that is not listed has a tenth.                                     *)
Shares(agent) ==
  CASE agent = "planner" ->
         [task |-> <<10, 1000>>, repository_summary |-> <<15, 1500>>,
          primary_code |-> <<20, 2000>>, dependencies |-> <<15, 1500>>,
          callers |-> <<10, 1000>>, related_tests |-> <<10, 1000>>,
          run_history |-> <<10, 1000>>, repository_memory |-> <<10, 1000>>]
    [] agent = "coding" ->
         [task |-> <<10, 1000>>, primary_code |-> <<35, 3000>>, dependencies |-> <<15, 1500>>,
          callers |-> <<10, 1000>>, callees |-> <<10, 1000>>, code_chunks |-> <<10, 1000>>,
          graph_evidence |-> <<10, 1000>>]
    [] agent = "test" ->
         [task |-> <<10, 1000>>, related_tests |-> <<30, 2500>>, primary_code |-> <<20, 2000>>,
          dependencies |-> <<10, 1000>>, previous_failures |-> <<10, 1000>>,
          graph_evidence |-> <<10, 1000>>, run_history |-> <<10, 1000>>]
    [] agent = "repair" ->
         [task |-> <<10, 1000>>, previous_failures |-> <<20, 2000>>,
          previous_repairs |-> <<15, 1500>>, primary_code |-> <<20, 2000>>,
          dependencies |-> <<10, 1000>>, callers |-> <<10, 1000>>,
          related_tests |-> <<10, 1000>>, warnings |-> <<5, 500>>]
    [] agent = "reviewer" ->
         [task |-> <<10, 1000>>, implementation_plan |-> <<15, 1500>>,
          primary_code |-> <<20, 2000>>, related_tests |-> <<10, 1000>>,
          dependencies |-> <<10, 1000>>, callers |-> <<5, 500>>,
          review_findings |-> <<10, 1000>>, previous_repairs |-> <<10, 1000>>,
          run_history |-> <<5, 500>>, warnings |-> <<5, 500>>]
    [] OTHER ->
         [task |-> <<15, 1500>>, primary_code |-> <<30, 3000>>, dependencies |-> <<15, 1500>>,
          graph_evidence |-> <<15, 1500>>, run_history |-> <<10, 1000>>,
          warnings |-> <<5, 500>>]

ForOtherAgents == [agent_notes |-> <<15, 800>>, agent_handoff |-> <<20, 1200>>]

Cap(agent, category) ==
  LET share == IF category \in DOMAIN ForOtherAgents THEN ForOtherAgents[category]
               ELSE IF category \in DOMAIN Shares(agent) THEN Shares(agent)[category]
               ELSE <<10, Available>>
      part == (Available * share[1]) \div 100
  IN IF part < share[2] THEN part ELSE share[2]

(* The sum of the first n of some numbers.                                 *)
SumOf(f, n) ==
  LET sum[i \in 0 .. n] == IF i = 0 THEN 0 ELSE sum[i - 1] + f[i]
  IN sum[n]

TokensOf(items) == SumOf([i \in DOMAIN items |-> items[i].tokens], Len(items))

TokensIn(items, category) ==
  SumOf([i \in DOMAIN items |-> IF items[i].category = category THEN items[i].tokens ELSE 0],
        Len(items))

(* _apply_budget: best first, until the budget is used up; an item that    *)
(* would take its category past its limit is left out.                     *)
Fits(kept, x, agent) ==
  /\ TokensOf(kept) < Available
  /\ TokensIn(kept, x.category) + x.tokens <= Cap(agent, x.category)

Taken(kept, x, agent) == IF Fits(kept, x, agent) THEN Append(kept, x) ELSE kept

Within(items, agent) ==
  LET sorted == ByScore(items)
      kept[i \in 0 .. Len(items)] == IF i = 0 THEN <<>> ELSE Taken(kept[i - 1], sorted[i], agent)
  IN kept[Len(items)]

ChooseItems ==
  /\ building.at = "rank"
  /\ building' = [building EXCEPT
                    !.at = "built",
                    !.chosen = Within(Deduplicated(Ranked(building.items)),
                                      building.request.agent)]
  /\ UNCHANGED <<memories, sessions, toPromote, serviceMade, retirements>>

-----------------------------------------------------------------------------
AgentContextInit ==
  /\ memories = NoMemories
  /\ sessions = [s \in Sessions |-> FreeSession]
  /\ \E o \in Occasions :
       /\ toPromote = [runs |-> o.runs, goals |-> o.goals, writes |-> <<>>]
       /\ building = NotBuilding(o.request)
  /\ serviceMade = FALSE /\ retirements = 0

NoAgentContext ==
  /\ memories = NoMemories
  /\ sessions = [s \in Sessions |-> FreeSession]
  /\ toPromote = [runs |-> {}, goals |-> {}, writes |-> <<>>]
  /\ serviceMade = FALSE
  /\ building = [NotBuilding([agent |-> "none"]) EXCEPT !.at = "built"]
  /\ retirements = MaxRetirements

AgentContextNext ==
  \/ \E r \in toPromote.runs : PromoteRun(r)
  \/ \E g \in toPromote.goals : PromoteGoal(g)
  \/ CreateMemory
  \/ \E s \in Sessions :
       \/ SelectNamed(s) \/ RetireNamed(s) \/ GetMemory(s) \/ NoteUse(s)
       \/ RereadMemory(s) \/ UpdateMemory(s) \/ SelectDeleted(s) \/ DeleteMemory(s)
       \/ SelectMemories(s) \/ ReturnMemories(s)
  \/ BeginContext \/ ReadHistory \/ MemoriesFail \/ ReadGraphs \/ ChooseItems

AgentContextSpec == AgentContextInit /\ [][AgentContextNext]_contextVars

-----------------------------------------------------------------------------
(* A memory that was retired stays retired, whoever reads it, notes its    *)
(* use or retires it again in a session that began before: until it is     *)
(* deleted, no commit brings back an older status                          *)
(* (repository_memory_service.py:183-443).                                 *)
RetiredStaysRetired ==
  [][\A id \in DOMAIN memories \intersect DOMAIN memories' :
       memories[id].status \notin Live => memories'[id].status \notin Live]_contextVars

(* A finished context holds no memory that was retired before it was       *)
(* begun and was not written anew; it stays within the limit of every      *)
(* category and, but for the last item, within the budget; of items of one *)
(* text it holds one, no weaker than any other, with all their origins     *)
(* (context_engine.py:131-291, 842-979).                                   *)
RetiredLeftOut ==
  \A i \in DOMAIN building.chosen :
    building.chosen[i].category = "repository_memory" =>
      building.chosen[i].memory \notin building.retired

FitsBudget ==
  LET c == building.chosen
      Categories == {c[i].category : i \in DOMAIN c}
  IN /\ \A k \in Categories : TokensIn(c, k) <= Cap(building.request.agent, k)
     /\ c # <<>> => TokensOf(SubSeq(c, 1, Len(c) - 1)) < Available

KeepsOrigins ==
  LET c == building.chosen
  IN \A i \in DOMAIN c :
       /\ \A j \in DOMAIN c \ {i} : c[i].text # c[j].text
       /\ LET Same == {building.items[j] : j \in {k \in DOMAIN building.items :
                                                   building.items[k].text = c[i].text}}
          IN /\ c[i].provenance = UNION {x.provenance : x \in Same}
             /\ \A x \in Same : x.score <= c[i].score

ContextSound ==
  building.at = "built" => RetiredLeftOut /\ FitsBudget /\ KeepsOrigins
=============================================================================
