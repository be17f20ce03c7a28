--------------------------- MODULE AgentHandoffs ---------------------------
(***************************************************************************)
(* The handoffs of CollaborationService                                    *)
(* (app/services/collaboration_service.py): what one agent tells the next, *)
(* how the claims in it are judged against the patch and the tests, and    *)
(* the two places a handoff lives in, the list of the process and the      *)
(* table of the database.                                                  *)
(*                                                                         *)
(* A handoff's text is the set of claims its wording makes.  Evidence      *)
(* references, artefacts, warnings and questions are never judged and are  *)
(* left out, as are the bounds (50 handoffs, 8 of them selected): a run    *)
(* makes at most seven.                                                    *)
(***************************************************************************)
EXTENDS Naturals, Sequences, FiniteSets, SequencesExt

HandoffStatus == {"validated", "partial", "unverified", "rejected"}
Verdicts == {"validated", "unverified", "rejected", "none"}

(* Words the services look for in a text: success, failure, "done" or      *)
(* "complete", "ready".                                                    *)
Words == {"pass", "fail", "done", "ready"}

(* The handoffs execute_run creates, in the order of a run: who tells whom *)
(* and which symbols it names, if any.                                     *)
Handoffs ==
  [ plan     |-> [from |-> "planner",  to |-> "coding"],
    code     |-> [from |-> "coding",   to |-> "testing"],
    failing  |-> [from |-> "testing",  to |-> "repair"],
    repaired |-> [from |-> "repair",   to |-> "testing"],
    passed   |-> [from |-> "testing",  to |-> "reviewer"],
    retested |-> [from |-> "testing",  to |-> "reviewer"],
    reviewed |-> [from |-> "reviewer", to |-> "quality_gate"] ]

HandoffIds == DOMAIN Handoffs

AgentHandoff ==
  [ id : HandoffIds, words : SUBSET Words, symbols : {"none", "patch", "other"},
    status : HandoffStatus, symbol : Verdicts, claim : Verdicts,
    conflict : BOOLEAN ]

NewHandoff(id, words, symbols) ==
  [ id |-> id, words |-> words, symbols |-> symbols, status |-> "unverified",
    symbol |-> "none", claim |-> "none", conflict |-> FALSE ]

From(h) == Handoffs[h.id].from
To(h) == Handoffs[h.id].to
-----------------------------------------------------------------------------
(* _persist_handoff, _persist_handoff_status: one insert, or one update of *)
(* a row that must be there.  With the write lost the table stays.         *)
Inserted(rows, h, lost) == IF lost THEN rows ELSE Append(rows, h)
Updated(rows, h, lost) ==
  IF lost THEN rows
  ELSE [i \in DOMAIN rows |-> IF rows[i].id = h.id THEN h ELSE rows[i]]

(* list_handoffs: the process's own list when it has one, else the table.  *)
(* A process that created one handoff after a restart sees only that one.  *)
ListHandoffs(mirror, rows) == IF mirror # <<>> THEN mirror ELSE rows

(* retrieve_relevant_handoffs: those addressed to the agent first, in      *)
(* order, then the others, newest first, up to limit.                      *)
Preferred(list, agent, i, j) ==
  IF To(list[i]) = agent THEN To(list[j]) = agent => i < j
  ELSE To(list[j]) # agent /\ i > j
RetrieveRelevantHandoffs(list, agent, limit) ==
  {list[j] : j \in {j \in DOMAIN list :
     Cardinality({i \in DOMAIN list \ {j} : Preferred(list, agent, i, j)}) < limit}}
-----------------------------------------------------------------------------
(* validate_handoff.  A symbol is validated when it matches a changed file *)
(* of the patch; a claim about tests is compared with the tests, success   *)
(* words before failure words.                                             *)
SymbolVerdict(h, patched) ==
  IF h.symbols = "none" THEN "none"
  ELSE IF h.symbols = "patch" /\ patched THEN "validated" ELSE "unverified"

ClaimVerdict(h, tests) ==
  IF tests = "none" THEN "none"
  ELSE IF "pass" \in h.words THEN IF tests = "passed" THEN "validated" ELSE "rejected"
  ELSE IF "fail" \in h.words THEN IF tests = "passed" THEN "rejected" ELSE "validated"
  ELSE "unverified"

(* The verdicts replace the earlier ones, a conflict's mark included.      *)
ValidateHandoff(h, patched, tests) ==
  LET s == SymbolVerdict(h, patched)
      c == ClaimVerdict(h, tests)
  IN [h EXCEPT !.symbol = s, !.claim = c, !.conflict = FALSE,
        !.status = IF "rejected" \in {s, c} THEN "rejected"
                   ELSE IF "validated" \in {s, c} THEN "partial"
                   ELSE "unverified"]

(* detect_conflicts: a claim of success against failed tests is marked and *)
(* rejected; the second component says that a conflict is recorded.        *)
DetectConflicts(h, tests) ==
  IF "pass" \in h.words /\ tests \notin {"none", "passed"}
  THEN <<[h EXCEPT !.status = "rejected", !.conflict = TRUE], TRUE>>
  ELSE <<h, FALSE>>

(* _detect_handoff_conflicts, the judgement of one handoff.                *)
Judged(h, patched, tests) ==
  DetectConflicts(ValidateHandoff(h, patched, tests), tests)[1]

(* promote_memory: after a gate that approved or rejected, the rejected    *)
(* handoffs that name symbols become failed approaches, and an approved    *)
(* patch a successful change.                                              *)
PromoteMemory(list, gate) ==
  IF gate \notin {"approved", "rejected"} THEN {}
  ELSE (IF gate = "approved" THEN {"successful_change"} ELSE {})
         \union {list[i].id : i \in {j \in DOMAIN list :
                    j <= 5 /\ list[j].status = "rejected"
                    /\ list[j].symbols # "none"}}
=============================================================================
