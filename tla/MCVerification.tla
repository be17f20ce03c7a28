---------------------------- MODULE MCVerification ----------------------------
(***************************************************************************)
(* Verification with plans of up to two commands, children of every kind,  *)
(* and evidence with at most one mark or one unresolved repair.            *)
(***************************************************************************)
EXTENDS Verification

Script(n, c) == [name |-> n, content |-> c]
Ws(c, s, p) == [exists |-> TRUE, config |-> c, scripts |-> s, plainTargets |-> p]
MCWorkspaces ==
  {Ws({"pyproject", "python"}, <<Script("start", "clean"), Script("test:", "clean")>>, TRUE),
   Ws({"pytest.ini"}, <<>>, FALSE),
   Ws({"setup.cfg"}, <<Script("build", "clean"), Script("test", "harmful")>>, TRUE),
   Ws({"python"}, <<Script("lint", "clean"), Script("test", "clean")>>, TRUE),
   Ws({}, <<>>, TRUE),
   [Ws({}, <<>>, TRUE) EXCEPT !.exists = FALSE]}

S(cat, cmd, listed) ==
  [category |-> cat, command |-> cmd, confidence |-> 90, listed |-> listed,
   inside |-> TRUE, clean |-> TRUE, script |-> "none"]
MCRequests == {<<S("lint", "ruff", FALSE), S("test", "pytest", TRUE)>>,
               <<S("test", "pytest", TRUE), S("lint", "lint", TRUE)>>}

MCChildren ==
  {[writes |-> w, ends |-> x, deaf |-> FALSE, heir |-> h] :
     w \in {0, 2}, x \in {"zero", "nonzero"}, h \in BOOLEAN}
    \union {[writes |-> 4, ends |-> "zero", deaf |-> TRUE, heir |-> FALSE],
            [writes |-> 1, ends |-> "never", deaf |-> FALSE, heir |-> TRUE]}

MCFiles == {"a", "b"}
F(c, s, b, f) == [category |-> c, severity |-> s, blocking |-> b, file |-> f]
Answer(fs, as) == [kind |-> "findings", findings |-> fs, assessments |-> as]
MCAnswers ==
  {[kind |-> k, findings |-> {}, assessments |-> {}] : k \in {"unparsed", "unavailable"}}
    \union {Answer({}, {}), Answer({}, {"satisfied"}), Answer({}, {"unsatisfied", "not_applicable"}),
            Answer({F("correctness", "high", TRUE, "b")}, {}),
            Answer({F("quality", "medium", TRUE, "none")}, {}),
            Answer({F("security", "high", FALSE, "b"), F("tampering", "low", FALSE, "a")}, {"satisfied"})}

Trouble ==
  {<<r, {}>> : r \in RepairStatus} \union {<<"none", {k}>> : k \in Marks}

MCCases ==
  {[tests |-> t, failures |-> IF t = "failed" THEN 4 ELSE 0, reqs |-> q[1], mapped |-> q[2],
    objective |-> q[3], repair |-> x[1], plan |-> p[1], patch |-> p[2], marks |-> x[2],
    files |-> IF p[2] THEN {"a"} ELSE {}, repaired |-> {}] :
     t \in TestStatus,
     q \in {<<{}, {}, FALSE>>, <<{}, {}, TRUE>>, <<{"r1"}, {}, TRUE>>, <<{"r1", "r2"}, {"r1"}, TRUE>>,
            <<{"r1", "r2"}, {"r1", "r2"}, TRUE>>},
     x \in Trouble,
     p \in {<<TRUE, TRUE>>, <<FALSE, TRUE>>, <<TRUE, FALSE>>}}
    \union {[NoEvidence EXCEPT !.tests = "passed", !.plan = TRUE, !.patch = TRUE,
                               !.reqs = {"r1"}, !.mapped = {"r1"}, !.objective = TRUE,
                               !.files = {"a"}, !.repaired = {"b"}]}
=============================================================================
