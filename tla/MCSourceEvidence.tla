--------------------------- MODULE MCSourceEvidence ---------------------------
(* Instances of SourceEvidence for TLC. *)
EXTENDS SourceEvidence

CONSTANTS p1, p2, r1, r2, r3, s1, s2, w1, w2

TheRunProject  == [r \in {r1, r2, r3} |-> p1]
TheRunLanguage == [r \in {r1, r2, r3} |-> IF r = r3 THEN "java" ELSE "c"]

Plan(live, engine, requests, loops) ==
    [live |-> live, engine |-> engine, requests |-> requests, loops |-> loops]

\* A job publishes its project, which a client deletes; a bytecode job may copy
\* a project that is deleted meanwhile.
NativeJob   == Plan({}, "native", {<<"delete project", p1>>}, {w1})
BytecodeJob == Plan({p1}, "bytecode", {<<"delete project", p1>>}, {w1})

\* Two runs of one language; runs of two languages; a report while they end.
TwoRuns      == Plan({p1}, "none", {<<"run", r1>>, <<"run", r2>>, <<"report", s1>>}, {w1})
TwoLanguages == Plan({p1}, "none", {<<"run", r1>>, <<"run", r3>>, <<"cancel", r3>>,
                                    <<"report", s1>>}, {w1})

\* Deletions of a run with two reports, of two runs, and of their project.
RunDeleted   == Plan({p1}, "none", {<<"run", r1>>, <<"report", s1>>, <<"report", s2>>,
                                    <<"delete run", r1>>}, {w1})
RunsDeleted  == Plan({p1}, "none", {<<"run", r1>>, <<"run", r3>>, <<"report", s1>>,
                                    <<"delete run", r1>>, <<"delete run", r3>>}, {w1})
ProjectDeleted == Plan({p1}, "none", {<<"run", r1>>, <<"report", s1>>,
                                      <<"delete run", r1>>, <<"delete project", p1>>}, {w1})

\* Two processes of the maintenance loop delete a project.
TwoSweepers == Plan({p1}, "none", {<<"report", s1>>, <<"delete project", p1>>}, {w1, w2})

EvidencePlans == {NativeJob, BytecodeJob, TwoRuns, TwoLanguages, RunDeleted, RunsDeleted,
                  ProjectDeleted, TwoSweepers}
=============================================================================
