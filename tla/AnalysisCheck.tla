----------------------------- MODULE AnalysisCheck -----------------------------
(***************************************************************************)
(* The search of ValidateAnalysisReport (internal/engine/                  *)
(* analysis_contract.go) for the findings that hold, step by step; what it *)
(* comes to is Holding of module AnalysisReport.                           *)
(***************************************************************************)
EXTENDS AnalysisReport

\* check itself: from a finding to what it depends on, one that depends on
\* itself failing. "st" is what is known so far: the findings that hold, those
\* that do not, and those being looked at.
RECURSIVE check(_, _, _, _)
check(r, usable, st, id) ==
    LET f == FindingOf(r, id)
        visit(s, d) == IF s.held THEN LET t == check(r, usable, s.st, d)
                                      IN [st |-> t, held |-> d \in t.good]
                       ELSE s
        deps == FoldLeft(visit, [st |-> [st EXCEPT !.open = @ \union {id}], held |-> TRUE], f.deps)
    IN CASE id \in st.good \union st.bad -> st
         [] id \notin IdsOf(r) \/ id \in st.open -> [st EXCEPT !.bad = @ \union {id}]
         [] OTHER ->
              IF ~Sound(f, usable) THEN [st EXCEPT !.bad = @ \union {id}]
              ELSE IF deps.held THEN [deps.st EXCEPT !.good = @ \union {id}, !.open = st.open]
              ELSE [deps.st EXCEPT !.bad = @ \union {id}, !.open = st.open]

CheckedInTurn(r, usable) ==
    FoldLeft(LAMBDA st, f : check(r, usable, st, f.id),
             [good |-> {}, bad |-> {}, open |-> {}], r.findings).good
================================================================================
