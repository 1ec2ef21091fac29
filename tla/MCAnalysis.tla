------------------------------- MODULE MCAnalysis -------------------------------
(* A small instance of Analysis: the files, what the model asks for and notes. *)
EXTENDS Analysis, AnalysisCheck

CONSTANTS f1, s1

\* A line, one that opens with a character of two bytes, and the same line again.
MCContents == (f1 :> << <<"a", "n", "h", "t", "a", "n">>, <<"a", "n", "a">> >>)

Bytes(from, limit) ==
    [tool |-> "read", file |-> f1, q |-> [by |-> "bytes", from |-> from, limit |-> limit, numbered |-> FALSE]]
Lines(from, to) ==
    [tool |-> "read", file |-> f1, q |-> [by |-> "lines", from |-> from, to |-> to, numbered |-> TRUE]]
Starts == [tool |-> "spawn", agent |-> s1]

Quote(ev, first, last, quote) == [ev |-> ev, first |-> first, last |-> last, quote |-> quote]
Found(id, kind, cites, deps, scope) ==
    [id |-> id, kind |-> kind, cites |-> cites, deps |-> deps, scope |-> scope]
Says(findings, processed, summaries) ==
    Note("report", [NoReport EXCEPT !.findings = findings, !.processed = processed, !.summaries = summaries])

Fact(id, ev, line) == Found(id, "fact", {Quote(ev, line, line, <<"a">>)}, <<>>, "fragment")

Task(menu, notes, m, t, n, e, faults) ==
    [menu |-> menu, notes |-> notes, models |-> m, tools |-> t, runs |-> n, edits |-> e, faults |-> faults]

MCTasks ==
    {Task({Bytes(0, 3), Lines(2, 2)},
          {Says(<<Fact("F", 1, 1)>>, {1}, {}), Says(<<Fact("G", 2, 2), Fact("F", 2, 2)>>, {2}, {1}), Garbled},
          4, 3, 1, 1, {"model"}),
     Task({Bytes(0, 8)},
          {Says(<<Found("F", "fact", {Quote(1, 1, 2, <<"a", "n", "h", "t">>)}, <<>>, "file"),
                  Found("G", "inference", {}, <<"F">>, "fragment")>>, {1}, {1}),
           Says(<<Found("H", "inference", {}, <<"I">>, "fragment"),
                  Found("I", "inference", {}, <<"H">>, "fragment")>>, {}, {})},
          3, 2, 1, 1, {}),
     Task({Bytes(0, 8), Starts},
          {Says(<<Found("F", "fact", {Quote(1, 1, 1, <<"a">>)}, <<>>, "file")>>, {1}, {}),
           Says(<<Fact("F", 2, 1)>>, {2}, {})}, 5, 3, 1, 1, {"model"}),
     Task({Bytes(0, 3), Lines(2, 2)}, {Says(<<Fact("F", 2, 2)>>, {2}, {})}, 2, 3, 2, 0, {"log", "crash"})}

-----------------------------------------------------------------------------
(* Which findings hold: the search of the code against its result.         *)

Names == <<"p", "q", "r">>
Depends == {<<>>, <<"q">>, <<"r">>, <<"s">>, <<"r", "p">>}
Seen1 == [id |-> 1, source |-> <<"a">>, read |-> executeReadSource(<<"a">>, Bytes(0, 1).q)]
Noted(how, deps) ==
    [NoReport EXCEPT !.findings =
        [i \in 1..3 |-> Found(Names[i], "inference",
                                IF how[i] = "cites" THEN {Quote(1, 1, 1, <<"a">>)} ELSE {},
                                deps[i], "fragment")]]

\* However findings depend on one another, and in whatever order they are
\* looked at, check finds those that can be put behind all they depend on.
ASSUME CheckIsHolding ==
    \A deps \in [1..3 -> Depends], how \in [1..3 -> {"cites", "bare"}] :
        LET r == Noted(how, deps) IN CheckedInTurn(r, {Seen1}) = Holding(r, {Seen1})
=============================================================================
