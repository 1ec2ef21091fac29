----------------------------- MODULE MCConversation -----------------------------
(* A small instance of Conversation: the files, and what the model asks for. *)
EXTENDS Conversation, Artifact

CONSTANTS f1, f2, d1, d2

\* f1 has three lines of ten bytes, then one of two; f2 a character of two bytes.
MCContents == (f1 :> << <<"a", "n", "a", "a", "n", "a", "a", "a", "a", "a">>, <<"a", "n">> >>)
              @@ (f2 :> << <<"h", "t">>, <<"a">> >>)

\* d1 may become a directory, d2 be gone or behind a link.
MCKinds == (d1 :> {"dir", "file"}) @@ (d2 :> {"missing", "link", "file"})

Bytes(f, from, limit) ==
    [tool |-> "read", file |-> f, review |-> 0,
     q |-> [by |-> "bytes", from |-> from, limit |-> limit, numbered |-> FALSE]]
Lines(f, from, to) ==
    [tool |-> "read", file |-> f, review |-> 0,
     q |-> [by |-> "lines", from |-> from, to |-> to, numbered |-> TRUE]]
Reviews(f, act) == [Bytes(f, 0, 8) EXCEPT !.review = act]
Finds == [tool |-> "find"]
Lists(p) == [tool |-> "list", path |-> p]
Task(menu, system, faults, m, t, n, e) ==
    [menu |-> menu, system |-> system, faults |-> faults, models |-> m, tools |-> t, runs |-> n, edits |-> e]

\* One line asked for in two ways, and the rest of the file; the whole
\* workspace; paths that cannot be listed; a request that cannot fit.
MCTasks ==
    {Task({Bytes(f1, 0, 2), Lines(f1, 1, 1), Bytes(f1, 2, 8)}, 1, {}, 3, 4, 1, 1),
     Task({Finds, Bytes(f1, 0, 8), Bytes(f1, 8, 8), Bytes(f2, 0, 8)}, 1, {}, 3, 4, 1, 1),
     Task({Lists(d1), Lists(d2)}, 1, {}, 4, 4, 3, 1),
     Task({Lists(d1)}, 1, {"log", "cancel"}, 4, 3, 2, 1),
     Task({Bytes(f2, 0, 8), Reviews(f2, 1)}, 1, {}, 3, 3, 1, 1),
     Task({Lists(d1)}, 13, {}, 1, 1, 1, 0)}

-----------------------------------------------------------------------------
(* The pure algorithms against what they stand for, on small inputs.       *)

Texts == UNION {[1..n -> {"a", "n"}] : n \in 0..4}
         \union {<<"h", "t", "n", "a", "h", "t">>, <<"a", "h", "t">>, <<"n", "a", "n", "a", "a", "n", "a">>}
Asked == {[by |-> "bytes", from |-> f, limit |-> l, numbered |-> b] :
             f \in {0, 1, 2, 4}, l \in {1, 3, 8}, b \in BOOLEAN}
         \union {[by |-> "lines", from |-> f, to |-> t, numbered |-> TRUE] : f, t \in 1..3}

\* Whatever a read tells of another request is what that one would return (or
\* nothing, where its limit is too small for a character).
ASSUME KnownIsExact ==
    \A s \in Texts : \A r, q \in Asked :
        LET read  == executeReadSource(s, r)
            known == knownReadInterval(q, read, Slice(s, read.from, read.to))
            then  == executeReadSource(s, q)
        IN read.ok /\ known.known /\ known.from < known.to /\ (q.by = "lines" => q.from <= q.to) =>
               then.ok /\ then.from = known.from /\ then.to = known.to

Intervals == {x \in [from : 0..4, to : 0..4] : x.from <= x.to}
Rest(gaps) == UNION {Within(gaps[k]) : k \in DOMAIN gaps}

\* The gaps are the bytes in no interval, and what is counted is the others;
\* the same holds of the overlap of a read with earlier ones.
ASSUME GapsAreTheRest ==
    \A a, b, c \in Intervals :
        LET held == UNION {Within(x) : x \in {a, b, c}}
            rep  == Gaps({a, b, c}, 4)
        IN /\ Rest(rep.gaps) = (0..3) \ held
           /\ rep.read = Cardinality(held \cap (0..3))
           /\ Overlap({a, b}, c) = Cardinality((Within(a) \union Within(b)) \cap Within(c))

\* Whoever follows the pages of an artifact from one to the next gets all of its
\* bytes, each character whole, with any limit that holds a character: an offset
\* is refused only inside a character, every page goes on, and none ends inside
\* one (ReadArtifactPage).
ASSUME PagesMakeTheWhole ==
    \A s \in Texts \union [1..4 -> {"a", "h", "t"}] : \A offset \in 0..(Len(s) + 1), limit \in 1..3 :
        LET page == ReadArtifactPage(s, offset, limit)
            inside(i) == i > 0 /\ i < Len(s) /\ SizeAt(s, i - 1) = 2
        IN /\ page.ok <=> ~inside(offset) /\ (offset < Len(s) => SizeAt(s, offset) <= limit)
           /\ page.ok => /\ ~inside(page.to) /\ page.to <= offset + limit
                         /\ offset < Len(s) => page.to > offset /\ page.to <= Len(s)
                         /\ page.eof <=> page.to >= Len(s)
=============================================================================
