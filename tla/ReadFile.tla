-------------------------------- MODULE ReadFile --------------------------------
(***************************************************************************)
(* internal/tools/read_file.go and read_lines.go: which bytes of a file a  *)
(* call returns; and internal/engine: what can be told of a call from the  *)
(* bytes an earlier one returned (read_reuse.go), and of a file from the   *)
(* intervals read of it (reading_coverage.go).                             *)
(*                                                                         *)
(* A byte is "a" (a character of one byte), "n" (a newline), "h" or "t"    *)
(* (the first and the second byte of a character of two). Offsets count    *)
(* from 0, as in the code: byte i of an offset is Source[i + 1].           *)
(***************************************************************************)
EXTENDS Naturals, Sequences, FiniteSets, SequencesExt, FiniteSetsExt

CONSTANTS
    MaxRead,       \* maxReadBytes: default and largest limit, and size of a numbered text
    Label, Again   \* bytes of a line's number; what a continued line's has more

\* A page holds a character with the number of its line.
ASSUME ReadAssumption ==
    /\ MaxRead \in Nat /\ Label \in Nat /\ Again \in Nat
    /\ Label + Again + 2 <= MaxRead

Byte == {"a", "n", "h", "t"}

\* utf8StreamCheck: every character is whole. Other files are not modelled.
ValidText(s) ==
    /\ s \in Seq(Byte)
    /\ \A i \in DOMAIN s : s[i] = "t" <=> i > 1 /\ s[i - 1] = "h"
    /\ s # <<>> => s[Len(s)] # "h"

\* The arguments parseRead and parseReadLines accept.
ByBytes == [by : {"bytes"}, from : Nat, limit : 1..MaxRead, numbered : BOOLEAN]
ByLines == [by : {"lines"}, from : Nat \ {0}, to : Nat, numbered : BOOLEAN]
Request == ByBytes \union ByLines

Newlines(s) == Cardinality({i \in DOMAIN s : s[i] = "n"})
Slice(s, from, to) == SubSeq(s, from + 1, to)

\* utf8.RuneStart of the byte at an offset; the end of the bytes is a boundary.
Boundary(s, i) == i >= Len(s) \/ s[i + 1] # "t"

\* The longest prefix of at most n bytes that ends between two characters.
Trimmed(s, n) == Max({i \in 0..n : i <= Len(s) /\ Boundary(s, i)})

\* Offsets at which a line begins.
LineStarts(s) == {i \in 0..(Len(s) - 1) : i = 0 \/ s[i] = "n"}

\* numberedContent: as many characters as fit with the numbers of their lines;
\* a number is written only with a character of its line.
Consumed(s, continued) ==
    LET size(n) == n + Label * Cardinality({i \in LineStarts(s) : i < n})
                     + (IF continued /\ n > 0 THEN Again ELSE 0)
    IN Max({n \in 0..Len(s) : Boundary(s, n) /\ size(n) <= MaxRead})

\* lineWindow: the bytes of the lines from..to, or the end of the file.
LinesOf(s, from, to) ==
    LET line(i) == 1 + Newlines(SubSeq(s, 1, i))
        mine    == {i \in 0..(Len(s) - 1) : line(i) \in from..to}
    IN IF mine = {} THEN [from |-> Len(s), to |-> Len(s)]
       ELSE [from |-> Min(mine), to |-> Max(mine) + 1]

NoRead == [ok |-> FALSE, from |-> 0, to |-> 0, first |-> 0, last |-> 0, total |-> 0]

\* The receipt of the bytes from..to: its lines are those it holds a byte of.
Receipt(s, from, to, first) ==
    LET data == Slice(s, from, to) IN
    [ok |-> TRUE, from |-> from, to |-> to, total |-> Len(s),
     first |-> IF data = <<>> THEN 0 ELSE first,
     last  |-> IF data = <<>> THEN 0
               ELSE first + Newlines(data) - (IF Last(data) = "n" THEN 1 ELSE 0)]

\* executeReadSource on a file whose content is s.
executeReadSource(s, q) ==
    LET lines  == LinesOf(s, q.from, q.to)
        start  == IF q.by = "lines" THEN lines.from ELSE q.from
        limit  == IF q.by = "lines" THEN MaxRead ELSE q.limit
        source == IF q.by = "lines" THEN Slice(s, start, lines.to) ELSE Slice(s, start, Len(s))
        window == SubSeq(source, 1, Trimmed(source, limit))
        first  == IF q.by = "lines" THEN q.from ELSE 1 + Newlines(Slice(s, 0, start))
        middle == q.by = "bytes" /\ start > 0 /\ s[start] # "n"
        size   == IF q.numbered THEN Consumed(window, middle) ELSE Len(window)
    IN IF \/ start > Len(s)                           \* behind the end
          \/ ~Boundary(s, start)                      \* inside a character
          \/ source # <<>> /\ window = <<>>           \* a limit too small for one
       THEN NoRead
       ELSE Receipt(s, start, start + size, first)

-----------------------------------------------------------------------------
(* What an earlier receipt, with its source, says of a call.               *)

Unknown == [known |-> FALSE, from |-> 0, to |-> 0]

\* Would the interval be shown whole? The estimate takes every line of it for
\* a continued one.
Fits(data, numbered) ==
    /\ Len(data) <= MaxRead
    /\ numbered => Len(data) + (Newlines(data) + 1) * (Label + Again) <= MaxRead

\* knownReadInterval, by lines: the first line of a page counts only at the
\* start of the file, the last one only with its newline or at the end.
KnownLines(q, read, source) ==
    LET line(i) == read.first + Newlines(SubSeq(source, 1, i))
        mine    == {i \in 0..(Len(source) - 1) : line(i) \in q.from..q.to}
    IN IF \/ q.from < read.first \/ q.to > read.last
          \/ q.from = read.first /\ read.from # 0
          \/ mine = {}
          \/ source[Max(mine) + 1] # "n" /\ read.to # read.total
       THEN Unknown
       ELSE [known |-> TRUE, from |-> read.from + Min(mine), to |-> read.from + Max(mine) + 1]

\* knownReadInterval, by bytes.
KnownBytes(q, read, source) ==
    LET end   == Min({q.from + q.limit, read.total})
        at    == q.from - read.from
        local == Slice(source, at, end - read.from)
    IN IF \/ q.from > read.total \/ q.from < read.from \/ end > read.to
          \/ ~Boundary(source, at)
       THEN Unknown
       ELSE [known |-> TRUE, from |-> q.from,
             to |-> q.from + Max({i \in 0..Len(local) : Boundary(source, at + i)})]

\* What an action on this version would return of the request, if it can be
\* told from an earlier one.
knownReadInterval(q, read, source) ==
    LET known == IF q.by = "lines" THEN KnownLines(q, read, source) ELSE KnownBytes(q, read, source)
        data  == Slice(source, known.from - read.from, known.to - read.from)
    IN IF known.known /\ Fits(data, q.numbered) THEN known ELSE Unknown

-----------------------------------------------------------------------------
(* Intervals: half-open, of one file version.                              *)

Within(x) == x.from..(x.to - 1)

\* Of the intervals that are left, the one that begins first.
Earliest(left) == CHOOSE x \in left : \A y \in left : x.from <= y.from

\* The cursor of coverageFromManifest passes an interval.
Passed(acc, x, total) ==
    LET to == Min({total, x.to}) IN
    [left   |-> acc.left \ {x},
     cursor |-> Max({acc.cursor, to}),
     read   |-> acc.read + (IF to > acc.cursor THEN to - Max({acc.cursor, x.from}) ELSE 0),
     gaps   |-> IF x.from > acc.cursor
                THEN Append(acc.gaps, [from |-> acc.cursor, to |-> x.from]) ELSE acc.gaps]

\* What it has seen behind the first k of them.
Sweep(intervals, total) ==
    LET behind[k \in 0..Cardinality(intervals)] ==
            IF k = 0 THEN [left |-> intervals, cursor |-> 0, read |-> 0, gaps |-> <<>>]
            ELSE Passed(behind[k - 1], Earliest(behind[k - 1].left), total)
    IN behind

\* In the order of their start, the intervals leave gaps, and the bytes read are
\* counted once.
Gaps(intervals, total) ==
    LET end == Sweep(intervals, total)[Cardinality(intervals)]
    IN [read |-> end.read,
        gaps |-> IF end.cursor < total
                 THEN Append(end.gaps, [from |-> end.cursor, to |-> total]) ELSE end.gaps]

\* annotateReadOverlap: how much of a read earlier intervals hold already.
Overlap(old, x) ==
    LET order == SetToSortSeq({[from |-> Max({o.from, x.from}), to |-> Min({o.to, x.to})] : o \in old},
                              LAMBDA a, b : a.from < b.from)
        next(acc, o) == IF o.to > Max({acc.cursor, o.from})
                        THEN [cursor |-> o.to, sum |-> acc.sum + o.to - Max({acc.cursor, o.from})]
                        ELSE acc
    IN FoldLeft(next, [cursor |-> x.from, sum |-> 0], order).sum

=============================================================================
