-------------------------------- MODULE Artifact --------------------------------
(***************************************************************************)
(* The pages of an artifact: internal/taskstore/store.go gives the output  *)
(* of a tool back piece by piece, cut between characters, whatever bytes   *)
(* it is made of.  Bytes and offsets are those of module ReadFile; an "h"  *)
(* without its "t", or the other way round, is a byte that is no UTF-8.    *)
(***************************************************************************)
EXTENDS ReadFile

\* utf8.UTFMax
MaxChar == 2

\* utf8.DecodeRune: the size of the character at an offset, one for a byte that
\* begins none.
SizeAt(s, i) == IF s[i + 1] = "h" /\ i + 1 < Len(s) /\ s[i + 2] = "t" THEN 2 ELSE 1

Page(from, to, total) == [ok |-> TRUE, from |-> from, to |-> to, eof |-> to >= total]
Refused(offset) == [ok |-> FALSE, from |-> offset, to |-> offset, eof |-> FALSE]

\* The characters that are whole within the limit.
Whole(s, limit) ==
    LET upTo[k \in 0..Len(s)] ==
            IF k = 0 THEN 0
            ELSE LET n == upTo[k - 1] IN
                 IF n < Min({Len(s), limit}) /\ n + SizeAt(s, n) <= limit THEN n + SizeAt(s, n) ELSE n
    IN upTo[Len(s)]

\* ReadArtifact: bytes as they are.
ReadArtifact(s, offset, limit) ==
    IF offset >= Len(s) THEN Page(offset, offset, Len(s))
    ELSE Page(offset, offset + Min({limit, Len(s) - offset}), Len(s))

\* ReadArtifactPage: a few bytes more are read at both ends, to see whether the
\* offset is within a character and how far the last one goes.
ReadArtifactPage(s, offset, limit) ==
    LET start  == Max({0, offset - (MaxChar - 1)})
        stop   == offset + Min({limit, Len(s) - offset})
        data   == Slice(s, start, Min({Len(s), stop + MaxChar}))
        prefix == offset - start
        taken  == Whole(Slice(data, prefix, Len(data)), limit)
    IN IF offset >= Len(s) THEN ReadArtifact(s, offset, limit)
       ELSE IF \E i \in 0..(prefix - 1) : i + SizeAt(data, i) > prefix THEN Refused(offset)
       ELSE IF taken = 0 THEN Refused(offset)
       ELSE Page(offset, offset + taken, Len(s))
=============================================================================
