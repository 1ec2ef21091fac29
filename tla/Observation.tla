------------------------------ MODULE Observation ------------------------------
(***************************************************************************)
(* The monitor's index (internal/monitor) of a recorder's stream.  It      *)
(* reads the file of a recorder that is still writing, without locks and   *)
(* without repairing anything, remembers how far it has read, and shows    *)
(* the run with a judgement on how complete its record is.                 *)
(***************************************************************************)
EXTENDS Recorder

VARIABLES
  opened,       \* the index has opened the file before (info # nil)
  offset,       \* complete lines it has read
  lastSeq,      \* the number of the last of them
  gap,          \* it knows of a loss
  err,          \* why it calls the stream corrupt: none, unreadable, order
  seenCuts,     \* the time of the file when it last looked
  early         \* history: it looked when there was a directory without a file, and
                \* has not begun anew since

monitorVars == <<opened, offset, lastSeq, gap, err, seenCuts, early>>

MonitorInit ==
  /\ opened = FALSE /\ offset = 0 /\ lastSeq = 0 /\ gap = FALSE
  /\ err = "none" /\ seenCuts = 0 /\ early = FALSE

made == writer \in {"open", "broken"}

before(from, seq, i) == IF i = from + 1 THEN seq ELSE file[i - 1].seq

\* Mutant: the loop of poll accepts only numbers without a gap.
acceptedInRow(from, seq) ==
  {n \in from .. Len(file) :
     \A i \in from + 1 .. n : file[i].seq = before(from, seq, i) + 1}

\* The lines the loop of poll accepts after the first `from` ones: each has a
\* larger number than the one before it.
accepted(from, seq) ==
  {n \in from .. Len(file) :
     \A i \in from + 1 .. n : file[i].seq > before(from, seq, i)}

readTo(from, seq) ==
  CHOOSE n \in accepted(from, seq) : \A m \in accepted(from, seq) : m <= n

\* Mutant: only a loss that is declared is one.
declaredIn(from, seq, to) ==
  \E i \in from + 1 .. to : file[i].dropped > 0 \/ file[i].kind = "gap"

\* A number left out, or a line that declares a loss.
lossIn(from, seq, to) ==
  \E i \in from + 1 .. to :
    \/ file[i].seq # before(from, seq, i) + 1
    \/ file[i].dropped > 0 \/ file[i].kind = "gap"

\* Mutant: reading from the start again, poll keeps the last number.
startAfter(again) == <<IF again THEN 0 ELSE offset, lastSeq>>

\* Where poll starts: how many lines it has, and the number of the last.
start(again) == IF again THEN <<0, 0>> ELSE <<offset, lastSeq>>

\* A file whose time changed and whose length did not is read from its start.
\* (TLC works out once what \E binds.)
poll ==
  LET again == opened /\ seenCuts # cuts /\ ~torn /\ Len(file) <= offset
  IN \E s \in {start(again)} : \E to \in {readTo(s[1], s[2])} :
     /\ offset' = to
     /\ lastSeq' = IF to = 0 THEN 0 ELSE file[to].seq
     /\ gap' = ((gap /\ ~again) \/ lossIn(s[1], s[2], to))
     /\ err' = CASE to < Len(file) -> "order"
                 [] to = Len(file) /\ again -> "none"
                 [] OTHER -> err
     /\ opened' = TRUE /\ seenCuts' = cuts
     /\ early' = (early /\ ~again)

\* Between the two steps of openWriter, and for ever when the second fails, there
\* is a directory without a file.
unreadable ==
  /\ err' = "unreadable" /\ early' = TRUE
  /\ UNCHANGED <<opened, offset, lastSeq, gap, seenCuts>>

\* One refresh of the index finds the directory and polls its file; what it
\* shows of it is the projection below.
Refresh == dir /\ IF made THEN poll ELSE unreadable

-----------------------------------------------------------------------------
(* The projection (scanObservations): what the page is given.              *)

read == {file[i] : i \in 1 .. offset}
sawReturn == \E e \in read : e.kind = "returned"

activity ==
  CASE sawReturn -> "returned"
    [] ~sawReturn /\ (\E e \in read : e.kind = "finalized") -> "finalizing"
    [] OTHER -> "unknown"

recordQuality ==
  CASE err # "none" -> "corrupt"
    [] err = "none" /\ gap -> "incomplete"
    [] err = "none" /\ ~gap /\ ~sawReturn -> "unconfirmed_end"
    [] OTHER -> "normal"

\* A stream nothing was read of is not shown.
view ==
  IF offset = 0 THEN [lines |-> 0, activity |-> "absent", quality |-> "absent"]
  ELSE [lines |-> offset, activity |-> activity, quality |-> recordQuality]

-----------------------------------------------------------------------------

vars == <<recorderVars, monitorVars>>

Init == RecorderInit /\ MonitorInit

Record == RecorderNext /\ UNCHANGED monitorVars
Look == UNCHANGED recorderVars /\ Refresh
Next == Record \/ Look

Spec == Init /\ [][Next]_vars

\* The monitor's ticker fires; nothing is assumed of the process observed.
FairSpec == Spec /\ WF_vars(Look)

TypeOK ==
  /\ RecorderTypeOK
  /\ opened \in BOOLEAN /\ gap \in BOOLEAN
  /\ offset \in 0 .. Len(file) /\ lastSeq \in Nat /\ seenCuts \in Nat
  /\ err \in {"none", "unreadable", "order"} /\ early \in BOOLEAN

\* A record shown as normal is whole: the run has returned, and the lines shown
\* are the first events of the run without an exception.
NormalIsWhole ==
  (view.quality = "normal") =>
    /\ caller \in {"returned", "delivered", "closing"}
    /\ \A i \in 1 .. offset : file[i].nth = i

\* Bad lines and numbers out of order mark a stream (docs/local-monitor.md:39).
\* The code also marks for good a sound one it looked for in the middle of
\* openWriter: poll keeps an error until it begins anew.
CorruptIsDamaged ==
  view.quality = "corrupt" =>
    \E i \in 1 .. Len(file) - 1 : file[i + 1].seq <= file[i].seq

\* The quality shown of a stream can be relied on both ways: what is not shown of
\* a normal one did not happen (docs/local-monitor.md:59), and one that is called
\* corrupt is damaged, or was looked for before there was a file.
QualityIsTrue == NormalIsWhole /\ (early \/ CorruptIsDamaged)

\* What a reader makes of the whole file at once.
fileView ==
  IF file = <<>> THEN [lines |-> 0, activity |-> "absent", quality |-> "absent"]
  ELSE LET kinds == {file[i].kind : i \in DOMAIN file}
       IN [lines |-> Len(file),
           activity |-> IF "returned" \in kinds THEN "returned"
                        ELSE IF "finalized" \in kinds THEN "finalizing"
                        ELSE "unknown",
           quality |-> IF \E i \in DOMAIN file : file[i].seq # i \/ file[i].dropped > 0
                       THEN "incomplete"
                       ELSE IF "returned" \in kinds THEN "normal"
                       ELSE "unconfirmed_end"]

\* The same, with the mark an early look leaves.
marked(v) == IF early /\ v.lines > 0 THEN [v EXCEPT !.quality = "corrupt"] ELSE v

\* When the stream no longer grows, because its recorder is done or its process
\* is gone, the index comes to show the whole of it, though it read it piece by
\* piece while it was written; but for its quality, which after an early look
\* stays corrupt.
ViewSettles == <>[](view = marked(fileView))
=============================================================================
