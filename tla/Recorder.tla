------------------------------- MODULE Recorder -------------------------------
(***************************************************************************)
(* The observation stream of one run (internal/observe/recorder.go).       *)
(*                                                                         *)
(* The engine's goroutines, the heartbeat and the entry point offer events *)
(* to a bounded queue under one mutex; a single goroutine drains the queue *)
(* into <attempt>/events.jsonl.  Nothing here may block or fail the run:   *)
(* what does not fit is dropped, and the stream has to say so.             *)
(*                                                                         *)
(* A line is as long as a record may be, so sizes count lines.  The events *)
(* of a batch are sorted before they are written (recorder.go:233), so the *)
(* queues and the batch are sets of numbered events.                       *)
(***************************************************************************)
EXTENDS Integers, Sequences, FiniteSets

CONSTANTS
  QueueSize,      \* events the queue holds (Config.QueueSize)
  UrgentSize,     \* terminal events taken beyond it (16 in emit)
  MaxBytes,       \* lines the stream may hold (Config.MaxAttemptBytes)
  ReserveBytes,   \* lines of it kept for terminal events (Config.ReserveBytes)
  MaxGaps,        \* gap records per stream (8 in drain)
  MaxOrdinary,    \* bound: events of the work and heartbeats that are offered
  MaxFaults       \* bound: failures of the observation directory

ASSUME SizesAssumption ==
  /\ {QueueSize, UrgentSize, MaxBytes, ReserveBytes} \subseteq Nat \ {0}
  /\ {MaxGaps, MaxOrdinary, MaxFaults} \subseteq Nat
  /\ ReserveBytes < MaxBytes

VARIABLES
  caller,       \* how far the entry point has got with the run
  sequence, dropped, reportedDropped, gapRecords,
  returned, closing,
  queue, urgent,
  pc, batch,    \* the writer goroutine and what it still has to write
  writer,       \* its file: none, opening (directory made), open, broken
  dir,          \* <attempt>/ exists
  file,         \* the complete lines of events.jsonl
  torn,         \* an incomplete line behind them that could not be cut off
  cuts,         \* incomplete lines that were: each leaves the file a new time
  ordinary, faults,
  happened      \* history: how many events there were, kept or not

attemptVars == <<sequence, dropped, reportedDropped, gapRecords, returned,
                 closing, queue, urgent, happened>>
writerVars == <<pc, batch, writer, dir, file, torn, cuts>>
recorderVars == <<caller, attemptVars, writerVars, ordinary, faults>>

terminal == {"finalized", "returned", "delivery", "gap", "closed"}
Kind == terminal \cup {"started", "work", "heartbeat"}

\* An event: dropped is what a gap record or the footer declares lost, nth is
\* history too, which of all events of the run it is.
Event == [seq : Nat \ {0}, nth : Nat \ {0}, kind : Kind, dropped : Nat]
event(kind, lost) ==
  [seq |-> sequence + 1, nth |-> happened + 1, kind |-> kind, dropped |-> lost]

Phase == {"running", "finalized", "marked", "returned", "delivered", "closing"}
Stage == {"writing", "last", "footer", "correction", "done"}

RecorderInit ==
  /\ caller = "running"
  /\ sequence = 1 /\ dropped = 0 /\ reportedDropped = 0 /\ gapRecords = 0
  /\ returned = FALSE /\ closing = FALSE
  /\ happened = 1
  /\ queue = {[seq |-> 1, nth |-> 1, kind |-> "started", dropped |-> 0]}
  /\ urgent = {}
  /\ pc = "writing" /\ batch = {}
  /\ writer = "none" /\ dir = FALSE /\ file = <<>> /\ torn = FALSE
  /\ cuts = 0
  /\ ordinary = 0 /\ faults = 0

-----------------------------------------------------------------------------
(* Offering events: every caller holds a.mu for the whole of emit.         *)

\* Mutant: only Close ends the stream.
refusesClosed(kind) == closing

refuses(kind) == closing \/ (kind = "heartbeat" /\ returned)

queued(fits) == fits /\ Cardinality(queue) < QueueSize

\* Mutant: a full queue takes nothing.
rushesNothing(kind, fits) == FALSE

\* A terminal event has places of its own behind a full queue.
rushes(kind, fits) ==
  /\ fits /\ ~queued(fits)
  /\ kind \in terminal /\ Cardinality(urgent) < UrgentSize

\* Only what its callers cannot bound may be too long for a record (~fits).
\* An event that is dropped has taken its number.
emit(kind, fits) ==
  LET e == event(kind, 0)
  IN /\ ~refuses(kind)
     /\ sequence' = sequence + 1 /\ happened' = happened + 1
     /\ queue' = IF queued(fits) THEN queue \cup {e} ELSE queue
     /\ urgent' = IF rushes(kind, fits) THEN urgent \cup {e} ELSE urgent
     /\ dropped' = IF queued(fits) \/ rushes(kind, fits) THEN dropped ELSE dropped + 1
     /\ UNCHANGED <<reportedDropped, gapRecords, returned, closing>>

one == ordinary < MaxOrdinary /\ ordinary' = ordinary + 1

\* A stage of the engine or of one of its subagents.
Work(fits) ==
  /\ caller = "running"
  /\ emit("work", fits) /\ one
  /\ UNCHANGED caller

\* The ticker may win against a stopped clock, so emit itself has to refuse it.
Heartbeat ==
  /\ emit("heartbeat", TRUE) /\ one
  /\ UNCHANGED caller

\* Run's deferred last event.
Finalize ==
  /\ caller = "running" /\ caller' = "finalized"
  /\ emit("finalized", TRUE)

\* Returned marks the attempt first ...
Mark ==
  /\ caller = "finalized" /\ caller' = "marked"
  /\ returned' = TRUE
  /\ UNCHANGED <<sequence, dropped, reportedDropped, gapRecords, closing,
                 queue, urgent, happened>>

\* ... and records the return after it has released the mutex.
Returned ==
  /\ caller = "marked" /\ caller' = "returned"
  /\ emit("returned", TRUE)

\* The answer was printed or sent.
Deliver ==
  /\ caller = "returned" /\ caller' = "delivered"
  /\ emit("delivery", TRUE)

\* Close is deferred: a panic of the run reaches it without Returned.  It then
\* waits for the writer or for a timer and changes nothing more.
Close ==
  /\ caller \in {"running", "finalized", "delivered"} /\ caller' = "closing"
  /\ closing' = TRUE
  /\ UNCHANGED <<sequence, dropped, reportedDropped, gapRecords, returned,
                 queue, urgent, happened>>

Offer ==
  /\ \/ \E fits \in BOOLEAN : Work(fits)
     \/ Heartbeat
     \/ /\ Finalize \/ Mark \/ Returned \/ Deliver \/ Close
        /\ UNCHANGED ordinary
  /\ UNCHANGED <<writerVars, faults>>

-----------------------------------------------------------------------------
(* The writer goroutine.                                                   *)

fail == faults < MaxFaults /\ faults' = faults + 1

\* Mutant: what could not be kept is not counted.
lostQuietly == UNCHANGED attemptVars

\* lost(1), called by the writer for what it could not keep.
lost ==
  /\ dropped' = dropped + 1
  /\ UNCHANGED <<sequence, reportedDropped, gapRecords, returned, closing,
                 queue, urgent, happened>>

\* Takes the queues, and reports what was lost since the last report; the
\* caller has lost `more` just before.
drain(more) ==
  LET total == dropped + more
      gap == IF total > reportedDropped /\ gapRecords < MaxGaps
             THEN {event("gap", total)}
             ELSE {}
  IN /\ batch' = queue \cup urgent \cup gap
     /\ queue' = {} /\ urgent' = {}
     /\ dropped' = total
     /\ sequence' = IF gap = {} THEN sequence ELSE sequence + 1
     /\ happened' = IF gap = {} THEN happened ELSE happened + 1
     /\ gapRecords' = IF gap = {} THEN gapRecords ELSE gapRecords + 1
     /\ reportedDropped' = IF gap = {} THEN reportedDropped ELSE total
     /\ pc' = IF closing THEN "last" ELSE "writing"
     /\ UNCHANGED <<returned, closing, writer, dir, file, torn, cuts>>

\* With nothing left to write, the goroutine is woken by an event or by its
\* ticker, which also syncs the file: a failure to sync counts as a loss.
Drain ==
  /\ pc = "writing" /\ batch = {}
  /\ \/ drain(0) /\ UNCHANGED faults
     \/ writer = "open" /\ fail /\ drain(1)

\* What the stream may hold once a line of this kind is in it.
limit(kind) ==
  CASE kind \notin terminal -> MaxBytes - ReserveBytes
    [] kind = "gap" -> MaxBytes - (ReserveBytes * 3) \div 4
    [] OTHER -> MaxBytes

fitsIn(e) == Len(file) + 1 <= limit(e.kind)

\* The writer is at e: the batch is written in the order of its numbers.
at(e) ==
  /\ e \in batch
  /\ \A f \in batch : e.seq <= f.seq

\* A stream that is full, or whose file can no longer be opened: the directory
\* is made once, and a second attempt to make it fails.
Refuse(e) ==
  /\ at(e)
  /\ ~fitsIn(e) \/ writer = "broken" \/ (writer = "none" /\ dir)
  /\ lost /\ batch' = batch \ {e}
  /\ UNCHANGED <<pc, writer, dir, file, torn, cuts, faults>>

MakeDir(e) ==
  /\ at(e) /\ fitsIn(e) /\ writer = "none" /\ ~dir
  /\ \/ /\ writer' = "opening" /\ dir' = TRUE
        /\ UNCHANGED <<attemptVars, batch, faults>>
     \/ /\ fail /\ lost /\ batch' = batch \ {e}
        /\ UNCHANGED <<writer, dir>>
  /\ UNCHANGED <<pc, file, torn, cuts>>

OpenFile(e) ==
  /\ at(e) /\ writer = "opening"
  /\ \/ /\ writer' = "open"
        /\ UNCHANGED <<attemptVars, batch, faults>>
     \/ /\ fail /\ lost /\ batch' = batch \ {e}
        /\ writer' = "none"
  /\ UNCHANGED <<pc, dir, file, torn, cuts>>

\* A failed write is cut off again; where that fails too nothing is appended
\* any more.
Write(e) ==
  /\ at(e) /\ fitsIn(e) /\ writer = "open"
  /\ batch' = batch \ {e}
  /\ \/ /\ file' = Append(file, e)
        /\ UNCHANGED <<attemptVars, writer, torn, cuts, faults>>
     \/ /\ fail /\ lost
        /\ \/ cuts' = cuts + 1 /\ UNCHANGED <<writer, torn>>
           \/ writer' = "broken" /\ torn' = TRUE /\ UNCHANGED cuts
        /\ UNCHANGED file
  /\ UNCHANGED <<pc, dir>>

\* footer: the number it takes and the losses it declares.
footer(kind, more) ==
  /\ batch' = {event(kind, dropped + more)}
  /\ sequence' = sequence + 1 /\ dropped' = dropped + more
  /\ happened' = happened + 1
  /\ UNCHANGED <<reportedDropped, gapRecords, returned, closing,
                 queue, urgent>>

\* The drain that saw Close was the last one.
Footer ==
  /\ pc = "last" /\ batch = {} /\ pc' = "footer"
  /\ footer("closed", 0)
  /\ UNCHANGED <<writer, dir, file, torn, cuts, faults>>

\* The footer is synced; the correction after a failure is a gap record.
FinalSync ==
  /\ pc = "footer" /\ batch = {}
  /\ \/ /\ pc' = "done"
        /\ UNCHANGED <<attemptVars, batch, faults>>
     \/ /\ writer = "open" /\ fail /\ pc' = "correction"
        /\ footer("gap", 1)
  /\ UNCHANGED <<writer, dir, file, torn, cuts>>

Corrected ==
  /\ pc = "correction" /\ batch = {} /\ pc' = "done"
  /\ UNCHANGED <<attemptVars, batch, writer, dir, file, torn, cuts, faults>>

run ==
  /\ \/ Drain \/ Footer \/ FinalSync \/ Corrected
     \/ \E e \in batch : Refuse(e) \/ MakeDir(e) \/ OpenFile(e) \/ Write(e)
  /\ UNCHANGED <<caller, ordinary>>

\* A process that is killed takes no more steps, which no fairness forbids.
RecorderNext == Offer \/ run

RecorderSpec == RecorderInit /\ [][RecorderNext]_recorderVars

-----------------------------------------------------------------------------
(* What the stream promises.                                               *)

RecorderTypeOK ==
  /\ caller \in Phase /\ pc \in Stage
  /\ writer \in {"none", "opening", "open", "broken"}
  /\ returned \in BOOLEAN /\ closing \in BOOLEAN
  /\ dir \in BOOLEAN /\ torn \in BOOLEAN
  /\ sequence \in Nat /\ dropped \in Nat /\ reportedDropped \in Nat
  /\ gapRecords \in Nat /\ happened \in Nat /\ ordinary \in Nat
  /\ cuts \in Nat /\ faults \in Nat
  /\ queue \subseteq Event /\ urgent \subseteq Event /\ batch \subseteq Event
  /\ file \in Seq(Event)

\* The lines are in the order of their numbers, and a run that has returned
\* shows no sign of life behind its return: the reader takes either for damage.
FileInOrder ==
  \A i, j \in DOMAIN file :
    i < j => /\ file[i].seq < file[j].seq
             /\ file[i].kind = "returned" => file[j].kind # "heartbeat"

\* Of the events of the run up to a line, those that have no line.
missing(e) == (1 .. e.nth) \ {file[i].nth : i \in DOMAIN file}

\* The footer declares at least as many losses as there are events before it
\* that are not in the stream, wherever they got lost: at the queue, at the
\* size limits, or at the disk.
LossesDeclared ==
  \A i \in DOMAIN file :
    file[i].kind = "closed" => Cardinality(missing(file[i])) <= file[i].dropped

\* Where the directory does not fail, the end of a run is in the stream once
\* the recorder is done, however full the queue and the stream have been.
EndKept ==
  (pc = "done" /\ faults = 0) =>
    \A kind \in {"closed"} \cup (IF returned THEN {"finalized", "returned", "delivery"} ELSE {}) :
      \E i \in DOMAIN file : file[i].kind = kind
=============================================================================
