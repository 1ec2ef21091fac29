----------------------------- MODULE MonitorIndex -----------------------------
(***************************************************************************)
(* What the monitor knows of one task.  The runs of the task leave two     *)
(* traces that nothing keeps in step: the log of the task, which the       *)
(* engine appends to (taskstore), and a stream of events per attempt,      *)
(* which a recorder writes behind the engine's back (observe).  The        *)
(* monitor's loop polls the log without its lock (taskstore/reader.go),    *)
(* reads the streams (projection.go) and joins them to what it shows       *)
(* (index.go, Refresh).                                                    *)
(*                                                                         *)
(* Runs crash and are resumed, torn lines are cut off by the next append,  *)
(* and somebody outside may put another log in the place of this one.  The *)
(* polling of a stream line by line is the subject of Observation; here a  *)
(* refresh reads the whole of it.                                          *)
(***************************************************************************)
EXTENDS Integers, SequencesExt, FiniteSetsExt

VARIABLES
  phase,      \* of the attempt that runs: idle, begun, started, finished
  attempts,   \* attempts so far; their numbers are in the order of their start
  queue,      \* what the recorder of the last one has not written yet
  emitted,    \* the number of its last event
  course,     \* bound: how many there are to be, what they report, how many
              \* changes are announced, whether somebody watches the page, and
              \* how many requests of it are under way at a time
  faults,     \* bound: what may still go wrong
  disk,       \* the task's directory: none, dir (without a log), file, gone
  log,        \* the complete lines of events.jsonl
  torn,       \* an incomplete line behind them
  foreign,    \* history: it is not the one the runs have written
  streams,    \* of each attempt, what its events.jsonl holds
  dirs,       \* the attempts that have a stream, in the order readDir gives
  quiet,      \* attempts whose last event is older than StaleAfter
  stage,      \* of the monitor's loop: idle, polled, read, changed
  known,      \* the reader has opened the log before (r.info)
  other,      \* the log is another file than the one it opened last
  touched,    \* or has another time
  size,       \* bytes the log had when it was opened
  offset, anchor, \* bytes consumed, and the last of them
  view,       \* the events the index has applied
  err,        \* why it calls the record corrupt: none, unreadable, invalid
  early,      \* history: it looked for a log it had never opened when there was none
              \* in the task's directory, and has not begun anew since
  shown       \* what the index shows of the task (x.tasks)

programVars == <<phase, attempts, queue, emitted, course, faults>>
diskVars == <<disk, log, torn, foreign, streams, dirs, quiet>>
readerVars == <<known, other, touched, size, offset, anchor, view, err, early>>
indexVars == <<programVars, diskVars, stage, readerVars, shown>>

-----------------------------------------------------------------------------
(* The bytes of a log.                                                     *)

NoLine == [kind |-> "none", run |-> 0, report |-> "none", copy |-> 0]

\* Where the first n lines end. A line of another copy of the log is another
\* line, and longer.
endOf(n) == 2 * n + Cardinality({i \in 1 .. n : log[i].copy = 1})

NoCell == [line |-> NoLine, at |-> 0]
length == endOf(Len(log)) + (IF torn THEN 1 ELSE 0)
byte(k) ==
  IF k > endOf(Len(log)) THEN NoCell
  ELSE LET i == Min({j \in DOMAIN log : k <= endOf(j)})
       IN [line |-> log[i], at |-> k - endOf(i - 1)]

-----------------------------------------------------------------------------
(* What the page is given of a task.                                       *)

Absent == [listed |-> FALSE, result |-> 0, text |-> FALSE, report |-> "none",
           activity |-> "unknown", quality |-> "absent", latest |-> 0,
           alerts |-> {}, legacy |-> {}]

\* Inspection.Apply: a run that has started has no result yet.
resultOf(events) ==
  IF events # <<>> /\ Last(events).kind = "finished" THEN Last(events) ELSE NoLine

\* The task as its log has it.
fromLog(events, listed, broken) ==
  LET result == resultOf(events)
  IN [Absent EXCEPT
        !.listed = listed,
        !.result = result.run, !.text = result.run # 0, !.report = result.report,
        !.activity = IF result.run # 0 THEN "result_recorded" ELSE "unknown",
        !.quality = IF ~listed THEN "unconfirmed_end"
                    ELSE IF broken THEN "corrupt" ELSE "historical_incomplete",
        !.alerts = IF broken THEN {<<"record_corrupt", 0>>} ELSE {},
        \* one entry per run of the log, the first of them for what precedes it
        !.legacy = {i \in DOMAIN events :
                      events[i].kind = "started" \/ (i = 2 /\ events[1].kind = "created")}]

returnedIn(es) == {e \in Range(es) : e.kind = "returned"}
lossIn(es) == \E i \in DOMAIN es : es[i].n # i

\* Mutant: any committed end is taken for that of the result.
committedAny(es, sequence) ==
  \E e \in Range(es) : e.kind = "committed" /\ e.what = "finished"

\* The attempt has itself committed the end the log shows last.
committedFinish(es, sequence) ==
  \E e \in Range(es) :
    e.kind = "committed" /\ e.what = "finished" /\ e.sequence = sequence

qualityOf(es) ==
  IF lossIn(es) THEN "incomplete"
  ELSE IF returnedIn(es) = {} THEN "unconfirmed_end" ELSE "normal"

\* An attempt that is later than those before it decides what is shown of the
\* task: the result is withheld when the attempt returned another one, and the
\* report as long as it is not this attempt that wrote it.
decided(t, a, es, sequence) ==
  LET back == returnedIn(es)
      mismatch == back # {} /\ t.result # 0 /\ \A e \in back : e.run # t.result
      withheld == back = {} /\ t.report # "none" /\ ~committedFinish(es, sequence)
  IN [t EXCEPT
        !.latest = a,
        !.activity = IF back # {} THEN "returned" ELSE "unknown",
        !.quality = IF @ = "corrupt" THEN @ ELSE qualityOf(es),
        !.text = @ /\ ~mismatch /\ ~(withheld /\ t.report = "analysis"),
        !.report = IF mismatch \/ withheld THEN "none" ELSE @,
        !.alerts = IF mismatch THEN @ \cup {<<"result_mismatch", a>>} ELSE @]

\* scanObservations adds the attempts one after the other; an entry of the log
\* whose first event an attempt has committed is not shown beside it.
joined(t, a, es, sequence) ==
  LET next == IF a > t.latest THEN decided(t, a, es, sequence) ELSE t
      twice == {e.sequence : e \in {x \in Range(es) : x.kind = "committed"}}
  IN [next EXCEPT !.legacy = @ \ twice]

\* detect: the signs somebody has to look at.
detected(t, old) ==
  LET gaps == {a \in Range(dirs) : lossIn(streams[a])}
      stale == {a \in Range(dirs) \cap old : returnedIn(streams[a]) = {}}
  IN [t EXCEPT
        !.alerts = @ \cup {<<"observation_gap", a>> : a \in gaps}
                     \cup {<<"activity_unknown", a>> : a \in stale},
        !.activity = IF t.latest \in stale THEN "unknown" ELSE @]

\* scanObservations: the task when the first k attempts have been joined to it.
scanned(events, listed, broken) ==
  LET first[k \in 0 .. Len(dirs)] ==
        IF k = 0 THEN fromLog(events, listed, broken)
        ELSE joined(first[k - 1], dirs[k], streams[dirs[k]], Len(events))
  IN first

projected(events, listed, broken) ==
  IF ~listed /\ dirs = <<>> THEN Absent
  ELSE detected(scanned(events, listed, broken)[Len(dirs)], quiet)

-----------------------------------------------------------------------------

IndexInit ==
  /\ phase = "idle" /\ attempts = 0 /\ queue = <<>> /\ emitted = 0
  /\ disk = "none" /\ log = <<>> /\ torn = FALSE /\ foreign = FALSE
  /\ streams = <<>> /\ dirs = <<>> /\ quiet = {}
  /\ stage = "idle" /\ known = FALSE /\ other = FALSE /\ touched = FALSE
  /\ size = 0 /\ offset = 0 /\ anchor = NoCell /\ view = <<>> /\ err = "none"
  /\ early = FALSE
  /\ shown = Absent

-----------------------------------------------------------------------------
(* The runs of the task.                                                   *)

event(kind, what, sequence, run) ==
  [n |-> emitted + 1, kind |-> kind, what |-> what, sequence |-> sequence, run |-> run]

fault(f) == f \in faults /\ faults' = faults \ {f}

\* The recorder takes an event, or has no room for it (see Recorder).
emit(e) ==
  /\ emitted' = emitted + 1
  /\ \/ queue' = Append(queue, e) /\ UNCHANGED faults
     \/ fault("lost") /\ UNCHANGED queue

\* An entry point runs the task, for the first time or again; the recorder of
\* the attempt before has been closed, which waits for what it has to write.
Begin ==
  /\ phase = "idle" /\ attempts < course.attempts /\ queue = <<>>
  /\ phase' = "begun" /\ attempts' = attempts + 1
  /\ emitted' = 1
  /\ queue' = << [n |-> 1, kind |-> "begin", what |-> "", sequence |-> 0, run |-> 0] >>
  /\ streams' = Append(streams, <<>>)
  /\ UNCHANGED <<faults, disk, log, torn, foreign, dirs, quiet>>

\* openTask: the directory is made and synced, and in a second step the log.
Create ==
  /\ phase = "begun"
  /\ disk' = CASE disk = "none" -> "dir"
               [] disk = "dir" -> "file"
               [] OTHER -> "impossible"
  /\ disk' # "impossible"
  /\ UNCHANGED <<programVars, log, torn, foreign, streams, dirs, quiet>>

\* Append: what is left of a torn line goes first.
append(line) ==
  /\ disk = "file"
  /\ log' = Append(log, line) /\ torn' = FALSE /\ touched' = TRUE
  /\ UNCHANGED <<attempts, disk, foreign, streams, dirs, quiet>>

line(kind, report) ==
  [kind |-> kind, run |-> attempts, report |-> report, copy |-> 0]

AppendCreated ==
  /\ phase = "begun" /\ log = <<>>
  /\ append(line("created", "none"))
  /\ UNCHANGED <<phase, queue, emitted, faults>>

AppendStarted ==
  /\ phase = "begun" /\ log # <<>> /\ phase' = "started"
  /\ append(line("started", "none"))
  /\ emit(event("committed", "started", Len(log) + 1, 0))

AppendFinished ==
  /\ phase = "started" /\ phase' = "finished"
  /\ \E report \in course.reports : append(line("finished", report))
  /\ emit(event("committed", "finished", Len(log) + 1, 0))

\* The entry point has its result, the saved one of an earlier run when there
\* was nothing left to do, or none when the run failed before it began.
Return ==
  /\ phase \in {"begun", "finished"} /\ phase' = "idle"
  /\ \E run \in (IF phase = "finished" THEN {attempts} ELSE {0, resultOf(log).run}) :
       emit(event("returned", "", 0, run))
  /\ UNCHANGED <<attempts, diskVars, touched>>

Crash ==
  /\ phase # "idle" /\ phase' = "idle"
  /\ fault("crash")
  /\ queue' = <<>>
  /\ torn' \in (IF disk = "file" THEN {torn, TRUE} ELSE {torn})
  /\ touched' = (touched \/ torn' # torn)
  /\ UNCHANGED <<attempts, emitted, disk, log, foreign, streams, dirs, quiet>>

\* The recorder writes what it has.  Its directory takes any place among those
\* that are there.
Flush ==
  /\ queue # <<>> /\ queue' = <<>>
  /\ streams' = [streams EXCEPT ![attempts] = @ \o queue]
  /\ dirs' \in (IF attempts \in Range(dirs) THEN {dirs}
                ELSE {InsertAt(dirs, i, attempts) : i \in 1 .. Len(dirs) + 1})
  /\ quiet' = quiet \ {attempts}
  /\ UNCHANGED <<phase, attempts, emitted, faults, disk, log, torn, foreign>>

\* No event for longer than StaleAfter.
FallSilent ==
  /\ fault("silence")
  /\ \E a \in Range(dirs) : quiet' = quiet \cup {a}
  /\ UNCHANGED <<phase, attempts, queue, emitted, disk, log, torn, foreign, streams, dirs>>

\* Another log in the place of this one: fewer lines, perhaps not the same
\* ones, in the same file or in another.
Restore ==
  /\ phase = "idle" /\ disk = "file" /\ fault("restore")
  /\ \E n \in 0 .. Len(log), copy \in {0, 1} :
       log' = [i \in 1 .. n |-> [log[i] EXCEPT !.copy = copy]]
  /\ torn' = FALSE /\ foreign' = TRUE
  /\ \/ touched' = TRUE /\ UNCHANGED other
     \/ stage # "polled" /\ other' = TRUE /\ UNCHANGED touched
  /\ UNCHANGED <<phase, attempts, queue, emitted, disk, streams, dirs, quiet>>

\* Somebody moves the log away, and puts it back as another file.
MoveAway ==
  /\ phase = "idle" /\ fault("remove")
  /\ disk = "file" /\ disk' = "gone"
  /\ UNCHANGED <<phase, attempts, queue, emitted, log, torn, foreign, streams, dirs, quiet, other>>

PutBack ==
  /\ disk = "gone" /\ disk' = "file" /\ other' = TRUE
  /\ UNCHANGED <<programVars, log, torn, foreign, streams, dirs, quiet>>

Program ==
  /\ \/ Begin /\ UNCHANGED <<other, touched>>
     \/ Create /\ UNCHANGED <<other, touched>>
     \/ AppendCreated /\ UNCHANGED other
     \/ AppendStarted /\ UNCHANGED other
     \/ AppendFinished /\ UNCHANGED other
     \/ Return /\ UNCHANGED other
     \/ Crash /\ UNCHANGED other
     \/ Flush /\ UNCHANGED <<other, touched>>
     \/ FallSilent /\ UNCHANGED <<other, touched>>
     \/ Restore
     \/ MoveAway /\ UNCHANGED touched
     \/ PutBack /\ UNCHANGED touched
  /\ UNCHANGED <<course, stage, known, size, offset, anchor, view, err, early, shown>>

-----------------------------------------------------------------------------
(* Refresh.                                                                *)

\* Poll: this is not the log that was read, or not as it was then.
replaced == other \/ length < offset \/ (length <= offset /\ touched)

\* The index forgets what it took from the log.
reset(yes) ==
  /\ offset' = IF yes THEN 0 ELSE offset
  /\ anchor' = IF yes THEN NoCell ELSE anchor
  /\ view' = IF yes THEN <<>> ELSE view
  /\ err' = IF yes THEN "none" ELSE err
  /\ early' = (early /\ ~yes)

\* The reader opens the log and looks at its size and time.
OpenLog ==
  /\ stage = "idle" /\ disk = "file" /\ stage' = "polled"
  /\ reset(known /\ replaced)
  /\ known' = TRUE /\ other' = FALSE /\ touched' = FALSE /\ size' = length
  /\ UNCHANGED shown

\* There is no task, or nothing to open where one should be.
NoLog ==
  /\ stage = "idle" /\ disk # "file" /\ stage' = "read"
  /\ err' = IF disk = "none" THEN err ELSE "unreadable"
  /\ early' = (early \/ (disk # "none" /\ ~known))
  /\ UNCHANGED <<known, other, touched, size, offset, anchor, view, shown>>

\* Mutant: a log that is long enough is the one that was read.
rewrittenShorter == anchor # NoCell /\ offset > length

\* The bytes before the offset are not those that were read.
rewritten == anchor # NoCell /\ (offset > length \/ byte(offset) # anchor)

\* The complete lines up to the size seen, from the start or from where the
\* reader is.
ReadLog ==
  /\ stage = "polled" /\ stage' = "read"
  /\ LET from == IF rewritten THEN 0 ELSE offset
         done == IF rewritten THEN <<>> ELSE view
         whole == {n \in 0 .. Len(log) : endOf(n) <= Max({size, from})}
         valid == Len(done) \in whole /\ endOf(Len(done)) = from
     IN /\ view' = IF valid THEN done \o SubSeq(log, Len(done) + 1, Max(whole)) ELSE done
        /\ offset' = IF valid THEN endOf(Max(whole)) ELSE from
        /\ anchor' = IF offset' = 0 THEN NoCell
                     ELSE IF offset' = offset /\ ~rewritten THEN anchor ELSE byte(offset')
        /\ err' = IF ~valid THEN "invalid" ELSE IF rewritten THEN "none" ELSE err
        /\ early' = (early /\ ~rewritten)
  /\ UNCHANGED <<known, other, touched, size, shown>>

\* The streams are read, the task is put together, and compared with what was
\* shown before.
Scan ==
  /\ stage = "read"
  /\ shown' = projected(view, known \/ err # "none", err # "none")
  /\ stage' = IF shown' # shown THEN "changed" ELSE "idle"
  /\ UNCHANGED readerVars

Refresh == (OpenLog \/ NoLog \/ ReadLog \/ Scan) /\ UNCHANGED <<programVars, diskVars>>

-----------------------------------------------------------------------------

IndexTypeOK ==
  /\ phase \in {"idle", "begun", "started", "finished"}
  /\ disk \in {"none", "dir", "file", "gone"}
  /\ stage \in {"idle", "polled", "read", "changed"}
  /\ err \in {"none", "unreadable", "invalid"}
  /\ Len(streams) = attempts /\ Range(dirs) \subseteq 1 .. attempts
  /\ {torn, known, other, touched, early} \subseteq BOOLEAN
  /\ shown.report \in course.reports \cup {"none"}

\* The reader has read a log that nobody has touched since.
upToDate == stage = "read" /\ disk = "file" /\ known /\ ~other /\ ~touched

\* Once it has, the index has all lines of the log and no other, though it read
\* them piece by piece, without the lock, while they were appended, cut, replaced
\* or written anew.  It knows of no error either: bad lines and numbers out of order
\* mark a record (docs/local-monitor.md:39), and there are none.  The code also
\* marks one it looked for in the middle of openTask, and that mark stays.
ReadsTheLog == upToDate => view = log /\ (err = "none" \/ early)

\* What is shown of the newest attempt the index knows: a report stands there
\* only if it is of the run of that attempt, or what that attempt returned.
reportIsCurrent ==
  (shown.report # "none" /\ dirs # <<>>) =>
    LET newest == Max(Range(dirs))
    IN \/ shown.result >= newest
       \/ \E e \in returnedIn(streams[newest]) : e.run = shown.result

\* A report of an earlier run is never shown for a run that has begun since:
\* the log and the streams are read at different times and lag behind the
\* engine in different ways (projection.go:223).  They are matched by the numbers
\* of their lines, so this is said of a log that nobody has replaced.
NoStaleReport == [][Scan /\ ~foreign => reportIsCurrent']_indexVars
=============================================================================
