------------------------------- MODULE TaskStore -------------------------------
(***************************************************************************)
(* internal/taskstore/store.go: one task's event log and snapshot inside   *)
(* a workspace whose store is guarded by an exclusive flock.               *)
(*                                                                         *)
(* A process that holds the store opens (or creates) the task, appends     *)
(* events - check the size, truncate a torn tail, write, fsync - and       *)
(* commits snapshots by rename.  Every file system call may fail, a        *)
(* process may die between two of them, and the machine may lose power,    *)
(* which takes back whatever was not synced.                               *)
(*                                                                         *)
(* The file is a sequence of complete lines and a flag for an incomplete   *)
(* last one, so a byte offset is a number of lines.  flock, the page       *)
(* cache and the disk are the operating system's and are modelled as the   *)
(* code uses them.                                                         *)
(***************************************************************************)
EXTENDS Naturals, Sequences, SequencesExt, FiniteSets

CONSTANTS
    Proc,               \* processes that may open the store
    NoProc,             \* "nobody holds the lock"
    Payload,            \* what an event may carry
    MaxEvents,          \* bound: no event is appended to a log of this length
    SyncErrorDropsPages \* does a failed fsync forget the pages it could not write?

ASSUME ProcAssumption  == NoProc \notin Proc
ASSUME BoundAssumption == MaxEvents \in Nat
ASSUME SyncAssumption  == SyncErrorDropsPages \in BOOLEAN

VARIABLES
    lock,       \* holder of taskstore.lock, or NoProc
    pc,         \* where each process stands: what it has open, which call is next
    sequence,   \* Task.sequence of each process, which is also Task.offset
    writeError, \* Task.writeError # nil
    fresh,      \* has this session appended an event successfully?
    entry,      \* 0: no task directory, 1: directory, 2: directory and log file
    entrySafe,  \* the part of entry that a power loss cannot take back
    lines,      \* complete lines of events.jsonl, as any process reads them
    tornLine,   \* does an incomplete line follow them?
    safe,       \* how many lines a power loss cannot take back
    dropped,    \* some unsynced line was forgotten by a failed fsync
    snap,       \* Snapshot.Sequence of snapshot.json, 0 when there is none
    snaps,      \* what snap may be after a power loss
    acked       \* history: the log as of the last successful Append

procVars == <<pc, sequence, writeError, fresh>>
fileVars == <<entry, entrySafe, lines, tornLine, safe, dropped, snap, snaps>>
storeVars == <<lock, procVars, fileVars, acked>>

StoreEvent == [sequence : Nat \ {0}, payload : Payload]

States == {"out", "store", "made", "dirsync", "logged", "ready",
           "checked", "written", "renamed"}

StoreInit ==
    /\ lock = NoProc
    /\ pc = [p \in Proc |-> "out"]
    /\ sequence = [p \in Proc |-> 0]
    /\ writeError = [p \in Proc |-> FALSE]
    /\ fresh = [p \in Proc |-> FALSE]
    /\ entry = 0 /\ entrySafe = 0
    /\ lines = <<>> /\ tornLine = FALSE /\ safe = 0 /\ dropped = FALSE
    /\ snap = 0 /\ snaps = {0}
    /\ acked = <<>>

Goto(p, from, to) == pc[p] = from /\ pc' = [pc EXCEPT ![p] = to]

-----------------------------------------------------------------------------
(* The store and the task's directory.                                     *)

\* Open: the non-blocking flock succeeds only when nobody holds it (ErrBusy).
OpenStore(p) ==
    /\ lock = NoProc
    /\ Goto(p, "out", "store")
    /\ lock' = p
    /\ UNCHANGED <<sequence, writeError, fresh, fileVars, acked>>

\* openTask(id, true): Mkdir refuses a directory that exists.
MakeDirectory(p) ==
    /\ entry = 0
    /\ Goto(p, "store", "made")
    /\ entry' = 1
    /\ UNCHANGED <<lock, sequence, writeError, fresh, entrySafe, lines, tornLine, safe,
                   dropped, snap, snaps, acked>>

\* syncDirectory(s.root); on failure the directory stays and the call returns.
SyncTasksDirectory(p) ==
    /\ \/ Goto(p, "made", "dirsync") /\ entrySafe' = 1
       \/ Goto(p, "made", "store") /\ UNCHANGED entrySafe
    /\ UNCHANGED <<lock, sequence, writeError, fresh, entry, lines, tornLine, safe,
                   dropped, snap, snaps, acked>>

\* openRegular(root, events.jsonl, O_CREATE|O_EXCL).
CreateLog(p) ==
    /\ Goto(p, "dirsync", "logged")
    /\ entry' = 2
    /\ UNCHANGED <<lock, sequence, writeError, fresh, entrySafe, lines, tornLine, safe,
                   dropped, snap, snaps, acked>>

\* A task as openTask registers it: nothing appended and no write error yet.
Register(p, n) ==
    /\ sequence' = [sequence EXCEPT ![p] = n]
    /\ writeError' = [writeError EXCEPT ![p] = FALSE]
    /\ fresh' = [fresh EXCEPT ![p] = FALSE]

\* syncDirectory(root); on failure the task is closed but its log file stays.
SyncTaskDirectory(p) ==
    /\ \/ /\ Goto(p, "logged", "ready")
          /\ entrySafe' = 2
          /\ Register(p, 0)
       \/ /\ Goto(p, "logged", "store")
          /\ UNCHANGED <<entrySafe, sequence, writeError, fresh>>
    /\ UNCHANGED <<lock, entry, lines, tornLine, safe, dropped, snap, snaps, acked>>

\* readEvents decodes every complete line and wants sequence numbers from 1 on.
Readable(log) == \A i \in DOMAIN log : log[i].sequence = i

\* Mutant: the engine accepts a task without events.
OpenTaskEmpty(p) ==
    /\ entry = 2
    /\ Readable(lines)
    /\ Goto(p, "store", "ready")
    /\ Register(p, Len(lines))
    /\ UNCHANGED <<lock, fileVars, acked>>

\* openTask(id, false) as the engine uses it: loadTaskState closes a task
\* whose log holds no event, so such a task never becomes ready.
OpenTask(p) ==
    /\ entry = 2
    /\ Readable(lines)
    /\ lines # <<>>
    /\ Goto(p, "store", "ready")
    /\ Register(p, Len(lines))
    /\ UNCHANGED <<lock, fileVars, acked>>

-----------------------------------------------------------------------------
(* Append, under the store's mutex, one file system call at a time.        *)

Fail(p) == writeError' = [writeError EXCEPT ![p] = TRUE]

\* Stat, and Truncate of the incomplete line a crash left behind.  A log
\* shorter or longer than the offset makes Append return ErrCorrupt.
CheckTail(p) ==
    /\ ~writeError[p]
    /\ Len(lines) = sequence[p]
    /\ Len(lines) < MaxEvents
    /\ \/ Goto(p, "ready", "checked") /\ tornLine' = FALSE /\ UNCHANGED writeError
       \/ Goto(p, "ready", "ready") /\ tornLine /\ Fail(p) /\ UNCHANGED tornLine
    /\ UNCHANGED <<lock, sequence, fresh, entry, entrySafe, lines, safe, dropped,
                   snap, snaps, acked>>

\* WriteAt(line, offset): the whole line, or an error after some bytes or none.
WriteLine(p) ==
    /\ \/ /\ Goto(p, "checked", "written")
          /\ \E v \in Payload :
                lines' = Append(SubSeq(lines, 1, sequence[p]),
                                [sequence |-> sequence[p] + 1, payload |-> v])
          /\ UNCHANGED <<tornLine, writeError>>
       \/ /\ Goto(p, "checked", "ready")
          /\ Fail(p)
          /\ tornLine' \in BOOLEAN
          /\ UNCHANGED lines
    /\ UNCHANGED <<lock, sequence, fresh, entry, entrySafe, safe, dropped, snap,
                   snaps, acked>>

\* What fsync makes durable: every line, unless an earlier failure made the
\* kernel forget one of them.
Synced == IF dropped THEN safe ELSE Len(lines)

\* Mutant: the event is acknowledged before it is synced.
SyncLineLate(p) ==
    /\ Goto(p, "written", "ready")
    /\ sequence' = [sequence EXCEPT ![p] = @ + 1]
    /\ fresh' = [fresh EXCEPT ![p] = TRUE]
    /\ acked' = lines
    /\ UNCHANGED <<lock, writeError, fileVars>>

\* Sync, then offset and sequence advance; a failed Sync is never acknowledged.
SyncLine(p) ==
    /\ \/ /\ Goto(p, "written", "ready")
          /\ safe' = Synced
          /\ sequence' = [sequence EXCEPT ![p] = @ + 1]
          /\ fresh' = [fresh EXCEPT ![p] = TRUE]
          /\ acked' = lines
          /\ UNCHANGED <<writeError, dropped>>
       \/ /\ Goto(p, "written", "ready")
          /\ Fail(p)
          /\ dropped' = (dropped \/ SyncErrorDropsPages)
          /\ UNCHANGED <<safe, sequence, fresh, acked>>
    /\ UNCHANGED <<lock, entry, entrySafe, lines, tornLine, snap, snaps>>

\* Mutant: a snapshot of what OpenTask read, before anything was appended.
RenameSnapshotEarly(p) ==
    /\ ~writeError[p]
    /\ Goto(p, "ready", "renamed")
    /\ snap' = sequence[p]
    /\ snaps' = snaps \union {sequence[p]}
    /\ UNCHANGED <<lock, sequence, writeError, fresh, entry, entrySafe, lines, tornLine,
                   safe, dropped, acked>>

-----------------------------------------------------------------------------
(* SaveSnapshot: the content is synced to a temporary file, renamed, and   *)
(* the directory synced.  The engine calls it only after the append of     *)
(* "finished", so after a successful Append of its own session.            *)

RenameSnapshot(p) ==
    /\ ~writeError[p]
    /\ fresh[p]
    /\ Goto(p, "ready", "renamed")
    /\ snap' = sequence[p]
    /\ snaps' = snaps \union {sequence[p]}
    /\ UNCHANGED <<lock, sequence, writeError, fresh, entry, entrySafe, lines, tornLine,
                   safe, dropped, acked>>

SyncSnapshot(p) ==
    /\ Goto(p, "renamed", "ready")
    /\ snaps' \in {{snap}, snaps}
    /\ UNCHANGED <<lock, sequence, writeError, fresh, entry, entrySafe, lines, tornLine,
                   safe, dropped, snap, acked>>

-----------------------------------------------------------------------------
(* Closing and failing.                                                    *)

CloseTask(p) ==
    /\ Goto(p, "ready", "store")
    /\ UNCHANGED <<lock, sequence, writeError, fresh, fileVars, acked>>

\* Store.Close takes the mutex, so no Append or SaveSnapshot is under way.
CloseStore(p) ==
    /\ Goto(p, "store", "out") \/ Goto(p, "ready", "out")
    /\ lock' = NoProc
    /\ UNCHANGED <<sequence, writeError, fresh, fileVars, acked>>

\* The process dies between two calls: its flock goes, the page cache stays.
Die(p) ==
    /\ pc[p] # "out"
    /\ pc' = [pc EXCEPT ![p] = "out"]
    /\ lock' = IF lock = p THEN NoProc ELSE lock
    /\ UNCHANGED <<sequence, writeError, fresh, fileVars, acked>>

\* The machine stops: unsynced lines go, the last first, and one may be torn.
PowerLoss ==
    /\ lock' = NoProc
    /\ pc' = [p \in Proc |-> "out"]
    /\ entry' \in entrySafe..entry
    /\ entrySafe' = entry'
    /\ \E n \in safe..Len(lines) :
          /\ lines' = IF entry' = 2 THEN SubSeq(lines, 1, n) ELSE <<>>
          /\ safe' = IF entry' = 2 THEN n ELSE 0
          /\ tornLine' \in IF entry' = 2 THEN {FALSE, tornLine \/ n < Len(lines)} ELSE {FALSE}
    /\ dropped' = FALSE
    /\ snap' \in snaps
    /\ snaps' = {snap'}
    /\ UNCHANGED <<sequence, writeError, fresh, acked>>

Step(p) ==
    \/ OpenStore(p) \/ MakeDirectory(p) \/ SyncTasksDirectory(p) \/ CreateLog(p)
    \/ SyncTaskDirectory(p) \/ OpenTask(p) \/ CheckTail(p) \/ WriteLine(p)
    \/ SyncLine(p) \/ RenameSnapshot(p) \/ SyncSnapshot(p) \/ CloseTask(p)
    \/ CloseStore(p) \/ Die(p)

StoreNext == (\E p \in Proc : Step(p)) \/ PowerLoss

StoreSpec == StoreInit /\ [][StoreNext]_storeVars

-----------------------------------------------------------------------------
(* Properties.                                                             *)

\* The variables have the values the comments above say they have.
StoreTypes ==
    /\ lock \in Proc \union {NoProc}
    /\ pc \in [Proc -> States]
    /\ sequence \in [Proc -> Nat]
    /\ writeError \in [Proc -> BOOLEAN]
    /\ fresh \in [Proc -> BOOLEAN]
    /\ entry \in 0..2 /\ entrySafe \in 0..2
    /\ lines \in Seq(StoreEvent) /\ tornLine \in BOOLEAN /\ safe \in Nat
    /\ dropped \in BOOLEAN
    /\ snap \in Nat /\ snaps \subseteq Nat
    /\ acked \in Seq(StoreEvent)

\* Whatever fails, the log still begins with every event whose Append
\* returned without error ("Append 同步落盘后才确认新事件").
AckedSurvives == IsPrefix(acked, lines)

\* No history of crashes, failed calls and reopened tasks produces a log
\* that readEvents refuses, so ErrCorrupt always means outside interference.
LogReadable == Readable(lines)

\* LoadSnapshot refuses a snapshot newer than the log.  No snapshot that a
\* power loss may leave behind is newer than the lines it must leave.
SnapshotNotAhead == \A s \in snaps : s <= safe

\* While a task is usable its offset is the end of the log's complete lines,
\* so neither ErrCorrupt branch of Append is taken ("事件日志被截短",
\* "新增未识别的完整记录").
OffsetIsEnd ==
    \A p \in Proc : pc[p] = "ready" /\ ~writeError[p] => sequence[p] = Len(lines)

\* The store implements the log it promises.
Abstract == INSTANCE DurableLog WITH Event <- StoreEvent, log <- lines
ImplementsDurableLog == Abstract!Spec
=============================================================================
