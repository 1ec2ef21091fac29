------------------------------ MODULE RecordProofs ------------------------------
(***************************************************************************)
(* The task's record, as the store writes it (module TaskStore) and as the *)
(* monitor reads it and tells the page of it (modules MonitorIndex and     *)
(* Monitor).                                                               *)
(*                                                                         *)
(* TaskStore keeps every acknowledged event, for any number of processes,  *)
(* any payloads and any length of log, as long as a failed fsync leaves    *)
(* its pages dirty (SyncErrorDropsPages = FALSE).  Durable is the          *)
(* strengthening that is inductive; TLC checks it too.                     *)
(*                                                                         *)
(* No change is lost between the index and the page, for any sizes of the  *)
(* ring and of a channel, any index and any course of events.  What the    *)
(* server still has for the page ends with its last announcement           *)
(* (Caught), and a page that has seen the last announcement and fetched    *)
(* its view since has asked for what the index shows (Asked).              *)
(*                                                                         *)
(* What the index has read is a beginning of the log, or its last line is  *)
(* not in the log and never will be, and then the next look finds it out   *)
(* (RInv).  So a log that nobody has touched is read to its end.           *)
(*                                                                         *)
(* The ends an attempt has committed are its own lines of the log          *)
(* (Streams), and the attempt that decides what is shown is the newest     *)
(* that has a stream (ScannedIs).  So no report of an earlier run is shown *)
(* for it.                                                                 *)
(***************************************************************************)
EXTENDS TaskStore, Monitor, FiniteSetTheorems, SequenceTheorems, WellFoundedInduction, TLAPS

\* The states in which a process has the task registered.
InTask == {"ready", "checked", "written", "renamed"}

\* flock: whoever has anything open holds the lock.
Owned == \A p \in Proc : pc[p] # "out" => lock = p

\* A log with lines in it is one whose directory entries are on disk, and no
\* snapshot on disk is ahead of the lines on disk.
FilesOK ==
    /\ entrySafe <= entry
    /\ safe <= Len(lines)
    /\ lines # <<>> => entrySafe = 2
    /\ ~dropped
    /\ Readable(lines)
    /\ snap \in snaps
    /\ \A s \in snaps : s <= safe

\* How far openTask(create) has come.
CreatingOK ==
    \A p \in Proc : /\ pc[p] \in {"made", "dirsync"} => entry = 1
                    /\ pc[p] = "logged" => entry = 2
                    /\ pc[p] \in {"made", "dirsync", "logged"} => entrySafe < 2

\* What a registered task knows about its log.
TaskOK ==
    \A p \in Proc : pc[p] \in InTask =>
        /\ entrySafe = 2
        /\ Len(acked) <= sequence[p]
        /\ sequence[p] <= Len(lines)
        /\ fresh[p] => sequence[p] <= safe
        /\ ~writeError[p] /\ pc[p] # "written" => sequence[p] = Len(lines)
        /\ pc[p] = "written" => sequence[p] + 1 = Len(lines)
        /\ pc[p] # "ready" => ~writeError[p]

\* The acknowledged events are the first lines, and they are on disk.
AckedOK ==
    /\ Len(acked) <= safe
    /\ \A i \in 1..Len(acked) : acked[i] = lines[i]

\* The inductive invariant.
Durable == StoreTypes /\ Owned /\ FilesOK /\ CreatingOK /\ TaskOK /\ AckedOK
-----------------------------------------------------------------------------
(* Taking a prefix of a log and adding a line to it.                       *)

\* A prefix of a log is a log: it has the first n of its lines.
LEMMA PrefixOfLog ==
    ASSUME NEW S, NEW s \in Seq(S), NEW n \in 0..Len(s)
    PROVE  /\ SubSeq(s, 1, n) \in Seq(S)
           /\ Len(SubSeq(s, 1, n)) = n
           /\ \A i \in 1..n : SubSeq(s, 1, n)[i] = s[i]
<1>1. \A i \in 1..n : s[i] \in S
  BY ElementOfSeq
<1>. QED
  BY <1>1, SubSeqProperties

\* Elementwise agreement is being a prefix, in the form IsPrefix defines it.
LEMMA AgreeingIsPrefix ==
    ASSUME NEW S, NEW s \in Seq(S), NEW t \in Seq(S), Len(s) <= Len(t),
           \A i \in 1..Len(s) : s[i] = t[i]
    PROVE  IsPrefix(s, t)
  BY DEF IsPrefix

-----------------------------------------------------------------------------
(* Durable holds at the start and every step keeps it.                     *)

LEMMA InitDurable == StoreInit => Durable
<1>. SUFFICES ASSUME StoreInit PROVE Durable
  OBVIOUS
<1>. USE DEF StoreInit
<1>1. lines \in Seq(StoreEvent) /\ acked \in Seq(StoreEvent)
  OBVIOUS
<1>2. StoreTypes
  <2>1. pc \in [Proc -> States]
    BY DEF States
  <2>2. sequence \in [Proc -> Nat] /\ writeError \in [Proc -> BOOLEAN]
        /\ fresh \in [Proc -> BOOLEAN]
    OBVIOUS
  <2>3. /\ lock \in Proc \union {NoProc}
        /\ entry \in 0..2 /\ entrySafe \in 0..2 /\ safe \in Nat
        /\ snap \in Nat /\ snaps \subseteq Nat
    OBVIOUS
  <2>4. tornLine \in BOOLEAN /\ dropped \in BOOLEAN
    OBVIOUS
  <2>. QED
    BY <1>1, <2>1, <2>2, <2>3, <2>4 DEF StoreTypes
<1>3. FilesOK
  BY DEF FilesOK, Readable
<1>4. Owned /\ CreatingOK /\ TaskOK /\ AckedOK
  BY DEF Owned, CreatingOK, TaskOK, AckedOK, InTask
<1>. QED
  BY <1>2, <1>3, <1>4 DEF Durable

\* A step that touches neither the files nor the history keeps what is said
\* about them.
LEMMA FilesUnchanged ==
    ASSUME Durable, UNCHANGED <<fileVars, acked>>
    PROVE  FilesOK' /\ AckedOK'
  BY DEF Durable, FilesOK, AckedOK, Readable, fileVars

\* Every process but the holder of the lock has nothing open.
LEMMA OthersOut ==
    ASSUME Durable, NEW p \in Proc, pc[p] # "out"
    PROVE  lock = p /\ \A q \in Proc : q # p => pc[q] = "out"
  BY ProcAssumption DEF Durable, Owned

LEMMA StepDurable ==
    ASSUME SyncErrorDropsPages = FALSE, Durable, [StoreNext]_storeVars
    PROVE  Durable'
<1>. USE ProcAssumption DEF Durable, StoreTypes, Owned, FilesOK, CreatingOK, TaskOK,
                            AckedOK, InTask, States, Goto, storeVars, procVars, fileVars
<1>1. ASSUME NEW p \in Proc, OpenStore(p) PROVE Durable'
  BY <1>1 DEF OpenStore
<1>2. ASSUME NEW p \in Proc, MakeDirectory(p) PROVE Durable'
  BY <1>2 DEF MakeDirectory
<1>3. ASSUME NEW p \in Proc, SyncTasksDirectory(p) PROVE Durable'
  <2>1. pc[p] = "made" /\ entrySafe' \in {1, entrySafe} /\ lines = <<>>
    BY <1>3 DEF SyncTasksDirectory
  <2>2. StoreTypes' /\ Owned' /\ CreatingOK' /\ TaskOK'
    BY <1>3, <2>1, OthersOut DEF SyncTasksDirectory
  <2>3. FilesOK' /\ AckedOK'
    BY <1>3, <2>1 DEF SyncTasksDirectory, Readable
  <2>. QED
    BY <2>2, <2>3
<1>4. ASSUME NEW p \in Proc, CreateLog(p) PROVE Durable'
  BY <1>4 DEF CreateLog
<1>5. ASSUME NEW p \in Proc, SyncTaskDirectory(p) PROVE Durable'
  <2>1. pc[p] = "logged" /\ entry = 2
    BY <1>5 DEF SyncTaskDirectory
  <2>2. CASE pc' = [pc EXCEPT ![p] = "ready"] /\ entrySafe' = 2 /\ Register(p, 0)
    <3>1. StoreTypes' /\ Owned' /\ CreatingOK' /\ FilesOK' /\ AckedOK'
      BY <1>5, <2>1, <2>2 DEF SyncTaskDirectory, Register, Readable
    <3>2. lines = <<>>
      BY <2>1
    <3>3. TaskOK'
      BY <1>5, <2>1, <2>2, <3>2, OthersOut DEF SyncTaskDirectory, Register
    <3>. QED
      BY <3>1, <3>3
  <2>3. CASE pc' = [pc EXCEPT ![p] = "store"]
             /\ UNCHANGED <<entrySafe, sequence, writeError, fresh>>
    BY <1>5, <2>1, <2>3, OthersOut DEF SyncTaskDirectory, Readable
  <2>. QED
    BY <1>5, <2>2, <2>3 DEF SyncTaskDirectory
<1>6. ASSUME NEW p \in Proc, OpenTask(p) PROVE Durable'
  BY <1>6 DEF OpenTask, Register
<1>7. ASSUME NEW p \in Proc, CheckTail(p) PROVE Durable'
  BY <1>7, ZenonT(40) DEF CheckTail, Fail
<1>8. ASSUME NEW p \in Proc, WriteLine(p) PROVE Durable'
  <2>1. pc[p] = "checked" /\ ~writeError[p] /\ sequence[p] = Len(lines) /\ entrySafe = 2
    BY <1>8 DEF WriteLine
  <2>2. \A q \in Proc : q # p => pc[q] = "out"
    BY <2>1, OthersOut
  <2>3. ASSUME NEW v \in Payload,
               pc' = [pc EXCEPT ![p] = "written"],
               lines' = Append(SubSeq(lines, 1, sequence[p]),
                               [sequence |-> sequence[p] + 1, payload |-> v]),
               UNCHANGED <<tornLine, writeError>>
        PROVE  Durable'
    <3>1. SubSeq(lines, 1, sequence[p]) = lines
      BY <2>1, SubSeqFull
    <3>2. [sequence |-> sequence[p] + 1, payload |-> v] \in StoreEvent
      BY <2>1 DEF StoreEvent
    <3>3. /\ lines' \in Seq(StoreEvent)
          /\ Len(lines') = Len(lines) + 1
          /\ \A i \in 1..Len(lines) : lines'[i] = lines[i]
          /\ lines'[Len(lines) + 1].sequence = Len(lines) + 1
      BY <2>1, <2>3, <3>1, <3>2, AppendProperties
    <3>4. Readable(lines')
      <4>1. \A i \in 1..Len(lines) : lines[i].sequence = i
        BY DEF Readable
      <4>2. DOMAIN lines' = 1..(Len(lines) + 1)
        BY <3>3
      <4>3. ASSUME NEW i \in 1..(Len(lines) + 1) PROVE lines'[i].sequence = i
        <5>1. CASE i = Len(lines) + 1
          BY <3>3, <5>1
        <5>2. CASE i \in 1..Len(lines)
          BY <3>3, <4>1, <5>2
        <5>. QED
          BY <5>1, <5>2
      <4>. QED
        BY <4>2, <4>3 DEF Readable
    <3>5. StoreTypes' /\ Owned' /\ CreatingOK'
      BY <1>8, <2>1, <2>2, <2>3, <3>3 DEF WriteLine
    <3>6. FilesOK' /\ AckedOK'
      BY <1>8, <2>1, <3>3, <3>4 DEF WriteLine
    <3>7. TaskOK'
      <4>1. \A q \in Proc : pc'[q] \in InTask => q = p
        BY <2>2, <2>3
      <4>. QED
        BY <1>8, <2>1, <2>3, <3>3, <4>1 DEF WriteLine
    <3>. QED
      BY <3>5, <3>6, <3>7
  <2>4. CASE /\ pc' = [pc EXCEPT ![p] = "ready"]
             /\ Fail(p)
             /\ tornLine' \in BOOLEAN
             /\ UNCHANGED lines
    BY <1>8, <2>1, <2>2, <2>4 DEF WriteLine, Fail
  <2>. QED
    BY <1>8, <2>3, <2>4 DEF WriteLine
<1>9. ASSUME NEW p \in Proc, SyncLine(p) PROVE Durable'
  <2>1. /\ pc[p] = "written" /\ ~writeError[p] /\ sequence[p] + 1 = Len(lines)
        /\ entrySafe = 2
    BY <1>9 DEF SyncLine
  <2>2. \A q \in Proc : q # p => pc[q] = "out"
    BY <2>1, OthersOut
  <2>3. CASE /\ pc' = [pc EXCEPT ![p] = "ready"]
             /\ safe' = Synced
             /\ sequence' = [sequence EXCEPT ![p] = @ + 1]
             /\ fresh' = [fresh EXCEPT ![p] = TRUE]
             /\ acked' = lines
             /\ UNCHANGED <<writeError, dropped>>
    <3>1. safe' = Len(lines)
      BY <2>3 DEF Synced
    <3>2. StoreTypes' /\ Owned' /\ CreatingOK'
      BY <1>9, <2>1, <2>2, <2>3, <3>1 DEF SyncLine
    <3>3. FilesOK' /\ AckedOK'
      BY <1>9, <2>1, <2>3, <3>1 DEF SyncLine
    <3>4. TaskOK'
      BY <1>9, <2>1, <2>2, <2>3, <3>1 DEF SyncLine
    <3>. QED
      BY <3>2, <3>3, <3>4
  <2>4. CASE /\ pc' = [pc EXCEPT ![p] = "ready"]
             /\ Fail(p)
             /\ dropped' = (dropped \/ SyncErrorDropsPages)
             /\ UNCHANGED <<safe, sequence, fresh, acked>>
    <3>1. dropped' = FALSE
      BY <2>4
    <3>. QED
      BY <1>9, <2>1, <2>2, <2>4, <3>1 DEF SyncLine, Fail
  <2>. QED
    BY <1>9, <2>3, <2>4 DEF SyncLine
<1>10. ASSUME NEW p \in Proc, RenameSnapshot(p) PROVE Durable'
  <2>1. pc[p] = "ready" /\ sequence[p] <= safe
    BY <1>10 DEF RenameSnapshot
  <2>5. snap' = sequence[p] /\ snaps' = snaps \union {sequence[p]}
    BY <1>10 DEF RenameSnapshot
  <2>2. StoreTypes'
    <3>1. sequence[p] \in Nat
      OBVIOUS
    <3>2. snap' \in Nat /\ snaps' \subseteq Nat
      BY <2>5, <3>1
    <3>3. pc' \in [Proc -> States] /\ acked' \in Seq(StoreEvent)
      BY <1>10 DEF RenameSnapshot
    <3>. QED
      BY <1>10, <3>2, <3>3, Zenon DEF RenameSnapshot
  <2>6. Owned'
    BY <1>10 DEF RenameSnapshot
  <2>4. CreatingOK' /\ TaskOK'
    BY <1>10, <2>1 DEF RenameSnapshot
  <2>3. FilesOK' /\ AckedOK'
    BY <1>10, <2>1 DEF RenameSnapshot
  <2>. QED
    BY <2>2, <2>3, <2>4, <2>6
<1>11. ASSUME NEW p \in Proc, SyncSnapshot(p) PROVE Durable'
  BY <1>11 DEF SyncSnapshot
<1>12. ASSUME NEW p \in Proc, CloseTask(p) PROVE Durable'
  BY <1>12 DEF CloseTask
<1>13. ASSUME NEW p \in Proc, CloseStore(p) PROVE Durable'
  <2>1. FilesOK' /\ AckedOK'
    BY <1>13, FilesUnchanged DEF CloseStore
  <2>2. pc[p] # "out" /\ pc' = [pc EXCEPT ![p] = "out"]
    BY <1>13 DEF CloseStore
  <2>3. \A q \in Proc : pc'[q] = "out"
    BY <2>2, OthersOut
  <2>4. StoreTypes' /\ Owned' /\ CreatingOK' /\ TaskOK'
    BY <1>13, <2>2, <2>3 DEF CloseStore
  <2>. QED
    BY <2>1, <2>4
<1>14. ASSUME NEW p \in Proc, Die(p) PROVE Durable'
  BY <1>14 DEF Die
<1>15. CASE PowerLoss
  <2>. PICK n \in safe..Len(lines) :
          /\ lines' = IF entry' = 2 THEN SubSeq(lines, 1, n) ELSE <<>>
          /\ safe' = IF entry' = 2 THEN n ELSE 0
          /\ tornLine' \in IF entry' = 2 THEN {FALSE, tornLine \/ n < Len(lines)} ELSE {FALSE}
    BY <1>15 DEF PowerLoss
  <2>1. entry' \in 0..2 /\ entrySafe' = entry' /\ entrySafe <= entry'
    BY <1>15 DEF PowerLoss
  <2>2. CASE entry' = 2
    <3>1. /\ lines' \in Seq(StoreEvent) /\ Len(lines') = n /\ safe' = n
          /\ \A i \in 1..n : lines'[i] = lines[i]
      BY <2>2, PrefixOfLog
    <3>2. Readable(lines')
      BY <3>1 DEF Readable
    <3>3. FilesOK' /\ AckedOK'
      BY <1>15, <2>1, <2>2, <3>1, <3>2 DEF PowerLoss
    <3>4. Owned' /\ CreatingOK' /\ TaskOK'
      BY <1>15 DEF PowerLoss
    <3>5. tornLine' \in BOOLEAN /\ snap' \in Nat /\ snaps' \subseteq Nat
      BY <1>15 DEF PowerLoss
    <3>6. StoreTypes'
      <4>1. lock' = NoProc /\ pc' \in [Proc -> States] /\ dropped' = FALSE
            /\ UNCHANGED <<sequence, writeError, fresh, acked>>
        BY <1>15 DEF PowerLoss
      <4>2. dropped' \in BOOLEAN
        BY <4>1
      <4>3. entry' \in 0..2 /\ entrySafe' \in 0..2 /\ safe' \in Nat /\ lines' \in Seq(StoreEvent)
        BY <2>1, <3>1
      <4>4. /\ lock' \in Proc \union {NoProc} /\ sequence' \in [Proc -> Nat]
            /\ writeError' \in [Proc -> BOOLEAN] /\ fresh' \in [Proc -> BOOLEAN]
            /\ acked' \in Seq(StoreEvent)
        BY <4>1
      <4>. QED
        BY <3>5, <4>1, <4>2, <4>3, <4>4, Zenon
    <3>. QED
      BY <3>3, <3>4, <3>6
  <2>3. CASE entry' # 2
    <3>1. lines = <<>> /\ lines' = <<>> /\ safe = 0 /\ safe' = 0
      BY <2>1, <2>3
    <3>2. FilesOK' /\ AckedOK'
      BY <1>15, <2>1, <3>1 DEF PowerLoss, Readable
    <3>3. StoreTypes' /\ Owned' /\ CreatingOK' /\ TaskOK'
      BY <1>15, <2>1, <3>1 DEF PowerLoss
    <3>. QED
      BY <3>2, <3>3
  <2>. QED
    BY <2>2, <2>3
<1>16. CASE UNCHANGED storeVars
  BY <1>16 DEF Readable
<1>. QED
  BY <1>1, <1>2, <1>3, <1>4, <1>5, <1>6, <1>7, <1>8, <1>9, <1>10, <1>11, <1>12,
     <1>13, <1>14, <1>15, <1>16 DEF StoreNext, Step

-----------------------------------------------------------------------------
(* What follows from it.                                                   *)

\* The invariant holds in every reachable state.
THEOREM DurableAlways ==
    ASSUME SyncErrorDropsPages = FALSE
    PROVE  StoreSpec => []Durable
<1>1. Durable /\ [StoreNext]_storeVars => Durable'
  BY StepDurable
<1>. QED
  BY <1>1, InitDurable, PTL DEF StoreSpec

\* The files, the offsets and the sequence numbers keep their types
\* (taskstore/store.go).
THEOREM StoreTypeOK ==
    ASSUME SyncErrorDropsPages = FALSE
    PROVE  StoreSpec => []StoreTypes
<1>1. Durable => StoreTypes
  BY DEF Durable
<1>2. QED
  BY <1>1, DurableAlways, PTL

\* Append syncs before it acknowledges (store.go, Append): whatever fails, the
\* acknowledged events are the first lines of the log.
THEOREM AckedEventsSurvive ==
    ASSUME SyncErrorDropsPages = FALSE
    PROVE  StoreSpec => []AckedSurvives
<1>1. ASSUME Durable PROVE AckedSurvives
  <2>1. /\ acked \in Seq(StoreEvent) /\ lines \in Seq(StoreEvent) /\ Len(acked) <= Len(lines)
        /\ \A i \in 1..Len(acked) : acked[i] = lines[i]
    BY <1>1 DEF Durable, StoreTypes, FilesOK, AckedOK
  <2>. QED
    BY <2>1, AgreeingIsPrefix DEF AckedSurvives
<1>. QED
  BY <1>1, DurableAlways, PTL

\* No history of crashes makes readEvents (store.go) report ErrCorrupt.
THEOREM LogAlwaysReadable ==
    ASSUME SyncErrorDropsPages = FALSE
    PROVE  StoreSpec => []LogReadable
<1>1. Durable => LogReadable
  BY DEF Durable, FilesOK, LogReadable
<1>. QED
  BY <1>1, DurableAlways, PTL

\* The snapshot the engine saves after "finished" (store.go, SaveSnapshot) is
\* never ahead of the log that LoadSnapshot compares it with.
THEOREM SnapshotNeverAhead ==
    ASSUME SyncErrorDropsPages = FALSE
    PROVE  StoreSpec => []SnapshotNotAhead
<1>1. Durable => SnapshotNotAhead
  BY DEF Durable, FilesOK, SnapshotNotAhead
<1>. QED
  BY <1>1, DurableAlways, PTL

\* The offset of a usable task is the end of its log (store.go, Append).
THEOREM OffsetAlwaysEnd ==
    ASSUME SyncErrorDropsPages = FALSE
    PROVE  StoreSpec => []OffsetIsEnd
<1>1. Durable => OffsetIsEnd
  BY DEF Durable, TaskOK, InTask, OffsetIsEnd
<1>. QED
  BY <1>1, DurableAlways, PTL

\* Each step of the store is a step of the log it promises, or none.
LEMMA StepRefines ==
    ASSUME SyncErrorDropsPages = FALSE, Durable, [StoreNext]_storeVars
    PROVE  [Abstract!Next]_(Abstract!vars)
<1>. USE DEF Abstract!vars, fileVars
<1>1. ASSUME NEW p \in Proc, WriteLine(p) PROVE [Abstract!Next]_(Abstract!vars)
  <2>1. pc[p] = "checked" /\ sequence[p] = Len(lines) /\ lines \in Seq(StoreEvent)
    BY <1>1 DEF WriteLine, Goto, Durable, StoreTypes, TaskOK, InTask
  <2>2. SubSeq(lines, 1, sequence[p]) = lines
    BY <2>1, SubSeqFull
  <2>3. CASE UNCHANGED lines
    BY <1>1, <2>3 DEF WriteLine
  <2>4. ASSUME NEW v \in Payload,
               lines' = Append(SubSeq(lines, 1, sequence[p]),
                               [sequence |-> sequence[p] + 1, payload |-> v])
        PROVE  Abstract!Submit
    <3>. DEFINE e == [sequence |-> sequence[p] + 1, payload |-> v]
    <3>1. e \in StoreEvent
      BY <2>1 DEF StoreEvent
    <3>2. lines' = Append(lines, e)
      BY <2>2, <2>4
    <3>. HIDE DEF e
    <3>3. Len(lines') = Len(lines) + 1 /\ lines'[Len(lines')] = e
      BY <2>1, <3>1, <3>2, AppendProperties
    <3>4. UNCHANGED acked
      BY <1>1 DEF WriteLine
    <3>. QED
      BY <3>1, <3>2, <3>3, <3>4 DEF Abstract!Submit
  <2>. QED
    BY <1>1, <2>3, <2>4 DEF WriteLine, Abstract!Next
<1>2. ASSUME NEW p \in Proc, SyncLine(p) PROVE [Abstract!Next]_(Abstract!vars)
  BY <1>2 DEF SyncLine, Abstract!Next, Abstract!Acknowledge
<1>3. CASE PowerLoss
  <2>. PICK n \in safe..Len(lines) :
          lines' = IF entry' = 2 THEN SubSeq(lines, 1, n) ELSE <<>>
    BY <1>3 DEF PowerLoss
  <2>1. CASE entry' = 2
    BY <1>3, <2>1 DEF PowerLoss, Abstract!Next, Abstract!Lose, Durable, StoreTypes, AckedOK
  <2>2. CASE entry' # 2
    <3>1. entry' \in 0..2 /\ entrySafe <= entry'
      BY <1>3 DEF PowerLoss, Durable, StoreTypes, FilesOK
    <3>2. lines = <<>> /\ lines' = <<>>
      BY <2>2, <3>1 DEF Durable, StoreTypes, FilesOK
    <3>. QED
      BY <1>3, <3>2 DEF PowerLoss
  <2>. QED
    BY <2>1, <2>2
<1>4. ASSUME NEW p \in Proc, Step(p), ~WriteLine(p), ~SyncLine(p)
      PROVE  UNCHANGED Abstract!vars
  BY <1>4 DEF Step, OpenStore, MakeDirectory, SyncTasksDirectory, CreateLog,
              SyncTaskDirectory, OpenTask, CheckTail, RenameSnapshot, SyncSnapshot,
              CloseTask, CloseStore, Die
<1>5. CASE UNCHANGED storeVars
  BY <1>5 DEF storeVars
<1>. QED
  BY <1>1, <1>2, <1>3, <1>4, <1>5 DEF StoreNext

\* The store implements its promise (DurableLog), for every constant.
THEOREM StoreImplementsLog ==
    ASSUME SyncErrorDropsPages = FALSE
    PROVE  StoreSpec => ImplementsDurableLog
<1>1. StoreInit => Abstract!Init
  BY DEF StoreInit, Abstract!Init
<1>2. Durable /\ [StoreNext]_storeVars => [Abstract!Next]_(Abstract!vars)
  BY StepRefines
<1>. QED
  BY <1>1, <1>2, DurableAlways, PTL DEF StoreSpec, ImplementsDurableLog, Abstract!Spec

-----------------------------------------------------------------------------
(* What the page has been told.                                            *)

newest(s) == s[Len(s)]

\* Announcements are numbered, and nobody has seen a number to come.
Notices ==
  /\ notified \in Nat /\ cursor \in Int /\ cursor <= notified
  /\ {ring, chan, pending} \subseteq Seq(0 .. notified)

\* The ring ends with the last announcement.
Kept == ring # <<>> => newest(ring) = notified

\* What a subscriber is still sent ends with the last announcement.
Caught ==
  linked /\ subscribed =>
    IF chan # <<>> THEN newest(chan) = notified
    ELSE IF pending # <<>> THEN newest(pending) = notified
    ELSE cursor = notified

\* A page that knows of every change and has fetched since is shown the view of
\* the index, or its last request will bring it.
Asked ==
  /\ requests \in Seq(Range(requests))
  /\ (cursor = notified /\ stage # "changed" /\ ~due) =>
       IF requests = <<>> THEN page = shown ELSE newest(requests) \in {NoAnswer, shown}

IInv == Notices /\ Kept /\ Caught /\ Asked

-----------------------------------------------------------------------------
(* Sequences.                                                              *)

LEMMA Appended ==
  ASSUME NEW S, NEW s \in Seq(S), NEW e \in S
  PROVE  Append(s, e) \in Seq(S) /\ Append(s, e) # <<>> /\ newest(Append(s, e)) = e
         /\ Len(Append(s, e)) = Len(s) + 1
BY AppendProperties DEF newest

LEMMA Shorter ==
  ASSUME NEW S, NEW s \in Seq(S), s # <<>>
  PROVE  /\ Tail(s) \in Seq(S)
         /\ Tail(s) # <<>> => newest(Tail(s)) = newest(s)
         /\ Tail(s) = <<>> => Head(s) = newest(s)
         /\ Head(s) \in S
<1>1. /\ Len(s) \in Nat \ {0} /\ Tail(s) \in Seq(S) /\ Len(Tail(s)) = Len(s) - 1
      /\ \A i \in 1 .. Len(s) - 1 : Tail(s)[i] = s[i + 1]
      /\ Head(s) \in S /\ Head(s) = s[1]
  BY EmptySeq, HeadTailProperties
<1>2. Tail(s) # <<>> => Len(s) - 1 \in Nat \ {0}
  BY <1>1, EmptySeq
<1>3. Tail(s) = <<>> => Len(s) = 1
  BY <1>1, EmptySeq
<1>4. QED
  BY <1>1, <1>2, <1>3 DEF newest

LEMMA LastOf ==
  ASSUME NEW S, NEW s \in Seq(S), s # <<>>, NEW n \in Nat \ {0}
  PROVE  lastOf(s, n) \in Seq(S) /\ newest(lastOf(s, n)) = newest(s)
<1>1. CASE Len(s) > n
  <2>1. Tail(s) # <<>>
    <3>1. Len(Tail(s)) = Len(s) - 1 /\ Len(s) \in Nat
      BY HeadTailProperties, EmptySeq
    <3>2. Len(Tail(s)) # 0
      BY <1>1, <3>1
    <3>3. QED
      BY <3>2, EmptySeq
  <2>2. QED
    BY <1>1, <2>1, Shorter DEF lastOf
<1>2. CASE ~(Len(s) > n)
  BY <1>2 DEF lastOf
<1>3. QED
  BY <1>1, <1>2

\* What is behind the cursor in the ring ends where the ring ends.
LEMMA Behind ==
  ASSUME NEW S, ring \in Seq(S), cursor \in Range(ring)
  PROVE  /\ behind(cursor) \in Seq(S)
         /\ IF behind(cursor) = <<>> THEN cursor = newest(ring)
            ELSE newest(behind(cursor)) = newest(ring)
         /\ ring # <<>>
<1>0. PICK i : i = CHOOSE j \in DOMAIN ring : ring[j] = cursor
  OBVIOUS
<1>. DEFINE m == 1 + i
            n == Len(ring)
<1>1. i \in DOMAIN ring /\ ring[i] = cursor
  BY <1>0 DEF Range
<1>2. n \in Nat /\ i \in 1 .. n /\ \A j \in 1 .. n : ring[j] \in S
  BY <1>1, LenProperties, ElementOfSeq
<1>3. ring # <<>>
  BY <1>2, EmptySeq
<1>4. behind(cursor) = SubSeq(ring, m, n)
  BY <1>0 DEF behind
<1>5. m \in Int /\ n \in Int /\ \A j \in m .. n : ring[j] \in S
  BY <1>2
<1>. HIDE DEF m
<1>6. /\ SubSeq(ring, m, n) \in Seq(S)
      /\ Len(SubSeq(ring, m, n)) = IF m <= n THEN n - m + 1 ELSE 0
      /\ \A j \in 1 .. n - m + 1 : SubSeq(ring, m, n)[j] = ring[m + j - 1]
  BY <1>5, SubSeqProperties
<1>. DEFINE t == SubSeq(ring, m, n)
<1>. HIDE DEF t
<1>7. CASE i = n
  <2>1. Len(t) = 0
    BY <1>2, <1>6, <1>7 DEF m, t
  <2>2. t = <<>>
    BY <1>6, <2>1, EmptySeq DEF t
  <2>3. QED
    BY <1>1, <1>3, <1>4, <1>6, <1>7, <2>2 DEF newest, t
<1>8. CASE i # n
  <2>1. m <= n /\ Len(t) = n - m + 1 /\ n - m + 1 \in 1 .. n - m + 1
    BY <1>2, <1>6, <1>8 DEF m, t
  <2>2. t[n - m + 1] = ring[m + (n - m + 1) - 1]
    BY <1>6, <2>1 DEF t
  <2>3. m + (n - m + 1) - 1 = n
    BY <1>5
  <2>4. t # <<>>
    BY <2>1, <1>5, EmptySeq
  <2>5. newest(t) = newest(ring)
    BY <2>1, <2>2, <2>3 DEF newest
  <2>6. QED
    BY <1>3, <1>4, <1>6, <2>4, <2>5 DEF t
<1>9. QED
  BY <1>7, <1>8

\* Whatever is taken out before the last request, the last request stays last.
LEMMA Removed ==
  ASSUME NEW S, NEW s \in Seq(S), NEW i \in 1 .. Len(s), i # Len(s)
  PROVE  RemoveAt(s, i) \in Seq(S) /\ RemoveAt(s, i) # <<>>
         /\ newest(RemoveAt(s, i)) = newest(s)
<1>. DEFINE n == Len(s)
            a == SubSeq(s, 1, i - 1)
            b == SubSeq(s, i + 1, n)
<1>1. n \in Nat /\ i \in Int /\ i >= 1 /\ i < n /\ \A j \in 1 .. n : s[j] \in S
  BY LenProperties, ElementOfSeq
<1>2. a \in Seq(S) /\ Len(a) = i - 1
  <2>1. 1 \in Int /\ i - 1 \in Int /\ \A j \in 1 .. i - 1 : s[j] \in S
    BY <1>1
  <2>2. a \in Seq(S) /\ Len(a) = IF 1 <= i - 1 THEN i - 1 - 1 + 1 ELSE 0
    BY <2>1, SubSeqProperties
  <2>3. QED
    BY <1>1, <2>2
<1>3. b \in Seq(S) /\ Len(b) = n - i /\ b[n - i] = s[n]
  <2>. DEFINE k == i + 1
  <2>1. k \in Int /\ n \in Int /\ \A j \in k .. n : s[j] \in S
    BY <1>1
  <2>2. k <= n /\ n - k + 1 = n - i /\ n - i \in 1 .. n - k + 1 /\ k + (n - i) - 1 = n
    BY <1>1
  <2>. HIDE DEF k
  <2>3. /\ SubSeq(s, k, n) \in Seq(S)
        /\ Len(SubSeq(s, k, n)) = IF k <= n THEN n - k + 1 ELSE 0
        /\ \A j \in 1 .. n - k + 1 : SubSeq(s, k, n)[j] = s[k + j - 1]
    BY <2>1, SubSeqProperties
  <2>4. SubSeq(s, k, n)[n - i] = s[n]
    BY <2>2, <2>3
  <2>5. QED
    BY <2>2, <2>3, <2>4 DEF k
<1>. HIDE DEF a, b
<1>4. /\ a \o b \in Seq(S) /\ Len(a \o b) = Len(a) + Len(b)
      /\ \A j \in 1 .. Len(a) + Len(b) : (a \o b)[j] = IF j <= Len(a) THEN a[j] ELSE b[j - Len(a)]
  BY <1>2, <1>3, ConcatProperties
<1>. HIDE DEF n
<1>5. Len(a) + Len(b) = n - 1 /\ n - 1 \in 1 .. Len(a) + Len(b) /\ ~(n - 1 <= Len(a))
      /\ (n - 1) - Len(a) = n - i
  BY <1>1, <1>2, <1>3
<1>6. (a \o b)[n - 1] = s[n] /\ Len(a \o b) = n - 1
  BY <1>3, <1>4, <1>5
<1>7. a \o b # <<>>
  BY <1>1, <1>6, EmptySeq
<1>8. RemoveAt(s, i) = a \o b
  BY DEF RemoveAt, a, b, n
<1>9. QED
  BY <1>4, <1>6, <1>7, <1>8 DEF newest, n

-----------------------------------------------------------------------------
(* The server and the connection.                                          *)

serverSteps == Notify \/ Connect \/ Send \/ HangUp \/ Drop

\* Neither the task, nor the index, nor the page touches the stream.
LEMMA Elsewhere ==
  ASSUME [Next]_vars, ~serverSteps
  PROVE  UNCHANGED <<serverVars, cursor>>
BY DEF Next, Work, Look, Loop, Handler, Browser, Fetch, Answer, Arrive, serverSteps,
       serverVars, pageVars, vars

LEMMA NotifyKeeps ==
  ASSUME Notices, Kept, Caught, Notify
  PROVE  Notices' /\ Kept' /\ Caught'
<1>. DEFINE n == notified + 1
            r == Append(ring, n)
            c == Append(chan, n)
<1>1. /\ n \in Nat /\ n \in 0 .. n /\ notified' = n
      /\ cursor' = cursor /\ cursor <= n /\ cursor \in Int
  BY DEF Notices, Notify, pageVars
<1>2. ring \in Seq(0 .. n) /\ chan \in Seq(0 .. n) /\ pending \in Seq(0 .. n)
  <2>1. 0 .. notified \subseteq 0 .. n
    BY DEF Notices
  <2>2. QED
    BY <2>1, SeqMonotonic DEF Notices
<1>3. r \in Seq(0 .. n) /\ r # <<>> /\ newest(r) = n
  BY <1>1, <1>2, Appended, ZenonT(40)
<1>4. c \in Seq(0 .. n) /\ c # <<>> /\ newest(c) = n
  BY <1>1, <1>2, Appended, ZenonT(40)
<1>5. /\ ring' = lastOf(r, RingSize) /\ UNCHANGED <<pending, linked>>
      /\ \/ chan' = c /\ subscribed' = subscribed
         \/ chan' = chan /\ subscribed' = FALSE
  <2>1. /\ ring' = lastOf(r, RingSize) /\ UNCHANGED <<pending, linked>>
        /\ chan' = IF subscribed /\ ~(Len(chan) >= ChanSize) THEN c ELSE chan
        /\ subscribed' = (subscribed /\ ~(Len(chan) >= ChanSize))
    BY DEF Notify
  <2>2. QED
    BY <2>1
<1>. HIDE DEF r, c, n
<1>6. ring' \in Seq(0 .. n) /\ newest(ring') = n
  BY <1>3, <1>5, LastOf, StreamAssumption
<1>7. Notices'
  BY <1>1, <1>2, <1>4, <1>5, <1>6 DEF Notices
<1>8. Kept'
  BY <1>1, <1>6 DEF Kept, newest
<1>9. Caught'
  <2>1. linked' /\ subscribed' => chan' = c
    BY <1>5
  <2>2. QED
    BY <1>1, <1>4, <2>1 DEF Caught, newest
<1>10. QED
  BY <1>7, <1>8, <1>9

LEMMA ConnectKeeps ==
  ASSUME Notices, Kept, Connect
  PROVE  Notices' /\ Kept' /\ Caught'
<1>1. UNCHANGED <<notified, ring, cursor>> /\ pending' = replay /\ chan' = <<>>
  BY DEF Connect, pageVars
<1>2. /\ replay \in Seq(0 .. notified)
      /\ IF replay = <<>> THEN cursor = notified ELSE newest(replay) = notified
  <2>1. CASE cursor \in Range(ring)
    <3>1. ring \in Seq(0 .. notified)
      BY DEF Notices
    <3>2. /\ behind(cursor) \in Seq(0 .. notified) /\ ring # <<>>
          /\ IF behind(cursor) = <<>> THEN cursor = newest(ring)
             ELSE newest(behind(cursor)) = newest(ring)
      BY <2>1, <3>1, Behind
    <3>3. QED
      BY <2>1, <3>2 DEF replay, Kept
  <2>2. CASE cursor \notin Range(ring)
    <3>1. replay = <<notified>> /\ notified \in 0 .. notified
      BY <2>2 DEF replay, Notices
    <3>2. QED
      BY <3>1 DEF newest
  <2>3. QED
    BY <2>1, <2>2
<1>3. <<>> \in Seq(0 .. notified)
  BY EmptySeq
<1>4. Notices'
  BY <1>1, <1>2, <1>3 DEF Notices
<1>5. Kept' /\ Caught'
  BY <1>1, <1>2 DEF Kept, Caught, newest
<1>6. QED
  BY <1>4, <1>5

LEMMA SendKeeps ==
  ASSUME Notices, Kept, Caught, Send
  PROVE  Notices' /\ Kept' /\ Caught'
<1>1. UNCHANGED <<notified, ring, linked, subscribed>> /\ notified \in Nat
  BY DEF Send, Notices
<1>2. CASE pending # <<>> /\ cursor' = Head(pending) /\ pending' = Tail(pending) /\ UNCHANGED chan
  <2>1. /\ Head(pending) \in 0 .. notified /\ Tail(pending) \in Seq(0 .. notified)
        /\ Tail(pending) # <<>> => newest(Tail(pending)) = newest(pending)
        /\ Tail(pending) = <<>> => Head(pending) = newest(pending)
    BY <1>2, Shorter DEF Notices
  <2>2. Notices'
    BY <1>1, <1>2, <2>1 DEF Notices
  <2>3. QED
    BY <1>1, <1>2, <2>1, <2>2 DEF Kept, Caught, newest
<1>3. CASE pending = <<>> /\ chan # <<>> /\ cursor' = Head(chan) /\ chan' = Tail(chan)
           /\ UNCHANGED pending
  <2>1. /\ Head(chan) \in 0 .. notified /\ Tail(chan) \in Seq(0 .. notified)
        /\ Tail(chan) # <<>> => newest(Tail(chan)) = newest(chan)
        /\ Tail(chan) = <<>> => Head(chan) = newest(chan)
    BY <1>3, Shorter DEF Notices
  <2>2. Notices'
    BY <1>1, <1>3, <2>1 DEF Notices
  <2>3. QED
    BY <1>1, <1>3, <2>1, <2>2 DEF Kept, Caught, newest
<1>4. QED
  BY <1>2, <1>3 DEF Send

LEMMA StreamStep ==
  ASSUME Notices, Kept, Caught, [Next]_vars
  PROVE  Notices' /\ Kept' /\ Caught'
<1>1. CASE HangUp \/ Drop
  <2>1. cut
    BY <1>1 DEF HangUp, Drop
  <2>2. <<>> \in Seq(0 .. notified)
    BY EmptySeq
  <2>3. QED
    BY <2>1, <2>2 DEF cut, pageVars, Notices, Kept, Caught, newest
<1>2. CASE ~serverSteps
  BY <1>2, Elsewhere DEF Notices, Kept, Caught, newest, serverVars
<1>3. QED
  BY <1>1, <1>2, NotifyKeeps, ConnectKeeps, SendKeeps DEF serverSteps

-----------------------------------------------------------------------------
(* The page.                                                               *)

\* What the index shows changes with an announcement to come.
LEMMA LookTells ==
  ASSUME Look
  PROVE  /\ stage # "changed"
         /\ stage' = "changed" \/ shown' = shown
         /\ UNCHANGED <<serverVars, pageVars>>
BY DEF Look, Refresh, OpenLog, NoLog, ReadLog, Scan

\* A request of the page, an answer to it and its arrival.
LEMMA BrowserKeeps ==
  ASSUME Asked, Browser
  PROVE  Asked'
<1>. DEFINE V == Range(requests) \cup {NoAnswer, shown}
            n == Len(requests)
<1>0. requests \in Seq(V) /\ n \in Nat /\ DOMAIN requests = 1 .. n
  <2>1. requests \in Seq(Range(requests)) /\ Range(requests) \subseteq V
    BY DEF Asked
  <2>2. requests \in Seq(V)
    BY <2>1, SeqMonotonic
  <2>3. QED
    BY <2>2, LenProperties
<1>1. UNCHANGED <<cursor, notified, stage, shown>>
  BY DEF Browser, Fetch, Answer, Arrive, indexVars, serverVars
<1>2. CASE Fetch
  <2>1. requests' = Append(requests, NoAnswer) /\ NoAnswer \in V
    BY <1>2 DEF Fetch
  <2>2. requests' \in Seq(V) /\ requests' # <<>> /\ newest(requests') = NoAnswer
    BY <1>0, <2>1, Appended
  <2>3. requests' \in Seq(Range(requests'))
    BY <2>2, SeqOfRange
  <2>4. QED
    BY <2>2, <2>3 DEF Asked, newest
<1>3. CASE Answer
  <2>1. PICK i \in DOMAIN requests :
           requests[i] = NoAnswer /\ requests' = [requests EXCEPT ![i] = shown]
    BY <1>3 DEF Answer
  <2>2. i \in 1 .. n /\ shown \in V /\ requests # <<>>
    BY <1>0, <2>1, EmptySeq
  <2>3. /\ requests' \in Seq(V) /\ Len(requests') = n
        /\ \A j \in 1 .. n : requests'[j] = IF j = i THEN shown ELSE requests[j]
    BY <1>0, <2>1, <2>2, ExceptSeq
  <2>4. n \in 1 .. n /\ requests' # <<>>
    BY <1>0, <2>2, <2>3, EmptySeq
  <2>5. newest(requests') = shown \/ newest(requests') = newest(requests)
    BY <2>3, <2>4 DEF newest
  <2>6. UNCHANGED due
    BY <1>3 DEF Answer
  <2>7. requests' \in Seq(Range(requests'))
    BY <2>3, SeqOfRange
  <2>8. QED
    BY <1>1, <2>2, <2>4, <2>5, <2>6, <2>7 DEF Asked, newest
<1>4. CASE Arrive
  <2>1. PICK i \in DOMAIN requests :
           /\ requests[i] # NoAnswer
           /\ IF i = n THEN page' = requests[i] /\ requests' = <<>>
              ELSE requests' = RemoveAt(requests, i) /\ UNCHANGED page
    BY <1>4 DEF Arrive
  <2>2. i \in 1 .. n /\ requests # <<>> /\ UNCHANGED due
    BY <1>0, <1>4, <2>1, EmptySeq DEF Arrive
  <2>3. CASE i = n
    <3>1. requests' \in Seq(Range(requests'))
      BY <2>1, <2>3, EmptySeq
    <3>2. newest(requests) \in {NoAnswer, shown} => page' = shown
      BY <2>1, <2>3 DEF newest
    <3>3. QED
      BY <1>1, <2>1, <2>2, <2>3, <3>1, <3>2 DEF Asked
  <2>4. CASE i # n
    <3>1. /\ requests' \in Seq(V) /\ requests' # <<>>
          /\ newest(requests') = newest(requests)
      BY <1>0, <2>1, <2>2, <2>4, Removed
    <3>2. requests' \in Seq(Range(requests'))
      BY <3>1, SeqOfRange
    <3>3. QED
      BY <1>1, <2>1, <2>2, <2>4, <3>1, <3>2 DEF Asked, newest
  <2>5. QED
    BY <2>3, <2>4
<1>5. QED
  BY <1>2, <1>3, <1>4 DEF Browser

LEMMA AskedStep ==
  ASSUME Notices, Asked, [Next]_vars
  PROVE  Asked'
<1>1. CASE Browser
  BY <1>1, BrowserKeeps
<1>2. CASE Notify
  <2>1. cursor' # notified' /\ UNCHANGED requests
    BY <1>2 DEF Notify, pageVars, Notices
  <2>2. QED
    BY <2>1 DEF Asked
<1>3. CASE Send
  BY <1>3 DEF Send, Asked
<1>4. CASE Look
  BY <1>4, LookTells DEF Asked, newest, serverVars, pageVars
<1>5. CASE Work \/ Connect \/ HangUp \/ Drop \/ UNCHANGED vars
  <2>1. UNCHANGED <<notified, cursor, due, requests, page, stage, shown>>
    BY <1>5 DEF Work, Program, Connect, HangUp, Drop, cut, vars, indexVars, serverVars, pageVars
  <2>2. QED
    BY <2>1 DEF Asked, newest
<1>6. QED
  BY <1>1, <1>2, <1>3, <1>4, <1>5 DEF Next, Loop, Handler

-----------------------------------------------------------------------------
(* The specification.                                                      *)

\* Every announcement a page has to see reaches it or is still on its way.
THEOREM Invariance == Spec => []IInv
<1>1. Init => IInv
  <2>1. SUFFICES ASSUME Init PROVE IInv
    OBVIOUS
  <2>2. <<>> \in Seq(0 .. notified) /\ <<>> \in Seq(Range(requests))
    BY EmptySeq
  <2>3. QED
    BY <2>1, <2>2 DEF Init, IndexInit, IInv, Notices, Kept, Caught, Asked
<1>2. IInv /\ [Next]_vars => IInv'
  BY StreamStep, AskedStep DEF IInv
<1>3. QED
  BY <1>1, <1>2, PTL DEF Spec

\* While the page shows something else than the index, an announcement is on
\* its way, a reconnection is due, or a request that will bring the view of the
\* index (server.go, Notify and stream; web/app.js, connectStream and refreshView).
THEOREM NothingIsMissed == Spec => []NothingMissed
<1>1. IInv => NothingMissed
  <2>1. SUFFICES ASSUME IInv, page # shown, stage # "changed", linked, subscribed,
                        pending = <<>>, chan = <<>>, ~due
                 PROVE  \E i \in DOMAIN requests :
                           i = Len(requests) /\ requests[i] \in {NoAnswer, shown}
    BY DEF NothingMissed
  <2>2. cursor = notified
    BY <2>1 DEF IInv, Caught
  <2>3. requests # <<>> /\ newest(requests) \in {NoAnswer, shown}
    BY <2>1, <2>2 DEF IInv, Asked
  <2>4. Len(requests) \in DOMAIN requests
    <3>1. requests \in Seq(Range(requests))
      BY <2>1 DEF IInv, Asked
    <3>2. Len(requests) \in Nat \ {0} /\ DOMAIN requests = 1 .. Len(requests)
      BY <2>3, <3>1, EmptySeq, LenProperties
    <3>3. QED
      BY <3>2
  <2>5. QED
    BY <2>3, <2>4 DEF newest
<1>2. QED
  BY Invariance, <1>1, PTL

-----------------------------------------------------------------------------
(* The log and what the index has read of it.                              *)

\* Where the first n of these lines end.
extent(s, n) == 2 * n + Cardinality({i \in 1 .. n : s[i].copy = 1})

Line == [kind : {"created", "started", "finished"}, run : Nat,
         report : course.reports \cup {"none"}, copy : {0, 1}]

\* The lines of the log; until somebody puts another one in its place, each is
\* there once, and the runs write theirs in the order of their phases.
Lines ==
  /\ attempts \in Nat /\ log \in Seq(Line)
  /\ \A i \in 1 .. Len(log) : log[i].run <= attempts
  /\ "restore" \in faults =>
       /\ \A i \in 1 .. Len(log) :
            /\ log[i].copy = 0
            /\ phase = "begun" => log[i].kind = "created" \/ log[i].run < attempts
            /\ phase = "started" => log[i].kind # "finished" \/ log[i].run < attempts
       /\ \A i, j \in 1 .. Len(log) : i # j => log[i] # log[j]
  /\ foreign => "restore" \notin faults

\* The reader stands behind the lines it has read, and knows the last of them.
Consumed ==
  /\ view \in Seq(Line) /\ offset = extent(view, Len(view)) /\ size \in Nat
  /\ anchor = IF view = <<>> THEN NoCell
              ELSE [line |-> newest(view), at |-> 2 + newest(view).copy]

\* They are the first of the log, or the last of them is not in the log and
\* never will be.
Opening == Len(view) <= Len(log) /\ \A i \in 1 .. Len(view) : view[i] = log[i]
Alien ==
  /\ view # <<>> /\ foreign /\ \A i \in 1 .. Len(log) : log[i] # newest(view)
  /\ newest(view).run <= attempts /\ (phase # "idle" => newest(view).run < attempts)

\* The directory, and when the record counts as unreadable.
Directory ==
  /\ disk \in {"none", "dir", "file", "gone"}
  /\ disk \in {"none", "dir"} => ~known
  /\ err \in {"none", "unreadable"}
  /\ err = "unreadable" => early \/ (known /\ (disk = "gone" \/ other))
  /\ {torn, touched, early} \subseteq BOOLEAN

\* While the reader reads, nothing happens to the log that it would not see, but
\* that it is moved away.
Polled ==
  /\ stage = "polled" => /\ known /\ (err = "none" \/ early)
                         /\ disk = "gone" \/ (disk = "file" /\ (other \/ touched \/ size = length))
  /\ ReadsTheLog

RInv == Lines /\ Consumed /\ (Opening \/ Alien)

-----------------------------------------------------------------------------
(* Bytes and lines.                                                        *)

LEMMA MinOfNat ==
  ASSUME NEW S \in SUBSET Nat, S # {}
  PROVE  Min(S) \in S /\ \A y \in S : Min(S) <= y
<1>1. \E x \in S : \A y \in S : ~ <<y, x>> \in OpToRel(<, Nat)
  BY NatLessThanWellFounded, WFMin
<1>2. \A x, y \in Nat : y < x => <<y, x>> \in OpToRel(<, Nat)
  BY Zenon DEF OpToRel
<1>3. \A x, y \in Nat : ~ (y < x) => x <= y
  OBVIOUS
<1>4. \E x \in S : \A y \in S : x <= y
  BY <1>1, <1>2, <1>3, Zenon
<1>5. QED
  BY <1>4 DEF Min

LEMMA MaxOfNat ==
  ASSUME NEW S \in SUBSET Nat, S # {}, NEW n \in Nat, \A y \in S : y <= n
  PROVE  Max(S) \in S /\ \A y \in S : y <= Max(S)
<1>. DEFINE T == {n - y : y \in S}
<1>1. T \in SUBSET Nat /\ T # {}
  <2>1. \A y \in S : n - y \in Nat
    OBVIOUS
  <2>2. T \subseteq Nat
    BY <2>1
  <2>3. QED
    BY <2>2
<1>2. PICK t \in T : \A z \in T : t <= z
  <2>. HIDE DEF T
  <2>1. QED
    BY <1>1, MinOfNat
<1>3. PICK x \in S : t = n - x
  BY <1>2
<1>4. \A y \in S : y <= x
  <2>1. SUFFICES ASSUME NEW y \in S PROVE y <= x
    OBVIOUS
  <2>2. n - y \in T /\ x \in Nat /\ y \in Nat
    BY <1>3
  <2>3. n - x <= n - y
    BY <1>2, <1>3, <2>2
  <2>4. QED
    BY <2>2, <2>3
<1>5. \E z \in S : \A y \in S : z >= y
  BY <1>4
<1>6. QED
  BY <1>5 DEF Max

LEMMA ExtentIs ==
  ASSUME NEW s, NEW n \in Nat
  PROVE  /\ extent(s, n) \in Nat /\ extent(s, 0) = 0
         /\ extent(s, n + 1) = extent(s, n) + 2 + (IF s[n + 1].copy = 1 THEN 1 ELSE 0)
<1>. DEFINE A(m) == {i \in 1 .. m : s[i].copy = 1}
<1>1. \A m \in Nat : IsFiniteSet(A(m)) /\ Cardinality(A(m)) \in Nat
  <2>1. SUFFICES ASSUME NEW m \in Nat PROVE IsFiniteSet(A(m)) /\ Cardinality(A(m)) \in Nat
    OBVIOUS
  <2>2. IsFiniteSet(1 .. m)
    BY FS_Interval
  <2>3. A(m) \subseteq 1 .. m
    OBVIOUS
  <2>4. IsFiniteSet(A(m))
    BY <2>2, <2>3, FS_Subset
  <2>5. QED
    BY <2>4, FS_CardinalityType
<1>2. A(0) = {}
  OBVIOUS
<1>3. Cardinality(A(0)) = 0
  BY <1>2, FS_EmptySet
<1>4. A(n + 1) = IF s[n + 1].copy = 1 THEN A(n) \cup {n + 1} ELSE A(n)
  OBVIOUS
<1>5. n + 1 \notin A(n)
  OBVIOUS
<1>6. Cardinality(A(n) \cup {n + 1}) = Cardinality(A(n)) + 1
  <2>. HIDE DEF A
  <2>1. QED
    BY <1>1, <1>5, FS_AddElement
<1>7. Cardinality(A(n + 1)) = Cardinality(A(n)) + (IF s[n + 1].copy = 1 THEN 1 ELSE 0)
  <2>. HIDE DEF A
  <2>1. QED
    BY <1>1, <1>4, <1>6
<1>8. /\ extent(s, n) = 2 * n + Cardinality(A(n)) /\ extent(s, 0) = 2 * 0 + Cardinality(A(0))
      /\ extent(s, n + 1) = 2 * (n + 1) + Cardinality(A(n + 1))
  BY DEF extent
<1>. HIDE DEF A
<1>9. QED
  BY <1>1, <1>3, <1>7, <1>8

\* Every line takes place.
LEMMA ExtentGrows ==
  ASSUME NEW s, NEW m \in Nat, NEW n \in Nat, m < n
  PROVE  extent(s, m) < extent(s, n)
<1>. DEFINE A(k) == {i \in 1 .. k : s[i].copy = 1}
<1>1. IsFiniteSet(1 .. n)
  BY FS_Interval
<1>2. A(m) \subseteq A(n) /\ A(n) \subseteq 1 .. n
  OBVIOUS
<1>3. extent(s, m) = 2 * m + Cardinality(A(m)) /\ extent(s, n) = 2 * n + Cardinality(A(n))
  BY DEF extent
<1>. HIDE DEF A
<1>4. IsFiniteSet(A(n))
  BY <1>1, <1>2, FS_Subset
<1>5. IsFiniteSet(A(m)) /\ Cardinality(A(m)) <= Cardinality(A(n))
  BY <1>2, <1>4, FS_Subset
<1>6. Cardinality(A(m)) \in Nat /\ Cardinality(A(n)) \in Nat
  BY <1>4, <1>5, FS_CardinalityType
<1>7. QED
  BY <1>3, <1>5, <1>6

LEMMA ExtentAgrees ==
  ASSUME NEW s, NEW t, NEW n \in Nat, \A i \in 1 .. n : s[i] = t[i]
  PROVE  extent(s, n) = extent(t, n)
<1>1. {i \in 1 .. n : s[i].copy = 1} = {i \in 1 .. n : t[i].copy = 1}
  OBVIOUS
<1>2. QED
  BY <1>1 DEF extent

LEMMA LogIs ==
  ASSUME Lines
  PROVE  /\ Len(log) \in Nat /\ DOMAIN log = 1 .. Len(log)
         /\ \A i \in 1 .. Len(log) : log[i] \in Line
         /\ \A n \in Nat : endOf(n) = extent(log, n)
BY LenProperties, ElementOfSeq DEF Lines, endOf, extent

\* The last byte of a line is its own, and every byte is one of a line, if it is
\* not behind them all.
LEMMA ByteIs ==
  ASSUME Lines, NEW k \in Nat \ {0}
  PROVE  /\ byte(k) = NoCell \/ \E i \in 1 .. Len(log) : byte(k).line = log[i]
         /\ \A n \in 1 .. Len(log) : k = endOf(n) =>
               byte(k) = [line |-> log[n], at |-> 2 + log[n].copy]
<1>. DEFINE S == {j \in DOMAIN log : k <= endOf(j)}
<1>0. /\ Len(log) \in Nat /\ DOMAIN log = 1 .. Len(log)
      /\ \A i \in 1 .. Len(log) : log[i] \in Line
      /\ \A n \in Nat : endOf(n) = extent(log, n)
  BY LogIs
<1>1. \A n \in Nat : endOf(n) \in Nat
  BY <1>0, ExtentIs
<1>2. byte(k) = IF k > endOf(Len(log)) THEN NoCell
                ELSE [line |-> log[Min(S)], at |-> k - endOf(Min(S) - 1)]
  BY DEF byte
<1>3. byte(k) = NoCell \/ \E i \in 1 .. Len(log) : byte(k).line = log[i]
  <2>1. SUFFICES ASSUME ~(k > endOf(Len(log)))
                 PROVE  \E i \in 1 .. Len(log) : byte(k).line = log[i]
    BY <1>2
  <2>2. k <= endOf(Len(log)) /\ Len(log) # 0
    <3>1. endOf(0) = 0
      BY <1>0, ExtentIs
    <3>2. QED
      BY <1>0, <1>1, <2>1, <3>1
  <2>3. S \in SUBSET Nat /\ Len(log) \in S
    BY <1>0, <2>2
  <2>4. Min(S) \in S
    <3>. HIDE DEF S
    <3>1. QED
      BY <2>3, MinOfNat
  <2>5. byte(k).line = log[Min(S)]
    BY <1>2, <2>1
  <2>6. Min(S) \in 1 .. Len(log)
    BY <1>0, <2>4
  <2>7. QED
    BY <2>5, <2>6
<1>4. ASSUME NEW n \in 1 .. Len(log), k = endOf(n)
      PROVE  byte(k) = [line |-> log[n], at |-> 2 + log[n].copy]
  <2>1. n \in Nat /\ n - 1 \in Nat /\ (n - 1) + 1 = n /\ n - 1 < n /\ n \in S
    BY <1>0, <1>1, <1>4
  <2>2. \A j \in S : n <= j
    <3>1. SUFFICES ASSUME NEW j \in S, j < n PROVE FALSE
      BY <1>0
    <3>2. endOf(j) < endOf(n) /\ j \in Nat
      BY <1>0, <2>1, <3>1, ExtentGrows
    <3>3. QED
      BY <1>1, <1>4, <2>1, <3>1, <3>2
  <2>3. Min(S) = n
    <3>1. S \in SUBSET Nat
      BY <1>0
    <3>. HIDE DEF S
    <3>2. Min(S) \in S /\ Min(S) <= n
      BY <2>1, <3>1, MinOfNat
    <3>3. n <= Min(S) /\ Min(S) \in Nat
      BY <2>2, <3>1, <3>2
    <3>4. QED
      BY <2>1, <3>2, <3>3
  <2>4. ~(k > endOf(Len(log)))
    <3>1. endOf(n) \in Nat /\ endOf(Len(log)) \in Nat /\ n <= Len(log)
      BY <1>0, <1>1, <2>1
    <3>2. CASE n = Len(log)
      BY <1>4, <3>1, <3>2
    <3>3. CASE n < Len(log)
      <4>1. extent(log, n) < extent(log, Len(log))
        BY <1>0, <2>1, <3>3, ExtentGrows
      <4>2. QED
        BY <1>0, <1>4, <2>1, <3>1, <4>1
    <3>4. n \in Nat /\ Len(log) \in Nat
      BY <1>0, <2>1
    <3>5. n = Len(log) \/ n < Len(log)
      BY <3>1, <3>4
    <3>6. QED
      BY <3>2, <3>3, <3>5
  <2>5. endOf(n) = endOf(n - 1) + 2 + (IF log[n].copy = 1 THEN 1 ELSE 0) /\ endOf(n - 1) \in Nat
    <3>1. extent(log, (n - 1) + 1) = extent(log, n - 1) + 2
                                     + (IF log[(n - 1) + 1].copy = 1 THEN 1 ELSE 0)
      BY <2>1, ExtentIs
    <3>2. QED
      BY <1>0, <1>1, <2>1, <3>1
  <2>6. log[n].copy \in {0, 1}
    BY <1>0 DEF Line
  <2>7. k - endOf(n - 1) = 2 + log[n].copy
    BY <1>4, <2>5, <2>6
  <2>8. QED
    BY <1>2, <2>3, <2>4, <2>7
<1>5. QED
  BY <1>3, <1>4

-----------------------------------------------------------------------------
(* The log and its reader: what the task does.                             *)

\* Nobody else writes what the runs and their outsiders write.
LEMMA TaskOnly ==
  ASSUME [Next]_vars, ~Program
  PROVE  /\ UNCHANGED <<phase, attempts, queue, emitted, course, disk, log, torn, foreign>>
         /\ UNCHANGED <<streams, dirs>>
         /\ faults' \subseteq faults
BY DEF Next, Work, Look, Loop, Handler, Browser, Notify, Connect, Send, HangUp, Drop, cut, fault,
       Fetch, Answer, Arrive, Refresh, vars, indexVars, programVars, diskVars

LEMMA FaultsGo ==
  ASSUME Program
  PROVE  faults' \subseteq faults /\ course' = course
BY DEF Program, Begin, Create, AppendCreated, AppendStarted, AppendFinished, Return, Crash,
       Flush, FallSilent, Restore, MoveAway, PutBack, emit, fault, programVars

\* The readers' state is theirs.
LEMMA ReadersOwn ==
  ASSUME Program
  PROVE  UNCHANGED <<stage, known, size, offset, anchor, view, err, early, shown>>
BY DEF Program

LEMMA Appends ==
  ASSUME log \in Seq(Line), NEW l \in Line, log' = Append(log, l)
  PROVE  /\ log' \in Seq(Line) /\ Len(log) \in Nat /\ Len(log') = Len(log) + 1
         /\ \A i \in 1 .. Len(log) : log'[i] = log[i]
         /\ log'[Len(log) + 1] = l
BY AppendProperties, LenProperties

Writes == AppendCreated \/ AppendStarted \/ AppendFinished

\* The line a run appends.
LEMMA WritesALine ==
  ASSUME Lines, Writes, course' = course
  PROVE  \E l \in Line :
           /\ log' = Append(log, l) /\ l.run = attempts /\ l.copy = 0
           /\ attempts' = attempts /\ foreign' = foreign /\ phase # "idle" /\ phase' # "idle"
           /\ torn' = FALSE /\ touched' = TRUE /\ disk' = disk /\ disk = "file"
           /\ \/ l.kind = "created" /\ log = <<>>
              \/ l.kind = "started" /\ phase = "begun" /\ phase' = "started"
              \/ l.kind = "finished" /\ phase = "started" /\ phase' = "finished"
<1>1. CASE AppendCreated
  <2>. DEFINE l == line("created", "none")
  <2>1. l \in Line /\ l.run = attempts /\ l.copy = 0 /\ l.kind = "created"
    BY DEF Lines, Line, line
  <2>2. append(l) /\ log = <<>> /\ phase = "begun" /\ phase' = phase
    BY <1>1 DEF AppendCreated
  <2>. HIDE DEF l
  <2>3. QED
    BY <2>1, <2>2 DEF append
<1>2. CASE AppendStarted
  <2>. DEFINE l == line("started", "none")
  <2>1. l \in Line /\ l.run = attempts /\ l.copy = 0 /\ l.kind = "started"
    BY DEF Lines, Line, line
  <2>2. append(l) /\ phase = "begun" /\ phase' = "started"
    BY <1>2 DEF AppendStarted
  <2>. HIDE DEF l
  <2>3. QED
    BY <2>1, <2>2 DEF append
<1>3. CASE AppendFinished
  <2>1. PICK report \in course.reports : append(line("finished", report))
    BY <1>3 DEF AppendFinished
  <2>. DEFINE l == line("finished", report)
  <2>2. l \in Line /\ l.run = attempts /\ l.copy = 0 /\ l.kind = "finished"
    BY DEF Lines, Line, line
  <2>3. append(l) /\ phase = "started" /\ phase' = "finished"
    BY <1>3, <2>1 DEF AppendFinished
  <2>. HIDE DEF l
  <2>4. QED
    BY <2>2, <2>3 DEF append
<1>4. QED
  BY <1>1, <1>2, <1>3 DEF Writes

LEMMA WriteKeepsLines ==
  ASSUME Lines, Writes, faults' \subseteq faults, course' = course
  PROVE  Lines'
<1>1. PICK l \in Line :
           /\ log' = Append(log, l) /\ l.run = attempts /\ l.copy = 0
           /\ attempts' = attempts /\ foreign' = foreign /\ phase # "idle" /\ phase' # "idle"
           /\ torn' = FALSE /\ touched' = TRUE /\ disk' = disk /\ disk = "file"
           /\ \/ l.kind = "created" /\ log = <<>>
              \/ l.kind = "started" /\ phase = "begun" /\ phase' = "started"
              \/ l.kind = "finished" /\ phase = "started" /\ phase' = "finished"
  BY WritesALine
<1>2. log \in Seq(Line) /\ attempts \in Nat
  BY DEF Lines
<1>3. /\ log' \in Seq(Line) /\ Len(log) \in Nat /\ Len(log') = Len(log) + 1
      /\ \A i \in 1 .. Len(log) : log'[i] = log[i]
      /\ log'[Len(log) + 1] = l
  BY <1>1, <1>2, Appends
<1>4. Line' = Line
  BY DEF Line
<1>5. log = <<>> => Len(log) = 0
  BY <1>2, EmptySeq
<1>6. \A i \in 1 .. Len(log') : log'[i].run <= attempts'
  <2>1. \A i \in 1 .. Len(log) : log[i].run <= attempts
    BY DEF Lines
  <2>2. QED
    BY <1>1, <1>2, <1>3, <2>1
<1>7. ASSUME "restore" \in faults'
      PROVE  /\ \A i \in 1 .. Len(log') :
                  /\ log'[i].copy = 0
                  /\ phase' = "begun" => log'[i].kind = "created" \/ log'[i].run < attempts'
                  /\ phase' = "started" => log'[i].kind # "finished" \/ log'[i].run < attempts'
             /\ \A i, j \in 1 .. Len(log') : i # j => log'[i] # log'[j]
  <2>1. /\ \A i \in 1 .. Len(log) :
            /\ log[i].copy = 0
            /\ phase = "begun" => log[i].kind = "created" \/ log[i].run < attempts
            /\ phase = "started" => log[i].kind # "finished" \/ log[i].run < attempts
            /\ log[i] \in Line
        /\ \A i, j \in 1 .. Len(log) : i # j => log[i] # log[j]
    BY <1>7, LogIs DEF Lines
  <2>2. \A i \in 1 .. Len(log') : i \in 1 .. Len(log) \/ i = Len(log) + 1
    BY <1>3
  <2>3. \A i \in 1 .. Len(log) : log[i] # l
    <3>1. CASE log = <<>>
      BY <1>5, <3>1
    <3>2. CASE l.kind = "started" /\ phase = "begun"
      BY <1>1, <1>2, <2>1, <3>2
    <3>3. CASE l.kind = "finished" /\ phase = "started"
      BY <1>1, <1>2, <2>1, <3>3
    <3>4. QED
      BY <1>1, <3>1, <3>2, <3>3
  <2>4. ASSUME NEW i \in 1 .. Len(log')
        PROVE  /\ log'[i].copy = 0
               /\ phase' = "begun" => log'[i].kind = "created" \/ log'[i].run < attempts'
               /\ phase' = "started" => log'[i].kind # "finished" \/ log'[i].run < attempts'
    <3>1. CASE log = <<>> /\ l.kind = "created"
      BY <1>1, <1>3, <1>5, <3>1, <2>2
    <3>2. CASE l.kind = "started" /\ phase = "begun" /\ phase' = "started"
      <4>1. CASE i = Len(log) + 1
        BY <1>1, <1>3, <3>2, <4>1
      <4>2. CASE i \in 1 .. Len(log)
        BY <1>1, <1>2, <1>3, <2>1, <3>2, <4>2
      <4>3. QED
        BY <2>2, <4>1, <4>2
    <3>3. CASE l.kind = "finished" /\ phase' = "finished"
      BY <1>1, <1>3, <2>1, <2>2, <3>3
    <3>4. QED
      BY <1>1, <3>1, <3>2, <3>3
  <2>5. \A i, j \in 1 .. Len(log') : i # j => log'[i] # log'[j]
    BY <1>3, <2>1, <2>2, <2>3
  <2>6. QED
    BY <2>4, <2>5
<1>8. foreign' => "restore" \notin faults'
  BY <1>1 DEF Lines
<1>9. QED
  BY <1>1, <1>2, <1>3, <1>4, <1>6, <1>7, <1>8 DEF Lines

\* A log put in the place of this one has some of its lines, all of one copy.
LEMMA RestoreKeepsLines ==
  ASSUME Lines, Restore, course' = course
  PROVE  /\ Lines'
         /\ \E copy \in {0, 1} :
              /\ Len(log') <= Len(log)
              /\ \A i \in 1 .. Len(log') : log'[i] = [log[i] EXCEPT !.copy = copy]
<1>1. PICK n \in 0 .. Len(log), copy \in {0, 1} :
           log' = [i \in 1 .. n |-> [log[i] EXCEPT !.copy = copy]]
  BY DEF Restore
<1>2. /\ Len(log) \in Nat /\ DOMAIN log = 1 .. Len(log)
      /\ \A i \in 1 .. Len(log) : log[i] \in Line
  BY LogIs
<1>3. \A i \in 1 .. n : [log[i] EXCEPT !.copy = copy] \in Line
                        /\ [log[i] EXCEPT !.copy = copy].run = log[i].run
  BY <1>1, <1>2 DEF Line
<1>4. n \in Nat /\ log' \in [1 .. n -> Line]
  BY <1>1, <1>2, <1>3
<1>5. log' \in Seq(Line) /\ Len(log') = n
  <2>1. log' \in Seq(Line)
    BY <1>4, SeqDef
  <2>2. DOMAIN log' = 1 .. Len(log') /\ Len(log') \in Nat /\ DOMAIN log' = 1 .. n
    BY <1>4, <2>1, LenProperties
  <2>3. QED
    BY <1>4, <2>1, <2>2
<1>6. \A i \in 1 .. Len(log') : log'[i] = [log[i] EXCEPT !.copy = copy] /\ log'[i].run = log[i].run
  BY <1>1, <1>3, <1>5
<1>7. /\ attempts' = attempts /\ phase' = phase /\ foreign' = TRUE
      /\ "restore" \notin faults'
  BY DEF Restore, fault
<1>8. Line' = Line
  BY DEF Line
<1>9. Lines'
  <2>1. \A i \in 1 .. Len(log') : log'[i].run <= attempts'
    BY <1>2, <1>5, <1>6, <1>7 DEF Lines
  <2>2. QED
    BY <1>5, <1>7, <1>8, <2>1 DEF Lines
<1>10. QED
  BY <1>1, <1>2, <1>5, <1>6, <1>9

LEMMA LinesStep ==
  ASSUME Lines, [Next]_vars
  PROVE  Lines'
<1>1. CASE ~Program
  <2>1. UNCHANGED <<phase, attempts, course, log, foreign>> /\ faults' \subseteq faults
    BY <1>1, TaskOnly
  <2>2. Line' = Line
    BY <2>1 DEF Line
  <2>3. QED
    BY <2>1, <2>2 DEF Lines
<1>2. CASE Program
  <2>1. faults' \subseteq faults /\ course' = course
    BY <1>2, FaultsGo
  <2>2. Line' = Line
    BY <2>1 DEF Line
  <2>3. CASE Writes
    BY <2>1, <2>3, WriteKeepsLines
  <2>4. CASE Restore
    BY <2>1, <2>4, RestoreKeepsLines
  <2>5. CASE Begin
    <3>1. attempts' = attempts + 1 /\ UNCHANGED <<log, foreign>> /\ phase' = "begun"
      BY <2>5 DEF Begin
    <3>2. \A i \in 1 .. Len(log) : log[i].run \in Nat
      BY LogIs DEF Line
    <3>3. QED
      BY <2>1, <2>2, <3>1, <3>2 DEF Lines
  <2>6. CASE Create \/ Return \/ Crash \/ Flush \/ FallSilent \/ MoveAway \/ PutBack
    <3>1. UNCHANGED <<attempts, log, foreign>> /\ (phase' = phase \/ phase' = "idle")
      BY <2>6 DEF Create, Return, Crash, Flush, FallSilent, MoveAway, PutBack, programVars, diskVars
    <3>2. QED
      BY <2>1, <2>2, <3>1 DEF Lines
  <2>7. QED
    BY <1>2, <2>3, <2>4, <2>5, <2>6 DEF Program, Writes
<1>3. QED
  BY <1>1, <1>2

-----------------------------------------------------------------------------
(* What a refresh reads.                                                   *)

LEMMA ViewIs ==
  ASSUME Consumed
  PROVE  /\ Len(view) \in Nat /\ offset \in Nat
         /\ \A i \in 1 .. Len(view) : view[i] \in Line
         /\ view # <<>> => Len(view) > 0 /\ offset > 0 /\ newest(view) \in Line /\ anchor # NoCell
         /\ view = <<>> => Len(view) = 0 /\ offset = 0
<1>1. view \in Seq(Line) /\ offset = extent(view, Len(view))
  BY DEF Consumed
<1>2. Len(view) \in Nat /\ (view # <<>> => Len(view) > 0) /\ (view = <<>> => Len(view) = 0)
  BY <1>1, EmptySeq, LenProperties
<1>3. \A i \in 1 .. Len(view) : view[i] \in Line
  BY <1>1, <1>2, ElementOfSeq
<1>4. offset \in Nat /\ extent(view, 0) = 0
  BY <1>1, <1>2, ExtentIs
<1>5. ASSUME view # <<>>
      PROVE  offset > 0 /\ newest(view) \in Line /\ anchor # NoCell
  <2>1. extent(view, 0) < extent(view, Len(view))
    BY <1>2, <1>5, ExtentGrows
  <2>2. newest(view) \in Line
    BY <1>2, <1>3, <1>5 DEF newest
  <2>3. anchor.line = newest(view)
    BY <1>5 DEF Consumed
  <2>4. newest(view).kind # "none" /\ NoCell.line.kind = "none"
    BY <2>2 DEF Line, NoCell, NoLine
  <2>5. QED
    BY <1>1, <1>4, <2>1, <2>2, <2>3, <2>4
<1>6. QED
  BY <1>1, <1>2, <1>3, <1>4, <1>5

\* What was read of another log is found out.
LEMMA AlienIsSeen ==
  ASSUME Lines, Consumed, Alien
  PROVE  rewritten
<1>1. view # <<>> /\ \A i \in 1 .. Len(log) : log[i] # newest(view)
  BY DEF Alien
<1>2. offset \in Nat \ {0} /\ anchor # NoCell /\ anchor.line = newest(view)
  BY <1>1, ViewIs DEF Consumed
<1>3. byte(offset) = NoCell \/ \E i \in 1 .. Len(log) : byte(offset).line = log[i]
  BY <1>2, ByteIs
<1>4. byte(offset) # anchor
  BY <1>1, <1>2, <1>3
<1>5. QED
  BY <1>2, <1>4 DEF rewritten

LEMMA LengthIs ==
  ASSUME Lines
  PROVE  length \in Nat /\ endOf(Len(log)) <= length
<1>1. endOf(Len(log)) \in Nat
  BY LogIs, ExtentIs
<1>2. length = endOf(Len(log)) + (IF torn THEN 1 ELSE 0)
  BY DEF length
<1>3. QED
  BY <1>1, <1>2

\* The lines read are the first of the log, and all that were there when it was
\* opened.
LEMMA ReadIs ==
  ASSUME RInv, ReadLog
  PROVE  \E m \in 0 .. Len(log) :
           /\ view' \in Seq(Line) /\ Len(view') = m /\ \A i \in 1 .. m : view'[i] = log[i]
           /\ offset' = endOf(m)
           /\ anchor' = IF m = 0 THEN NoCell ELSE [line |-> log[m], at |-> 2 + log[m].copy]
           /\ err' = IF rewritten THEN "none" ELSE err
           /\ size = length => m = Len(log)
<1>. DEFINE from == IF rewritten THEN 0 ELSE offset
            done == IF rewritten THEN <<>> ELSE view
            d == Len(done)
            top == Max({size, from})
            whole == {n \in 0 .. Len(log) : endOf(n) <= top}
            valid == d \in whole /\ endOf(d) = from
            M == Max(whole)
<1>a. Lines /\ Consumed /\ (Opening \/ Alien)
  BY DEF RInv
<1>0. /\ size \in Nat
      /\ Len(log) \in Nat /\ log \in Seq(Line)
      /\ \A i \in 1 .. Len(log) : log[i] \in Line
      /\ \A n \in Nat : endOf(n) = extent(log, n) /\ endOf(n) \in Nat
  BY <1>a, LogIs, ExtentIs DEF Consumed, Lines
<1>1. /\ view' = IF valid THEN done \o SubSeq(log, d + 1, M) ELSE done
      /\ offset' = IF valid THEN endOf(M) ELSE from
      /\ anchor' = IF offset' = 0 THEN NoCell
                   ELSE IF offset' = offset /\ ~rewritten THEN anchor ELSE byte(offset')
      /\ err' = IF ~valid THEN "invalid" ELSE IF rewritten THEN "none" ELSE err
  BY DEF ReadLog
<1>2. /\ d \in Nat /\ d <= Len(log) /\ done \in Seq(Line) /\ from \in Nat
      /\ \A i \in 1 .. d : done[i] = log[i]
      /\ from = endOf(d)
  <2>1. CASE rewritten
    <3>1. done = <<>> /\ from = 0 /\ done \in Seq(Line) /\ d = 0
      BY <2>1, EmptySeq
    <3>2. endOf(0) = 0
      BY <1>0, ExtentIs
    <3>. HIDE DEF done, from
    <3>3. QED
      BY <1>0, <3>1, <3>2
  <2>2. CASE ~rewritten
    <3>1. done = view /\ from = offset
      BY <2>2
    <3>2. Opening
      BY <1>a, <2>2, AlienIsSeen
    <3>3. Len(view) \in Nat /\ offset \in Nat /\ view \in Seq(Line)
          /\ offset = extent(view, Len(view))
      BY <1>a, ViewIs DEF Consumed
    <3>4. extent(view, Len(view)) = extent(log, Len(view))
      BY <3>2, <3>3, ExtentAgrees DEF Opening
    <3>. HIDE DEF done, from
    <3>5. QED
      BY <1>0, <3>1, <3>2, <3>3, <3>4 DEF Opening
  <2>3. QED
    BY <2>1, <2>2
<1>. HIDE DEF from, done, d
<1>3. top \in Nat /\ size <= top /\ from <= top
  <2>0. size \in Nat /\ from \in Nat
    BY <1>0, <1>2
  <2>1. {size, from} \in SUBSET Nat /\ size + from \in Nat /\ {size, from} # {}
        /\ \A y \in {size, from} : y <= size + from
    BY <2>0
  <2>2. top \in {size, from} /\ \A y \in {size, from} : y <= top
    BY <2>1, MaxOfNat
  <2>3. QED
    BY <1>0, <1>2, <2>2
<1>. HIDE DEF top
<1>4. valid
  BY <1>0, <1>2, <1>3
<1>5. M \in whole /\ \A y \in whole : y <= M
  <2>0. Len(log) \in Nat /\ d \in whole
    BY <1>0, <1>4
  <2>1. whole \in SUBSET Nat /\ whole # {} /\ \A y \in whole : y <= Len(log)
    BY <2>0
  <2>. HIDE DEF whole, valid
  <2>2. QED
    BY <1>0, <2>1, MaxOfNat
<1>6. M \in 0 .. Len(log) /\ d <= M /\ (size = length => M = Len(log))
  <2>1. M \in 0 .. Len(log)
    BY <1>5
  <2>2. d <= M
    BY <1>4, <1>5
  <2>3. ASSUME size = length PROVE M = Len(log)
    <3>1. endOf(Len(log)) <= top
      BY <1>0, <1>3, <1>a, <2>3, LengthIs
    <3>2. Len(log) \in whole
      BY <1>0, <3>1
    <3>3. Len(log) <= M
      BY <1>5, <3>2
    <3>4. QED
      BY <1>0, <2>1, <3>3
  <2>4. QED
    BY <2>1, <2>2, <2>3
<1>7. view' = done \o SubSeq(log, d + 1, M) /\ offset' = endOf(M) 
      /\ err' = IF rewritten THEN "none" ELSE err
  BY <1>0, <1>1, <1>4
<1>. HIDE DEF whole, valid, M
<1>8. view' \in Seq(Line) /\ Len(view') = M /\ \A i \in 1 .. M : view'[i] = log[i]
  <2>. DEFINE t == SubSeq(log, d + 1, M)
              e == d + 1
  <2>a. d \in Nat /\ M \in Nat /\ M <= Len(log) /\ Len(log) \in Nat
    BY <1>0, <1>2, <1>6
  <2>b. \A i \in e .. M : i \in 1 .. Len(log)
    BY <2>a
  <2>0. e \in Int /\ M \in Int /\ \A i \in e .. M : log[i] \in Line
    BY <1>0, <2>a, <2>b
  <2>1. /\ SubSeq(log, e, M) \in Seq(Line)
        /\ Len(SubSeq(log, e, M)) = IF e <= M THEN M - e + 1 ELSE 0
        /\ \A i \in 1 .. M - e + 1 : SubSeq(log, e, M)[i] = log[e + i - 1]
    <3>. HIDE DEF e
    <3>1. QED
      BY <2>0, SubSeqProperties
  <2>2. /\ t \in Seq(Line) /\ Len(t) = M - d
        /\ \A i \in 1 .. M - d : t[i] = log[d + i]
    BY <1>2, <1>6, <2>0, <2>1
  <2>. HIDE DEF t
  <2>3. /\ done \o t \in Seq(Line) /\ Len(done \o t) = Len(done) + Len(t)
        /\ \A i \in 1 .. Len(done) + Len(t) :
              (done \o t)[i] = IF i <= Len(done) THEN done[i] ELSE t[i - Len(done)]
    <3>1. done \in Seq(Line) /\ t \in Seq(Line)
      BY <1>2, <2>2
    <3>2. QED
      BY <3>1, ConcatProperties
  <2>4. view' = done \o t
    BY <1>7 DEF t
  <2>5. Len(done) = d /\ Len(done) + Len(t) = M /\ M \in Nat
    BY <1>2, <1>6, <2>2 DEF d
  <2>6. ASSUME NEW i \in 1 .. M PROVE view'[i] = log[i]
    <3>1. CASE i <= d
      BY <1>2, <2>3, <2>4, <2>5, <3>1
    <3>2. CASE ~(i <= d)
      <4>1. i - d \in 1 .. M - d /\ d + (i - d) = i
        BY <1>2, <2>5, <3>2
      <4>2. view'[i] = t[i - d]
        BY <2>3, <2>4, <2>5, <3>2
      <4>3. QED
        BY <2>2, <4>1, <4>2
    <3>3. QED
      BY <3>1, <3>2
  <2>7. QED
    BY <2>3, <2>4, <2>5, <2>6
<1>9. anchor' = IF M = 0 THEN NoCell ELSE [line |-> log[M], at |-> 2 + log[M].copy]
  <2>1. M \in Nat /\ endOf(0) = 0
    BY <1>0, <1>6, ExtentIs
  <2>2. CASE M = 0
    BY <1>1, <1>7, <2>1, <2>2
  <2>3. CASE M # 0
    <3>1. extent(log, 0) < extent(log, M)
      BY <2>1, <2>3, ExtentGrows
    <3>2. offset' \in Nat \ {0}
      BY <1>0, <1>7, <2>1, <3>1
    <3>3. M \in 1 .. Len(log)
      BY <1>6, <2>3
    <3>4. byte(offset') = [line |-> log[M], at |-> 2 + log[M].copy]
      BY <1>7, <1>a, <3>2, <3>3, ByteIs
    <3>5. CASE offset' = offset /\ ~rewritten
      <4>1. done = view /\ from = offset /\ d = Len(view)
        BY <3>5 DEF done, from, d
      <4>2. extent(log, d) = extent(log, M)
        <5>1. endOf(d) = extent(log, d) /\ endOf(M) = extent(log, M)
          BY <1>0, <1>2, <2>1
        <5>2. QED
          BY <1>2, <1>7, <3>5, <4>1, <5>1
      <4>3. d = M
        <5>1. ~(d < M)
          <6>1. SUFFICES ASSUME d < M PROVE FALSE
            OBVIOUS
          <6>2. extent(log, d) < extent(log, M)
            BY <1>2, <2>1, <6>1, ExtentGrows
          <6>3. extent(log, M) \in Nat
            BY <1>0, <2>1
          <6>4. QED
            BY <4>2, <6>2, <6>3
        <5>2. QED
          BY <1>2, <1>6, <2>1, <5>1
      <4>4. view # <<>> /\ newest(view) = log[M]
        <5>1. view # <<>>
          BY <1>a, <2>3, <4>1, <4>3, ViewIs
        <5>2. view[M] = log[M]
          BY <1>2, <3>3, <4>1, <4>3
        <5>3. QED
          BY <4>1, <4>3, <5>1, <5>2 DEF newest
      <4>5. QED
        BY <1>1, <1>a, <2>3, <3>2, <3>5, <4>4 DEF Consumed
    <3>6. CASE ~(offset' = offset /\ ~rewritten)
      BY <1>1, <2>3, <3>2, <3>4, <3>6
    <3>7. QED
      BY <3>5, <3>6
  <2>4. QED
    BY <2>2, <2>3
<1>10. QED
  BY <1>6, <1>7, <1>8, <1>9

-----------------------------------------------------------------------------
(* The steps.                                                              *)

LEMMA NothingRead ==
  /\ <<>> \in Seq(Line) /\ Len(<<>>) = 0 /\ extent(<<>>, Len(<<>>)) = 0
  /\ \A i \in 1 .. Len(<<>>) : <<>>[i] = log[i]
<1>1. <<>> \in Seq(Line) /\ Len(<<>>) = 0
  BY EmptySeq
<1>2. extent(<<>>, 0) = 0
  BY ExtentIs
<1>3. QED
  BY <1>1, <1>2

\* Only a refresh changes what has been read.
LEMMA NotRead ==
  ASSUME [Next]_vars, ~Look
  PROVE  UNCHANGED <<known, size, offset, anchor, view, err, early, course>>
BY FaultsGo, ReadersOwn
   DEF Next, Work, Loop, Handler, Browser, Notify, Connect, Send, HangUp, Drop, cut, Fetch,
       Answer, Arrive, vars, indexVars, programVars, readerVars

LEMMA LookOnly ==
  ASSUME Look
  PROVE  /\ UNCHANGED <<programVars, diskVars>>
         /\ OpenLog \/ NoLog \/ ReadLog \/ Scan
BY DEF Look, Refresh

LEMMA ConsumedStep ==
  ASSUME RInv, [Next]_vars
  PROVE  Consumed'
<1>1. CASE UNCHANGED <<offset, anchor, view, course>> /\ size' \in Nat
  BY <1>1 DEF RInv, Consumed, Line, newest, extent
<1>2. CASE Look
  <2>1. UNCHANGED <<programVars, diskVars>>
    BY <1>2, LookOnly
  <2>2. Line' = Line
    BY <2>1 DEF Line, programVars
  <2>3. CASE OpenLog
    <3>1. CASE known /\ replaced
      <4>1. offset' = 0 /\ anchor' = NoCell /\ view' = <<>> /\ size' = length
        BY <2>3, <3>1 DEF OpenLog, reset
      <4>2. <<>> \in Seq(Line) /\ extent(<<>>, Len(<<>>)) = 0
        BY NothingRead
      <4>3. extent(view', Len(view')) = 0 /\ view' \in Seq(Line)
        BY <4>1, <4>2
      <4>4. QED
        BY <2>2, <4>1, <4>3, LengthIs DEF Consumed, extent, RInv
    <3>2. CASE ~(known /\ replaced)
      <4>1. UNCHANGED <<offset, anchor, view>> /\ size' = length
        BY <2>3, <3>2 DEF OpenLog, reset
      <4>2. QED
        BY <1>1, <2>1, <4>1, LengthIs DEF programVars, RInv
    <3>3. QED
      BY <3>1, <3>2
  <2>4. CASE NoLog \/ Scan
    <3>1. UNCHANGED <<size, offset, anchor, view>>
      BY <2>4 DEF NoLog, Scan, readerVars
    <3>2. QED
      BY <1>1, <2>1, <3>1 DEF programVars, RInv, Consumed
  <2>5. CASE ReadLog
    <3>1. PICK m \in 0 .. Len(log) :
             /\ view' \in Seq(Line) /\ Len(view') = m /\ \A i \in 1 .. m : view'[i] = log[i]
             /\ offset' = endOf(m)
             /\ anchor' = IF m = 0 THEN NoCell ELSE [line |-> log[m], at |-> 2 + log[m].copy]
      BY <2>5, ReadIs
    <3>2. m \in Nat /\ endOf(m) = extent(log, m)
      BY <3>1, LogIs DEF RInv
    <3>3. extent(view', Len(view')) = extent(log, m)
      BY <3>1, <3>2, ExtentAgrees
    <3>4. view' = <<>> <=> m = 0
      BY <3>1, EmptySeq
    <3>5. m # 0 => newest(view') = log[m]
      BY <3>1, <3>2 DEF newest
    <3>6. anchor' = IF view' = <<>> THEN NoCell
                    ELSE [line |-> newest(view'), at |-> 2 + newest(view').copy]
      BY <3>1, <3>4, <3>5
    <3>7. NoCell' = NoCell
      BY DEF NoCell, NoLine
    <3>a. size' \in Nat
      BY <2>5 DEF ReadLog, RInv, Consumed
    <3>8. QED
      BY <2>2, <3>a, <3>1, <3>2, <3>3, <3>6, <3>7 DEF Consumed, extent, newest
  <2>6. QED
    BY <1>2, <2>3, <2>4, <2>5, LookOnly
<1>3. CASE ~Look
  BY <1>1, <1>3, NotRead DEF RInv, Consumed
<1>4. QED
  BY <1>2, <1>3

\* What has been read stays the beginning of the log when lines are added; when
\* another log takes its place, it still is or its last line has gone for good.
LEMMA MatchStep ==
  ASSUME RInv, [Next]_vars
  PROVE  (Opening \/ Alien)'
<1>0. /\ Lines /\ Consumed /\ (Opening \/ Alien)
      /\ Len(view) \in Nat /\ Len(log) \in Nat /\ attempts \in Nat
      /\ \A i \in 1 .. Len(log) : log[i] \in Line
      /\ view # <<>> => Len(view) > 0 /\ newest(view) \in Line
      /\ view = <<>> => Len(view) = 0
  BY LogIs, ViewIs DEF RInv, Lines
<1>1. CASE UNCHANGED <<log, view, foreign, phase, attempts>>
  BY <1>0, <1>1 DEF Opening, Alien, newest
<1>2. CASE Look
  <2>1. UNCHANGED <<log, foreign, phase, attempts>>
    BY <1>2, LookOnly DEF programVars, diskVars
  <2>2. CASE view' = view
    BY <1>1, <2>1, <2>2
  <2>3. CASE OpenLog
    <3>1. view' = view \/ view' = <<>>
      BY <2>3 DEF OpenLog, reset
    <3>2. CASE view' = <<>>
      <4>1. Len(view') = 0
        BY <3>2, NothingRead
      <4>2. QED
        BY <1>0, <2>1, <4>1 DEF Opening
    <3>3. QED
      BY <2>2, <3>1, <3>2
  <2>4. CASE NoLog \/ Scan
    BY <2>2, <2>4 DEF NoLog, Scan, readerVars
  <2>5. CASE ReadLog
    <3>1. PICK m \in 0 .. Len(log) : Len(view') = m /\ \A i \in 1 .. m : view'[i] = log[i]
      BY <2>5, ReadIs
    <3>2. QED
      BY <1>0, <2>1, <3>1 DEF Opening
  <2>6. QED
    BY <1>2, <2>3, <2>4, <2>5, LookOnly
<1>3. CASE ~Look /\ ~Program
  BY <1>1, <1>3, NotRead, TaskOnly
<1>4. CASE Program
  <2>0. view' = view /\ course' = course
    BY <1>4, ReadersOwn, FaultsGo
  <2>1. CASE Writes
    <3>1. PICK l \in Line :
             /\ log' = Append(log, l) /\ l.run = attempts /\ attempts' = attempts
             /\ foreign' = foreign /\ phase # "idle" /\ phase' # "idle"
      BY <1>0, <2>0, <2>1, WritesALine
    <3>2. /\ Len(log') = Len(log) + 1
          /\ \A i \in 1 .. Len(log) : log'[i] = log[i]
          /\ log'[Len(log) + 1] = l
      BY <1>0, <3>1, Appends DEF Lines
    <3>3. CASE Opening
      <4>1. Len(view') <= Len(log') /\ \A i \in 1 .. Len(view') : view'[i] = log'[i]
        BY <1>0, <2>0, <3>2, <3>3 DEF Opening
      <4>2. QED
        BY <4>1 DEF Opening
    <3>4. CASE Alien
      <4>1. newest(view).run < attempts /\ newest(view).run \in Nat
        BY <1>0, <3>1, <3>4 DEF Alien, Line
      <4>2. l # newest(view)
        BY <1>0, <3>1, <4>1
      <4>3. \A i \in 1 .. Len(log') : i \in 1 .. Len(log) \/ i = Len(log) + 1
        BY <1>0, <3>2
      <4>4. \A i \in 1 .. Len(log') : log'[i] # newest(view)
        BY <3>2, <3>4, <4>2, <4>3 DEF Alien
      <4>5. newest(view)' = newest(view)
        BY <2>0 DEF newest
      <4>6. QED
        BY <2>0, <3>1, <3>4, <4>1, <4>4, <4>5 DEF Alien
    <3>5. QED
      BY <1>0, <3>3, <3>4
  <2>2. CASE Restore
    <3>0. /\ "restore" \in faults /\ foreign' = TRUE /\ phase = "idle" /\ phase' = phase
          /\ attempts' = attempts
      BY <2>2 DEF Restore, fault
    <3>1. PICK copy \in {0, 1} :
             /\ Len(log') <= Len(log)
             /\ \A i \in 1 .. Len(log') : log'[i] = [log[i] EXCEPT !.copy = copy]
      BY <1>0, <2>0, <2>2, RestoreKeepsLines
    <3>2. /\ \A i \in 1 .. Len(log) : log[i].copy = 0 /\ log[i].run <= attempts
          /\ \A i, j \in 1 .. Len(log) : i # j => log[i] # log[j]
          /\ ~foreign
      BY <1>0, <3>0 DEF Lines
    <3>3. Opening
      BY <1>0, <3>2 DEF Alien
    <3>a. Lines'
      BY <1>0, <2>0, <2>2, RestoreKeepsLines
    <3>b. Len(log') \in Nat
      BY <3>a, LenProperties DEF Lines
    <3>4. \A i \in 1 .. Len(log') : /\ i \in 1 .. Len(log) /\ log'[i].copy = copy
                                    /\ copy = 0 => log'[i] = log[i]
      <4>1. SUFFICES ASSUME NEW i \in 1 .. Len(log')
                     PROVE  /\ i \in 1 .. Len(log) /\ log'[i].copy = copy
                            /\ copy = 0 => log'[i] = log[i]
        OBVIOUS
      <4>2. i \in 1 .. Len(log)
        BY <1>0, <3>1, <3>b
      <4>3. log[i] \in Line /\ log[i].copy = 0 /\ log'[i] = [log[i] EXCEPT !.copy = copy]
        BY <1>0, <3>1, <3>2, <4>2
      <4>4. QED
        BY <4>2, <4>3 DEF Line
    <3>5. CASE view = <<>> \/ (copy = 0 /\ Len(view) <= Len(log'))
      <4>1. Len(view') <= Len(log') /\ \A i \in 1 .. Len(view') : view'[i] = log'[i]
        <5>1. CASE view = <<>>
          BY <1>0, <2>0, <3>b, <5>1
        <5>2. CASE copy = 0 /\ Len(view) <= Len(log')
          BY <1>0, <2>0, <3>3, <3>4, <3>b, <5>2 DEF Opening
        <5>3. QED
          BY <3>5, <5>1, <5>2
      <4>2. QED
        BY <4>1 DEF Opening
    <3>6. CASE view # <<>> /\ ~(copy = 0 /\ Len(view) <= Len(log'))
      <4>1. /\ newest(view) = log[Len(view)] /\ Len(view) \in 1 .. Len(log)
        BY <1>0, <3>3, <3>6 DEF Opening, newest
      <4>2. ASSUME NEW i \in 1 .. Len(log') PROVE log'[i] # newest(view)
        <5>1. CASE copy = 1
          <6>1. log'[i].copy = 1 /\ newest(view).copy = 0
            BY <3>2, <3>4, <4>1, <5>1
          <6>2. QED
            BY <6>1
        <5>2. CASE copy = 0
          <6>1. i # Len(view) /\ log'[i] = log[i] /\ i \in 1 .. Len(log)
            BY <1>0, <3>4, <3>6, <3>b, <5>2
          <6>2. QED
            BY <3>2, <4>1, <6>1
        <5>3. QED
          BY <3>1, <5>1, <5>2
      <4>3. newest(view)' = newest(view) /\ newest(view).run <= attempts
        BY <2>0, <3>2, <4>1 DEF newest
      <4>4. QED
        BY <2>0, <3>0, <3>6, <4>2, <4>3 DEF Alien
    <3>7. QED
      BY <3>5, <3>6
  <2>3. CASE Begin
    <3>1. attempts' = attempts + 1 /\ UNCHANGED <<log, foreign>>
      BY <2>3 DEF Begin
    <3>2. CASE Opening
      BY <2>0, <3>1, <3>2 DEF Opening
    <3>3. CASE Alien
      <4>1. newest(view).run \in Nat /\ newest(view).run <= attempts
        BY <1>0, <3>3 DEF Alien, Line
      <4>2. newest(view)' = newest(view)
        BY <2>0 DEF newest
      <4>3. newest(view).run < attempts'
        BY <1>0, <3>1, <4>1
      <4>4. newest(view).run <= attempts'
        BY <1>0, <3>1, <4>1
      <4>5. QED
        BY <2>0, <3>1, <3>3, <4>2, <4>3, <4>4 DEF Alien
    <3>4. QED
      BY <1>0, <3>2, <3>3
  <2>4. CASE Create \/ Return \/ Crash \/ Flush \/ FallSilent \/ MoveAway \/ PutBack
    <3>1. UNCHANGED <<attempts, log, foreign>> /\ (phase' = phase \/ phase' = "idle")
      BY <2>4 DEF Create, Return, Crash, Flush, FallSilent, MoveAway, PutBack, programVars, diskVars
    <3>2. QED
      BY <1>0, <2>0, <3>1 DEF Opening, Alien, newest
  <2>5. QED
    BY <1>4, <2>1, <2>2, <2>3, <2>4 DEF Program, Writes
<1>5. QED
  BY <1>2, <1>3, <1>4

\* What the reader can see of the task's doings, and when.
LEMMA TaskMoves ==
  ASSUME Lines, Directory, Program
  PROVE  \/ UNCHANGED <<disk, log, torn, other, touched>>
         \/ disk' = disk /\ other' = other /\ touched' = TRUE /\ torn' \in BOOLEAN
         \/ disk = "none" /\ disk' = "dir" /\ UNCHANGED <<log, torn, other, touched>>
         \/ disk = "dir" /\ disk' = "file" /\ UNCHANGED <<log, torn, other, touched>>
         \/ /\ disk = "file" /\ disk' = "file" /\ stage # "polled" /\ other' = TRUE
            /\ torn' = FALSE /\ touched' = touched
         \/ disk = "file" /\ disk' = "gone" /\ UNCHANGED <<log, torn, other, touched>>
         \/ disk = "gone" /\ disk' = "file" /\ other' = TRUE /\ UNCHANGED <<log, torn, touched>>
<1>0. torn \in BOOLEAN /\ touched \in BOOLEAN /\ disk \in {"none", "dir", "file", "gone"}
  BY DEF Directory
<1>1. CASE Begin /\ UNCHANGED <<other, touched>>
  BY <1>1 DEF Begin
<1>2. CASE Create /\ UNCHANGED <<other, touched>>
  BY <1>0, <1>2 DEF Create
<1>3. CASE Writes /\ UNCHANGED other
  BY <1>3 DEF Writes, AppendCreated, AppendStarted, AppendFinished, append
<1>4. CASE Return /\ UNCHANGED other
  BY <1>4 DEF Return, diskVars
<1>5. CASE Crash /\ UNCHANGED other
  <2>1. /\ disk' = disk /\ log' = log /\ torn' \in {torn, TRUE}
        /\ touched' = (touched \/ torn' # torn)
    BY <1>5 DEF Crash
  <2>2. CASE torn' = torn
    <3>1. touched' = touched
      BY <1>0, <2>1, <2>2
    <3>2. QED
      BY <1>5, <2>1, <2>2, <3>1
  <2>3. CASE torn' # torn
    <3>1. touched' = TRUE
      BY <2>1, <2>3
    <3>2. torn' \in BOOLEAN
      BY <1>0, <2>1
    <3>3. QED
      BY <1>5, <2>1, <3>1, <3>2
  <2>4. QED
    BY <2>2, <2>3
<1>6. CASE (Flush \/ FallSilent) /\ UNCHANGED <<other, touched>>
  BY <1>6 DEF Flush, FallSilent
<1>7. CASE Restore
  BY <1>7 DEF Restore
<1>8. CASE MoveAway /\ UNCHANGED touched
  BY <1>8 DEF MoveAway
<1>9. CASE PutBack /\ UNCHANGED touched
  BY <1>9 DEF PutBack, diskVars, programVars
<1>10. QED
  BY <1>1, <1>2, <1>3, <1>4, <1>5, <1>6, <1>7, <1>8, <1>9 DEF Program, Writes

\* Whoever is not the task and does not look leaves the reader and the log alone.
LEMMA Bystanders ==
  ASSUME [Next]_vars, ~Look, ~Program
  PROVE  /\ UNCHANGED <<known, size, err, early, view, log, disk, torn, other, touched>>
         /\ stage' = stage \/ stage' = "idle"
BY NotRead, TaskOnly
   DEF Next, Work, Loop, Handler, Browser, Notify, Connect, Send, HangUp, Drop, cut, Fetch,
       Answer, Arrive, vars, indexVars, readerVars

LEMMA DirectoryStep ==
  ASSUME RInv, Directory, Polled, [Next]_vars
  PROVE  Directory'
<1>0. Lines /\ Directory /\ Polled
  BY DEF RInv
<1>1. CASE Look
  <2>1. UNCHANGED <<disk, torn>>
    BY <1>1, LookOnly DEF diskVars
  <2>2. CASE OpenLog
    <3>1. /\ disk = "file" /\ known' = TRUE /\ other' = FALSE /\ touched' = FALSE
          /\ err' = IF known /\ replaced THEN "none" ELSE err
          /\ early' = (early /\ ~(known /\ replaced))
      BY <2>2 DEF OpenLog, reset
    <3>2. err' \in {"none", "unreadable"} /\ (err' = "unreadable" => early')
      BY <1>0, <3>1 DEF Directory, replaced
    <3>3. QED
      BY <1>0, <2>1, <3>1, <3>2 DEF Directory
  <2>3. CASE NoLog
    <3>1. /\ disk # "file" /\ UNCHANGED <<known, other, touched>>
          /\ err' = IF disk = "none" THEN err ELSE "unreadable"
          /\ early' = (early \/ (disk # "none" /\ ~known))
      BY <2>3 DEF NoLog
    <3>2. QED
      BY <1>0, <2>1, <3>1 DEF Directory
  <2>4. CASE ReadLog
    <3>1. /\ err' = (IF rewritten THEN "none" ELSE err) /\ early' = (early /\ ~rewritten)
          /\ UNCHANGED <<known, other, touched>>
      BY <1>0, <2>4, ReadIs DEF ReadLog
    <3>3. stage = "polled" /\ (err = "none" \/ early)
      BY <1>0, <2>4 DEF Polled, ReadLog
    <3>2. QED
      BY <1>0, <2>1, <3>1, <3>3 DEF Directory
  <2>5. CASE Scan
    BY <1>0, <2>1, <2>5 DEF Scan, readerVars, Directory
  <2>6. QED
    BY <1>1, <2>2, <2>3, <2>4, <2>5, LookOnly
<1>2. CASE ~Look /\ ~Program
  BY <1>0, <1>2, Bystanders DEF Directory
<1>3. CASE Program
  <2>1. UNCHANGED <<known, size, err, early>>
    BY <1>3, ReadersOwn
  <2>2. QED
    BY <1>0, <1>3, <2>1, TaskMoves DEF Directory
<1>4. QED
  BY <1>1, <1>2, <1>3

\* What the reader has read of a log that nobody touches is all of it.
LEMMA PolledStep ==
  ASSUME RInv, Directory, Polled, [Next]_vars
  PROVE  Polled'
<1>0. Lines /\ Directory /\ Polled
  BY DEF RInv
<1>1. CASE Look
  <2>1. UNCHANGED <<disk, log, torn>>
    BY <1>1, LookOnly DEF diskVars
  <2>2. CASE OpenLog
    <3>1. /\ disk = "file" /\ known' = TRUE /\ other' = FALSE /\ size' = length
          /\ stage' = "polled" /\ err' = IF known /\ replaced THEN "none" ELSE err
          /\ early' = (early /\ ~(known /\ replaced))
      BY <2>2 DEF OpenLog, reset
    <3>2. err' = "none" \/ early'
      BY <1>0, <3>1 DEF Directory, replaced
    <3>3. length' = length
      BY <2>1 DEF length, endOf
    <3>4. QED
      BY <2>1, <3>1, <3>2, <3>3 DEF Polled, ReadsTheLog, upToDate
  <2>3. CASE NoLog
    BY <2>1, <2>3 DEF NoLog, Polled, ReadsTheLog, upToDate
  <2>4. CASE ReadLog
    <3>1. stage' = "read" /\ UNCHANGED <<known, other, touched, size>>
      BY <2>4 DEF ReadLog
    <3>2. PICK m \in 0 .. Len(log) :
             /\ view' \in Seq(Line) /\ Len(view') = m /\ \A i \in 1 .. m : view'[i] = log[i]
             /\ err' = IF rewritten THEN "none" ELSE err
             /\ size = length => m = Len(log)
      BY <2>4, ReadIs
    <3>3. size = length => view' = log
      BY <1>0, <3>2, SeqEqual DEF Lines
    <3>4. (disk = "file" /\ ~other /\ ~touched => size = length) /\ (err = "none" \/ early)
      BY <1>0, <2>4 DEF Polled, ReadLog
    <3>5. err' = "none" \/ early'
      <4>1. early' = (early /\ ~rewritten)
        BY <2>4 DEF ReadLog
      <4>2. QED
        BY <3>2, <3>4, <4>1
    <3>6. QED
      BY <2>1, <3>1, <3>3, <3>4, <3>5 DEF Polled, ReadsTheLog, upToDate
  <2>5. CASE Scan
    <3>1. stage' \in {"changed", "idle"}
      BY <2>5 DEF Scan
    <3>2. QED
      BY <3>1 DEF Polled, ReadsTheLog, upToDate
  <2>6. QED
    BY <1>1, <2>2, <2>3, <2>4, <2>5, LookOnly
<1>2. CASE ~Look /\ ~Program
  <2>1. /\ UNCHANGED <<known, size, err, early, view, log, disk, torn, other, touched>>
        /\ stage' = stage \/ stage' = "idle"
    BY <1>2, Bystanders
  <2>2. length' = length
    BY <2>1 DEF length, endOf
  <2>3. QED
    BY <1>0, <2>1, <2>2 DEF Polled, ReadsTheLog, upToDate
<1>3. CASE Program
  <2>1. UNCHANGED <<stage, known, size, err, early, view>>
    BY <1>3, ReadersOwn
  <2>2. log' = log /\ torn' = torn => length' = length
    BY DEF length, endOf
  <2>3. CASE UNCHANGED <<disk, log, torn, other, touched>>
    BY <1>0, <2>1, <2>2, <2>3 DEF Polled, ReadsTheLog, upToDate
  <2>4. CASE disk' = disk /\ other' = other /\ touched' = TRUE
    BY <1>0, <2>1, <2>4 DEF Polled, ReadsTheLog, upToDate
  <2>5. CASE disk \in {"none", "dir"} /\ disk' \in {"dir", "file"} /\ other' = other
    BY <1>0, <2>1, <2>5 DEF Directory, Polled, ReadsTheLog, upToDate
  <2>6. CASE stage # "polled" /\ other' = TRUE
    BY <1>0, <2>1, <2>6 DEF Polled, ReadsTheLog, upToDate
  <2>7. CASE disk = "file" /\ disk' = "gone"
    BY <1>0, <2>1, <2>7 DEF Polled, ReadsTheLog, upToDate
  <2>8. CASE disk = "gone" /\ disk' = "file" /\ other' = TRUE
    BY <1>0, <2>1, <2>8 DEF Polled, ReadsTheLog, upToDate
  <2>9. QED
    BY <1>0, <1>3, <2>3, <2>4, <2>5, <2>6, <2>7, <2>8, TaskMoves
<1>4. QED
  BY <1>1, <1>2, <1>3

\* What the index has read is always a beginning of the log, or will be found
\* out not to be.
THEOREM ReadingInvariance == Spec => []RInv
<1>1. Init => RInv
  <2>1. SUFFICES ASSUME Init PROVE RInv
    OBVIOUS
  <2>2. /\ <<>> \in Seq(Line) /\ Len(<<>>) = 0 /\ extent(<<>>, Len(<<>>)) = 0
    BY NothingRead
  <2>3. log = <<>> /\ view = <<>> /\ attempts = 0 /\ foreign = FALSE /\ Len(log) = 0
    BY <2>1, <2>2 DEF Init, IndexInit
  <2>4. Lines
    BY <2>2, <2>3 DEF Lines
  <2>5. Consumed /\ Opening
    BY <2>1, <2>2, <2>3 DEF Init, IndexInit, Consumed, Opening
  <2>6. QED
    BY <2>4, <2>5 DEF RInv
<1>2. RInv /\ [Next]_vars => RInv'
  <2>1. SUFFICES ASSUME RInv, [Next]_vars PROVE RInv'
    OBVIOUS
  <2>2. Lines' /\ Consumed' /\ (Opening \/ Alien)'
    BY <2>1, LinesStep, ConsumedStep, MatchStep DEF RInv
  <2>3. QED
    BY <2>2 DEF RInv
<1>3. QED
  BY <1>1, <1>2, PTL DEF Spec

\* Once the reader has read a log that nobody has touched since, the index has
\* all of its lines and no other, for any number of attempts and lines, torn
\* ends, crashes and a log put in the place of this one; and it knows of an error
\* only if it had looked for the log before there was one (reader.go, Poll).
THEOREM TheLogIsRead == Spec => []ReadsTheLog
<1>1. Init => Directory /\ Polled
  BY DEF Init, IndexInit, Directory, Polled, ReadsTheLog, upToDate
<1>2. RInv /\ Directory /\ Polled /\ [Next]_vars => Directory' /\ Polled'
  BY DirectoryStep, PolledStep
<1>3. Directory /\ Polled => ReadsTheLog
  BY DEF Polled
<1>4. QED
  BY ReadingInvariance, <1>1, <1>2, <1>3, PTL DEF Spec

-----------------------------------------------------------------------------
(* The streams of the attempts.                                            *)

Event == [n : Nat, kind : {"begin", "committed", "returned"},
          what : {"", "started", "finished"}, sequence : Nat, run : Nat]

\* The ends an attempt has committed are its own lines of the log.
Ended(es, a, ls) ==
  \A e \in Range(es) :
    (e.kind = "committed" /\ e.what = "finished") =>
      e.sequence \in 1 .. Len(ls) /\ ls[e.sequence].run = a

Streams ==
  /\ emitted \in Nat /\ queue \in Seq(Event)
  /\ streams \in Seq(Seq(Event)) /\ Len(streams) = attempts /\ dirs \in Seq(1 .. attempts)
  /\ attempts = 0 => phase = "idle" /\ queue = <<>>
  /\ \A i \in 1 .. Len(log) : log[i].run # 0
  /\ ~foreign => /\ Ended(queue, attempts, log)
                 /\ \A a \in 1 .. attempts : Ended(streams[a], a, log)

\* Lines added to the log take nothing away.
LEMMA EndedStays ==
  ASSUME NEW es, NEW a, NEW s, NEW t, Len(s) \in Nat, Len(t) \in Nat, Len(s) <= Len(t),
         \A i \in 1 .. Len(s) : t[i] = s[i], Ended(es, a, s)
  PROVE  Ended(es, a, t)
<1>1. 1 .. Len(s) \subseteq 1 .. Len(t)
  OBVIOUS
<1>2. QED
  BY <1>1 DEF Ended

LEMMA EmptyRange == Range(<<>>) = {}
BY DEF Range

LEMMA AppendRange ==
  ASSUME NEW S, NEW s \in Seq(S), NEW e \in S
  PROVE  Append(s, e) \in Seq(S) /\ Range(Append(s, e)) = Range(s) \cup {e}
<1>1. /\ Append(s, e) \in Seq(S) /\ Len(Append(s, e)) = Len(s) + 1 /\ Len(s) \in Nat
      /\ \A i \in 1 .. Len(s) : Append(s, e)[i] = s[i]
      /\ Append(s, e)[Len(s) + 1] = e
  BY AppendProperties, LenProperties
<1>2. /\ Range(Append(s, e)) = {Append(s, e)[i] : i \in 1 .. Len(Append(s, e))}
      /\ Range(s) = {s[i] : i \in 1 .. Len(s)}
  BY <1>1, RangeEquality
<1>3. 1 .. Len(Append(s, e)) = (1 .. Len(s)) \cup {Len(s) + 1}
  BY <1>1
<1>4. QED
  BY <1>1, <1>2, <1>3

\* What an event that is emitted adds to the queue.
LEMMA Emits ==
  ASSUME emitted \in Nat, queue \in Seq(Event), NEW e \in Event, emit(e)
  PROVE  /\ emitted' \in Nat /\ queue' \in Seq(Event)
         /\ Range(queue') \subseteq Range(queue) \cup {e}
<1>1. emitted' = emitted + 1 /\ (queue' = Append(queue, e) \/ queue' = queue)
  BY DEF emit
<1>2. Append(queue, e) \in Seq(Event) /\ Range(Append(queue, e)) = Range(queue) \cup {e}
  BY AppendRange
<1>3. emitted + 1 \in Nat
  OBVIOUS
<1>4. QED
  BY <1>1, <1>2, <1>3

LEMMA NextIsNat == \A n \in Nat : n + 1 \in Nat
OBVIOUS

\* A new end is the line just written, anything else is no end.
LEMMA StreamsWrite ==
  ASSUME Lines, Streams, Writes, course' = course
  PROVE  Streams'
<1>1. PICK l \in Line :
           /\ log' = Append(log, l) /\ l.run = attempts /\ attempts' = attempts
           /\ foreign' = foreign /\ phase # "idle" /\ phase' # "idle"
  BY WritesALine
<1>2. /\ Len(log) \in Nat /\ Len(log') = Len(log) + 1
      /\ \A i \in 1 .. Len(log) : log'[i] = log[i]
      /\ log'[Len(log) + 1] = l
  BY <1>1, Appends DEF Lines
<1>3. attempts \in Nat /\ attempts # 0
  BY <1>1 DEF Lines, Streams
<1>4. UNCHANGED <<streams, dirs>>
  BY DEF Writes, AppendCreated, AppendStarted, AppendFinished, append
<1>5. emitted \in Nat /\ queue \in Seq(Event)
  BY DEF Streams
<1>6. /\ emitted' \in Nat /\ queue' \in Seq(Event)
      /\ \A e \in Range(queue') :
            \/ e \in Range(queue)
            \/ e.kind = "committed" /\ e.sequence = Len(log) + 1
  <2>1. CASE AppendCreated
    BY <1>5, <2>1 DEF AppendCreated
  <2>2. CASE AppendStarted
    <3>. DEFINE e == event("committed", "started", Len(log) + 1, 0)
    <3>a. Len(log) + 1 \in Nat /\ 0 \in Nat
      BY <1>2
    <3>1. e \in Event /\ e.kind = "committed" /\ e.sequence = Len(log) + 1
      BY <1>5, <3>a, NextIsNat, Zenon DEF event, Event
    <3>2. emit(e)
      BY <2>2 DEF AppendStarted
    <3>. HIDE DEF e
    <3>3. QED
      BY <1>5, <3>1, <3>2, Emits
  <2>3. CASE AppendFinished
    <3>. DEFINE e == event("committed", "finished", Len(log) + 1, 0)
    <3>a. Len(log) + 1 \in Nat /\ 0 \in Nat
      BY <1>2
    <3>1. e \in Event /\ e.kind = "committed" /\ e.sequence = Len(log) + 1
      BY <1>5, <3>a, NextIsNat, Zenon DEF event, Event
    <3>2. emit(e)
      BY <2>3 DEF AppendFinished
    <3>. HIDE DEF e
    <3>3. QED
      BY <1>5, <3>1, <3>2, Emits
  <2>4. QED
    BY <2>1, <2>2, <2>3 DEF Writes
<1>7. \A i \in 1 .. Len(log') : log'[i].run # 0
  <2>1. \A i \in 1 .. Len(log') : i \in 1 .. Len(log) \/ i = Len(log) + 1
    BY <1>2
  <2>2. QED
    BY <1>1, <1>2, <1>3, <2>1 DEF Streams
<1>8. ASSUME ~foreign'
      PROVE  Ended(queue', attempts, log') /\ \A a \in 1 .. attempts : Ended(streams[a], a, log')
  <2>1. Ended(queue, attempts, log) /\ \A a \in 1 .. attempts : Ended(streams[a], a, log)
    BY <1>1, <1>8 DEF Streams
  <2>2. Ended(queue, attempts, log') /\ \A a \in 1 .. attempts : Ended(streams[a], a, log')
    BY <1>2, <2>1, EndedStays
  <2>3. Len(log) + 1 \in 1 .. Len(log')
    BY <1>2
  <2>4. Ended(queue', attempts, log')
    BY <1>1, <1>2, <1>6, <2>2, <2>3 DEF Ended
  <2>5. QED
    BY <2>2, <2>4
<1>9. QED
  BY <1>1, <1>3, <1>4, <1>6, <1>7, <1>8 DEF Streams

LEMMA StreamsBegin ==
  ASSUME Lines, Streams, Begin
  PROVE  Streams'
<1>1. /\ attempts' = attempts + 1 /\ emitted' = 1
      /\ queue' = << [n |-> 1, kind |-> "begin", what |-> "", sequence |-> 0, run |-> 0] >>
      /\ streams' = Append(streams, <<>>)
      /\ UNCHANGED <<log, foreign, dirs>>
  BY DEF Begin
<1>2. attempts \in Nat /\ streams \in Seq(Seq(Event)) /\ Len(streams) = attempts
  BY DEF Lines, Streams
<1>a. 1 .. attempts' = 1 .. attempts \cup {attempts + 1} /\ attempts' # 0
  <2>1. attempts' = attempts + 1
    BY <1>1
  <2>2. QED
    BY <1>2, <2>1
<1>. DEFINE e == [n |-> 1, kind |-> "begin", what |-> "", sequence |-> 0, run |-> 0]
<1>3. e \in Event
  BY DEF Event
<1>4. queue' \in Seq(Event) /\ \A x \in Range(queue') : x.kind = "begin"
  <2>1. e.kind = "begin"
    OBVIOUS
  <2>. HIDE DEF e
  <2>2. queue' = <<e>>
    BY <1>1 DEF e
  <2>3. <<e>> \in Seq(Event) /\ Range(<<e>>) = {e}
    BY <1>3 DEF Range
  <2>4. QED
    BY <2>1, <2>2, <2>3
<1>5. <<>> \in Seq(Event)
  BY EmptySeq
<1>6. /\ streams' \in Seq(Seq(Event)) /\ Len(streams') = attempts + 1
      /\ \A a \in 1 .. attempts : streams'[a] = streams[a]
      /\ streams'[attempts + 1] = <<>>
  <2>1. streams' = Append(streams, <<>>)
    BY <1>1
  <2>. DEFINE nothing == <<>>
  <2>2. nothing \in Seq(Event) /\ streams' = Append(streams, nothing)
    BY <1>5, <2>1
  <2>. HIDE DEF nothing
  <2>3. /\ streams' \in Seq(Seq(Event)) /\ Len(streams') = attempts + 1
        /\ \A a \in 1 .. attempts : streams'[a] = streams[a]
        /\ streams'[attempts + 1] = nothing
    BY <1>2, <2>2, AppendProperties
  <2>4. QED
    BY <2>3 DEF nothing
<1>7. dirs' \in Seq(1 .. attempts')
  <2>1. 1 .. attempts \subseteq 1 .. attempts'
    BY <1>a
  <2>2. QED
    BY <1>1, <2>1, SeqMonotonic DEF Streams
<1>8. ASSUME ~foreign'
      PROVE  Ended(queue', attempts', log') /\ \A a \in 1 .. attempts' : Ended(streams'[a], a, log')
  <2>1. \A a \in 1 .. attempts : Ended(streams[a], a, log)
    BY <1>1, <1>8 DEF Streams
  <2>2. Ended(queue', attempts', log')
    BY <1>4 DEF Ended
  <2>3. Ended(<<>>, attempts + 1, log)
    BY EmptyRange DEF Ended
  <2>4. \A a \in 1 .. attempts' : a \in 1 .. attempts \/ a = attempts + 1
    BY <1>a
  <2>5. QED
    BY <1>1, <1>6, <2>1, <2>2, <2>3, <2>4
<1>9. emitted' \in Nat /\ Len(streams') = attempts' /\ \A i \in 1 .. Len(log') : log'[i].run # 0
  BY <1>1, <1>6 DEF Streams
<1>10. QED
  BY <1>a, <1>4, <1>6, <1>7, <1>8, <1>9 DEF Streams

\* A recorder that writes adds what it has to the stream of its attempt, and its
\* directory to those that are there.
LEMMA StreamsFlush ==
  ASSUME Lines, Streams, Flush
  PROVE  Streams'
<1>1. /\ queue # <<>> /\ queue' = <<>> /\ streams' = [streams EXCEPT ![attempts] = @ \o queue]
      /\ dirs' \in (IF attempts \in Range(dirs) THEN {dirs}
                    ELSE {InsertAt(dirs, i, attempts) : i \in 1 .. Len(dirs) + 1})
      /\ UNCHANGED <<phase, attempts, emitted, log, foreign>>
  BY DEF Flush
<1>2. /\ attempts \in Nat /\ streams \in Seq(Seq(Event)) /\ Len(streams) = attempts
      /\ queue \in Seq(Event) /\ dirs \in Seq(1 .. attempts) /\ attempts # 0
  BY <1>1 DEF Lines, Streams
<1>3. attempts \in 1 .. attempts
  BY <1>2
<1>4. streams[attempts] \in Seq(Event)
  BY <1>2, <1>3, ElementOfSeq
<1>5. /\ streams[attempts] \o queue \in Seq(Event)
      /\ Range(streams[attempts] \o queue) = Range(streams[attempts]) \cup Range(queue)
  BY <1>2, <1>4, ConcatProperties, RangeConcatenation
<1>6. DOMAIN streams = 1 .. attempts
  BY <1>2, LenProperties
<1>7. streams' \in Seq(Seq(Event)) /\ Len(streams') = attempts
      /\ \A a \in 1 .. attempts :
            streams'[a] = IF a = attempts THEN streams[a] \o queue ELSE streams[a]
  BY <1>1, <1>2, <1>3, <1>5, <1>6, ExceptSeq
<1>8. dirs' \in Seq(1 .. attempts)
  <2>1. CASE attempts \in Range(dirs)
    BY <1>1, <1>2, <2>1
  <2>2. CASE attempts \notin Range(dirs)
    <3>1. PICK i \in 1 .. Len(dirs) + 1 : dirs' = InsertAt(dirs, i, attempts)
      BY <1>1, <2>2
    <3>2. Len(dirs) \in Nat
      BY <1>2, LenProperties
    <3>3. /\ SubSeq(dirs, 1, i - 1) \in Seq(1 .. attempts)
          /\ SubSeq(dirs, i, Len(dirs)) \in Seq(1 .. attempts)
      <4>1. \A x \in 1 .. i - 1 : x \in 1 .. Len(dirs)
        BY <3>1, <3>2
      <4>2. \A x \in i .. Len(dirs) : x \in 1 .. Len(dirs)
        BY <3>1, <3>2
      <4>3. i - 1 \in Int /\ i \in Int /\ 1 \in Int
        BY <3>2
      <4>4. \A x \in 1 .. Len(dirs) : dirs[x] \in 1 .. attempts
        BY <1>2, ElementOfSeq
      <4>5. QED
        BY <1>2, <3>2, <4>1, <4>2, <4>3, <4>4, SubSeqProperties
    <3>4. <<attempts>> \in Seq(1 .. attempts)
      BY <1>3
    <3>5. SubSeq(dirs, 1, i - 1) \o <<attempts>> \in Seq(1 .. attempts)
      BY <3>3, <3>4, ConcatProperties
    <3>6. (SubSeq(dirs, 1, i - 1) \o <<attempts>>) \o SubSeq(dirs, i, Len(dirs)) \in Seq(1 .. attempts)
      BY <3>3, <3>5, ConcatProperties
    <3>7. QED
      BY <3>1, <3>6 DEF InsertAt
  <2>3. QED
    BY <2>1, <2>2
<1>9. ASSUME ~foreign'
      PROVE  Ended(queue', attempts, log) /\ \A a \in 1 .. attempts : Ended(streams'[a], a, log)
  <2>1. Ended(queue, attempts, log) /\ \A a \in 1 .. attempts : Ended(streams[a], a, log)
    BY <1>1, <1>9 DEF Streams
  <2>2. Ended(queue', attempts, log)
    BY <1>1, EmptyRange DEF Ended
  <2>3. Ended(streams[attempts] \o queue, attempts, log)
    BY <1>3, <1>5, <2>1 DEF Ended
  <2>4. QED
    BY <1>7, <2>1, <2>2, <2>3
<1>10. <<>> \in Seq(Event)
  BY EmptySeq
<1>11. QED
  BY <1>1, <1>7, <1>8, <1>9, <1>10 DEF Streams

LEMMA StreamsReturn ==
  ASSUME Lines, Streams, Return
  PROVE  Streams'
<1>1. PICK run \in (IF phase = "finished" THEN {attempts} ELSE {0, resultOf(log).run}) :
           emit(event("returned", "", 0, run))
  BY DEF Return
<1>2. /\ phase # "idle" /\ phase' = "idle"
      /\ UNCHANGED <<attempts, log, foreign, streams, dirs>>
  BY DEF Return, diskVars
<1>3. emitted \in Nat /\ queue \in Seq(Event) /\ attempts \in Nat /\ 0 \in Nat
  BY DEF Lines, Streams
<1>4. run \in Nat
  <2>1. resultOf(log).run \in Nat
    <3>1. CASE log # <<>> /\ Last(log).kind = "finished"
      <4>1. Len(log) \in 1 .. Len(log)
        BY <3>1, EmptySeq, LenProperties DEF Lines
      <4>2. log[Len(log)].run \in Nat
        BY <4>1, LogIs DEF Line
      <4>3. QED
        BY <3>1, <4>2 DEF resultOf, Last
    <3>2. CASE ~(log # <<>> /\ Last(log).kind = "finished")
      BY <3>2 DEF resultOf, NoLine
    <3>3. QED
      BY <3>1, <3>2
  <2>2. QED
    BY <1>1, <1>3, <2>1
<1>. DEFINE e == event("returned", "", 0, run)
<1>5. e \in Event /\ e.kind = "returned"
  BY <1>3, <1>4, NextIsNat, Zenon DEF event, Event
<1>6. emit(e)
  BY <1>1
<1>. HIDE DEF e
<1>7. emitted' \in Nat /\ queue' \in Seq(Event) /\ Range(queue') \subseteq Range(queue) \cup {e}
  BY <1>3, <1>5, <1>6, Emits
<1>8. \A x \in Range(queue') : x \in Range(queue) \/ x.kind = "returned"
  BY <1>5, <1>7
<1>9. Ended(queue, attempts, log) => Ended(queue', attempts', log')
  BY <1>2, <1>8 DEF Ended
<1>10. attempts # 0
  BY <1>2 DEF Streams
<1>11. QED
  BY <1>2, <1>7, <1>9, <1>10 DEF Streams

LEMMA StreamsStep ==
  ASSUME Lines, Streams, [Next]_vars
  PROVE  Streams'
<1>1. CASE ~Program
  <2>1. UNCHANGED <<phase, attempts, queue, emitted, log, foreign, streams, dirs>>
    BY <1>1, TaskOnly
  <2>2. QED
    BY <2>1 DEF Streams
<1>2. CASE Program
  <2>1. faults' \subseteq faults /\ course' = course
    BY <1>2, FaultsGo
  <2>2. CASE Writes
    BY <2>1, <2>2, StreamsWrite
  <2>3. CASE Begin
    BY <2>3, StreamsBegin
  <2>4. CASE Return
    BY <2>4, StreamsReturn
  <2>5. CASE Flush
    BY <2>5, StreamsFlush
  <2>6. CASE Crash
    <3>1. /\ queue' = <<>> /\ phase' = "idle"
          /\ UNCHANGED <<attempts, emitted, log, foreign, streams, dirs>>
      BY <2>6 DEF Crash
    <3>2. <<>> \in Seq(Event) /\ Ended(<<>>, attempts, log)
      BY EmptySeq, EmptyRange DEF Ended
    <3>3. Ended(queue', attempts', log')
      BY <3>1, <3>2
    <3>4. QED
      BY <3>1, <3>2, <3>3 DEF Streams
  <2>7. CASE Restore
    <3>1. UNCHANGED <<phase, attempts, queue, emitted, streams, dirs>> /\ foreign' = TRUE
      BY <2>7 DEF Restore
    <3>2. Lines' /\ \E copy \in {0, 1} :
             /\ Len(log') <= Len(log)
             /\ \A i \in 1 .. Len(log') : log'[i] = [log[i] EXCEPT !.copy = copy]
      BY <2>1, <2>7, RestoreKeepsLines
    <3>3. \A i \in 1 .. Len(log') : log'[i].run # 0
      <4>1. SUFFICES ASSUME NEW i \in 1 .. Len(log') PROVE log'[i].run # 0
        OBVIOUS
      <4>2. Len(log') \in Nat /\ Len(log) \in Nat
        BY <3>2, LogIs, LenProperties DEF Lines
      <4>3. i \in 1 .. Len(log)
        BY <3>2, <4>2
      <4>4. log[i].run # 0 /\ log[i] \in Line
        BY <4>3, LogIs DEF Streams
      <4>5. log'[i].run = log[i].run
        BY <3>2, <4>4 DEF Line
      <4>6. QED
        BY <4>4, <4>5
    <3>4. QED
      BY <3>1, <3>3 DEF Streams
  <2>8. CASE Create \/ FallSilent \/ MoveAway \/ PutBack
    <3>1. UNCHANGED <<attempts, queue, emitted, log, foreign, streams, dirs>> /\ phase' = phase
      BY <2>8 DEF Create, FallSilent, MoveAway, PutBack, programVars
    <3>2. QED
      BY <3>1 DEF Streams
  <2>9. QED
    BY <1>2, <2>2, <2>3, <2>4, <2>5, <2>6, <2>7, <2>8 DEF Program, Writes
<1>3. QED
  BY <1>1, <1>2

-----------------------------------------------------------------------------
(* What is shown of the newest attempt.                                    *)

\* f starts with b and goes from one argument to the next as g says.
Steps(f, n, b, g) == f[0] = b /\ \A k \in 1 .. n : f[k] = g[k][f[k - 1]]

\* There is such a function.
LEMMA Recursively ==
  ASSUME NEW N \in Nat, NEW S, NEW b \in S, NEW g \in [1 .. N -> [S -> S]]
  PROVE  \E f \in [0 .. N -> S] : Steps(f, N, b, g)
<1>. DEFINE Upto(n) == {f \in [0 .. n -> S] : Steps(f, n, b, g)}
            Bad == {n \in 0 .. N : Upto(n) = {}}
<1>1. Bad = {}
  <2>1. SUFFICES ASSUME Bad # {} PROVE FALSE
    OBVIOUS
  <2>2. PICK m \in Bad : \A n \in Bad : m <= n
    <3>1. Bad \in SUBSET Nat
      OBVIOUS
    <3>. HIDE DEF Bad
    <3>2. QED
      BY <2>1, <3>1, MinOfNat
  <2>3. m # 0
    <3>1. [k \in 0 .. 0 |-> b] \in Upto(0)
      BY DEF Steps
    <3>2. QED
      BY <2>2, <3>1
  <2>4. m \in 1 .. N /\ m - 1 \in 0 .. N
    BY <2>2, <2>3
  <2>5. m - 1 \notin Bad
    <3>. HIDE DEF Bad
    <3>1. m \in Nat
      BY <2>4
    <3>2. QED
      BY <2>2, <2>4, <3>1
  <2>6. PICK f \in [0 .. m - 1 -> S] : f[0] = b /\ \A k \in 1 .. m - 1 : f[k] = g[k][f[k - 1]]
    <3>1. Upto(m - 1) # {}
      BY <2>4, <2>5
    <3>2. QED
      BY <3>1 DEF Steps
  <2>. DEFINE h == [k \in 0 .. m |-> IF k = m THEN g[m][f[m - 1]] ELSE f[k]]
  <2>7. f[m - 1] \in S
    BY <2>4, <2>6
  <2>8. g[m][f[m - 1]] \in S
    BY <2>4, <2>7
  <2>9. h \in [0 .. m -> S]
    BY <2>4, <2>6, <2>8
  <2>10. h[0] = b
    BY <2>4, <2>6
  <2>11. ASSUME NEW k \in 1 .. m PROVE h[k] = g[k][h[k - 1]]
    <3>1. h[k - 1] = f[k - 1]
      BY <2>4, <2>11
    <3>2. CASE k = m
      <4>1. h[m] = g[m][f[m - 1]]
        BY <2>4
      <4>. HIDE DEF h
      <4>2. QED
        BY <3>1, <3>2, <4>1
    <3>3. CASE k # m
      BY <2>4, <2>6, <3>1, <3>3
    <3>4. QED
      BY <3>2, <3>3
  <2>. HIDE DEF h
  <2>12. h \in Upto(m)
    BY <2>9, <2>10, <2>11 DEF Steps
  <2>13. QED
    BY <2>2, <2>12
<1>2. N \notin Bad
  BY <1>1
<1>3. Upto(N) # {}
  BY <1>2
<1>4. QED
  BY <1>3

\* What is put together one attempt after the other, if each of them keeps it in S.
LEMMA Scanning ==
  ASSUME NEW events, NEW listed, NEW broken, NEW S, Len(dirs) \in Nat,
         fromLog(events, listed, broken) \in S,
         \A k \in 1 .. Len(dirs), t \in S : joined(t, dirs[k], streams[dirs[k]], Len(events)) \in S
  PROVE  LET f == scanned(events, listed, broken) IN
         /\ f \in [0 .. Len(dirs) -> S]
         /\ f[0] = fromLog(events, listed, broken)
         /\ \A k \in 1 .. Len(dirs) : f[k] = joined(f[k - 1], dirs[k], streams[dirs[k]], Len(events))
<1>. DEFINE N == Len(dirs)
            b == fromLog(events, listed, broken)
            g == [k \in 1 .. N |-> [t \in S |-> joined(t, dirs[k], streams[dirs[k]], Len(events))]]
            Is(f) == f = [k \in 0 .. N |-> IF k = 0 THEN b ELSE joined(f[k - 1], dirs[k], streams[dirs[k]], Len(events))]
<1>1. g \in [1 .. N -> [S -> S]]
  OBVIOUS
<1>a. N \in Nat /\ b \in S
  OBVIOUS
<1>2. PICK f \in [0 .. N -> S] : f[0] = b /\ \A k \in 1 .. N : f[k] = g[k][f[k - 1]]
  <2>. HIDE DEF g, b, N
  <2>1. \E f \in [0 .. N -> S] : Steps(f, N, b, g)
    BY <1>1, <1>a, Recursively
  <2>2. QED
    BY <2>1 DEF Steps
<1>b. \A k \in 1 .. N : k \in 0 .. N /\ k - 1 \in 0 .. N /\ k # 0
  BY <1>a
<1>c. \A k \in 1 .. N : f[k - 1] \in S
  BY <1>2, <1>b
<1>3. \A k \in 1 .. N : g[k][f[k - 1]] = joined(f[k - 1], dirs[k], streams[dirs[k]], Len(events))
  BY <1>c
<1>. HIDE DEF g
<1>4. Is(f)
  <2>. HIDE DEF b
  <2>1. \A k \in 0 .. N : f[k] = IF k = 0 THEN b ELSE joined(f[k - 1], dirs[k], streams[dirs[k]], Len(events))
    <3>1. \A k \in 0 .. N : f[k] = IF k = 0 THEN b ELSE g[k][f[k - 1]]
      BY <1>2, <1>a
    <3>2. \A k \in 0 .. N : k # 0 => k \in 1 .. N
      BY <1>a
    <3>3. QED
      BY <1>3, <3>1, <3>2
  <2>2. QED
    BY <2>1, <1>2
<1>5. scanned(events, listed, broken) = CHOOSE h : Is(h)
  BY DEF scanned
<1>6. Is(scanned(events, listed, broken))
  <2>. HIDE DEF Is
  <2>1. QED
    BY <1>4, <1>5
<1>. DEFINE h == scanned(events, listed, broken)
<1>7. h = [k \in 0 .. N |-> IF k = 0 THEN b ELSE joined(h[k - 1], dirs[k], streams[dirs[k]], Len(events))]
  BY <1>6
<1>. HIDE DEF h, b
<1>8. h[0] = b /\ \A k \in 1 .. N : h[k] = joined(h[k - 1], dirs[k], streams[dirs[k]], Len(events))
  <2>1. \A k \in 0 .. N : h[k] = IF k = 0 THEN b ELSE joined(h[k - 1], dirs[k], streams[dirs[k]], Len(events))
    BY <1>7
  <2>2. QED
    BY <1>a, <1>b, <2>1
<1>9. \A k \in 0 .. N : h[k] \in S
  <2>. DEFINE Bad == {k \in 0 .. N : h[k] \notin S}
  <2>1. SUFFICES ASSUME Bad # {} PROVE FALSE
    OBVIOUS
  <2>2. PICK m \in Bad : \A n \in Bad : m <= n
    <3>1. Bad \in SUBSET Nat
      BY <1>a
    <3>. HIDE DEF Bad
    <3>2. QED
      BY <2>1, <3>1, MinOfNat
  <2>3. m # 0
    BY <1>8, <1>a, <2>2
  <2>4. m \in 1 .. N /\ m - 1 \in 0 .. N /\ m - 1 \notin Bad
    BY <1>a, <2>2, <2>3
  <2>5. h[m - 1] \in S
    BY <2>4
  <2>6. h[m] \in S
    BY <1>8, <2>4, <2>5
  <2>7. QED
    BY <2>2, <2>6
<1>10. h \in [0 .. N -> S]
  BY <1>7, <1>9
<1>11. QED
  BY <1>8, <1>10 DEF h, b

\* What holds of the first elements holds of all.
LEMMA Induct ==
  ASSUME NEW N \in Nat, NEW P, 0 \in P, \A k \in 1 .. N : k - 1 \in P => k \in P
  PROVE  \A k \in 0 .. N : k \in P
<1>. DEFINE Bad == {k \in 0 .. N : k \notin P}
<1>1. SUFFICES ASSUME Bad # {} PROVE FALSE
  OBVIOUS
<1>2. PICK m \in Bad : \A n \in Bad : m <= n
  <2>1. Bad \in SUBSET Nat
    OBVIOUS
  <2>. HIDE DEF Bad
  <2>2. QED
    BY <1>1, <2>1, MinOfNat
<1>3. m \in 1 .. N /\ m - 1 \in 0 .. N
  BY <1>2
<1>4. m - 1 \notin Bad
  <2>1. m - 1 < m
    BY <1>3
  <2>2. \A n \in Bad : n \in Nat
    OBVIOUS
  <2>. HIDE DEF Bad
  <2>3. QED
    BY <1>2, <1>3, <2>1, <2>2
<1>5. m - 1 \in P
  BY <1>3, <1>4
<1>6. QED
  BY <1>2, <1>3, <1>5

\* A report of an earlier run than a is not shown, if a is the latest attempt.
Current(result, a) ==
  result >= a \/ \E e \in returnedIn(streams[a]) : e.run = result

\* What the index may put together of a task whose log ends with end.
View(listed, end) ==
  [listed : {listed}, result : {end.run}, text : BOOLEAN, report : {"none", end.report},
   activity : {"unknown", "result_recorded", "returned"},
   quality : {"unconfirmed_end", "corrupt", "historical_incomplete", "incomplete", "normal"},
   latest : 0 .. attempts,
   alerts : SUBSET ({"record_corrupt", "result_mismatch"} \X Nat), legacy : SUBSET Nat]

\* And what it has when it has joined some of the attempts.
Joined(listed) ==
  {t \in View(listed, resultOf(view)) :
     t.report # "none" /\ t.latest # 0 => Current(t.result, t.latest)}

\* The result of the log is the line it ends with.
LEMMA ResultIs ==
  ASSUME RInv, Streams, ~foreign
  PROVE  /\ resultOf(view).run \in Nat
         /\ resultOf(view).report # "none" =>
              /\ resultOf(view).run # 0
              /\ Len(view) \in 1 .. Len(log) /\ resultOf(view) = log[Len(view)]
<1>1. Lines /\ Consumed /\ Opening
  BY DEF RInv, Alien
<1>2. CASE view # <<>> /\ Last(view).kind = "finished"
  <2>1. Len(view) \in Nat /\ Len(view) > 0 /\ Len(log) \in Nat /\ Len(view) <= Len(log)
    BY <1>1, <1>2, ViewIs, LogIs DEF Opening
  <2>2. Len(view) \in 1 .. Len(view) /\ Len(view) \in 1 .. Len(log)
    BY <2>1
  <2>3. resultOf(view) = view[Len(view)]
    BY <1>2 DEF resultOf, Last
  <2>4. resultOf(view) = log[Len(view)]
    BY <1>1, <2>2, <2>3 DEF Opening
  <2>5. log[Len(view)].run \in Nat /\ log[Len(view)].run # 0
    BY <1>1, <2>2, LogIs DEF Line, Streams
  <2>6. QED
    BY <2>2, <2>4, <2>5
<1>3. CASE ~(view # <<>> /\ Last(view).kind = "finished")
  BY <1>3 DEF resultOf, NoLine
<1>4. QED
  BY <1>2, <1>3

\* It is one of the lines that were read, or none.
LEMMA ResultTyped ==
  ASSUME RInv
  PROVE  resultOf(view).run \in Nat /\ resultOf(view).report \in course.reports \cup {"none"}
<1>1. CASE view # <<>> /\ Last(view).kind = "finished"
  <2>1. Len(view) \in Nat /\ Len(view) > 0 /\ \A i \in 1 .. Len(view) : view[i] \in Line
    BY <1>1, ViewIs DEF RInv
  <2>2. resultOf(view) = view[Len(view)]
    BY <1>1 DEF resultOf, Last
  <2>3. QED
    BY <2>1, <2>2 DEF Line
<1>2. CASE ~(view # <<>> /\ Last(view).kind = "finished")
  BY <1>2 DEF resultOf, NoLine
<1>3. QED
  BY <1>1, <1>2

LEMMA FromLogTyped ==
  ASSUME RInv, NEW listed, NEW broken \in BOOLEAN
  PROVE  /\ fromLog(view, listed, broken) \in View(listed, resultOf(view))
         /\ fromLog(view, listed, broken).latest = 0
<1>. DEFINE end == resultOf(view)
            text == end.run # 0
            activity == IF end.run # 0 THEN "result_recorded" ELSE "unknown"
            quality == IF ~listed THEN "unconfirmed_end"
                       ELSE IF broken THEN "corrupt" ELSE "historical_incomplete"
            alerts == IF broken THEN {<<"record_corrupt", 0>>} ELSE {}
            legacy == {i \in DOMAIN view :
                         view[i].kind = "started" \/ (i = 2 /\ view[1].kind = "created")}
<1>1. end.run \in Nat /\ 0 \in 0 .. attempts
  BY ResultTyped DEF RInv, Lines
<1>2. legacy \in SUBSET Nat
  <2>1. DOMAIN view = 1 .. Len(view) /\ Len(view) \in Nat
    BY LenProperties DEF RInv, Consumed
  <2>2. QED
    BY <2>1
<1>3. alerts \in SUBSET ({"record_corrupt", "result_mismatch"} \X Nat)
  OBVIOUS
<1>4. /\ text \in BOOLEAN /\ activity \in {"unknown", "result_recorded", "returned"}
      /\ quality \in {"unconfirmed_end", "corrupt", "historical_incomplete", "incomplete", "normal"}
  OBVIOUS
<1>5. fromLog(view, listed, broken)
        = [Absent EXCEPT !.listed = listed, !.result = end.run, !.text = text, !.report = end.report,
                         !.activity = activity, !.quality = quality, !.alerts = alerts,
                         !.legacy = legacy]
  BY DEF fromLog
<1>. HIDE DEF end, text, activity, quality, alerts, legacy
<1>6. fromLog(view, listed, broken)
        = [listed |-> listed, result |-> end.run, text |-> text, report |-> end.report,
           activity |-> activity, quality |-> quality, latest |-> 0, alerts |-> alerts,
           legacy |-> legacy]
  BY <1>5 DEF Absent
<1>7. fromLog(view, listed, broken) \in View(listed, end)
  BY <1>1, <1>2, <1>3, <1>4, <1>6 DEF View
<1>8. fromLog(view, listed, broken).latest = 0
  BY <1>6
<1>9. QED
  BY <1>7, <1>8 DEF end

LEMMA FromLogIs ==
  ASSUME RInv, NEW listed, NEW broken \in BOOLEAN
  PROVE  fromLog(view, listed, broken) \in Joined(listed) /\ fromLog(view, listed, broken).latest = 0
BY FromLogTyped, Zenon DEF Joined

\* What an attempt that decides makes of a view.
LEMMA DecidedTyped ==
  ASSUME RInv, NEW listed, NEW t \in View(listed, resultOf(view)), NEW a \in 1 .. attempts
  PROVE  LET d == decided(t, a, streams[a], Len(view))
             back == returnedIn(streams[a])
             mismatch == back # {} /\ t.result # 0 /\ \A e \in back : e.run # t.result
             withheld == back = {} /\ t.report # "none" /\ ~committedFinish(streams[a], Len(view))
         IN /\ d \in View(listed, resultOf(view)) /\ d.latest = a /\ d.result = t.result
            /\ d.report = IF mismatch \/ withheld THEN "none" ELSE t.report
<1>. DEFINE es == streams[a]
            end == resultOf(view)
            back == returnedIn(es)
            mismatch == back # {} /\ t.result # 0 /\ \A e \in back : e.run # t.result
            withheld == back = {} /\ t.report # "none" /\ ~committedFinish(es, Len(view))
            activity == IF back # {} THEN "returned" ELSE "unknown"
            quality == IF t.quality = "corrupt" THEN t.quality ELSE qualityOf(es)
            text == t.text /\ ~mismatch /\ ~(withheld /\ t.report = "analysis")
            report == IF mismatch \/ withheld THEN "none" ELSE t.report
            alerts == IF mismatch THEN t.alerts \cup {<<"result_mismatch", a>>} ELSE t.alerts
            d == decided(t, a, es, Len(view))
<1>0. t \in View(listed, end) /\ a \in Nat /\ a \in 0 .. attempts
  BY DEF RInv, Lines
<1>1. d = [t EXCEPT !.latest = a, !.activity = activity, !.quality = quality,
                    !.text = text, !.report = report, !.alerts = alerts]
  BY DEF decided
<1>2. qualityOf(es) \in {"incomplete", "unconfirmed_end", "normal"}
  BY DEF qualityOf
<1>3. /\ activity \in {"unknown", "result_recorded", "returned"}
      /\ quality \in {"unconfirmed_end", "corrupt", "historical_incomplete", "incomplete", "normal"}
      /\ text \in BOOLEAN /\ report \in {"none", end.report}
      /\ alerts \in SUBSET ({"record_corrupt", "result_mismatch"} \X Nat)
  <2>. HIDE DEF end
  <2>1. t.report \in {"none", end.report}
    BY <1>0 DEF View
  <2>2. report \in {"none", end.report}
    BY <2>1
  <2>3. t.alerts \in SUBSET ({"record_corrupt", "result_mismatch"} \X Nat)
    BY <1>0 DEF View
  <2>4. <<"result_mismatch", a>> \in {"record_corrupt", "result_mismatch"} \X Nat
    BY <1>0
  <2>5. alerts \in SUBSET ({"record_corrupt", "result_mismatch"} \X Nat)
    <3>. HIDE DEF mismatch
    <3>1. QED
      BY <2>3, <2>4
  <2>6. activity \in {"unknown", "result_recorded", "returned"}
    OBVIOUS
  <2>7. quality \in {"unconfirmed_end", "corrupt", "historical_incomplete", "incomplete", "normal"}
    BY <1>2
  <2>8. text \in BOOLEAN
    <3>. HIDE DEF mismatch, withheld
    <3>1. QED
      OBVIOUS
  <2>9. QED
    BY <2>2, <2>5, <2>6, <2>7, <2>8
<1>. HIDE DEF end, activity, quality, text, report, alerts
<1>4. d \in View(listed, end) /\ d.latest = a /\ d.report = report /\ d.result = t.result
  BY <1>0, <1>1, <1>3 DEF View
<1>5. QED
  BY <1>4 DEF end, report

\* The attempt that decides shows a report only if it is its own or the one it
\* returned.
LEMMA DecidedIs ==
  ASSUME RInv, Streams, ~foreign, NEW listed, NEW t \in Joined(listed), NEW a \in 1 .. attempts
  PROVE  /\ decided(t, a, streams[a], Len(view)) \in Joined(listed)
         /\ decided(t, a, streams[a], Len(view)).latest = a
<1>. DEFINE es == streams[a]
            end == resultOf(view)
            back == returnedIn(es)
            mismatch == back # {} /\ t.result # 0 /\ \A e \in back : e.run # t.result
            withheld == back = {} /\ t.report # "none" /\ ~committedFinish(es, Len(view))
            report == IF mismatch \/ withheld THEN "none" ELSE t.report
            d == decided(t, a, es, Len(view))
<1>0. t \in View(listed, end) /\ a \in Nat /\ a # 0 /\ a \in 0 .. attempts
  BY DEF Joined, RInv, Lines
<1>1. d \in View(listed, end) /\ d.latest = a /\ d.report = report /\ d.result = t.result
  BY <1>0, DecidedTyped
<1>4. ASSUME report # "none" PROVE Current(t.result, a)
  <2>1. ~mismatch /\ ~withheld /\ report = t.report
    BY <1>4
  <2>2. t.report = end.report /\ t.result = end.run
    BY <1>0, <1>4, <2>1 DEF View
  <2>3. /\ t.result \in Nat /\ t.result # 0
        /\ Len(view) \in 1 .. Len(log) /\ end = log[Len(view)]
    BY <1>4, <2>1, <2>2, ResultIs
  <2>4. CASE back # {}
    BY <2>1, <2>3, <2>4 DEF Current
  <2>5. CASE back = {}
    <3>1. committedFinish(es, Len(view))
      BY <1>4, <2>1, <2>5
    <3>2. Ended(es, a, log)
      BY DEF Streams
    <3>3. log[Len(view)].run = a
      BY <3>1, <3>2 DEF Ended, committedFinish
    <3>4. t.result = a
      BY <2>2, <2>3, <3>3
    <3>5. QED
      BY <1>0, <3>4 DEF Current
  <2>6. QED
    BY <2>4, <2>5
<1>. HIDE DEF end, report, d
<1>5. d \in Joined(listed)
  BY <1>1, <1>4 DEF Joined, end
<1>6. QED
  BY <1>1, <1>5 DEF d

LEMMA JoinedIs ==
  ASSUME RInv, Streams, ~foreign, NEW listed, NEW t \in Joined(listed), NEW a \in 1 .. attempts
  PROVE  /\ joined(t, a, streams[a], Len(view)) \in Joined(listed)
         /\ joined(t, a, streams[a], Len(view)).latest = IF a > t.latest THEN a ELSE t.latest
<1>. DEFINE end == resultOf(view)
            next == IF a > t.latest THEN decided(t, a, streams[a], Len(view)) ELSE t
            twice == {e.sequence : e \in {x \in Range(streams[a]) : x.kind = "committed"}}
            j == joined(t, a, streams[a], Len(view))
<1>1. next \in Joined(listed) /\ next.latest = IF a > t.latest THEN a ELSE t.latest
  BY DecidedIs
<1>2. j = [next EXCEPT !.legacy = next.legacy \ twice]
  BY DEF joined
<1>3. next \in View(listed, end)
  BY <1>1 DEF Joined
<1>. HIDE DEF next, twice, end
<1>4. /\ j \in View(listed, end) /\ j.report = next.report /\ j.result = next.result
      /\ j.latest = next.latest
  BY <1>2, <1>3 DEF View
<1>5. j \in Joined(listed)
  BY <1>1, <1>4 DEF Joined, end
<1>6. QED
  BY <1>1, <1>4, <1>5

\* The latest of them is the newest attempt that has a stream.
LEMMA ScannedIs ==
  ASSUME RInv, Streams, ~foreign, NEW listed, NEW broken \in BOOLEAN
  PROVE  /\ scanned(view, listed, broken)[Len(dirs)] \in Joined(listed)
         /\ dirs # <<>> => scanned(view, listed, broken)[Len(dirs)].latest = Max(Range(dirs))
<1>. DEFINE f == scanned(view, listed, broken)
            N == Len(dirs)
            P == {k \in 0 .. N : /\ f[k].latest = 0 \/ \E j \in 1 .. k : f[k].latest = dirs[j]
                                 /\ \A j \in 1 .. k : dirs[j] <= f[k].latest}
<1>1. N \in Nat /\ attempts \in Nat /\ \A k \in 1 .. N : dirs[k] \in 1 .. attempts
  BY LenProperties, ElementOfSeq DEF RInv, Lines, Streams
<1>2. fromLog(view, listed, broken) \in Joined(listed) /\ fromLog(view, listed, broken).latest = 0
  BY FromLogIs
<1>3. /\ f \in [0 .. N -> Joined(listed)] /\ f[0] = fromLog(view, listed, broken)
      /\ \A k \in 1 .. N : f[k] = joined(f[k - 1], dirs[k], streams[dirs[k]], Len(view))
  <2>1. \A k \in 1 .. Len(dirs), t \in Joined(listed) :
           joined(t, dirs[k], streams[dirs[k]], Len(view)) \in Joined(listed)
    BY <1>1, JoinedIs
  <2>. HIDE DEF Joined
  <2>2. QED
    BY <1>1, <1>2, <2>1, Scanning
<1>. HIDE DEF f
<1>4. \A k \in 1 .. N : f[k].latest = IF dirs[k] > f[k - 1].latest THEN dirs[k] ELSE f[k - 1].latest
  <2>1. SUFFICES ASSUME NEW k \in 1 .. N
                 PROVE  f[k].latest = IF dirs[k] > f[k - 1].latest THEN dirs[k] ELSE f[k - 1].latest
    OBVIOUS
  <2>2. f[k - 1] \in Joined(listed)
    BY <1>1, <1>3
  <2>3. joined(f[k - 1], dirs[k], streams[dirs[k]], Len(view)).latest
          = IF dirs[k] > f[k - 1].latest THEN dirs[k] ELSE f[k - 1].latest
    <3>1. dirs[k] \in 1 .. attempts
      BY <1>1
    <3>. HIDE DEF N, Joined
    <3>2. QED
      BY <2>2, <3>1, JoinedIs
  <2>4. f[k] = joined(f[k - 1], dirs[k], streams[dirs[k]], Len(view))
    BY <1>3
  <2>5. QED
    BY <2>3, <2>4
<1>5. \A k \in 0 .. N : f[k].latest \in Nat
  BY <1>3 DEF Joined, View
<1>6. 0 \in P
  BY <1>1, <1>2, <1>3
<1>7. \A k \in 1 .. N : k - 1 \in P => k \in P
  <2>1. SUFFICES ASSUME NEW k \in 1 .. N, k - 1 \in P PROVE k \in P
    OBVIOUS
  <2>2. \A j \in 1 .. k : j \in 1 .. k - 1 \/ j = k
    BY <1>1
  <2>3. k \in 1 .. k /\ k \in 0 .. N /\ k - 1 \in 0 .. N /\ \A j \in 1 .. k - 1 : j \in 1 .. k /\ j \in 1 .. N
    BY <1>1
  <2>4. f[k].latest \in Nat /\ f[k - 1].latest \in Nat /\ dirs[k] \in Nat
        /\ \A j \in 1 .. k - 1 : dirs[j] \in Nat
    BY <1>1, <1>5, <2>3
  <2>5. f[k].latest = 0 \/ \E j \in 1 .. k : f[k].latest = dirs[j]
    BY <1>4, <2>1, <2>3
  <2>6. ASSUME NEW j \in 1 .. k PROVE dirs[j] <= f[k].latest
    <3>1. CASE j = k
      BY <1>4, <2>4, <3>1
    <3>2. CASE j \in 1 .. k - 1
      <4>1. dirs[j] <= f[k - 1].latest /\ dirs[j] \in Nat
        BY <2>1, <2>4, <3>2
      <4>2. QED
        BY <1>4, <2>4, <4>1
    <3>3. QED
      BY <2>2, <3>1, <3>2
  <2>7. QED
    BY <2>3, <2>5, <2>6
<1>8. N \in P
  <2>. HIDE DEF P, N
  <2>1. \A k \in 0 .. N : k \in P
    BY <1>1, <1>6, <1>7, Induct
  <2>2. QED
    BY <1>1, <2>1
<1>9. ASSUME dirs # <<>> PROVE f[N].latest = Max(Range(dirs))
  <2>1. N # 0 /\ Range(dirs) = {dirs[j] : j \in 1 .. N}
    BY <1>9, EmptySeq, RangeEquality DEF Streams
  <2>2. 1 \in 1 .. N /\ dirs[1] # 0 /\ dirs[1] \in Nat
    BY <1>1, <2>1
  <2>3. f[N].latest \in Range(dirs)
    <3>1. f[N].latest # 0
      BY <1>1, <1>5, <1>8, <2>2
    <3>2. QED
      BY <1>8, <2>1, <3>1
  <2>4. \A y \in Range(dirs) : y <= f[N].latest /\ y \in Nat /\ y <= attempts
    BY <1>1, <1>8, <2>1
  <2>5. Max(Range(dirs)) \in Range(dirs) /\ f[N].latest <= Max(Range(dirs))
    <3>1. Range(dirs) \in SUBSET Nat /\ Range(dirs) # {}
      BY <2>3, <2>4
    <3>2. QED
      BY <1>1, <2>3, <2>4, <3>1, MaxOfNat
  <2>6. QED
    BY <2>3, <2>4, <2>5
<1>10. QED
  BY <1>1, <1>3, <1>9 DEF f

LEMMA ScanIsCurrent ==
  ASSUME RInv, Streams, ~foreign, Scan, UNCHANGED <<streams, dirs>>
  PROVE  reportIsCurrent'
<1>. DEFINE listed == known \/ err # "none"
            broken == err # "none"
            t == scanned(view, listed, broken)[Len(dirs)]
<1>1. shown' = projected(view, listed, broken)
  BY DEF Scan
<1>2. SUFFICES ASSUME shown'.report # "none", dirs # <<>>
               PROVE  Current(shown'.result, Max(Range(dirs)))
  BY DEF reportIsCurrent, Current, returnedIn
<1>3. t \in Joined(listed) /\ t.latest = Max(Range(dirs))
  BY <1>2, ScannedIs
<1>4. shown' = detected(t, quiet)
  BY <1>1, <1>2 DEF projected
<1>. HIDE DEF t, listed
<1>5. t \in View(listed, resultOf(view))
  BY <1>3 DEF Joined
<1>6. shown'.report = t.report /\ shown'.result = t.result
  BY <1>4, <1>5 DEF detected, View
<1>7. t.latest # 0
  <2>1. Max(Range(dirs)) \in Range(dirs) /\ Range(dirs) \in SUBSET (1 .. attempts)
    <3>1. Range(dirs) \in SUBSET (1 .. attempts) /\ attempts \in Nat
      BY RangeOfSeq DEF RInv, Lines, Streams
    <3>2. Range(dirs) # {}
      <4>1. Len(dirs) \in Nat \ {0} /\ DOMAIN dirs = 1 .. Len(dirs)
        BY <1>2, LenProperties, EmptySeq DEF Streams
      <4>2. 1 \in DOMAIN dirs
        BY <4>1
      <4>3. QED
        BY <4>2 DEF Range
    <3>3. Range(dirs) \in SUBSET Nat /\ \A y \in Range(dirs) : y <= attempts
      BY <3>1
    <3>4. QED
      BY <3>1, <3>2, <3>3, MaxOfNat
  <2>2. QED
    BY <1>3, <2>1
<1>8. QED
  BY <1>2, <1>3, <1>6, <1>7 DEF Joined

LEMMA StreamsStart == Init => Streams
<1>1. SUFFICES ASSUME Init PROVE Streams
  OBVIOUS
<1>2. /\ emitted = 0 /\ queue = <<>> /\ streams = <<>> /\ dirs = <<>> /\ log = <<>>
      /\ attempts = 0 /\ phase = "idle"
  BY <1>1 DEF Init, IndexInit
<1>3. Len(<<>>) = 0 /\ <<>> \in Seq(Event) /\ <<>> \in Seq(Seq(Event)) /\ <<>> \in Seq(1 .. attempts)
  BY EmptySeq
<1>4. Ended(queue, attempts, log)
  BY <1>2, EmptyRange DEF Ended
<1>5. 1 .. 0 = {}
  OBVIOUS
<1>6. QED
  BY <1>2, <1>3, <1>4, <1>5 DEF Streams

\* A report that is shown beside the newest attempt is of that attempt's run or
\* of the run it returned, whatever was lost, crashed, appended or read when, as
\* long as nobody has put another log in the place of the task's (projection.go,
\* applyRunRecord).
THEOREM NoReportIsStale == Spec => NoStaleReport
<1>1. Init => Streams
  BY StreamsStart
<1>2. RInv /\ Streams /\ [Next]_vars => Streams'
  BY StreamsStep DEF RInv
<1>3. RInv /\ Streams /\ [Next]_vars => [Scan /\ ~foreign => reportIsCurrent']_indexVars
  <2>1. SUFFICES ASSUME RInv, Streams, [Next]_vars, Scan, ~foreign PROVE reportIsCurrent'
    OBVIOUS
  <2>2. stage = "read" /\ stage' # "read"
    BY <2>1 DEF Scan
  <2>3. ~Program
    BY <2>2, ReadersOwn
  <2>4. UNCHANGED <<streams, dirs>>
    BY <2>1, <2>3, TaskOnly
  <2>5. QED
    BY <2>1, <2>4, ScanIsCurrent
<1>4. QED
  BY ReadingInvariance, <1>1, <1>2, <1>3, PTL DEF Spec, NoStaleReport

-----------------------------------------------------------------------------
(* Types.                                                                  *)

\* The report the index has of the task is one that its runs wrote.
LEMMA ProjectedTyped ==
  ASSUME RInv, Streams, NEW listed, NEW broken \in BOOLEAN
  PROVE  projected(view, listed, broken).report \in course.reports \cup {"none"}
<1>. DEFINE V == View(listed, resultOf(view))
            f == scanned(view, listed, broken)
            N == Len(dirs)
<1>1. N \in Nat /\ \A k \in 1 .. N : dirs[k] \in 1 .. attempts
  BY LenProperties, ElementOfSeq DEF Streams
<1>2. ASSUME NEW t \in V, NEW a \in 1 .. attempts PROVE joined(t, a, streams[a], Len(view)) \in V
  <2>. DEFINE next == IF a > t.latest THEN decided(t, a, streams[a], Len(view)) ELSE t
              twice == {e.sequence : e \in {x \in Range(streams[a]) : x.kind = "committed"}}
              end == resultOf(view)
  <2>1. next \in View(listed, end)
    BY <1>2, DecidedTyped
  <2>2. joined(t, a, streams[a], Len(view)) = [next EXCEPT !.legacy = next.legacy \ twice]
    BY DEF joined
  <2>. HIDE DEF next, twice, end
  <2>3. joined(t, a, streams[a], Len(view)) \in View(listed, end)
    BY <2>1, <2>2 DEF View
  <2>4. QED
    BY <2>3 DEF end
<1>3. f \in [0 .. N -> V]
  <2>1. fromLog(view, listed, broken) \in V
    BY FromLogTyped
  <2>2. \A k \in 1 .. Len(dirs), t \in V : joined(t, dirs[k], streams[dirs[k]], Len(view)) \in V
    BY <1>1, <1>2
  <2>. HIDE DEF V
  <2>3. QED
    BY <1>1, <2>1, <2>2, Scanning
<1>4. f[N] \in V
  BY <1>1, <1>3
<1>5. V # {} => \A t \in V : detected(t, quiet).report \in {"none", resultOf(view).report}
  BY DEF View, detected
<1>. HIDE DEF V
<1>6. detected(f[N], quiet).report \in course.reports \cup {"none"}
  BY <1>4, <1>5, ResultTyped
<1>. HIDE DEF f
<1>7. QED
  BY <1>6 DEF projected, Absent, f

LEMMA IndexTyped ==
  ASSUME RInv, Streams, Streams', IndexTypeOK, [Next]_vars
  PROVE  IndexTypeOK'
<1>1. course' = course /\ (Program => UNCHANGED <<stage, known, err, early, shown>>)
  BY TaskOnly, FaultsGo, ReadersOwn
<1>2. phase' \in {"idle", "begun", "started", "finished"} /\ disk' \in {"none", "dir", "file", "gone"}
  <2>1. CASE Program
    BY <2>1 DEF IndexTypeOK, Program, Begin, Create, AppendCreated, AppendStarted, AppendFinished, append,
                Return, Crash, Flush, FallSilent, Restore, MoveAway, PutBack, programVars, diskVars
  <2>2. CASE ~Program
    BY <2>2, TaskOnly DEF IndexTypeOK
  <2>3. QED
    BY <2>1, <2>2
<1>3. torn' \in BOOLEAN /\ other' \in BOOLEAN /\ touched' \in BOOLEAN
  <2>1. CASE Program
    BY <2>1 DEF IndexTypeOK, Program, Begin, Create, AppendCreated, AppendStarted, AppendFinished, append,
                Return, Crash, Flush, FallSilent, Restore, MoveAway, PutBack, programVars, diskVars
  <2>2. CASE ~Program
    BY <2>2 DEF IndexTypeOK, Next, Work, Look, Loop, Handler, Browser, Notify, Connect, Send, HangUp, Drop,
                Fetch, Answer, Arrive, Refresh, OpenLog, NoLog, ReadLog, Scan,
                vars, indexVars, diskVars, readerVars
  <2>3. QED
    BY <2>1, <2>2
<1>4. stage' \in {"idle", "polled", "read", "changed"} /\ {known, early}' \subseteq BOOLEAN
      /\ err' \in {"none", "unreadable", "invalid"}
  <2>1. CASE Program
    BY <1>1, <2>1 DEF IndexTypeOK
  <2>2. CASE ~Program
    BY <2>2 DEF IndexTypeOK, Next, Work, Look, Loop, Handler, Browser, Notify, Connect, Send, HangUp, Drop,
                Fetch, Answer, Arrive, Refresh, OpenLog, NoLog, ReadLog, Scan, reset,
                vars, indexVars, readerVars
  <2>3. QED
    BY <2>1, <2>2
<1>5. Len(streams') = attempts' /\ Range(dirs') \subseteq 1 .. attempts'
  BY RangeOfSeq DEF Streams
<1>6. shown'.report \in course.reports \cup {"none"}
  <2>1. CASE Scan
    BY <2>1, ProjectedTyped DEF Scan
  <2>2. CASE ~Scan
    <3>1. shown' = shown
      BY <1>1, <2>2 DEF Next, Work, Look, Loop, Handler, Browser, Notify, Connect, Send, HangUp, Drop,
                        Fetch, Answer, Arrive, Refresh, OpenLog, NoLog, ReadLog, vars, indexVars
    <3>2. QED
      BY <3>1 DEF IndexTypeOK
  <2>3. QED
    BY <2>1, <2>2
<1>7. QED
  BY <1>1, <1>2, <1>3, <1>4, <1>5, <1>6 DEF IndexTypeOK

\* The ring and the channel stay within their bounds.
LEMMA ServerTyped ==
  ASSUME Notices, [Next]_vars,
         Len(ring) <= RingSize, Len(chan) <= ChanSize, cursor \in -1 .. notified,
         {subscribed, linked, due} \subseteq BOOLEAN
  PROVE  /\ Len(ring') <= RingSize /\ Len(chan') <= ChanSize
         /\ cursor' \in -1 .. notified' /\ {subscribed, linked, due}' \subseteq BOOLEAN
<1>1. /\ RingSize \in Nat \ {0} /\ ChanSize \in Nat \ {0} /\ Len(<<>>) = 0 /\ notified \in Nat
      /\ ring \in Seq(0 .. notified) /\ chan \in Seq(0 .. notified) /\ pending \in Seq(0 .. notified)
      /\ Len(ring) \in Nat /\ Len(chan) \in Nat
  BY StreamAssumption, EmptySeq, LenProperties DEF Notices
<1>2. CASE Notify
  <2>. DEFINE r == Append(ring, notified + 1)
              c == Append(chan, notified + 1)
  <2>1. /\ ring' = lastOf(r, RingSize) /\ cursor' = cursor /\ notified' = notified + 1
        /\ chan' = IF subscribed /\ ~(Len(chan) >= ChanSize) THEN c ELSE chan
        /\ subscribed' = (subscribed /\ ~(Len(chan) >= ChanSize)) /\ linked' = linked /\ due' = due
    BY <1>2 DEF Notify, pageVars
  <2>2. Len(r) = Len(ring) + 1 /\ Len(c) = Len(chan) + 1 /\ r \in Seq(Int) /\ r # <<>>
    <3>1. ring \in Seq(Int) /\ chan \in Seq(Int) /\ notified + 1 \in Int
      <4>1. 0 .. notified \subseteq Int
        BY <1>1
      <4>2. QED
        BY <1>1, <4>1, SeqMonotonic
    <3>2. QED
      BY <3>1, Appended
  <2>. HIDE DEF r, c
  <2>3. Len(Tail(r)) = Len(r) - 1
    BY <2>2, HeadTailProperties
  <2>4. Len(ring') <= RingSize
    BY <1>1, <2>1, <2>2, <2>3 DEF lastOf
  <2>5. Len(chan') <= ChanSize
    BY <1>1, <2>1, <2>2
  <2>6. subscribed' \in BOOLEAN
    BY <2>1
  <2>7. cursor' \in -1 .. notified'
    BY <1>1, <2>1
  <2>8. QED
    BY <2>1, <2>4, <2>5, <2>6, <2>7
<1>3. CASE Connect
  BY <1>1, <1>3 DEF Connect, pageVars
<1>4. CASE Send
  <2>1. /\ UNCHANGED <<notified, ring, subscribed, linked>> /\ due' = TRUE
        /\ \/ pending # <<>> /\ cursor' = Head(pending) /\ chan' = chan
           \/ chan # <<>> /\ cursor' = Head(chan) /\ chan' = Tail(chan)
    BY <1>4 DEF Send
  <2>2. pending # <<>> => Head(pending) \in 0 .. notified
    BY <1>1, Shorter
  <2>3. chan # <<>> => Head(chan) \in 0 .. notified /\ Len(Tail(chan)) = Len(chan) - 1
    BY <1>1, Shorter, HeadTailProperties
  <2>4. QED
    BY <1>1, <2>1, <2>2, <2>3
<1>5. CASE HangUp \/ Drop
  <2>1. /\ linked' = FALSE /\ subscribed' = FALSE /\ chan' = <<>>
        /\ ring' = ring /\ notified' = notified /\ cursor' = cursor /\ due' = due
    BY <1>5 DEF HangUp, Drop, cut, pageVars
  <2>2. linked' \in BOOLEAN /\ subscribed' \in BOOLEAN /\ due' \in BOOLEAN
    BY <2>1
  <2>3. QED
    BY <1>1, <2>1, <2>2
<1>6. CASE ~serverSteps
  <2>1. UNCHANGED <<serverVars, cursor>>
    BY <1>6, Elsewhere
  <2>2. due' \in BOOLEAN
    BY <1>6 DEF Next, Work, Look, Loop, Handler, Browser, Fetch, Answer, Arrive, serverSteps, pageVars, vars
  <2>3. QED
    BY <2>1, <2>2 DEF serverVars
<1>7. QED
  BY <1>2, <1>3, <1>4, <1>5, <1>6 DEF serverSteps

\* What the index shows of a task is of the declared form, with a report that
\* the task's runs wrote, if any; and the server never holds more announcements
\* than it has room for (server.go, Notify and stream).
THEOREM MonitorTypes == Spec => []TypeOK
<1>1. Init => Streams /\ TypeOK
  <2>1. ASSUME Init PROVE TypeOK
    <3>1. IndexTypeOK
      <4>1. /\ Range(<<>>) = {} /\ Len(<<>>) = 0 /\ Absent.report = "none"
        BY EmptyRange, EmptySeq DEF Absent
      <4>2. QED
        BY <2>1, <4>1 DEF Init, IndexInit, IndexTypeOK
    <3>2. Len(<<>>) = 0 /\ RingSize \in Nat /\ ChanSize \in Nat
      BY EmptySeq, StreamAssumption
    <3>3. subscribed \in BOOLEAN /\ linked \in BOOLEAN /\ due \in BOOLEAN
      BY <2>1 DEF Init
    <3>4. ring = <<>> /\ chan = <<>> /\ cursor = -1 /\ notified = 0 /\ -1 \in -1 .. 0
      BY <2>1 DEF Init
    <3>5. QED
      BY <3>1, <3>2, <3>3, <3>4 DEF TypeOK
  <2>2. QED
    BY <2>1, StreamsStart
<1>2. RInv /\ IInv /\ Streams /\ TypeOK /\ [Next]_vars => Streams' /\ TypeOK'
  <2>1. SUFFICES ASSUME RInv, IInv, Streams, TypeOK, [Next]_vars PROVE Streams' /\ TypeOK'
    OBVIOUS
  <2>2. Streams'
    BY <2>1, StreamsStep DEF RInv
  <2>3. IndexTypeOK'
    BY <2>1, <2>2, IndexTyped DEF TypeOK
  <2>4. /\ Len(ring') <= RingSize /\ Len(chan') <= ChanSize
        /\ cursor' \in -1 .. notified' /\ {subscribed, linked, due}' \subseteq BOOLEAN
    BY <2>1, ServerTyped DEF TypeOK, IInv
  <2>5. QED
    BY <2>2, <2>3, <2>4 DEF TypeOK
<1>3. QED
  BY Invariance, ReadingInvariance, <1>1, <1>2, PTL DEF Spec
=================================================================================
