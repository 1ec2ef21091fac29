------------------------------- MODULE FileProofs -------------------------------
(***************************************************************************)
(* What two kinds of files promise: a file of the workspace while calls    *)
(* write it (module FileMutation), and the stream of observations while    *)
(* the monitor reads it (modules Recorder and Observation).                *)
(*                                                                         *)
(* What FileMutation promises holds for any set of concurrent calls and    *)
(* any number of edits, crashes and power losses, at any moment.  Sound is *)
(* the inductive strengthening; TLC checks it too.                         *)
(*                                                                         *)
(* The stream is in order and its footer declares every loss, for queues   *)
(* and streams of any size, any number of events and any failures of the   *)
(* directory; its last events are in it where the directory does not fail; *)
(* and what the monitor shows of it as normal is the whole of it.          *)
(*                                                                         *)
(* An event that was offered is in the queue, in the writer's batch, in    *)
(* the file, or counted as dropped; the three places hold it in the order  *)
(* of its number.  Counted says so, and Accounted adds that a footer on    *)
(* its way to the file already knows of all that is missing before it.     *)
(*                                                                         *)
(* For the end of the run (End, Kept), each of its four records is made    *)
(* once, so that three places behind the queue and four lines of the       *)
(* stream are enough for them.  For the monitor (Watch), what it has read  *)
(* is a beginning of the file, numbered without a gap unless it knows of   *)
(* a loss.                                                                 *)
(***************************************************************************)
EXTENDS FileMutation, Observation, FiniteSetTheorems, WellFoundedInduction, TLAPS

Committing == {"prepared", "written", "synced", "checked", "installed"}

CallRecord == [at : Stages, before : Nat, after : Nat, previewed : BOOLEAN]

\* Every version in use was handed out, and what a power loss may show is whole.
Versions ==
    /\ path \in safe
    /\ safe \subseteq onDisk
    /\ \A v \in onDisk : v \in Nat /\ v < next

\* A call writes a version of its own, newer than the one it names.
Fresh ==
    /\ \A c \in Calls : ~At(c, "new") => call[c].before < call[c].after /\ call[c].after < next
    /\ \A b, c \in Calls :
          b # c /\ ~At(b, "new") /\ ~At(c, "new") => call[b].after # call[c].after

\* An outsider has saved since the call compared last, and what the path shows
\* is no call's.
Saved(c) == c \in overtaken /\ \A d \in installed : path # call[d].after

\* How far a call is on its way through commitFile.
Underway ==
    \A c \in Calls :
        /\ call[c].at \in {"synced", "checked", "installed"} => call[c].after \in onDisk
        /\ At(c, "checked") => path = call[c].before \/ Saved(c)
        /\ At(c, "installed") => c \in installed /\ path # call[c].before
        /\ c \in installed => call[c].at \in {"installed", "failed", "over"}
        /\ c \in success => c \in installed

\* Before its rename nobody can see what a call writes.
Hidden ==
    \A c \in Calls : ~At(c, "new") /\ c \notin installed => call[c].after \notin safe

\* A version that was replaced, or is about to be, is not one that is still to be
\* installed.
Replaced ==
    \A b, c \in Calls :
        (c \in installed \/ At(c, "checked")) /\ b \notin installed /\ ~At(b, "new") => call[b].after # call[c].before

\* If the old version is back, a power loss has taken the new one away for good.
Undone ==
    \A c \in installed : path = call[c].before => call[c].after \notin safe

Effects ==
    \A c \in Calls :
        /\ effect[c] \in {"none", "confirmed"} => At(c, "over")
        /\ effect[c] = "confirmed" => c \in installed
        /\ effect[c] = "none" => call[c].after \notin safe

Sound ==
    /\ FileTypes
    /\ Versions /\ Fresh /\ Underway /\ Hidden /\ Replaced /\ Undone /\ Effects
    /\ SuccessSurvives

\* Go changes the stage of one call and nothing else about the calls.
LEMMA Moved ==
    ASSUME call \in [Calls -> CallRecord], NEW c \in Calls, NEW s \in Stages, Go(c, s)
    PROVE  /\ call' \in [Calls -> CallRecord]
           /\ \A b \in Calls : /\ call'[b].before = call[b].before
                               /\ call'[b].after = call[b].after
                               /\ call'[b].at = IF b = c THEN s ELSE call[b].at
BY DEF Go, CallRecord

\* A step that moves one call on without showing anything keeps what does not
\* depend on how far that call is.
LEMMA Still ==
    ASSUME Sound, NEW c \in Calls, NEW s \in Stages \ {"new"}, ~At(c, "new"), Go(c, s),
           s = "checked" => path = call[c].before,
           UNCHANGED <<path, safe, next, installed, success, overtaken>>,
           onDisk \subseteq onDisk', \A v \in onDisk' : v \in Nat /\ v < next
    PROVE  Versions' /\ Fresh' /\ Hidden' /\ Replaced' /\ Undone' /\ SuccessSurvives'
<1>1. call \in [Calls -> CallRecord]
  BY DEF Sound, FileTypes, CallRecord
<1>2. \A b \in Calls : /\ call'[b].before = call[b].before
                       /\ call'[b].after = call[b].after
                       /\ call'[b].at = IF b = c THEN s ELSE call[b].at
  BY <1>1, Moved
<1>3. \A b \in Calls : At(b, "new")' <=> At(b, "new")
  BY <1>2 DEF At
<1>4. Versions' /\ Hidden'
  BY <1>2, <1>3 DEF Sound, Versions, Hidden
<1>7. Replaced'
  <2>1. s = "checked" => \A b \in Calls : b \notin installed /\ ~At(b, "new") =>
                                           call[b].after # call[c].before
    BY DEF Sound, Hidden, Versions
  <2>2. \A b \in Calls : b # c => (At(b, "checked")' <=> At(b, "checked"))
    BY <1>2 DEF At
  <2>3. At(c, "checked")' <=> s = "checked"
    BY <1>2 DEF At
  <2>. QED
    BY <1>2, <1>3, <2>1, <2>2, <2>3 DEF Sound, Replaced
<1>5. Fresh'
  BY <1>2, <1>3 DEF Sound, Fresh
<1>6. Undone' /\ SuccessSurvives'
  BY <1>2 DEF Sound, Undone, SuccessSurvives, FileTypes
<1>. QED
  BY <1>4, <1>5, <1>6, <1>7

\* As long as nobody writes the file, an edit that came behind a comparison is
\* still there.
LEMMA SavedStays ==
    ASSUME Sound, UNCHANGED <<path, installed, overtaken>>,
           \A d \in Calls : ~At(d, "new") => call'[d].after = call[d].after
    PROVE  \A b \in Calls : Saved(b) => Saved(b)'
<1>1. \A d \in installed : d \in Calls /\ ~At(d, "new")
  BY DEF Sound, FileTypes, Underway, At
<1>. QED
  BY <1>1 DEF Saved

LEMMA InitSound == FileInit => Sound
<1> SUFFICES ASSUME FileInit PROVE Sound
  OBVIOUS
<1>1. /\ path \in Nat /\ path < 2 /\ safe = {path} /\ onDisk = {path} /\ next = 2
      /\ installed = {} /\ success = {} /\ overtaken = {} /\ lock = NoCall
      /\ call = [c \in Calls |-> New] /\ effect = [c \in Calls |-> "unset"]
  BY DEF FileInit, Missing
<1>2. \A c \in Calls : call[c].at = "new" /\ effect[c] = "unset" /\ lock # c
  BY <1>1, CallsAssumption DEF New
<1>3. call \in [Calls -> CallRecord]
  BY <1>1 DEF New, CallRecord, Stages, Missing
<1>4. FileTypes
  BY <1>1, <1>2, <1>3 DEF FileTypes, CallRecord
<1>5. Versions /\ Fresh /\ Hidden /\ Replaced /\ Undone
  BY <1>1, <1>2 DEF Versions, Fresh, Hidden, Replaced, Undone, At
<1>6. Underway /\ Effects /\ SuccessSurvives
  BY <1>1, <1>2 DEF Underway, Effects, SuccessSurvives, At
<1>. QED
  BY <1>4, <1>5, <1>6 DEF Sound

LEMMA StartSound == ASSUME Sound, NEW c \in Calls, Start(c) PROVE Sound'
<1>1. PICK e \in 0..(next - 1) :
        call' = [call EXCEPT ![c] = [at |-> "started", before |-> e, after |-> next,
                                     previewed |-> e = path]]
  BY DEF Start
<1>2. next \in Nat /\ call \in [Calls -> CallRecord] /\ At(c, "new")
  BY DEF Sound, FileTypes, CallRecord, Start
<1>3. e \in Nat /\ e < next /\ (e = path) \in BOOLEAN
  BY <1>2
<1>4. call' \in [Calls -> CallRecord]
  BY <1>1, <1>2, <1>3 DEF CallRecord, Stages
<1>5. /\ call'[c].at = "started" /\ call'[c].before = e /\ call'[c].after = next
      /\ \A b \in Calls : b # c => call'[b] = call[b]
  BY <1>1, <1>2
<1>6. /\ next' = next + 1 /\ UNCHANGED <<path, safe, onDisk, lock, installed, success, overtaken>>
      /\ effect' = [effect EXCEPT ![c] = "unknown"]
  BY DEF Start
<1>7. c \notin installed /\ c \notin success /\ lock # c
  BY <1>2 DEF Sound, Underway, FileTypes, At
<1>8. FileTypes'
  <2>1. effect' \in [Calls -> {"unset", "unknown", "none", "confirmed"}]
    BY <1>6 DEF Sound, FileTypes
  <2>2. \A b \in Calls : lock' = b <=> call'[b].at \in Committing
    BY <1>5, <1>6, <1>7 DEF Sound, FileTypes, Committing
  <2>. QED
    BY <1>2, <1>4, <1>6, <2>1, <2>2 DEF Sound, FileTypes, CallRecord, Committing
<1>9. Versions' /\ Hidden'
  BY <1>2, <1>5, <1>6 DEF Sound, Versions, Hidden, At
<1>10. Fresh'
  <2>1. \A b \in Calls : ~At(b, "new")' => call'[b].before < call'[b].after /\ call'[b].after < next'
    BY <1>2, <1>3, <1>5, <1>6 DEF Sound, Fresh, At, CallRecord
  <2>2. \A a, b \in Calls :
          a # b /\ ~At(a, "new")' /\ ~At(b, "new")' => call'[a].after # call'[b].after
    BY <1>2, <1>5 DEF Sound, Fresh, At, CallRecord
  <2>. QED
    BY <2>1, <2>2 DEF Fresh
<1>11. Underway'
  <2>1. \A b \in Calls : Saved(b) => Saved(b)'
    BY <1>2, <1>5, <1>6, SavedStays
  <2>. QED
    BY <1>5, <1>6, <1>7, <2>1 DEF Sound, Underway, At
<1>12. Replaced'
  <2>1. \A b \in Calls : b \in installed \/ At(b, "checked") =>
                            ~At(b, "new") /\ call[b].before < next
    BY <1>2 DEF Sound, Underway, Fresh, At, CallRecord
  <2>2. \A b \in Calls : b # c => (At(b, "checked")' <=> At(b, "checked"))
    BY <1>5 DEF At
  <2>3. ~At(c, "checked")'
    BY <1>5 DEF At
  <2>. QED
    BY <1>2, <1>5, <1>6, <1>7, <2>1, <2>2, <2>3 DEF Sound, Replaced, At, CallRecord
<1>13. Undone' /\ SuccessSurvives'
  BY <1>5, <1>6, <1>7 DEF Sound, Undone, SuccessSurvives, FileTypes
<1>14. Effects'
  BY <1>2, <1>5, <1>6, <1>7 DEF Sound, Effects, At, FileTypes
<1>. QED
  BY <1>8, <1>9, <1>10, <1>11, <1>12, <1>13, <1>14 DEF Sound

\* The stage of a call that has started, and what TypeOK says of the lock.
LEMMA Holding ==
    ASSUME Sound
    PROVE  /\ call \in [Calls -> CallRecord] /\ effect \in [Calls -> {"unset", "unknown", "none", "confirmed"}]
           /\ path \in Nat /\ next \in Nat
           /\ \A c \in Calls : lock = c <=> call[c].at \in Committing
           /\ \A b, c \in Calls :
                 call[b].at \in Committing /\ call[c].at \in Committing => b = c
           /\ NoCall \notin Calls
BY CallsAssumption DEF Sound, FileTypes, Versions, CallRecord, Committing

\* A call is refused because the version is not current: it had no effect.
LEMMA Refused ==
    ASSUME Sound, NEW c \in Calls, call[c].at \in {"started", "synced"}, Reject(c),
           lock' = (IF lock = c THEN NoCall ELSE lock),
           UNCHANGED <<path, safe, onDisk, next, installed, success, overtaken>>
    PROVE  Sound'
<1>1. Go(c, "over") /\ effect' = [effect EXCEPT ![c] = "none"]
  BY DEF Reject
<1>2. /\ call' \in [Calls -> CallRecord]
      /\ \A b \in Calls : /\ call'[b].before = call[b].before
                          /\ call'[b].after = call[b].after
                          /\ call'[b].at = IF b = c THEN "over" ELSE call[b].at
  BY <1>1, Holding, Moved DEF Stages
<1>3. ~At(c, "new") /\ c \notin installed
  BY DEF Sound, Underway, At
<1>4. Versions' /\ Fresh' /\ Hidden' /\ Replaced' /\ Undone' /\ SuccessSurvives'
  BY <1>1, <1>3, Still DEF Stages, Sound, Versions
<1>5. \A b \in Calls : lock' = b <=> call'[b].at \in Committing
  BY <1>2, Holding DEF Committing
<1>6. FileTypes'
  BY <1>1, <1>2, <1>5, Holding DEF Sound, FileTypes, CallRecord, Committing
<1>7. Underway'
  <2>1. \A b \in Calls : Saved(b) => Saved(b)'
    BY <1>2, SavedStays
  <2>. QED
    BY <1>2, <1>3, <2>1 DEF Sound, Underway, At
<1>8. Effects'
  <2>1. call[c].after \notin safe
    BY <1>3 DEF Sound, Hidden
  <2>. QED
    BY <1>1, <1>2, <2>1, Holding DEF Sound, Effects, At
<1>. QED
  BY <1>4, <1>6, <1>7, <1>8 DEF Sound

\* A step that only moves a call on inside, into or out of commitFile.
LEMMA Advanced ==
    ASSUME Sound, NEW c \in Calls, NEW s \in {"prepared", "written", "synced", "checked", "failed"},
           call[c].at \in {"started", "prepared", "written", "synced", "checked", "installed"},
           Go(c, s),
           s = "failed" <=> lock' = NoCall,
           s # "failed" => lock' = c,
           lock = c \/ lock = NoCall,
           s = "checked" => path = call[c].before,
           s # "failed" => ~At(c, "installed"),
           s \in {"synced", "checked"} => call[c].after \in onDisk',
           UNCHANGED <<path, safe, next, effect, installed, success, overtaken>>,
           onDisk \subseteq onDisk', \A v \in onDisk' : v \in Nat /\ v < next
    PROVE  Sound'
<1>1. /\ call' \in [Calls -> CallRecord]
      /\ \A b \in Calls : /\ call'[b].before = call[b].before
                          /\ call'[b].after = call[b].after
                          /\ call'[b].at = IF b = c THEN s ELSE call[b].at
  BY Holding, Moved DEF Stages
<1>2. Versions' /\ Fresh' /\ Hidden' /\ Replaced' /\ Undone' /\ SuccessSurvives'
  BY Still DEF Stages, At
<1>3. \A b \in Calls : lock' = b <=> call'[b].at \in Committing
  BY <1>1, Holding DEF Committing
<1>4. FileTypes'
  <2>1. onDisk' \subseteq Nat /\ lock' \in Calls \cup {NoCall}
    OBVIOUS
  <2>. QED
    BY <1>1, <1>3, <2>1, Holding DEF Sound, FileTypes, CallRecord, Committing
<1>5. Underway'
  <2>1. \A b \in Calls : Saved(b) => Saved(b)'
    BY <1>1, SavedStays
  <2>. QED
    BY <1>1, <2>1 DEF Sound, Underway, At
<1>6. Effects'
  BY <1>1 DEF Sound, Effects, At
<1>. QED
  BY <1>2, <1>4, <1>5, <1>6 DEF Sound

LEMMA PrepareSound == ASSUME Sound, NEW c \in Calls, Prepare(c) PROVE Sound'
<1>1. CASE path = call[c].before
  BY <1>1, Advanced, Holding DEF Prepare, At, Sound, Versions
<1>2. CASE path # call[c].before
  BY <1>2, Refused, Holding DEF Prepare, At
<1>. QED
  BY <1>1, <1>2

LEMMA FailsSound == ASSUME Sound, NEW c \in Calls, Fails(c) PROVE Sound'
BY Advanced, Holding DEF Fails, Committing, Sound, Versions

LEMMA WriteTempSound == ASSUME Sound, NEW c \in Calls, WriteTemp(c) PROVE Sound'
BY Advanced, Holding DEF WriteTemp, At, Committing, Sound, Versions

LEMMA SyncTempSound == ASSUME Sound, NEW c \in Calls, SyncTemp(c) PROVE Sound'
<1>1. call[c].after \in Nat /\ call[c].after < next
  BY Holding DEF SyncTemp, At, Sound, Fresh, CallRecord
<1>. QED
  BY <1>1, Advanced, Holding DEF SyncTemp, At, Committing, Sound, Versions

LEMMA CompareSound == ASSUME Sound, NEW c \in Calls, Compare(c) PROVE Sound'
<1>1. lock = c /\ call[c].after \in onDisk
  BY Holding DEF Compare, At, Committing, Sound, Underway
<1>2. CASE path = call[c].before
  BY <1>1, <1>2, Advanced, Holding DEF Compare, At, Sound, Versions
<1>3. CASE path # call[c].before
  BY <1>1, <1>3, Refused, Holding DEF Compare, At
<1>. QED
  BY <1>2, <1>3

LEMMA InstallSound == ASSUME Sound, NEW c \in Calls, Install(c) PROVE Sound'
<1>1. /\ lock = c /\ call[c].after \in onDisk
      /\ c \notin installed /\ ~At(c, "new")
      /\ call[c].before < call[c].after /\ call[c].after < next
      /\ call[c].before \in Nat /\ call[c].after \in Nat
  BY Holding DEF Install, At, Committing, Sound, Underway, Fresh, CallRecord
<1>2. CASE call[c].before = Missing /\ path # Missing
  BY <1>1, <1>2, Advanced, Holding DEF Install, At, Committing, Sound, Versions
<1>3. CASE ~(call[c].before = Missing /\ path # Missing)
  <2>1. /\ path' = call[c].after /\ safe' = safe \cup {call[c].after}
        /\ installed' = installed \cup {c} /\ Go(c, "installed")
        /\ UNCHANGED <<lock, onDisk, next, effect, success, overtaken>>
    BY <1>3 DEF Install
  <2>2. /\ call' \in [Calls -> CallRecord]
        /\ \A b \in Calls : /\ call'[b].before = call[b].before
                            /\ call'[b].after = call[b].after
                            /\ call'[b].at = IF b = c THEN "installed" ELSE call[b].at
    BY <2>1, Holding, Moved DEF Stages
  <2>3. \A b \in Calls : b # c => call[b].at \notin Committing
    BY <1>1, Holding
  <2>4. \A b \in Calls : At(b, "new")' <=> At(b, "new")
    BY <1>1, <2>2 DEF At
  <2>5. FileTypes'
    BY <1>1, <2>1, <2>2, <2>3, Holding DEF Sound, FileTypes, CallRecord, Committing
  <2>6. Versions' /\ Fresh'
    BY <1>1, <2>1, <2>2, <2>4 DEF Sound, Versions, Fresh
  <2>7. Underway'
    BY <1>1, <2>1, <2>2, <2>3 DEF Sound, Underway, At, Committing
  <2>8. Hidden'
    BY <1>1, <2>1, <2>2, <2>4 DEF Sound, Hidden, Fresh
  <2>9. Replaced'
    <3>1. \A b \in Calls : b \notin installed /\ ~At(b, "new") => call[b].after # call[c].before
      BY DEF Sound, Replaced, Install
    <3>2. \A b \in Calls : At(b, "checked")' => At(b, "checked")
      BY <2>2 DEF At
    <3>. QED
      BY <2>1, <2>2, <2>4, <3>1, <3>2 DEF Sound, Replaced
  <2>10. \A b \in installed : b \in Calls /\ call[b].before # call[c].after
    BY <1>1 DEF Sound, Replaced, FileTypes
  <2>11. Undone' /\ SuccessSurvives'
    BY <1>1, <2>1, <2>2, <2>10 DEF Sound, Undone, SuccessSurvives, Underway, FileTypes
  <2>12. Effects'
    <3>1. \A b \in Calls : b # c /\ effect[b] = "none" => call[b].after # call[c].after
      BY <1>1 DEF Sound, Effects, Fresh, At
    <3>2. effect[c] # "none" /\ effect[c] # "confirmed"
      BY DEF Sound, Effects, Install, At
    <3>. QED
      BY <2>1, <2>2, <3>1, <3>2 DEF Sound, Effects, At
  <2>. QED
    BY <2>5, <2>6, <2>7, <2>8, <2>9, <2>11, <2>12 DEF Sound
<1>. QED
  BY <1>2, <1>3

LEMMA SyncDirSound == ASSUME Sound, NEW c \in Calls, SyncDir(c) PROVE Sound'
<1>1. c \in installed /\ path # call[c].before /\ lock = c /\ ~At(c, "new")
  BY Holding DEF SyncDir, At, Committing, Sound, Underway
<1>2. /\ safe' = {path} /\ lock' = NoCall /\ Go(c, "over")
      /\ effect' = [effect EXCEPT ![c] = "confirmed"] /\ success' = success \cup {c}
      /\ UNCHANGED <<path, onDisk, next, installed, overtaken>>
  BY DEF SyncDir
<1>3. /\ call' \in [Calls -> CallRecord]
      /\ \A b \in Calls : /\ call'[b].before = call[b].before
                          /\ call'[b].after = call[b].after
                          /\ call'[b].at = IF b = c THEN "over" ELSE call[b].at
  BY <1>2, Holding, Moved DEF Stages
<1>4. \A b \in Calls : At(b, "new")' <=> At(b, "new")
  BY <1>1, <1>3 DEF At
<1>5. safe' \subseteq safe
  BY <1>2 DEF Sound, Versions
<1>6. FileTypes'
  BY <1>1, <1>2, <1>3, Holding DEF Sound, FileTypes, CallRecord, Committing
<1>12. \A b \in Calls : At(b, "checked")' => At(b, "checked")
  BY <1>3 DEF At
<1>7. Versions' /\ Fresh' /\ Hidden' /\ Replaced'
  BY <1>2, <1>3, <1>4, <1>5, <1>12 DEF Sound, Versions, Fresh, Hidden, Replaced
<1>8. Underway'
  <2>1. \A b \in Calls : Saved(b) => Saved(b)'
    BY <1>2, <1>3, SavedStays
  <2>. QED
    BY <1>1, <1>2, <1>3, <2>1 DEF Sound, Underway, At
<1>9. Undone'
  BY <1>2, <1>3, <1>5 DEF Sound, Undone, FileTypes
<1>10. SuccessSurvives'
  BY <1>1, <1>2, <1>3, <1>5 DEF Sound, SuccessSurvives, FileTypes
<1>11. Effects'
  BY <1>1, <1>2, <1>3, <1>5, Holding DEF Sound, Effects, At
<1>. QED
  BY <1>6, <1>7, <1>8, <1>9, <1>10, <1>11 DEF Sound

LEMMA SettleSound == ASSUME Sound, NEW c \in Calls, Settle(c) PROVE Sound'
<1>1. PICK e \in {"unknown", "confirmed", "none"} :
        /\ effect' = [effect EXCEPT ![c] = e]
        /\ e = "confirmed" => path = call[c].after
        /\ e = "none" => path = call[c].before
  <2>1. CASE ~call[c].previewed
    BY <2>1 DEF Settle
  <2>2. CASE call[c].previewed /\ path = call[c].after
    BY <2>2 DEF Settle
  <2>3. CASE call[c].previewed /\ path # call[c].after /\ path = call[c].before
    BY <2>3 DEF Settle
  <2>4. CASE call[c].previewed /\ path # call[c].after /\ path # call[c].before
    BY <2>4 DEF Settle
  <2>. QED
    BY <2>1, <2>2, <2>3, <2>4
<1>2. At(c, "failed") /\ Go(c, "over") /\ UNCHANGED <<path, safe, onDisk, next, lock, installed, success, overtaken>>
  BY DEF Settle
<1>3. /\ call' \in [Calls -> CallRecord]
      /\ \A b \in Calls : /\ call'[b].before = call[b].before
                          /\ call'[b].after = call[b].after
                          /\ call'[b].at = IF b = c THEN "over" ELSE call[b].at
  BY <1>2, Holding, Moved DEF Stages
<1>4. Versions' /\ Fresh' /\ Hidden' /\ Replaced' /\ Undone' /\ SuccessSurvives'
  BY <1>2, Still DEF Stages, At, Sound, Versions
<1>5. FileTypes'
  <2>1. \A b \in Calls : lock' = b <=> call'[b].at \in Committing
    BY <1>2, <1>3, Holding DEF At, Committing
  <2>. QED
    BY <1>1, <1>2, <1>3, <2>1, Holding DEF Sound, FileTypes, CallRecord, Committing
<1>6. Underway'
  <2>1. \A b \in Calls : Saved(b) => Saved(b)'
    BY <1>2, <1>3, SavedStays
  <2>. QED
    BY <1>2, <1>3, <2>1 DEF Sound, Underway, At
<1>7. Effects'
  <2>1. e = "confirmed" => c \in installed
    BY <1>1, <1>2 DEF Sound, Hidden, Versions, At
  <2>2. e = "none" => call[c].after \notin safe
    BY <1>1, <1>2 DEF Sound, Hidden, Undone, At
  <2>. QED
    BY <1>1, <1>2, <1>3, <2>1, <2>2, Holding DEF Sound, Effects, At
<1>. QED
  BY <1>4, <1>5, <1>6, <1>7 DEF Sound

LEMMA ForeignEditSound == ASSUME Sound, ForeignEdit PROVE Sound'
<1>1. /\ overtaken' = overtaken \cup {c \in Calls : At(c, "checked")}
      /\ path' = next /\ safe' = {next} /\ onDisk' = onDisk \cup {next} /\ next' = next + 1
      /\ UNCHANGED <<lock, call, effect, installed, success>>
  BY DEF ForeignEdit
<1>2. \A c \in Calls : call[c].before \in Nat /\ call[c].after \in Nat
  BY Holding DEF CallRecord
<1>3. \A c \in Calls : ~At(c, "new") => call[c].before < next /\ call[c].after < next
  BY <1>2, Holding DEF Sound, Fresh
<1>4. \A c \in Calls : /\ At(c, "new")' <=> At(c, "new")
                       /\ At(c, "checked")' <=> At(c, "checked")
  BY <1>1 DEF At
<1>5. FileTypes'
  BY <1>1, Holding DEF Sound, FileTypes
<1>6. Versions' /\ Fresh' /\ Hidden' /\ Replaced'
  BY <1>1, <1>2, <1>3, <1>4, Holding DEF Sound, Versions, Fresh, Hidden, Replaced
<1>8. \A c \in installed : c \in Calls /\ ~At(c, "new")
  BY DEF Sound, Underway, FileTypes, At
<1>7. Underway'
  <2>1. \A c \in Calls : At(c, "checked") => Saved(c)'
    BY <1>1, <1>3, <1>8, Holding DEF Saved
  <2>2. \A c \in Calls : At(c, "installed") => call[c].before # next
    BY <1>2, <1>3, Holding DEF At
  <2>. QED
    BY <1>1, <1>4, <2>1, <2>2 DEF Sound, Underway, At
<1>9. Undone' /\ SuccessSurvives' /\ Effects'
  BY <1>1, <1>3, <1>8, Holding DEF Sound, Undone, SuccessSurvives, Effects, Underway, FileTypes, At
<1>. QED
  BY <1>5, <1>6, <1>7, <1>9 DEF Sound

LEMMA CrashSound == ASSUME Sound, Crash PROVE Sound'
<1>1. /\ lock' = NoCall
      /\ call' = [c \in Calls |-> IF call[c].at \in {"new", "over"} THEN call[c]
                                  ELSE [call[c] EXCEPT !.at = "failed"]]
      /\ UNCHANGED <<onDisk, next, effect, installed, success, overtaken>>
  BY DEF Crash
<1>2. \/ path' = path /\ safe' = safe
      \/ path' \in safe /\ safe' = {path'}
  BY DEF Crash, Sound, Versions
<1>3. path' \in safe /\ safe' \subseteq safe /\ path' \in safe'
  BY <1>2 DEF Sound, Versions
<1>4. call' \in [Calls -> CallRecord]
  BY <1>1, Holding DEF CallRecord, Stages
<1>5. \A c \in Calls : /\ call'[c].before = call[c].before
                       /\ call'[c].after = call[c].after
                       /\ call'[c].at = IF call[c].at \in {"new", "over"} THEN call[c].at ELSE "failed"
  BY <1>1, Holding DEF CallRecord
<1>6. \A c \in Calls : (At(c, "new")' <=> At(c, "new")) /\ ~At(c, "checked")'
  BY <1>5 DEF At
<1>7. FileTypes'
  <2>1. \A c \in Calls : lock' = c <=> call'[c].at \in Committing
    BY <1>1, <1>5, Holding DEF Committing
  <2>2. path' \in Nat /\ safe' \subseteq Nat
    BY <1>3 DEF Sound, Versions
  <2>. QED
    BY <1>1, <1>4, <2>1, <2>2, Holding DEF Sound, FileTypes, CallRecord, Committing
<1>8. Versions' /\ Fresh' /\ Hidden' /\ Replaced'
  BY <1>1, <1>3, <1>5, <1>6 DEF Sound, Versions, Fresh, Hidden, Replaced
<1>9. Underway'
  BY <1>1, <1>5 DEF Sound, Underway, At
<1>10. Undone'
  <2>1. \A c \in installed : c \in Calls /\ call[c].before # call[c].after
    BY Holding DEF Sound, Underway, Fresh, FileTypes, At, CallRecord
  <2>. QED
    BY <1>1, <1>2, <1>5, <2>1 DEF Sound, Undone
<1>11. SuccessSurvives' /\ Effects'
  BY <1>1, <1>3, <1>5 DEF Sound, SuccessSurvives, Effects, FileTypes, At
<1>. QED
  BY <1>7, <1>8, <1>9, <1>10, <1>11 DEF Sound

LEMMA StepSound == ASSUME Sound, [FileNext]_fileVars PROVE Sound'
<1>1. CASE FileNext
  BY <1>1, StartSound, PrepareSound, WriteTempSound, SyncTempSound, CompareSound, InstallSound,
     SyncDirSound, FailsSound, SettleSound, ForeignEditSound, CrashSound DEF FileNext
<1>2. CASE UNCHANGED fileVars
  BY <1>2 DEF fileVars, Sound, FileTypes, Versions, Fresh, Underway, Saved, Hidden, Replaced, Undone,
     Effects, SuccessSurvives, At
<1>. QED
  BY <1>1, <1>2

\* The strengthened invariant of files.go (mutateFile, commitFile).
THEOREM SoundAlways ==
    FileSpec => []Sound
<1>1. Sound /\ [FileNext]_fileVars => Sound'
  BY StepSound
<1>. QED
  BY <1>1, InitSound, PTL DEF FileSpec

\* fileWrites is held exactly inside commitFile, and everything keeps its type.
THEOREM MutationTypeOK ==
    FileSpec => []FileTypes
<1>1. Sound => FileTypes
  BY DEF Sound
<1>. QED
  BY <1>1, SoundAlways, PTL

\* The data is synced before the rename (commitFile): no reader meets half a file.
THEOREM FileAlwaysWhole ==
    FileSpec => []FileWhole
<1>1. Sound => FileWhole
  BY TornAssumption, Holding DEF FileWhole
<1>. QED
  BY <1>1, SoundAlways, PTL

\* A write the tool reported as done survives a power loss (commitFile syncs the
\* directory before it returns).
THEOREM SuccessAlwaysSurvives ==
    FileSpec => []SuccessSurvives
<1>1. Sound => SuccessSurvives
  BY DEF Sound
<1>. QED
  BY <1>1, SoundAlways, PTL

\* What execute and reconcile record of a write's effect is true.
THEOREM EffectAlwaysTrue ==
    FileSpec => []EffectTrue
<1>1. Sound => EffectTrue
  BY DEF Sound, Effects, EffectTrue, Versions
<1>. QED
  BY <1>1, SoundAlways, PTL

\* Whatever a call replaces is the version it named, or what an outsider saved
\* behind its last comparison, and never the work of another call (mutateFile
\* under fileWrites, commitFile).
THEOREM ReplacesOnlyItsVersionAlways == FileSpec => ReplacesOnlyItsVersion
<1>1. ASSUME Sound, [FileNext]_fileVars, NEW c \in Calls, Installs(c)
      PROVE  \/ path = call[c].before
             \/ /\ c \in overtaken /\ call[c].before # Missing
                /\ \A d \in installed : path # call[d].after
  <2>1. PICK b \in Calls : Install(b)
    BY <1>1 DEF Installs, FileNext, fileVars, Start, Prepare, WriteTemp, SyncTemp, Compare, SyncDir,
       Fails, Settle, ForeignEdit, Crash
  <2>2. installed' \subseteq installed \cup {b} /\ ~(call[b].before = Missing /\ path # Missing)
    BY <1>1, <2>1 DEF Install, Installs
  <2>3. b = c /\ At(c, "checked")
    BY <1>1, <2>1, <2>2 DEF Install, Installs
  <2>. QED
    BY <1>1, <2>2, <2>3 DEF Sound, Underway, Saved
<1>2. ASSUME Sound, [FileNext]_fileVars
      PROVE  [\A c \in Calls : Installs(c) =>
                  \/ path = call[c].before
                  \/ /\ c \in overtaken /\ call[c].before # Missing
                     /\ \A d \in installed : path # call[d].after]_fileVars
  BY <1>1, <1>2
<1>. QED
  BY <1>2, SoundAlways, PTL DEF FileSpec, ReplacesOnlyItsVersion

-----------------------------------------------------------------------------
(* The stream of a run.                                                    *)

\* Events that wait to be taken, and all that are not lost.
waiting == queue \cup urgent
filed == {file[i] : i \in DOMAIN file}
held == waiting \cup batch \cup filed
nths(events) == {e.nth : e \in events}

\* Numbers count the events of the run and name each of them once.
Numbered ==
  /\ happened = sequence
  /\ \A e \in held : e.nth = e.seq /\ e.seq <= sequence
  /\ \A e, f \in waiting \cup batch : e.seq = f.seq => e = f

\* The file is before the batch, and the batch before the queues.
Ordered ==
  /\ \A i, j \in DOMAIN file : i < j => file[i].seq < file[j].seq
  /\ \A e \in filed, f \in batch : e.seq < f.seq
  /\ \A e \in filed \cup batch, f \in waiting : e.seq < f.seq

\* No sign of life is behind the return.
Quiet ==
  /\ \A e \in held : e.kind = "returned" => returned
  /\ \A e, f \in held :
       e.kind = "returned" /\ f.kind = "heartbeat" => f.seq < e.seq

\* The drain that sees Close empties the queues for good.
Closed ==
  /\ pc # "writing" => closing /\ waiting = {}
  /\ \A e \in waiting : e.kind # "closed"

\* Whatever is nowhere is counted.
Counted == Cardinality((1 .. happened) \ nths(held)) <= dropped

\* A footer knows what is missing before it.
footed(e) == Cardinality((1 .. e.nth) \ (nths(filed) \cup {e.nth})) <= e.dropped
Accounted == \A e \in batch \cup filed : e.kind = "closed" => footed(e)

\* The caller marks the attempt before it records the return.
Called == caller = "marked" => returned

\* What every step of the recorder keeps, and the inductive invariant.
Stream == /\ RecorderTypeOK /\ Numbered /\ Ordered /\ Quiet /\ Closed
          /\ Counted /\ Accounted

IInv == Stream /\ Called

-----------------------------------------------------------------------------
(* Counting.                                                               *)

\* One more event that is nowhere is at most one more that is missing.
LEMMA OneMore ==
  ASSUME NEW S, NEW T, NEW x, IsFiniteSet(S), T \subseteq S \cup {x}
  PROVE  IsFiniteSet(T) /\ Cardinality(T) <= Cardinality(S) + 1
<1>1. /\ IsFiniteSet(S \cup {x})
      /\ Cardinality(S \cup {x}) <= Cardinality(S) + 1
  <2>1. /\ IsFiniteSet(S \cup {x})
        /\ Cardinality(S \cup {x})
             = IF x \in S THEN Cardinality(S) ELSE Cardinality(S) + 1
    BY FS_AddElement
  <2>2. Cardinality(S) \in Nat
    BY FS_CardinalityType
  <2> QED
    BY <2>1, <2>2
<1>2. IsFiniteSet(T) /\ Cardinality(T) <= Cardinality(S \cup {x})
  BY <1>1, FS_Subset
<1>3. Cardinality(T) \in Nat /\ Cardinality(S) \in Nat /\ Cardinality(S \cup {x}) \in Nat
  BY <1>1, <1>2, FS_CardinalityType
<1> QED
  BY <1>1, <1>2, <1>3

\* What is missing of the first n events is finite, and less of more.
LEMMA Fewer ==
  ASSUME NEW n \in Nat, NEW S, NEW T, S \subseteq T
  PROVE  /\ IsFiniteSet((1 .. n) \ S)
         /\ Cardinality((1 .. n) \ S) \in Nat
         /\ Cardinality((1 .. n) \ T) \in Nat
         /\ Cardinality((1 .. n) \ T) <= Cardinality((1 .. n) \ S)
<1>1. IsFiniteSet(1 .. n)
  BY FS_Interval
<1>2. IsFiniteSet((1 .. n) \ S)
  <2>1. (1 .. n) \ S \subseteq 1 .. n
    OBVIOUS
  <2> QED
    BY <1>1, <2>1, FS_Subset
<1>3. (1 .. n) \ T \subseteq (1 .. n) \ S
  OBVIOUS
<1>4. IsFiniteSet((1 .. n) \ T) /\ Cardinality((1 .. n) \ T) <= Cardinality((1 .. n) \ S)
  BY <1>2, <1>3, FS_Subset
<1> QED
  BY <1>2, <1>4, FS_CardinalityType

-----------------------------------------------------------------------------
(* Offering.                                                               *)

\* The records of the pool are events, and so are the lines.
LEMMA HeldEvents ==
  ASSUME RecorderTypeOK
  PROVE  /\ waiting \subseteq Event /\ batch \subseteq Event
         /\ filed \subseteq Event /\ held \subseteq Event
         /\ \A e \in held : e.seq \in Nat /\ e.nth \in Nat /\ e.dropped \in Nat /\ e.kind \in Kind
<1>1. filed \subseteq Event
  BY DEF RecorderTypeOK, filed
<1> QED
  BY <1>1 DEF RecorderTypeOK, held, waiting, Event

\* A new event is the last of all.
LEMMA EmitKeeps ==
  ASSUME Stream, NEW k \in Kind \ {"closed"}, NEW fits \in BOOLEAN, emit(k, fits),
         k = "returned" => returned,
         UNCHANGED <<writerVars, faults>>, caller' \in Phase, ordinary' \in Nat
  PROVE  Stream'
<1> USE DEF emit
<1> DEFINE e == event(k, 0)
<1>1. /\ e \in Event /\ e.seq = sequence + 1 /\ e.nth = happened + 1
      /\ e.kind = k /\ e.dropped = 0
  BY DEF event, Event, Stream, RecorderTypeOK
<1>2. /\ sequence' = sequence + 1 /\ happened' = happened + 1
      /\ sequence \in Nat /\ happened \in Nat /\ dropped \in Nat
      /\ UNCHANGED <<returned, closing, pc, batch, file>>
  BY DEF Stream, RecorderTypeOK, writerVars
<1>3. \/ waiting' = waiting \cup {e} /\ dropped' = dropped
      \/ waiting' = waiting /\ dropped' = dropped + 1
  BY DEF waiting, queued, rushes
<1>4. filed' = filed /\ batch' = batch
  BY <1>2 DEF filed
<1>5. held' = held \cup {e} \/ held' = held
  BY <1>3, <1>4 DEF held
<1>6. ~closing /\ pc = "writing"
  BY DEF refuses, Stream, Closed
<1>7. /\ waiting \subseteq Event /\ batch \subseteq Event /\ filed \subseteq Event
      /\ held \subseteq Event
      /\ \A f \in held : f.seq \in Nat /\ f.nth \in Nat
  BY HeldEvents DEF Stream
<1>8. RecorderTypeOK'
  BY <1>1, <1>2 DEF Stream, RecorderTypeOK, writerVars, queued, rushes
<1>9. Numbered'
  <2>1. (happened = sequence)'
    BY <1>2 DEF Stream, Numbered
  <2>2. \A f \in held' : f.nth = f.seq /\ f.seq <= sequence'
    BY <1>1, <1>2, <1>5, <1>7 DEF Stream, Numbered
  <2>3. \A f, g \in waiting' \cup batch' : f.seq = g.seq => f = g
    <3>1. \A f \in waiting \cup batch : f.seq <= sequence /\ f.seq \in Nat
      BY <1>7 DEF Stream, Numbered, held
    <3> QED
      BY <3>1, <1>1, <1>2, <1>3, <1>4 DEF Stream, Numbered
  <2> QED
    BY <2>1, <2>2, <2>3 DEF Numbered
<1>10. Ordered'
  <2>1. \A f \in filed \cup batch : f.seq < e.seq
    BY <1>1, <1>2, <1>7 DEF Stream, Numbered, held
  <2>2. \A f \in filed' \cup batch', g \in waiting' : f.seq < g.seq
    BY <2>1, <1>3, <1>4 DEF Stream, Ordered
  <2>3. \A f \in filed', g \in batch' : f.seq < g.seq
    BY <1>4 DEF Stream, Ordered
  <2>4. (\A i, j \in DOMAIN file : i < j => file[i].seq < file[j].seq)'
    BY <1>2 DEF Stream, Ordered
  <2> QED
    BY <2>2, <2>3, <2>4 DEF Ordered
<1>11. Quiet'
  <2>1. \A f \in held' : f.kind = "returned" => returned'
    BY <1>1, <1>2, <1>5 DEF Stream, Quiet
  <2>2. \A f, g \in held' :
          f.kind = "returned" /\ g.kind = "heartbeat" => g.seq < f.seq
    <3> SUFFICES ASSUME NEW f \in held', NEW g \in held',
                        f.kind = "returned", g.kind = "heartbeat"
                 PROVE  g.seq < f.seq
      OBVIOUS
    <3>1. returned
      BY <1>1, <1>5 DEF Stream, Quiet
    <3>2. g \in held
      BY <3>1, <1>1, <1>5 DEF refuses
    <3>3. CASE f \in held
      BY <3>2, <3>3 DEF Stream, Quiet
    <3>4. CASE f = e
      BY <3>2, <3>4, <1>1, <1>2, <1>7 DEF Stream, Numbered
    <3> QED
      BY <3>3, <3>4, <1>5
  <2> QED
    BY <2>1, <2>2 DEF Quiet
<1>12. Closed'
  BY <1>1, <1>2, <1>3, <1>6 DEF Stream, Closed
<1>13. Counted'
  <2> DEFINE gone == (1 .. happened) \ nths(held)
  <2>1. IsFiniteSet(gone) /\ Cardinality(gone) \in Nat /\ Cardinality(gone) <= dropped
    BY <1>2, Fewer DEF Stream, Counted
  <2>2. CASE held' = held \cup {e} /\ dropped' = dropped
    <3>1. (1 .. happened') \ nths(held') \subseteq gone
      BY <2>2, <1>1, <1>2 DEF nths
    <3>2. /\ Cardinality((1 .. happened') \ nths(held')) <= Cardinality(gone)
          /\ IsFiniteSet((1 .. happened') \ nths(held'))
      BY <2>1, <3>1, FS_Subset
    <3>3. Cardinality((1 .. happened') \ nths(held')) \in Nat
      BY <3>2, FS_CardinalityType
    <3> QED
      BY <2>1, <2>2, <3>2, <3>3, <1>2 DEF Counted, nths
  <2>3. CASE held' = held /\ dropped' = dropped + 1
    <3>1. (1 .. happened') \ nths(held') \subseteq gone \cup {happened + 1}
      BY <2>3, <1>2 DEF nths
    <3>2. /\ Cardinality((1 .. happened') \ nths(held')) <= Cardinality(gone) + 1
          /\ IsFiniteSet((1 .. happened') \ nths(held'))
      BY <2>1, <3>1, OneMore
    <3>3. Cardinality((1 .. happened') \ nths(held')) \in Nat
      BY <3>2, FS_CardinalityType
    <3> QED
      BY <2>1, <2>3, <3>2, <3>3, <1>2 DEF Counted, nths
  <2> QED
    BY <2>2, <2>3, <1>3, <1>4 DEF held
<1>14. Accounted'
  BY <1>4 DEF Stream, Accounted, footed, nths
<1> QED
  BY <1>8, <1>9, <1>10, <1>11, <1>12, <1>13, <1>14 DEF Stream

\* Steps that move no event: marks of the caller, and the writer's file.
LEMMA NothingMoves ==
  ASSUME Stream, RecorderTypeOK',
         UNCHANGED <<sequence, happened, dropped, queue, urgent, batch, file>>,
         returned => returned', closing => closing',
         pc' # "writing" => pc # "writing"
  PROVE  Stream'
<1>1. /\ waiting' = waiting /\ batch' = batch /\ filed' = filed /\ held' = held
      /\ nths(held)' = nths(held) /\ nths(filed)' = nths(filed)
  BY DEF waiting, filed, held, nths
<1>2. Numbered'
  BY <1>1 DEF Stream, Numbered
<1>3. Ordered'
  BY <1>1 DEF Stream, Ordered
<1>4. Quiet'
  BY <1>1 DEF Stream, Quiet
<1>5. Closed'
  BY <1>1 DEF Stream, Closed
<1>6. Counted'
  BY <1>1 DEF Stream, Counted
<1>7. Accounted'
  BY <1>1 DEF Stream, Accounted, footed
<1> QED
  BY <1>2, <1>3, <1>4, <1>5, <1>6, <1>7 DEF Stream

-----------------------------------------------------------------------------
(* Draining and writing.                                                   *)

\* The queues become the batch, and a gap record behind them the last of it.
LEMMA DrainKeeps ==
  ASSUME Stream, NEW more \in {0, 1}, drain(more), batch = {}, pc = "writing",
         UNCHANGED <<caller, ordinary>>, faults' \in Nat
  PROVE  Stream'
<1> USE DEF drain
<1> DEFINE e == event("gap", dropped + more)
<1>1. /\ e \in Event /\ e.seq = sequence + 1 /\ e.nth = happened + 1
      /\ e.kind = "gap"
  BY DEF event, Event, Stream, RecorderTypeOK, Kind, terminal
<1>2. /\ sequence \in Nat /\ happened \in Nat /\ dropped \in Nat
      /\ happened = sequence
      /\ dropped' = dropped + more /\ waiting' = {} /\ filed' = filed
      /\ UNCHANGED <<returned, closing, file>>
  BY DEF Stream, RecorderTypeOK, Numbered, waiting, filed
<1>3. \/ /\ batch' = waiting \cup {e}
         /\ sequence' = sequence + 1 /\ happened' = happened + 1
      \/ /\ batch' = waiting
         /\ sequence' = sequence /\ happened' = happened
  BY DEF waiting
<1>4. held' = held \cup {e} \/ held' = held
  BY <1>2, <1>3 DEF held
<1>5. /\ waiting \subseteq Event /\ filed \subseteq Event /\ held \subseteq Event
      /\ \A f \in held : f.seq \in Nat /\ f.nth \in Nat
  BY HeldEvents DEF Stream
<1>6. \A f \in held : f.nth = f.seq /\ f.seq <= sequence
  BY DEF Stream, Numbered
<1>7. RecorderTypeOK'
  <2>1. batch' \subseteq Event
    BY <1>1, <1>3, <1>5
  <2> QED
    BY <1>2, <2>1 DEF Stream, RecorderTypeOK, Stage
<1>8. Numbered'
  <2>1. (happened = sequence)'
    BY <1>2, <1>3
  <2>2. \A f \in held' : f.nth = f.seq /\ f.seq <= sequence'
    BY <1>1, <1>2, <1>3, <1>5, <1>6 DEF held
  <2>3. \A f, g \in waiting' \cup batch' : f.seq = g.seq => f = g
    <3>1. \A f \in waiting : f.seq < e.seq
      BY <1>1, <1>2, <1>5, <1>6 DEF held
    <3>2. \A f, g \in waiting : f.seq = g.seq => f = g
      BY DEF Stream, Numbered
    <3> QED
      BY <1>1, <1>2, <1>3, <1>5, <3>1, <3>2 DEF held
  <2> QED
    BY <2>1, <2>2, <2>3 DEF Numbered
<1>9. Ordered'
  <2>1. \A f \in filed : f.seq < e.seq
    BY <1>1, <1>2, <1>5, <1>6 DEF held
  <2>2. \A f \in filed', g \in batch' : f.seq < g.seq
    BY <2>1, <1>2, <1>3 DEF Stream, Ordered
  <2>3. (\A i, j \in DOMAIN file : i < j => file[i].seq < file[j].seq)'
    BY <1>2 DEF Stream, Ordered
  <2> QED
    BY <1>2, <2>2, <2>3 DEF Ordered
<1>10. Quiet'
  BY <1>1, <1>2, <1>4 DEF Stream, Quiet
<1>11. Closed'
  BY <1>2 DEF Closed
<1>12. Counted'
  <2> DEFINE gone == (1 .. happened) \ nths(held)
  <2>1. IsFiniteSet(gone) /\ Cardinality(gone) \in Nat /\ Cardinality(gone) <= dropped
    BY <1>2, Fewer DEF Stream, Counted
  <2>2. (1 .. happened') \ nths(held') \subseteq gone
    <3>1. CASE happened' = happened /\ held' = held
      BY <3>1
    <3>2. CASE happened' = happened + 1 /\ held' = held \cup {e}
      BY <3>2, <1>1, <1>2 DEF nths
    <3> QED
      BY <3>1, <3>2, <1>2, <1>3 DEF held
  <2>3. /\ Cardinality((1 .. happened') \ nths(held')) <= Cardinality(gone)
        /\ IsFiniteSet((1 .. happened') \ nths(held'))
    BY <2>1, <2>2, FS_Subset
  <2>4. Cardinality((1 .. happened') \ nths(held')) \in Nat
    BY <2>3, FS_CardinalityType
  <2> QED
    BY <2>1, <2>3, <2>4, <1>2 DEF Counted, nths
<1>13. Accounted'
  <2>1. \A f \in batch' : f.kind # "closed"
    BY <1>1, <1>3 DEF Stream, Closed
  <2>2. nths(filed)' = nths(filed)
    BY <1>2 DEF nths
  <2> QED
    BY <2>1, <2>2, <1>2 DEF Stream, Accounted, footed
<1> QED
  BY <1>7, <1>8, <1>9, <1>10, <1>11, <1>12, <1>13 DEF Stream

\* The writer gives an event up and counts it.
LEMMA LoseKeeps ==
  ASSUME Stream, NEW e \in batch, lost, batch' = batch \ {e},
         UNCHANGED <<pc, file>>, RecorderTypeOK'
  PROVE  Stream'
<1>1. /\ UNCHANGED <<sequence, happened, returned, closing>>
      /\ waiting' = waiting /\ filed' = filed
      /\ dropped' = dropped + 1 /\ dropped \in Nat /\ happened \in Nat
  BY DEF lost, waiting, filed, Stream, RecorderTypeOK
<1>2. batch' \subseteq batch /\ held' \subseteq held /\ held \subseteq held' \cup {e}
  BY <1>1 DEF held
<1>3. Numbered'
  BY <1>1, <1>2 DEF Stream, Numbered
<1>4. Ordered'
  BY <1>1, <1>2 DEF Stream, Ordered
<1>5. Quiet'
  BY <1>1, <1>2 DEF Stream, Quiet
<1>6. Closed'
  BY <1>1 DEF Stream, Closed
<1>7. Counted'
  <2> DEFINE gone == (1 .. happened) \ nths(held)
  <2>1. IsFiniteSet(gone) /\ Cardinality(gone) \in Nat /\ Cardinality(gone) <= dropped
    BY <1>1, Fewer DEF Stream, Counted
  <2>2. (1 .. happened) \ nths(held') \subseteq gone \cup {e.nth}
    BY <1>2 DEF nths
  <2>3. /\ Cardinality((1 .. happened) \ nths(held')) <= Cardinality(gone) + 1
        /\ IsFiniteSet((1 .. happened) \ nths(held'))
    BY <2>1, <2>2, OneMore
  <2>4. Cardinality((1 .. happened) \ nths(held')) \in Nat
    BY <2>3, FS_CardinalityType
  <2> QED
    BY <2>1, <2>3, <2>4, <1>1 DEF Counted, nths
<1>8. Accounted'
  <2>1. nths(filed)' = nths(filed)
    BY <1>1 DEF nths
  <2> QED
    BY <2>1, <1>1, <1>2 DEF Stream, Accounted, footed
<1> QED
  BY <1>3, <1>4, <1>5, <1>6, <1>7, <1>8 DEF Stream

\* The first event of the batch becomes the last line.
LEMMA WriteKeeps ==
  ASSUME Stream, NEW e \in batch, at(e), file' = Append(file, e), batch' = batch \ {e},
         UNCHANGED <<attemptVars, pc>>, RecorderTypeOK'
  PROVE  Stream'
<1>1. /\ UNCHANGED <<sequence, happened, dropped, returned, closing, queue, urgent>>
      /\ waiting' = waiting
      /\ happened \in Nat /\ file \in Seq(Event) /\ e \in Event
  BY DEF attemptVars, waiting, Stream, RecorderTypeOK
<1>2. /\ DOMAIN file' = 1 .. Len(file) + 1 /\ DOMAIN file = 1 .. Len(file)
      /\ Len(file) \in Nat
      /\ file'[Len(file) + 1] = e
      /\ \A i \in DOMAIN file : file'[i] = file[i]
  BY <1>1
<1>3. filed' = filed \cup {e}
  BY <1>2 DEF filed
<1>4. held' = held
  BY <1>1, <1>3 DEF held
<1>5. /\ batch \subseteq Event /\ filed \subseteq Event /\ waiting \subseteq Event
      /\ \A f \in held : f.seq \in Nat
  BY HeldEvents DEF Stream
<1>6. \A f \in batch \ {e} : e.seq < f.seq
  BY <1>5 DEF Stream, Numbered, at, held
<1>7. Numbered'
  BY <1>1, <1>4 DEF Stream, Numbered
<1>8. Ordered'
  <2>1. \A i, j \in DOMAIN file' : i < j => file'[i].seq < file'[j].seq
    <3> SUFFICES ASSUME NEW i \in DOMAIN file', NEW j \in DOMAIN file', i < j
                 PROVE  file'[i].seq < file'[j].seq
      OBVIOUS
    <3>1. i \in DOMAIN file /\ file'[i] = file[i] /\ file[i] \in filed
      BY <1>2 DEF filed
    <3>2. CASE j \in DOMAIN file
      BY <3>1, <3>2, <1>2 DEF Stream, Ordered
    <3>3. CASE j = Len(file) + 1
      BY <3>1, <3>3, <1>2 DEF Stream, Ordered
    <3> QED
      BY <3>2, <3>3, <1>2
  <2>2. \A f \in filed', g \in batch' : f.seq < g.seq
    BY <1>3, <1>6 DEF Stream, Ordered
  <2>3. \A f \in filed' \cup batch', g \in waiting' : f.seq < g.seq
    BY <1>1, <1>3 DEF Stream, Ordered
  <2> QED
    BY <2>1, <2>2, <2>3 DEF Ordered
<1>9. Quiet'
  BY <1>1, <1>4 DEF Stream, Quiet
<1>10. Closed'
  BY <1>1 DEF Stream, Closed
<1>11. Counted'
  BY <1>1, <1>4 DEF Stream, Counted, nths
<1>12. Accounted'
  <2> SUFFICES ASSUME NEW f \in batch' \cup filed', f.kind = "closed"
               PROVE  footed(f)'
    BY DEF Accounted
  <2>1. f \in batch \cup filed /\ f.nth \in Nat /\ f.dropped \in Nat
    BY <1>3, <1>5 DEF Event
  <2>2. footed(f)
    BY <2>1 DEF Stream, Accounted
  <2>3. nths(filed) \cup {f.nth} \subseteq nths(filed') \cup {f.nth}
    BY <1>3 DEF nths
  <2>4. /\ Cardinality((1 .. f.nth) \ (nths(filed) \cup {f.nth})) \in Nat
        /\ Cardinality((1 .. f.nth) \ (nths(filed') \cup {f.nth})) \in Nat
        /\ Cardinality((1 .. f.nth) \ (nths(filed') \cup {f.nth}))
             <= Cardinality((1 .. f.nth) \ (nths(filed) \cup {f.nth}))
    BY <2>1, <2>3, Fewer
  <2> QED
    BY <2>1, <2>2, <2>4 DEF footed, nths
<1> QED
  BY <1>7, <1>8, <1>9, <1>10, <1>11, <1>12 DEF Stream

\* The footer, and the correction behind it, are all the writer still has.
LEMMA FooterKeeps ==
  ASSUME Stream, NEW kind \in {"closed", "gap"}, NEW more \in {0, 1},
         footer(kind, more), batch = {}, pc # "writing",
         pc' \in {"footer", "correction"}, UNCHANGED file, RecorderTypeOK'
  PROVE  Stream'
<1> USE DEF footer
<1> DEFINE e == event(kind, dropped + more)
<1>1. /\ e.seq = sequence + 1 /\ e.nth = happened + 1 /\ e.kind = kind
      /\ e.dropped = dropped + more
  BY DEF event
<1>2. /\ sequence \in Nat /\ happened \in Nat /\ dropped \in Nat
      /\ happened = sequence
      /\ sequence' = sequence + 1 /\ happened' = happened + 1
      /\ dropped' = dropped + more /\ batch' = {e}
      /\ waiting = {} /\ waiting' = {} /\ filed' = filed
      /\ closing /\ UNCHANGED <<returned, closing>>
  BY DEF Stream, RecorderTypeOK, Numbered, Closed, waiting, filed
<1>3. held = filed /\ held' = held \cup {e}
  BY <1>2 DEF held
<1>4. \A f \in held : f.seq \in Nat /\ f.nth \in Nat /\ f.nth = f.seq /\ f.seq <= sequence
  BY HeldEvents DEF Stream, Numbered
<1>5. Numbered'
  BY <1>1, <1>2, <1>3, <1>4 DEF Numbered
<1>6. Ordered'
  BY <1>1, <1>2, <1>3, <1>4 DEF Stream, Ordered
<1>7. Quiet'
  BY <1>1, <1>2, <1>3 DEF Stream, Quiet
<1>8. Closed'
  BY <1>2 DEF Closed
<1> DEFINE gone == (1 .. happened) \ nths(held)
<1>9. IsFiniteSet(gone) /\ Cardinality(gone) \in Nat /\ Cardinality(gone) <= dropped
  BY <1>2, Fewer DEF Stream, Counted
<1>10. (1 .. happened') \ nths(held') \subseteq gone
  BY <1>1, <1>2, <1>3 DEF nths
<1>11. Counted'
  <2>1. /\ Cardinality((1 .. happened') \ nths(held')) <= Cardinality(gone)
        /\ IsFiniteSet((1 .. happened') \ nths(held'))
    BY <1>9, <1>10, FS_Subset
  <2>2. Cardinality((1 .. happened') \ nths(held')) \in Nat
    BY <2>1, FS_CardinalityType
  <2> QED
    BY <1>2, <1>9, <2>1, <2>2 DEF Counted, nths
<1>12. Accounted'
  <2>1. nths(filed)' = nths(filed)
    BY <1>2 DEF nths
  <2>2. (1 .. e.nth) \ (nths(filed) \cup {e.nth}) \subseteq gone
    BY <1>1, <1>2, <1>3 DEF nths
  <2>3. /\ Cardinality((1 .. e.nth) \ (nths(filed) \cup {e.nth})) <= Cardinality(gone)
        /\ IsFiniteSet((1 .. e.nth) \ (nths(filed) \cup {e.nth}))
    BY <1>9, <2>2, FS_Subset
  <2>4. Cardinality((1 .. e.nth) \ (nths(filed) \cup {e.nth})) \in Nat
    BY <2>3, FS_CardinalityType
  <2>5. Cardinality((1 .. e.nth) \ (nths(filed) \cup {e.nth})) <= e.dropped
    BY <1>1, <1>2, <1>9, <2>3, <2>4
  <2>6. \A f \in batch' \cup filed' : f.kind = "closed" =>
          Cardinality((1 .. f.nth) \ (nths(filed) \cup {f.nth})) <= f.dropped
    BY <2>5, <1>2 DEF Stream, Accounted, footed
  <2> QED
    BY <2>1, <2>6 DEF Accounted, footed
<1> QED
  BY <1>5, <1>6, <1>7, <1>8, <1>11, <1>12 DEF Stream

-----------------------------------------------------------------------------
(* The specification.                                                      *)

LEMMA Initially == Init => Stream
<1> SUFFICES ASSUME RecorderInit PROVE Stream
  BY DEF Init
<1> DEFINE e == [seq |-> 1, nth |-> 1, kind |-> "started", dropped |-> 0]
<1> USE DEF RecorderInit
<1>1. /\ waiting = {e} /\ filed = {} /\ batch = {} /\ held = {e}
      /\ e \in Event
  BY DEF waiting, filed, held, Event, Kind
<1>2. RecorderTypeOK
  <2>1. queue \subseteq Event /\ urgent \subseteq Event /\ batch \subseteq Event
    BY <1>1 DEF waiting
  <2>2. file \in Seq(Event)
    OBVIOUS
  <2> QED
    BY <2>1, <2>2 DEF RecorderTypeOK, Phase, Stage
<1>3. Numbered /\ Ordered /\ Quiet /\ Closed
  BY <1>1 DEF Numbered, Ordered, Quiet, Closed
<1>4. Counted
  <2>1. (1 .. happened) \ nths(held) = {}
    BY <1>1 DEF nths
  <2>2. Cardinality((1 .. happened) \ nths(held)) = 0
    BY <2>1, FS_EmptySet
  <2> QED
    BY <2>2 DEF Counted
<1>5. Accounted
  BY <1>1 DEF Accounted
<1> QED
  BY <1>2, <1>3, <1>4, <1>5 DEF Stream

\* The caller's side.
LEMMA OfferKeeps == IInv /\ Offer => Stream'
<1> SUFFICES ASSUME Stream, Called, Offer PROVE Stream'
  BY DEF IInv
<1> USE DEF Offer
<1>1. /\ UNCHANGED <<writerVars, faults>>
      /\ caller \in Phase /\ ordinary \in Nat
  BY DEF Stream, RecorderTypeOK
<1>2. ASSUME NEW fits \in BOOLEAN, Work(fits) PROVE Stream'
  BY <1>1, <1>2, EmitKeeps DEF Work, one, Kind, terminal
<1>3. CASE Heartbeat
  <2>1. emit("heartbeat", TRUE)
    BY <1>3 DEF Heartbeat
  <2>2. caller' \in Phase /\ ordinary' \in Nat
    BY <1>1, <1>3 DEF Heartbeat, one
  <2>3. TRUE \in BOOLEAN /\ "heartbeat" \in Kind \ {"closed"} /\ "heartbeat" # "returned"
    BY DEF Kind, terminal
  <2> QED
    BY <2>1, <2>2, <2>3, <1>1, EmitKeeps
<1>4. CASE Finalize /\ UNCHANGED ordinary
  BY <1>1, <1>4, EmitKeeps DEF Finalize, Phase, Kind, terminal
<1>5. CASE Mark /\ UNCHANGED ordinary
  <2>1. RecorderTypeOK'
    BY <1>1, <1>5 DEF Mark, Stream, RecorderTypeOK, Phase, writerVars
  <2> QED
    BY <2>1, <1>1, <1>5, NothingMoves DEF Mark, writerVars
<1>6. CASE Returned /\ UNCHANGED ordinary
  <2>1. returned
    BY <1>6 DEF Returned, Called
  <2> QED
    BY <2>1, <1>1, <1>6, EmitKeeps DEF Returned, Phase, Kind, terminal
<1>7. CASE Deliver /\ UNCHANGED ordinary
  BY <1>1, <1>7, EmitKeeps DEF Deliver, Phase, Kind, terminal
<1>8. CASE Close /\ UNCHANGED ordinary
  <2>1. RecorderTypeOK'
    BY <1>1, <1>8 DEF Close, Stream, RecorderTypeOK, Phase, writerVars
  <2> QED
    BY <2>1, <1>1, <1>8, NothingMoves DEF Close, writerVars
<1> QED
  BY <1>2, <1>3, <1>4, <1>5, <1>6, <1>7, <1>8

\* The writer's side.
LEMMA RunKeeps == Stream /\ run => Stream'
<1> SUFFICES ASSUME Stream, run PROVE Stream'
  OBVIOUS
<1>1. UNCHANGED <<caller, ordinary>>
  BY DEF run
<1>2. CASE Drain
  <2>1. faults' \in Nat
    BY <1>2 DEF Drain, fail, Stream, RecorderTypeOK
  <2> QED
    BY <2>1, <1>1, <1>2, DrainKeeps DEF Drain
<1>3. CASE Footer
  <2>1. event("closed", dropped + 0) \in Event
    BY DEF event, Event, Kind, terminal, Stream, RecorderTypeOK
  <2>2. RecorderTypeOK'
    BY <2>1, <1>1, <1>3 DEF Footer, footer, Stream, RecorderTypeOK, Stage
  <2> QED
    BY <2>2, <1>3, FooterKeeps DEF Footer
<1>4. CASE FinalSync
  <2>1. CASE pc' = "done" /\ UNCHANGED <<attemptVars, batch, faults>>
    <3>1. RecorderTypeOK'
      BY <2>1, <1>1, <1>4 DEF FinalSync, attemptVars, Stream, RecorderTypeOK, Stage
    <3> QED
      BY <3>1, <2>1, <1>4, NothingMoves DEF FinalSync, attemptVars
  <2>2. CASE fail /\ pc' = "correction" /\ footer("gap", 1)
    <3>1. event("gap", dropped + 1) \in Event
      BY DEF event, Event, Kind, terminal, Stream, RecorderTypeOK
    <3>2. RecorderTypeOK'
      BY <3>1, <2>2, <1>1, <1>4
         DEF FinalSync, fail, footer, Stream, RecorderTypeOK, Stage
    <3> QED
      BY <3>2, <2>2, <1>4, FooterKeeps DEF FinalSync
  <2> QED
    BY <2>1, <2>2, <1>4 DEF FinalSync
<1>5. CASE Corrected
  <2>1. RecorderTypeOK'
    BY <1>1, <1>5 DEF Corrected, attemptVars, Stream, RecorderTypeOK, Stage
  <2> QED
    BY <2>1, <1>5, NothingMoves DEF Corrected, attemptVars
<1>6. ASSUME NEW e \in batch, Refuse(e) PROVE Stream'
  <2>1. RecorderTypeOK'
    BY <1>1, <1>6 DEF Refuse, lost, Stream, RecorderTypeOK
  <2> QED
    BY <2>1, <1>6, LoseKeeps DEF Refuse
<1>7. ASSUME NEW e \in batch, MakeDir(e) PROVE Stream'
  <2>1. CASE writer' = "opening" /\ dir' = TRUE /\ UNCHANGED <<attemptVars, batch, faults>>
    <3>1. RecorderTypeOK'
      BY <2>1, <1>1, <1>7 DEF MakeDir, attemptVars, Stream, RecorderTypeOK
    <3> QED
      BY <3>1, <2>1, <1>7, NothingMoves DEF MakeDir, attemptVars
  <2>2. CASE fail /\ lost /\ batch' = batch \ {e} /\ UNCHANGED <<writer, dir>>
    <3>1. RecorderTypeOK'
      BY <2>2, <1>1, <1>7 DEF MakeDir, fail, lost, Stream, RecorderTypeOK
    <3> QED
      BY <3>1, <2>2, <1>7, LoseKeeps DEF MakeDir
  <2> QED
    BY <2>1, <2>2, <1>7 DEF MakeDir
<1>8. ASSUME NEW e \in batch, OpenFile(e) PROVE Stream'
  <2>1. CASE writer' = "open" /\ UNCHANGED <<attemptVars, batch, faults>>
    <3>1. RecorderTypeOK'
      BY <2>1, <1>1, <1>8 DEF OpenFile, attemptVars, Stream, RecorderTypeOK
    <3> QED
      BY <3>1, <2>1, <1>8, NothingMoves DEF OpenFile, attemptVars
  <2>2. CASE fail /\ lost /\ batch' = batch \ {e} /\ writer' = "none"
    <3>1. RecorderTypeOK'
      BY <2>2, <1>1, <1>8 DEF OpenFile, fail, lost, Stream, RecorderTypeOK
    <3> QED
      BY <3>1, <2>2, <1>8, LoseKeeps DEF OpenFile
  <2> QED
    BY <2>1, <2>2, <1>8 DEF OpenFile
<1>9. ASSUME NEW e \in batch, Write(e) PROVE Stream'
  <2>1. CASE file' = Append(file, e) /\ UNCHANGED <<attemptVars, writer, torn, cuts, faults>>
    <3>1. file' \in Seq(Event)
      BY <2>1 DEF Stream, RecorderTypeOK
    <3>2. RecorderTypeOK'
      BY <3>1, <2>1, <1>1, <1>9 DEF Write, attemptVars, Stream, RecorderTypeOK
    <3> QED
      BY <3>2, <2>1, <1>9, WriteKeeps DEF Write
  <2>2. CASE fail /\ lost /\ UNCHANGED file
    <3>1. /\ cuts' \in Nat /\ torn' \in BOOLEAN
          /\ writer' \in {"none", "opening", "open", "broken"}
      <4>1. /\ cuts \in Nat /\ torn \in BOOLEAN
            /\ writer \in {"none", "opening", "open", "broken"}
        BY DEF Stream, RecorderTypeOK
      <4>2. \/ cuts' = cuts + 1 /\ UNCHANGED <<writer, torn>>
            \/ writer' = "broken" /\ torn' = TRUE /\ UNCHANGED cuts
            \/ UNCHANGED <<writer, torn, cuts>>
        BY <1>9 DEF Write
      <4>3. CASE cuts' = cuts + 1 /\ UNCHANGED <<writer, torn>>
        BY <4>1, <4>3
      <4>4. CASE writer' = "broken" /\ torn' = TRUE /\ UNCHANGED cuts
        <5>1. TRUE \in BOOLEAN
          OBVIOUS
        <5> QED
          BY <4>1, <4>4, <5>1
      <4>5. CASE UNCHANGED <<writer, torn, cuts>>
        BY <4>1, <4>5
      <4> QED
        BY <4>2, <4>3, <4>4, <4>5
    <3>2. RecorderTypeOK'
      BY <3>1, <2>2, <1>1, <1>9 DEF Write, fail, lost, Stream, RecorderTypeOK
    <3> QED
      BY <3>2, <2>2, <1>9, LoseKeeps DEF Write
  <2> QED
    BY <2>1, <2>2, <1>9 DEF Write
<1> QED
  BY <1>2, <1>3, <1>4, <1>5, <1>6, <1>7, <1>8, <1>9 DEF run

LEMMA StutterKeeps == Stream /\ UNCHANGED recorderVars => Stream'
<1> SUFFICES ASSUME Stream, UNCHANGED recorderVars PROVE Stream'
  OBVIOUS
<1>1. RecorderTypeOK'
  BY DEF recorderVars, attemptVars, writerVars, Stream, RecorderTypeOK
<1> QED
  BY <1>1, NothingMoves DEF recorderVars, attemptVars, writerVars

\* The caller marks the attempt and never takes it back.
LEMMA CalledKeeps == IInv /\ [Next]_vars => Called'
<1> SUFFICES ASSUME Called, [Next]_vars PROVE Called'
  BY DEF IInv
<1>1. CASE Offer
  BY <1>1 DEF Offer, Called, Work, Heartbeat, Finalize, Mark, Returned, Deliver, Close, emit
<1>2. CASE run
  BY <1>2 DEF run, Called, Drain, drain, Footer, FinalSync, footer, Corrected,
              Refuse, MakeDir, OpenFile, Write, lost, attemptVars
<1>3. CASE UNCHANGED recorderVars
  BY <1>3 DEF Called, recorderVars, attemptVars
<1> QED
  BY <1>1, <1>2, <1>3 DEF Next, Record, RecorderNext, Look, vars

\* The inductive invariant.
LEMMA StreamKept == Spec => []IInv
<1>1. Init => IInv
  BY Initially DEF IInv, Init, RecorderInit, Called
<1>2. IInv /\ [Next]_vars => IInv'
  <2> SUFFICES ASSUME IInv, [Next]_vars PROVE IInv'
    OBVIOUS
  <2>1. CASE Record
    BY <2>1, OfferKeeps, RunKeeps, CalledKeeps DEF Record, RecorderNext, IInv
  <2>2. CASE Look
    BY <2>2, StutterKeeps, CalledKeeps DEF Look, IInv
  <2>3. CASE UNCHANGED vars
    BY <2>3, StutterKeeps, CalledKeeps DEF vars, IInv
  <2> QED
    BY <2>1, <2>2, <2>3 DEF Next
<1> QED
  BY <1>1, <1>2, PTL DEF Spec

-----------------------------------------------------------------------------
(* What the stream promises.                                               *)

\* The recorder's variables keep their types (recorder.go:73-100).
THEOREM StreamTypesKept == Spec => []RecorderTypeOK
<1>1. IInv => RecorderTypeOK
  BY DEF IInv, Stream
<1> QED
  BY <1>1, StreamKept, PTL

\* However events, heartbeats and the return race for the mutex and the disk
\* fails, the lines are in the order of their numbers and no heartbeat is
\* behind the return (recorder.go:143-199, 220-235).
THEOREM StreamAlwaysInOrder == Spec => []FileInOrder
<1>1. IInv => FileInOrder
  <2> SUFFICES ASSUME Stream, NEW i \in DOMAIN file, NEW j \in DOMAIN file, i < j
               PROVE  /\ file[i].seq < file[j].seq
                      /\ file[i].kind = "returned" => file[j].kind # "heartbeat"
    BY DEF IInv, FileInOrder
  <2>1. file[i].seq < file[j].seq
    BY DEF Stream, Ordered
  <2>2. /\ file[i] \in held /\ file[j] \in held
        /\ file[i].seq \in Nat /\ file[j].seq \in Nat
    BY HeldEvents DEF Stream, held, filed
  <2> QED
    BY <2>1, <2>2 DEF Stream, Quiet
<1> QED
  BY <1>1, StreamKept, PTL

\* A footer in the file declares at least as many losses as there are events
\* before it that have no line (recorder.go:161-170, 218-242, 276-340).
THEOREM LossesAlwaysDeclared == Spec => []LossesDeclared
<1>1. IInv => LossesDeclared
  <2> SUFFICES ASSUME Stream, NEW i \in DOMAIN file, file[i].kind = "closed"
               PROVE  Cardinality(missing(file[i])) <= file[i].dropped
    BY DEF IInv, LossesDeclared
  <2>1. file[i] \in filed
    BY DEF filed
  <2>2. missing(file[i]) = (1 .. file[i].nth) \ (nths(filed) \cup {file[i].nth})
    BY <2>1 DEF missing, nths, filed
  <2> QED
    BY <2>1, <2>2 DEF Stream, Accounted, footed
<1> QED
  BY <1>1, StreamKept, PTL

-----------------------------------------------------------------------------
(* The end of the run, where the directory does not fail.                  *)

\* The records of the end, each made once: three by the entry point, and the
\* footer by the writer.
Finals == {"finalized", "returned", "delivery", "closed"}
kindsOf(events) == {e.kind : e \in events}

\* Nobody has come to this record yet.
Ahead(kind) ==
  CASE kind = "finalized" -> caller = "running"
    [] kind = "returned" -> caller \in {"running", "finalized", "marked"}
    [] kind = "delivery" -> caller \in {"running", "finalized", "marked", "returned"}
    [] OTHER -> pc \in {"writing", "last"}

\* Somebody has made it; a panic of the run leaves out the caller's.
Behind(kind) ==
  CASE kind = "finalized" ->
         returned \/ caller \in {"finalized", "marked", "returned", "delivered"}
    [] kind = "returned" ->
         caller \in {"returned", "delivered"} \/ (caller = "closing" /\ returned)
    [] kind = "delivery" -> caller = "delivered" \/ (caller = "closing" /\ returned)
    [] OTHER -> pc \in {"footer", "correction", "done"}

\* What nobody has come to is nowhere, and nothing is there twice.
Single ==
  \A e \in held : e.kind \in Finals =>
    /\ ~Ahead(e.kind)
    /\ \A f \in held : f.kind = e.kind => f.seq = e.seq

\* The places behind the full queue: the entry point makes three records.
Places ==
  /\ IsFiniteSet(urgent)
  /\ caller = "running" => Cardinality(urgent) <= 0
  /\ caller \in {"finalized", "marked"} => Cardinality(urgent) <= 1
  /\ caller = "returned" => Cardinality(urgent) <= 2

\* The lines kept for the end: only a record of the end takes one of them.
unreserved == MaxBytes - (ReserveBytes * 3) \div 4
endLines == kindsOf(filed) \cap Finals
Room == Len(file) <= unreserved + Cardinality(endLines)

\* A directory that does not fail.
Healthy ==
  faults = 0 => writer # "broken" /\ (dir => writer # "none") /\ pc # "correction"

\* How far the caller and the writer are.
Marked ==
  /\ caller \in {"running", "finalized"} => ~returned
  /\ closing => caller = "closing"
  /\ pc = "done" => batch = {}

\* What was made is in the queues, the batch or the file.
Kept == faults = 0 => \A kind \in Finals : Behind(kind) => kind \in kindsOf(held)

\* What every step keeps of the end, however small the sizes are.
End == Single /\ Places /\ Room /\ Healthy /\ Marked

\* Three terminal events fit behind the queue, and the lines no other record
\* may take hold the four of the end. The code has 16 places, and the reserve of
\* its default is eight of the longest records (recorder.go:34-47).
Roomy == 3 <= UrgentSize /\ 4 <= (ReserveBytes * 3) \div 4

-----------------------------------------------------------------------------
(* The monitor's side.                                                     *)

\* A file without a writer is empty.
NoFile == writer \in {"none", "opening"} => file = <<>>

\* What the index has read is the beginning of the file, to its last complete
\* line, and without a known loss the lines are numbered without one.
Reads ==
  /\ opened \in BOOLEAN /\ gap \in BOOLEAN /\ seenCuts \in Nat
  /\ offset \in 0 .. Len(file)
  /\ lastSeq = IF offset = 0 THEN 0 ELSE file[offset].seq
  /\ ~gap => \A i \in 1 .. offset : file[i].seq = i
  /\ err \in {"none", "unreadable"}

\* Without an early look nothing was unreadable.
Excused == early \in BOOLEAN /\ (err = "unreadable" => early)

Watch == NoFile /\ Reads /\ Excused

EInv == IInv /\ End /\ Watch

-----------------------------------------------------------------------------
(* Steps of the end.                                                       *)

LEMMA FinalsCount ==
  ASSUME NEW S, S \subseteq Finals
  PROVE  IsFiniteSet(S) /\ Cardinality(S) \in Nat /\ Cardinality(S) <= 4
<1> DEFINE none == {}
           single == {"finalized"}
           two == {"finalized", "returned"}
           three == {"finalized", "returned", "delivery"}
<1>1. /\ single \subseteq none \cup {"finalized"} /\ two \subseteq single \cup {"returned"}
      /\ three \subseteq two \cup {"delivery"} /\ S \subseteq three \cup {"closed"}
  BY DEF Finals
<1>2. IsFiniteSet(none) /\ Cardinality(none) = 0
  BY FS_EmptySet
<1> HIDE DEF none, single, two, three
<1>3. IsFiniteSet(single) /\ Cardinality(single) <= Cardinality(none) + 1
  BY <1>1, <1>2, OneMore
<1>4. IsFiniteSet(two) /\ Cardinality(two) <= Cardinality(single) + 1
  BY <1>1, <1>3, OneMore
<1>5. IsFiniteSet(three) /\ Cardinality(three) <= Cardinality(two) + 1
  BY <1>1, <1>4, OneMore
<1>6. IsFiniteSet(S) /\ Cardinality(S) <= Cardinality(three) + 1
  BY <1>1, <1>5, OneMore
<1>7. /\ Cardinality(single) \in Nat /\ Cardinality(two) \in Nat
      /\ Cardinality(three) \in Nat /\ Cardinality(S) \in Nat
  BY <1>3, <1>4, <1>5, <1>6, FS_CardinalityType
<1> QED
  BY <1>2, <1>3, <1>4, <1>5, <1>6, <1>7

\* A record of the end may take any line of the stream, and the others leave the
\* last four to it.
LEMMA Limits ==
  ASSUME NEW k \in Kind
  PROVE  /\ unreserved \in Int /\ limit(k) \in Int /\ MaxBytes \in Nat
         /\ k \in Finals => limit(k) = MaxBytes
         /\ k \notin Finals => limit(k) <= unreserved
<1>1. MaxBytes \in Nat /\ ReserveBytes \in Nat
  BY SizesAssumption
<1>2. /\ (ReserveBytes * 3) \div 4 \in Int
      /\ (ReserveBytes * 3) \div 4 <= ReserveBytes
  BY <1>1
<1>3. k \in Finals => limit(k) = MaxBytes
  BY DEF Finals, limit, terminal
<1>4. k \notin Finals => limit(k) \in {MaxBytes - ReserveBytes, unreserved}
  BY DEF Finals, limit, terminal, Kind, unreserved
<1> QED
  BY <1>1, <1>2, <1>3, <1>4 DEF unreserved

\* What a step adds to what is held is the first of its kind.
LEMMA SingleKeeps ==
  ASSUME Single, NEW S, held' \subseteq held \cup S,
         \A k \in Finals : Ahead(k)' => Ahead(k),
         \A e \in S : e.kind \in Finals => Ahead(e.kind) /\ ~Ahead(e.kind)',
         \A e, f \in S : e = f
  PROVE  Single'
<1> SUFFICES ASSUME NEW e \in held', e.kind \in Finals
             PROVE  /\ ~Ahead(e.kind)'
                    /\ \A f \in held' : f.kind = e.kind => f.seq = e.seq
  BY Zenon DEF Single
<1>1. \A f \in held : f.kind \in Finals =>
        /\ ~Ahead(f.kind)
        /\ \A g \in held : g.kind = f.kind => g.seq = f.seq
  BY Zenon DEF Single
<1>2. CASE e \in held
  <2>1. ~Ahead(e.kind)
    BY <1>1, <1>2
  <2>2. ~Ahead(e.kind)'
    BY <2>1
  <2>3. \A f \in held' : f.kind = e.kind => f.seq = e.seq
    BY <1>1, <1>2, <2>1, Zenon
  <2> QED
    BY <2>2, <2>3
<1>3. CASE e \in S
  <2>1. Ahead(e.kind) /\ ~Ahead(e.kind)'
    BY <1>3
  <2>2. \A f \in held' : f.kind = e.kind => f.seq = e.seq
    BY <1>1, <1>3, <2>1, Zenon
  <2> QED
    BY <2>1, <2>2
<1> QED
  BY <1>2, <1>3

LEMMA SingleStays ==
  ASSUME Single, held' \subseteq held, \A k \in Finals : Ahead(k)' => Ahead(k)
  PROVE  Single'
<1> DEFINE S == {}
<1>1. held' \subseteq held \cup S /\ \A e \in S : FALSE
  OBVIOUS
<1> HIDE DEF S
<1> QED
  BY <1>1, SingleKeeps

\* The entry point and the writer go on.
LEMMA AheadKeeps ==
  ASSUME Stream, RecorderNext \/ UNCHANGED recorderVars
  PROVE  \A k \in Finals : Ahead(k)' => Ahead(k)
<1>1. CASE Offer
  <2>1. pc' = pc
    BY <1>1 DEF Offer, writerVars
  <2>2. \/ caller' = caller
        \/ caller = "running" /\ caller' = "finalized"
        \/ caller = "finalized" /\ caller' = "marked"
        \/ caller = "marked" /\ caller' = "returned"
        \/ caller' \in {"delivered", "closing"}
    BY <1>1 DEF Offer, Work, Heartbeat, Finalize, Mark, Returned, Deliver, Close
  <2> QED
    BY <2>1, <2>2 DEF Ahead
<1>2. CASE run
  <2>1. caller' = caller
    BY <1>2 DEF run
  <2>2. pc' \in {"writing", "last"} => pc \in {"writing", "last"}
    BY <1>2 DEF run, Drain, drain, Footer, FinalSync, Corrected, Refuse, MakeDir, OpenFile, Write
  <2> QED
    BY <2>1, <2>2 DEF Ahead
<1>3. CASE UNCHANGED recorderVars
  BY <1>3 DEF recorderVars, writerVars, Ahead
<1> QED
  BY <1>1, <1>2, <1>3 DEF RecorderNext

\* What an offer does to the queues.
LEMMA EmitMoves ==
  ASSUME NEW k, NEW fits \in BOOLEAN, emit(k, fits), UNCHANGED writerVars
  PROVE  /\ held' \subseteq held \cup {event(k, 0)} /\ held \subseteq held'
         /\ event(k, 0).kind = k
         /\ urgent' = urgent \/ (k \in terminal /\ urgent' = urgent \cup {event(k, 0)})
         /\ fits /\ k \in terminal /\ Cardinality(urgent) < UrgentSize => k \in kindsOf(held')
         /\ ~closing /\ closing' = closing /\ returned' = returned
<1> DEFINE e == event(k, 0)
<1>1. e.kind = k
  BY DEF event
<1>2. filed' = filed /\ batch' = batch
  BY DEF filed, writerVars
<1>3. /\ queue' = IF queued(fits) THEN queue \cup {e} ELSE queue
      /\ urgent' = IF rushes(k, fits) THEN urgent \cup {e} ELSE urgent
      /\ ~closing /\ closing' = closing /\ returned' = returned
  BY DEF emit, refuses
<1>4. fits /\ k \in terminal /\ Cardinality(urgent) < UrgentSize =>
        queued(fits) \/ rushes(k, fits)
  BY DEF rushes, queued
<1>5. rushes(k, fits) => k \in terminal
  BY DEF rushes
<1> HIDE DEF e
<1>6. held' \subseteq held \cup {e} /\ held \subseteq held'
  BY <1>2, <1>3 DEF held, waiting
<1>7. queued(fits) \/ rushes(k, fits) => e \in held'
  BY <1>3 DEF held, waiting
<1>8. urgent' = urgent \/ (k \in terminal /\ urgent' = urgent \cup {e})
  BY <1>3, <1>5
<1> QED
  BY <1>1, <1>3, <1>4, <1>6, <1>7, <1>8 DEF e, kindsOf

\* The calls of the entry point: each of its records is made once, and the first
\* two of them leave places for the next.
LEMMA OfferEnd == ASSUME Stream, End, Offer PROVE End'
<1>1. UNCHANGED <<writerVars, faults>>
  BY DEF Offer
<1>2. filed' = filed /\ batch' = batch /\ pc' = pc /\ Len(file') = Len(file)
  BY <1>1 DEF filed, writerVars
<1>3. Room' /\ Healthy'
  BY <1>1, <1>2 DEF End, Room, Healthy, endLines, kindsOf, writerVars
<1>4. \A k \in Finals : Ahead(k)' => Ahead(k)
  BY AheadKeeps DEF RecorderNext
<1>5. IsFiniteSet(urgent) /\ Cardinality(urgent) \in Nat
  BY FS_CardinalityType DEF End, Places
<1>6. ASSUME NEW k \in {"work", "heartbeat"}, NEW fits \in BOOLEAN, emit(k, fits),
             caller' = caller
      PROVE  End'
  <2>1. /\ held' \subseteq held \cup {event(k, 0)} /\ event(k, 0).kind = k
        /\ urgent' = urgent /\ closing' = closing /\ returned' = returned
    BY <1>1, <1>6, EmitMoves DEF terminal
  <2>2. Single'
    <3>1. PICK e : e = event(k, 0)
      OBVIOUS
    <3>2. held' \subseteq held \cup {e} /\ e.kind \notin Finals
      BY <2>1, <3>1 DEF Finals
    <3> QED
      BY <3>2, <1>4, SingleKeeps DEF End
  <2>3. Places' /\ Marked'
    BY <2>1, <1>2, <1>6 DEF End, Places, Marked
  <2> QED
    BY <2>2, <2>3, <1>3 DEF End
<1>7. ASSUME NEW k \in {"finalized", "returned", "delivery"}, emit(k, TRUE),
             Ahead(k), ~Ahead(k)', caller # "closing",
             caller' \in {"finalized", "marked"} => caller = "running",
             caller' = "returned" => caller = "marked",
             caller' \notin {"running", "closing"},
             caller' = "finalized" => ~returned
      PROVE  End'
  <2> DEFINE e == event(k, 0)
  <2>1. /\ held' \subseteq held \cup {e} /\ e.kind = k
        /\ urgent' = urgent \/ urgent' = urgent \cup {e}
        /\ ~closing /\ closing' = closing /\ returned' = returned
    BY <1>1, <1>7, EmitMoves
  <2> HIDE DEF e
  <2>2. Single'
    BY <2>1, <1>4, <1>7, SingleKeeps DEF End
  <2>3. IsFiniteSet(urgent') /\ Cardinality(urgent') <= Cardinality(urgent) + 1
    BY <2>1, <1>5, OneMore
  <2>4. Cardinality(urgent') \in Nat
    BY <2>3, FS_CardinalityType
  <2>5. Places'
    BY <2>3, <2>4, <1>5, <1>7 DEF End, Places
  <2>6. Marked'
    BY <2>1, <1>2, <1>7 DEF End, Marked
  <2> QED
    BY <2>2, <2>5, <2>6, <1>3 DEF End
<1>8. ASSUME UNCHANGED <<queue, urgent>>,
             caller = "running" \/ caller' \in {"marked", "closing"},
             caller' \in {"marked", "closing"}, caller' = "marked" => caller = "finalized",
             closing' => closing \/ caller' = "closing", closing => caller' = "closing"
      PROVE  End'
  <2>1. held' \subseteq held
    BY <1>2, <1>8 DEF held, waiting
  <2>2. Single'
    BY <2>1, <1>4, SingleStays DEF End
  <2>3. Places'
    BY <1>8 DEF End, Places
  <2>4. Marked'
    BY <1>2, <1>8 DEF End, Marked
  <2> QED
    BY <2>2, <2>3, <2>4, <1>3 DEF End
<1>9. ASSUME NEW fits \in BOOLEAN, Work(fits) PROVE End'
  BY <1>9, <1>6 DEF Work
<1>10. CASE Heartbeat
  <2>1. TRUE \in BOOLEAN
    OBVIOUS
  <2> QED
    BY <2>1, <1>10, <1>6 DEF Heartbeat
<1>11. CASE Finalize
  <2>1. Ahead("finalized") /\ ~Ahead("finalized")'
    BY <1>11 DEF Finalize, Ahead
  <2>2. caller = "running" /\ caller' = "finalized" /\ emit("finalized", TRUE) /\ ~returned
    BY <1>11 DEF Finalize, End, Marked
  <2> QED
    BY <2>1, <2>2, <1>7
<1>12. CASE Returned
  <2>1. Ahead("returned") /\ ~Ahead("returned")'
    BY <1>12 DEF Returned, Ahead
  <2>2. caller = "marked" /\ caller' = "returned" /\ emit("returned", TRUE)
    BY <1>12 DEF Returned
  <2> QED
    BY <2>1, <2>2, <1>7
<1>13. CASE Deliver
  <2>1. Ahead("delivery") /\ ~Ahead("delivery")'
    BY <1>13 DEF Deliver, Ahead
  <2>2. caller = "returned" /\ caller' = "delivered" /\ emit("delivery", TRUE)
    BY <1>13 DEF Deliver
  <2> QED
    BY <2>1, <2>2, <1>7
<1>14. CASE Mark
  <2>1. ~closing
    BY <1>14 DEF Mark, End, Marked
  <2> QED
    BY <2>1, <1>14, <1>8 DEF Mark
<1>15. CASE Close
  BY <1>15, <1>8 DEF Close
<1> QED
  BY <1>9, <1>10, <1>11, <1>12, <1>13, <1>14, <1>15 DEF Offer

\* A line more: where it takes one of those kept for the end, it is a record of
\* the end and the first of its kind.
LEMMA WriteRoom ==
  ASSUME Stream, Single, Room, NEW e \in batch, fitsIn(e), file' = Append(file, e)
  PROVE  Room'
<1>1. /\ file \in Seq(Event) /\ e \in Event /\ e.kind \in Kind
      /\ e \in held /\ filed \subseteq held /\ filed \subseteq Event
  BY HeldEvents DEF Stream, RecorderTypeOK, held
<1>2. Len(file') = Len(file) + 1 /\ Len(file) \in Nat
  BY <1>1
<1>3. filed' = filed \cup {e}
  <2>1. /\ DOMAIN file' = 1 .. Len(file) + 1 /\ DOMAIN file = 1 .. Len(file)
        /\ file'[Len(file) + 1] = e
        /\ \A i \in DOMAIN file : file'[i] = file[i]
    BY <1>1
  <2> QED
    BY <1>2, <2>1 DEF filed
<1>4. endLines \subseteq Finals /\ endLines' \subseteq Finals
  BY DEF endLines
<1>5. /\ IsFiniteSet(endLines) /\ Cardinality(endLines) \in Nat
      /\ Cardinality(endLines') \in Nat
  BY <1>4, FinalsCount
<1>6. Len(file) + 1 <= limit(e.kind)
  BY DEF fitsIn
<1>7. CASE e.kind \notin Finals
  BY <1>1, <1>2, <1>5, <1>6, <1>7, Limits DEF Room, unreserved
<1>8. CASE e.kind \in Finals
  <2>1. e.kind \notin endLines
    <3> SUFFICES ASSUME NEW f \in filed, f.kind = e.kind PROVE FALSE
      BY DEF endLines, kindsOf
    <3>1. f.seq = e.seq
      BY <1>1, <1>8 DEF Single
    <3>2. f.seq < e.seq /\ f.seq \in Nat
      BY <1>1 DEF Stream, Ordered, Event
    <3> QED
      BY <3>1, <3>2
  <2>2. endLines' = endLines \cup {e.kind}
    BY <1>3, <1>8 DEF endLines, kindsOf
  <2>3. Cardinality(endLines') = Cardinality(endLines) + 1
    BY <2>1, <2>2, <1>5, FS_AddElement
  <2>4. unreserved \in Int
    BY <1>1, Limits
  <2> QED
    BY <2>3, <2>4, <1>2, <1>5 DEF Room, unreserved
<1> QED
  BY <1>7, <1>8

\* A record of the end finds a line.
LEMMA EndFits ==
  ASSUME Roomy, Stream, Single, Room, NEW e \in batch, e.kind \in Finals
  PROVE  fitsIn(e)
<1>1. /\ e \in Event /\ e.kind \in Kind /\ e \in held
      /\ filed \subseteq held /\ filed \subseteq Event /\ file \in Seq(Event)
  BY HeldEvents DEF Stream, RecorderTypeOK, held
<1>2. e.kind \notin endLines
  <2> SUFFICES ASSUME NEW f \in filed, f.kind = e.kind PROVE FALSE
    BY DEF endLines, kindsOf
  <2>1. f.seq = e.seq
    BY <1>1 DEF Single
  <2>2. f.seq < e.seq /\ f.seq \in Nat
    BY <1>1 DEF Stream, Ordered, Event
  <2> QED
    BY <2>1, <2>2
<1> DEFINE all == endLines \cup {e.kind}
<1>3. endLines \subseteq Finals /\ all \subseteq Finals
  BY DEF endLines
<1>4. /\ IsFiniteSet(endLines) /\ Cardinality(endLines) \in Nat
      /\ Cardinality(all) = Cardinality(endLines) + 1
  BY <1>2, <1>3, FinalsCount, FS_AddElement
<1>5. Cardinality(all) <= 4
  BY <1>3, FinalsCount
<1>6. limit(e.kind) = MaxBytes /\ MaxBytes \in Nat /\ Len(file) \in Nat
  BY <1>1, Limits
<1>7. Len(file) <= MaxBytes - (ReserveBytes * 3) \div 4 + Cardinality(endLines)
  BY DEF Room, unreserved
<1>8. (ReserveBytes * 3) \div 4 \in Int /\ 4 <= (ReserveBytes * 3) \div 4
  BY SizesAssumption DEF Roomy
<1> HIDE DEF all
<1>9. Len(file) + 1 <= MaxBytes
  BY <1>4, <1>5, <1>6, <1>7, <1>8
<1> QED
  BY <1>6, <1>9 DEF fitsIn

\* What a step of the writer does: it gives up what does not fit, or what the
\* directory refused, and adds records of losses and the footer.
Writes ==
  /\ UNCHANGED <<caller, returned, closing>>
  /\ urgent' = urgent \/ urgent' = {}
  /\ \/ held' \subseteq held
     \/ \E e : held' \subseteq held \cup {e} /\ e.kind = "gap"
     \/ \E e : /\ held' \subseteq held \cup {e} /\ e.kind = "closed"
               /\ pc = "last" /\ pc' = "footer"
  /\ faults' = 0 =>
       faults = 0 /\ \A e \in held \ held' : e \in batch /\ ~fitsIn(e)
  /\ pc' \in {"footer", "correction", "done"} =>
       pc \in {"footer", "correction", "done"} \/ "closed" \in kindsOf(held')
  /\ pc' = "done" => batch' = {}
  /\ file' = file \/ \E e \in batch : fitsIn(e) /\ file' = Append(file, e)
  /\ Healthy'

LEMMA RunWrites == ASSUME Stream, End, run PROVE Writes
<1>1. /\ faults \in Nat /\ dropped \in Nat /\ file \in Seq(Event) /\ batch \subseteq Event
      /\ pc \in Stage
  BY DEF Stream, RecorderTypeOK
<1>2. UNCHANGED caller
  BY DEF run
<1>3. CASE Drain
  <2>1. PICK more \in {0, 1} : drain(more) /\ (more = 1 => fail) /\ (more = 0 => UNCHANGED faults)
    BY <1>3 DEF Drain
  <2>2. batch = {} /\ pc = "writing" /\ pc' \in {"writing", "last"}
    BY <1>3, <2>1 DEF Drain, drain
  <2>3. PICK e : e = event("gap", dropped + more)
    OBVIOUS
  <2>4. e.kind = "gap"
    BY <2>3 DEF event
  <2>5. /\ batch' = queue \cup urgent \cup {e} \/ batch' = queue \cup urgent
        /\ queue' = {} /\ urgent' = {} /\ UNCHANGED <<returned, closing, writer, dir, file>>
    BY <2>1, <2>3 DEF drain
  <2>6. filed' = filed
    BY <2>5 DEF filed
  <2>7. held' \subseteq held \cup {e} /\ held \subseteq held'
    BY <2>2, <2>5, <2>6 DEF held, waiting
  <2>8. faults' = 0 => faults = 0
    BY <2>1, <1>1 DEF fail
  <2>9. Healthy'
    BY <2>2, <2>5, <2>8 DEF End, Healthy
  <2> QED
    BY <1>2, <2>2, <2>4, <2>5, <2>7, <2>8, <2>9 DEF Writes
<1>4. CASE Footer
  <2>1. /\ pc = "last" /\ pc' = "footer" /\ batch = {} /\ footer("closed", 0)
        /\ UNCHANGED <<writer, dir, file, faults>>
    BY <1>4 DEF Footer
  <2>2. PICK e : e = event("closed", dropped + 0)
    OBVIOUS
  <2>3. e.kind = "closed"
    BY <2>2 DEF event
  <2>4. /\ batch' = {e} /\ UNCHANGED <<returned, closing, queue, urgent>>
    BY <2>1, <2>2 DEF footer
  <2>5. filed' = filed /\ waiting' = waiting
    BY <2>1, <2>4 DEF filed, waiting
  <2>6. held' \subseteq held \cup {e} /\ held \subseteq held' /\ e \in held'
    BY <2>1, <2>4, <2>5 DEF held
  <2>7. Healthy'
    BY <2>1 DEF End, Healthy
  <2> QED
    BY <1>2, <2>1, <2>3, <2>4, <2>6, <2>7 DEF Writes, kindsOf
<1>5. CASE FinalSync
  <2>1. /\ pc = "footer" /\ batch = {} /\ UNCHANGED <<writer, dir, file>>
    BY <1>5 DEF FinalSync
  <2>2. CASE pc' = "done" /\ UNCHANGED <<attemptVars, batch, faults>>
    <3>1. held' = held
      BY <2>1, <2>2 DEF held, waiting, filed, attemptVars
    <3>2. Healthy'
      BY <2>1, <2>2 DEF End, Healthy
    <3> QED
      BY <1>2, <2>1, <2>2, <3>1, <3>2 DEF Writes, attemptVars
  <2>3. CASE fail /\ pc' = "correction" /\ footer("gap", 1)
    <3>1. PICK e : e = event("gap", dropped + 1)
      OBVIOUS
    <3>2. e.kind = "gap"
      BY <3>1 DEF event
    <3>3. /\ batch' = {e} /\ UNCHANGED <<returned, closing, queue, urgent>>
      BY <2>3, <3>1 DEF footer
    <3>4. held' \subseteq held \cup {e}
      BY <2>1, <3>3 DEF held, waiting, filed
    <3>5. faults' # 0
      BY <2>3, <1>1 DEF fail
    <3>6. Healthy'
      BY <3>5 DEF Healthy
    <3> QED
      BY <1>2, <2>1, <2>3, <3>2, <3>3, <3>4, <3>5, <3>6 DEF Writes
  <2> QED
    BY <2>2, <2>3, <1>5 DEF FinalSync
<1>6. CASE Corrected
  <2>1. /\ pc = "correction" /\ batch = {} /\ pc' = "done"
        /\ UNCHANGED <<attemptVars, batch, writer, dir, file, faults>>
    BY <1>6 DEF Corrected
  <2>2. held' = held
    BY <2>1 DEF held, waiting, filed, attemptVars
  <2>3. Healthy'
    BY <2>1 DEF End, Healthy
  <2> QED
    BY <1>2, <2>1, <2>2, <2>3 DEF Writes, attemptVars
\* The writer gives an event up.
<1>7. ASSUME NEW e \in batch, lost, batch' = batch \ {e}, UNCHANGED <<pc, file>>,
             faults' = 0 => faults = 0 /\ ~fitsIn(e), Healthy'
      PROVE  Writes
  <2>1. filed' = filed /\ waiting' = waiting /\ UNCHANGED <<urgent, returned, closing>>
    BY <1>7 DEF filed, waiting, lost
  <2>2. held' \subseteq held /\ held \ held' \subseteq {e}
    BY <1>7, <2>1 DEF held
  <2>3. pc # "done"
    BY <1>7 DEF End, Marked
  <2> QED
    BY <1>2, <1>7, <2>1, <2>2, <2>3 DEF Writes
\* The file is made, in two steps.
<1>8. ASSUME NEW e \in batch, UNCHANGED <<attemptVars, batch, pc, file, faults>>, Healthy'
      PROVE  Writes
  <2>1. held' = held /\ UNCHANGED <<urgent, returned, closing>>
    BY <1>8 DEF held, waiting, filed, attemptVars
  <2>2. pc # "done"
    BY <1>8 DEF End, Marked
  <2> QED
    BY <1>2, <1>8, <2>1, <2>2 DEF Writes
<1>9. fail => faults' # 0
  BY <1>1 DEF fail
<1>10. ASSUME NEW e \in batch, Refuse(e) PROVE Writes
  <2>1. /\ lost /\ batch' = batch \ {e} /\ UNCHANGED <<pc, writer, dir, file, faults>>
        /\ ~fitsIn(e) \/ writer = "broken" \/ (writer = "none" /\ dir)
    BY <1>10 DEF Refuse
  <2>2. Healthy'
    BY <2>1 DEF End, Healthy
  <2>3. faults' = 0 => faults = 0 /\ ~fitsIn(e)
    BY <2>1 DEF End, Healthy
  <2> QED
    BY <2>1, <2>2, <2>3, <1>7
<1>11. ASSUME NEW e \in batch, MakeDir(e) PROVE Writes
  <2>1. CASE writer' = "opening" /\ dir' = TRUE /\ UNCHANGED <<attemptVars, batch, faults>>
    <3>1. UNCHANGED <<pc, file>>
      BY <1>11 DEF MakeDir
    <3>2. Healthy'
      BY <2>1, <3>1 DEF End, Healthy
    <3> QED
      BY <2>1, <3>1, <3>2, <1>8
  <2>2. CASE fail /\ lost /\ batch' = batch \ {e}
    <3>1. UNCHANGED <<pc, file>>
      BY <1>11 DEF MakeDir
    <3>2. Healthy'
      BY <2>2, <1>9 DEF Healthy
    <3> QED
      BY <2>2, <3>1, <3>2, <1>7, <1>9
  <2> QED
    BY <2>1, <2>2, <1>11 DEF MakeDir
<1>12. ASSUME NEW e \in batch, OpenFile(e) PROVE Writes
  <2>1. CASE writer' = "open" /\ UNCHANGED <<attemptVars, batch, faults>>
    <3>1. UNCHANGED <<pc, file, dir>>
      BY <1>12 DEF OpenFile
    <3>2. Healthy'
      BY <2>1, <3>1 DEF End, Healthy
    <3> QED
      BY <2>1, <3>1, <3>2, <1>8
  <2>2. CASE fail /\ lost /\ batch' = batch \ {e}
    <3>1. UNCHANGED <<pc, file>>
      BY <1>12 DEF OpenFile
    <3>2. Healthy'
      BY <2>2, <1>9 DEF Healthy
    <3> QED
      BY <2>2, <3>1, <3>2, <1>7, <1>9
  <2> QED
    BY <2>1, <2>2, <1>12 DEF OpenFile
<1>13. ASSUME NEW e \in batch, Write(e) PROVE Writes
  <2>1. /\ fitsIn(e) /\ batch' = batch \ {e} /\ UNCHANGED <<pc, dir>>
    BY <1>13 DEF Write
  <2>2. CASE file' = Append(file, e) /\ UNCHANGED <<attemptVars, writer, faults>>
    <3>1. filed' = filed \cup {e}
      <4>1. /\ DOMAIN file' = 1 .. Len(file) + 1 /\ DOMAIN file = 1 .. Len(file)
            /\ file'[Len(file) + 1] = e /\ Len(file) \in Nat
            /\ \A i \in DOMAIN file : file'[i] = file[i]
        BY <2>2, <1>1
      <4> QED
        BY <4>1 DEF filed
    <3>2. held' = held /\ UNCHANGED <<urgent, returned, closing>>
      BY <2>1, <2>2, <3>1 DEF held, waiting, attemptVars
    <3>3. Healthy'
      BY <2>1, <2>2 DEF End, Healthy
    <3>4. pc # "done"
      BY DEF End, Marked
    <3> QED
      BY <1>2, <2>1, <2>2, <3>2, <3>3, <3>4 DEF Writes
  <2>3. CASE fail /\ lost /\ UNCHANGED file
    <3>1. Healthy'
      BY <2>3, <1>9 DEF Healthy
    <3> QED
      BY <2>1, <2>3, <3>1, <1>7, <1>9
  <2> QED
    BY <2>2, <2>3, <1>13 DEF Write
<1> QED
  BY <1>3, <1>4, <1>5, <1>6, <1>10, <1>11, <1>12, <1>13 DEF run

LEMMA RunEnd == ASSUME Stream, End, run PROVE End'
<1>1. Writes
  BY RunWrites
<1>2. \A k \in Finals : Ahead(k)' => Ahead(k)
  BY AheadKeeps DEF RecorderNext
<1>3. Single'
  <2>1. CASE held' \subseteq held
    BY <2>1, <1>2, SingleStays DEF End
  <2>2. ASSUME NEW e, held' \subseteq held \cup {e}, e.kind = "gap" PROVE Single'
    <3>1. e.kind \notin Finals
      BY <2>2 DEF Finals
    <3> QED
      BY <2>2, <3>1, <1>2, SingleKeeps DEF End
  <2>3. ASSUME NEW e, held' \subseteq held \cup {e}, e.kind = "closed",
               pc = "last", pc' = "footer"
        PROVE  Single'
    <3>1. Ahead(e.kind) /\ ~Ahead(e.kind)'
      BY <2>3 DEF Ahead
    <3> QED
      BY <2>3, <3>1, <1>2, SingleKeeps DEF End
  <2> QED
    BY <2>1, <2>2, <2>3, <1>1 DEF Writes
<1>4. Places'
  <2>1. CASE urgent' = urgent
    BY <2>1, <1>1 DEF Writes, End, Places
  <2>2. CASE urgent' = {}
    BY <2>2, <1>1, FS_EmptySet DEF Writes, Places
  <2> QED
    BY <2>1, <2>2, <1>1 DEF Writes
<1>5. Room'
  <2>1. CASE file' = file
    BY <2>1 DEF End, Room, endLines, kindsOf, filed
  <2>2. ASSUME NEW e \in batch, fitsIn(e), file' = Append(file, e) PROVE Room'
    BY <2>2, WriteRoom DEF End
  <2> QED
    BY <2>1, <2>2, <1>1 DEF Writes
<1>6. Marked'
  BY <1>1 DEF Writes, End, Marked
<1> QED
  BY <1>1, <1>3, <1>4, <1>5, <1>6 DEF Writes, End

\* What was made is kept, and what is made finds a place.
LEMMA KeptKeeps ==
  ASSUME Kept, faults' = 0 => faults = 0,
         faults' = 0 => \A e \in held : e.kind \in Finals => e \in held',
         faults' = 0 => \A k \in Finals : Behind(k)' => Behind(k) \/ k \in kindsOf(held')
  PROVE  Kept'
<1> SUFFICES ASSUME faults' = 0, NEW k \in Finals, Behind(k)'
             PROVE  k \in kindsOf(held')
  BY DEF Kept
<1>1. CASE Behind(k)
  BY <1>1 DEF Kept, kindsOf
<1> QED
  BY <1>1

LEMMA OfferKept == ASSUME Roomy, Stream, End, Kept, Offer PROVE Kept'
<1>1. UNCHANGED <<writerVars, faults>> /\ pc' = pc
  BY DEF Offer, writerVars
<1>2. 3 <= UrgentSize /\ UrgentSize \in Nat /\ Cardinality(urgent) \in Nat
  BY SizesAssumption, FS_CardinalityType DEF Roomy, End, Places
<1>3. ASSUME NEW k, NEW fits \in BOOLEAN, emit(k, fits),
             \A f \in Finals : Behind(f)' => Behind(f) \/ (f = k /\ k \in kindsOf(held'))
      PROVE  Kept'
  <2>1. held \subseteq held'
    BY <1>1, <1>3, EmitMoves
  <2> QED
    BY <2>1, <1>1, <1>3, KeptKeeps
<1>4. ASSUME held' = held, \A f \in Finals : Behind(f)' => Behind(f) PROVE Kept'
  BY <1>1, <1>4, KeptKeeps
<1>5. ASSUME NEW fits \in BOOLEAN, Work(fits) PROVE Kept'
  <2>1. emit("work", fits) /\ caller' = caller /\ returned' = returned
    BY <1>5 DEF Work, emit
  <2>2. \A f \in Finals : Behind(f)' => Behind(f)
    BY <2>1, <1>1 DEF Behind
  <2> QED
    BY <2>1, <2>2, <1>3
<1>6. CASE Heartbeat
  <2>1. emit("heartbeat", TRUE) /\ caller' = caller /\ returned' = returned /\ TRUE \in BOOLEAN
    BY <1>6 DEF Heartbeat, emit
  <2>2. \A f \in Finals : Behind(f)' => Behind(f)
    BY <2>1, <1>1 DEF Behind
  <2> QED
    BY <2>1, <2>2, <1>3
<1>7. ASSUME NEW k \in {"finalized", "returned", "delivery"}, emit(k, TRUE),
             Cardinality(urgent) < UrgentSize,
             \A f \in Finals : Behind(f)' => Behind(f) \/ f = k
      PROVE  Kept'
  <2>1. k \in terminal /\ TRUE \in BOOLEAN
    BY DEF terminal
  <2>2. k \in kindsOf(held')
    BY <2>1, <1>1, <1>7, EmitMoves
  <2> QED
    BY <2>1, <2>2, <1>3, <1>7
<1>8. CASE Finalize
  <2>1. /\ caller = "running" /\ caller' = "finalized" /\ emit("finalized", TRUE)
        /\ returned' = returned /\ Cardinality(urgent) <= 0
    BY <1>8 DEF Finalize, emit, End, Places
  <2>2. \A f \in Finals : Behind(f)' => Behind(f) \/ f = "finalized"
    BY <2>1, <1>1 DEF Behind, Finals
  <2>3. Cardinality(urgent) < UrgentSize
    BY <2>1, <1>2
  <2> QED
    BY <2>1, <2>2, <2>3, <1>7, Zenon
<1>9. CASE Returned
  <2>1. /\ caller = "marked" /\ caller' = "returned" /\ emit("returned", TRUE)
        /\ returned' = returned /\ Cardinality(urgent) <= 1
    BY <1>9 DEF Returned, emit, End, Places
  <2>2. \A f \in Finals : Behind(f)' => Behind(f) \/ f = "returned"
    BY <2>1, <1>1 DEF Behind, Finals
  <2>3. Cardinality(urgent) < UrgentSize
    BY <2>1, <1>2
  <2> QED
    BY <2>1, <2>2, <2>3, <1>7, Zenon
<1>10. CASE Deliver
  <2>1. /\ caller = "returned" /\ caller' = "delivered" /\ emit("delivery", TRUE)
        /\ returned' = returned /\ Cardinality(urgent) <= 2
    BY <1>10 DEF Deliver, emit, End, Places
  <2>2. \A f \in Finals : Behind(f)' => Behind(f) \/ f = "delivery"
    BY <2>1, <1>1 DEF Behind, Finals
  <2>3. Cardinality(urgent) < UrgentSize
    BY <2>1, <1>2
  <2> QED
    BY <2>1, <2>2, <2>3, <1>7, Zenon
<1>11. CASE Mark
  <2>1. caller = "finalized" /\ caller' = "marked" /\ UNCHANGED <<queue, urgent>>
    BY <1>11 DEF Mark
  <2>2. held' = held
    BY <2>1, <1>1 DEF held, waiting, filed, writerVars
  <2>3. \A f \in Finals : Behind(f)' => Behind(f)
    BY <2>1, <1>1 DEF Behind, Finals
  <2> QED
    BY <2>2, <2>3, <1>4
<1>12. CASE Close
  <2>1. /\ caller \in {"running", "finalized", "delivered"} /\ caller' = "closing"
        /\ UNCHANGED <<queue, urgent, returned>>
        /\ caller \in {"running", "finalized"} => ~returned
    BY <1>12 DEF Close, End, Marked
  <2>2. held' = held
    BY <2>1, <1>1 DEF held, waiting, filed, writerVars
  <2>3. \A f \in Finals : Behind(f)' => Behind(f)
    BY <2>1, <1>1 DEF Behind, Finals
  <2> QED
    BY <2>2, <2>3, <1>4
<1> QED
  BY <1>5, <1>6, <1>8, <1>9, <1>10, <1>11, <1>12 DEF Offer

LEMMA RunKept == ASSUME Roomy, Stream, End, Kept, run PROVE Kept'
<1>1. Writes
  BY RunWrites
<1>2. faults' = 0 => faults = 0
  BY <1>1 DEF Writes
<1>3. ASSUME faults' = 0, NEW e \in held, e.kind \in Finals PROVE e \in held'
  <2>1. e \in batch => fitsIn(e)
    BY <1>3, EndFits DEF End
  <2> QED
    BY <2>1, <1>1, <1>3 DEF Writes
<1>4. ASSUME NEW k \in Finals, Behind(k)' PROVE Behind(k) \/ k \in kindsOf(held')
  <2>1. /\ caller' = caller /\ returned' = returned
        /\ pc' \in {"footer", "correction", "done"} =>
             pc \in {"footer", "correction", "done"} \/ "closed" \in kindsOf(held')
    BY <1>1 DEF Writes
  <2>2. CASE k = "closed"
    BY <2>1, <2>2, <1>4 DEF Behind
  <2>3. CASE k # "closed"
    BY <2>1, <2>3, <1>4 DEF Behind, Finals
  <2> QED
    BY <2>2, <2>3
<1> QED
  BY <1>2, <1>3, <1>4, KeptKeeps

-----------------------------------------------------------------------------
(* Reading.                                                                *)

\* Without a loss, lines are numbered on from where the reading starts.
LEMMA InARow ==
  ASSUME Stream, NEW from \in Nat, NEW to \in Nat, to <= Len(file),
         \A i \in from + 1 .. to : file[i].seq = before(from, from, i) + 1
  PROVE  \A i \in from + 1 .. to : file[i].seq = i
<1> DEFINE T == {i \in from + 1 .. to : file[i].seq # i}
<1> SUFFICES ASSUME T # {} PROVE FALSE
  OBVIOUS
<1>1. T \subseteq Nat
  OBVIOUS
<1>2. PICK x \in T : \A y \in T : ~(<<y, x>> \in OpToRel(<, Nat))
  BY <1>1, NatLessThanWellFounded, WFMin
<1>3. \A y \in Nat : y < x => y \notin T
  <2>1. \A y \in Nat : y < x => <<y, x>> \in OpToRel(<, Nat)
    BY <1>1, Zenon DEF OpToRel
  <2> QED
    BY <2>1, <1>2
<1>4. x \in from + 1 .. to /\ x \in Nat /\ file[x].seq # x /\ file[x].seq = before(from, from, x) + 1
  OBVIOUS
<1>5. CASE x = from + 1
  BY <1>4, <1>5 DEF before
<1>6. CASE x # from + 1
  <2>1. x - 1 \in from + 1 .. to /\ x - 1 \in Nat /\ x - 1 < x
    BY <1>4, <1>6
  <2>2. file[x - 1].seq = x - 1
    BY <2>1, <1>3
  <2>3. file[x].seq = (x - 1) + 1
    BY <2>2, <1>4, <1>6 DEF before
  <2> QED
    BY <2>3, <1>4
<1> QED
  BY <1>5, <1>6

\* The file is in order, so that poll reads to its last complete line.
LEMMA ReadsAll ==
  ASSUME Stream, Reads, NEW again \in BOOLEAN
  PROVE  /\ start(again)[1] \in 0 .. Len(file)
         /\ start(again)[2] = IF start(again)[1] = 0 THEN 0 ELSE file[start(again)[1]].seq
         /\ readTo(start(again)[1], start(again)[2]) = Len(file)
<1> DEFINE from == start(again)[1]
           seq == start(again)[2]
<1>1. /\ from \in 0 .. Len(file) /\ seq = IF from = 0 THEN 0 ELSE file[from].seq
      /\ Len(file) \in Nat /\ file \in Seq(Event)
  BY DEF start, Reads, Stream, RecorderTypeOK
<1> HIDE DEF from, seq
<1>2. \A i \in 1 .. Len(file) : file[i].seq \in Nat \ {0}
  <2>1. \A i \in 1 .. Len(file) : file[i] \in Event
    BY <1>1
  <2> QED
    BY <2>1 DEF Event
<1>3. \A i \in from + 1 .. Len(file) : file[i].seq > before(from, seq, i)
  <2> SUFFICES ASSUME NEW i \in from + 1 .. Len(file) PROVE file[i].seq > before(from, seq, i)
    OBVIOUS
  <2>1. i \in 1 .. Len(file) /\ i \in DOMAIN file /\ DOMAIN file = 1 .. Len(file)
    BY <1>1
  <2>2. CASE from = 0 /\ i = 1
    BY <2>1, <2>2, <1>1, <1>2 DEF before
  <2>3. CASE ~(from = 0 /\ i = 1)
    <3>1. i - 1 \in DOMAIN file /\ i - 1 < i
      BY <2>1, <2>3, <1>1
    <3>2. file[i - 1].seq < file[i].seq
      BY <2>1, <3>1 DEF Stream, Ordered
    <3>3. before(from, seq, i) = file[i - 1].seq
      BY <2>3, <1>1 DEF before
    <3>4. file[i - 1].seq \in Nat /\ file[i].seq \in Nat
      BY <2>1, <3>1, <1>2
    <3> QED
      BY <3>2, <3>3, <3>4
  <2> QED
    BY <2>2, <2>3
<1>4. Len(file) \in accepted(from, seq) /\ \A m \in accepted(from, seq) : m <= Len(file)
  BY <1>1, <1>3 DEF accepted
<1>5. accepted(from, seq) \subseteq Int
  BY <1>1 DEF accepted
<1>6. \A n \in accepted(from, seq) :
        (\A m \in accepted(from, seq) : m <= n) => n = Len(file)
  BY <1>1, <1>4, <1>5
<1>7. readTo(from, seq) = Len(file)
  BY <1>4, <1>6 DEF readTo
<1> QED
  BY <1>1, <1>7 DEF from, seq

\* The record of the recorder grows at its end only.
LEMMA RecordReads == ASSUME Stream, Watch, RecorderNext, UNCHANGED monitorVars PROVE Watch'
<1>1. file \in Seq(Event)
  BY DEF Stream, RecorderTypeOK
<1>2. /\ file' = file \/ \E e \in batch : writer = "open" /\ file' = Append(file, e)
      /\ writer' \in {"none", "opening"} => writer \in {"none", "opening"}
      /\ writer' \in {"none", "opening"} => file' = file
  <2>1. CASE Offer
    BY <2>1 DEF Offer, writerVars
  <2>2. CASE run
    BY <2>2 DEF run, Drain, drain, Footer, FinalSync, Corrected, Refuse, MakeDir, OpenFile, Write
  <2> QED
    BY <2>1, <2>2 DEF RecorderNext
<1>3. NoFile'
  BY <1>2 DEF Watch, NoFile
<1>4. Excused'
  BY <1>2 DEF Watch, Excused, monitorVars
<1>5. Reads'
  <2>1. CASE file' = file
    BY <2>1 DEF Watch, Reads, monitorVars
  <2>2. ASSUME NEW e \in batch, file' = Append(file, e) PROVE Reads'
    <3>1. e \in Event
      BY DEF Stream, RecorderTypeOK
    <3>2. /\ Len(file') = Len(file) + 1 /\ Len(file) \in Nat
          /\ \A i \in 1 .. Len(file) : file'[i] = file[i]
      BY <2>2, <3>1, <1>1
    <3> QED
      BY <3>2 DEF Watch, Reads, monitorVars
  <2> QED
    BY <2>1, <2>2, <1>2
<1> QED
  BY <1>3, <1>4, <1>5 DEF Watch

\* A refresh reads the whole file, and knows of every loss in it.
LEMMA LookReads == ASSUME Stream, Watch, Look PROVE Watch'
<1>1. UNCHANGED <<writer, dir, file, cuts>> /\ cuts \in Nat
  BY DEF Look, recorderVars, writerVars, Stream, RecorderTypeOK
<1>2. NoFile'
  BY <1>1 DEF Watch, NoFile
<1>3. CASE ~made
  <2>1. unreadable
    BY <1>3 DEF Look, Refresh
  <2>2. Reads'
    BY <2>1, <1>1 DEF unreadable, Watch, Reads
  <2>3. Excused'
    BY <2>1 DEF unreadable, Excused
  <2> QED
    BY <2>2, <2>3, <1>2 DEF Watch
<1>4. CASE made
  <2> DEFINE again == opened /\ seenCuts # cuts /\ ~torn /\ Len(file) <= offset
             from == start(again)[1]
             seq == start(again)[2]
  <2>1. again \in BOOLEAN
    BY DEF Watch, Reads, Stream, RecorderTypeOK
  <2>2. /\ from \in 0 .. Len(file) /\ seq = IF from = 0 THEN 0 ELSE file[from].seq
        /\ readTo(from, seq) = Len(file)
    BY <2>1, ReadsAll DEF Watch
  <2>3. /\ offset' = Len(file)
        /\ lastSeq' = IF Len(file) = 0 THEN 0 ELSE file[Len(file)].seq
        /\ gap' = ((gap /\ ~again) \/ lossIn(from, seq, Len(file)))
        /\ err' = IF again THEN "none" ELSE err
        /\ opened' = TRUE /\ seenCuts' = cuts /\ early' = (early /\ ~again)
    <3>1. poll
      BY <1>4 DEF Look, Refresh
    <3> QED
      BY <3>1, <2>2 DEF poll
  <2>4. from = (IF again THEN 0 ELSE offset)
    BY DEF start
  <2>5. Len(file) \in Nat /\ gap \in BOOLEAN
    BY DEF Stream, RecorderTypeOK, Watch, Reads
  <2> HIDE DEF from, seq, again
  <2>6. ASSUME ~gap' PROVE \A i \in 1 .. Len(file) : file[i].seq = i
    <3>1. (gap => again) /\ ~lossIn(from, seq, Len(file))
      BY <2>3, <2>6
    <3>2. \A i \in 1 .. from : file[i].seq = i
      BY <3>1, <2>1, <2>4 DEF Watch, Reads
    <3>3. seq = from
      BY <3>2, <2>2, <2>5
    <3>4. \A i \in from + 1 .. Len(file) : file[i].seq = before(from, from, i) + 1
      BY <3>1, <3>3 DEF lossIn
    <3>5. from \in Nat /\ Len(file) <= Len(file)
      BY <2>2, <2>5
    <3>6. \A i \in from + 1 .. Len(file) : file[i].seq = i
      BY <3>4, <3>5, <2>5, InARow, Zenon
    <3> QED
      BY <3>2, <3>6, <2>2, <2>5
  <2>7. Reads'
    <3>1. /\ gap' \in BOOLEAN /\ err' \in {"none", "unreadable"}
          /\ offset' \in 0 .. Len(file)
      BY <2>1, <2>3, <2>5 DEF Watch, Reads, lossIn
    <3> QED
      BY <3>1, <2>3, <2>6, <1>1 DEF Reads
  <2>8. Excused'
    BY <2>1, <2>3 DEF Watch, Excused
  <2> QED
    BY <2>7, <2>8, <1>2 DEF Watch
<1> QED
  BY <1>3, <1>4

-----------------------------------------------------------------------------
(* The end and the view, of the specification.                             *)

LEMMA EndInit == Init => End /\ Watch /\ Kept
<1> SUFFICES ASSUME RecorderInit, MonitorInit PROVE End /\ Watch /\ Kept
  BY DEF Init
<1> USE DEF RecorderInit
<1>1. /\ held = {[seq |-> 1, nth |-> 1, kind |-> "started", dropped |-> 0]}
      /\ filed = {}
  BY DEF waiting, filed, held
<1>2. Single
  BY <1>1 DEF Single, Finals
<1>3. Places
  BY FS_EmptySet DEF Places
<1>4. Room
  <2>1. endLines \subseteq Finals /\ Len(file) = 0
    BY DEF endLines
  <2>2. Cardinality(endLines) \in Nat
    BY <2>1, FinalsCount
  <2>3. 0 <= unreserved /\ unreserved \in Int
    BY SizesAssumption DEF unreserved
  <2> QED
    BY <2>1, <2>2, <2>3 DEF Room
<1>5. Healthy /\ Marked
  BY DEF Healthy, Marked
<1>6. Kept
  BY DEF Kept, Behind, Finals
<1>7. Watch
  <2> USE DEF MonitorInit
  <2>1. Reads
    <3>1. 0 \in 0 .. Len(file) /\ \A i \in 1 .. 0 : file[i].seq = i
      OBVIOUS
    <3>2. /\ opened = FALSE /\ gap = FALSE /\ seenCuts = 0 /\ offset = 0
          /\ lastSeq = 0 /\ err = "none"
      OBVIOUS
    <3> QED
      BY ONLY <3>1, <3>2 DEF Reads
  <2>2. NoFile /\ Excused
    BY DEF NoFile, Excused
  <2> QED
    BY <2>1, <2>2 DEF Watch
<1> QED
  BY <1>2, <1>3, <1>4, <1>5, <1>6, <1>7 DEF End

LEMMA EndStill ==
  ASSUME Stream, End, UNCHANGED recorderVars
  PROVE  End' /\ (Kept => Kept')
<1>1. /\ held' = held /\ filed' = filed /\ endLines' = endLines
      /\ UNCHANGED <<caller, returned, closing, urgent, pc, batch, file, writer, dir, faults>>
  BY DEF recorderVars, attemptVars, writerVars, held, waiting, filed, endLines, kindsOf
<1>2. Single'
  <2>1. \A k \in Finals : Ahead(k)' => Ahead(k)
    BY AheadKeeps
  <2> QED
    BY <2>1, <1>1, SingleStays DEF End
<1>3. Places' /\ Room' /\ Healthy' /\ Marked'
  BY <1>1 DEF End, Places, Room, Healthy, Marked
<1>4. Kept => Kept'
  BY <1>1 DEF Kept, Behind, kindsOf
<1> QED
  BY <1>2, <1>3, <1>4 DEF End

LEMMA EInvKeeps == ASSUME EInv, [Next]_vars PROVE EInv'
<1>1. CASE Record
  <2>1. RecorderNext /\ UNCHANGED monitorVars
    BY <1>1 DEF Record
  <2>2. IInv'
    BY <2>1, OfferKeeps, RunKeeps, CalledKeeps DEF RecorderNext, IInv, EInv
  <2>3. End'
    BY <2>1, OfferEnd, RunEnd DEF RecorderNext, EInv, IInv
  <2>4. Watch'
    BY <2>1, RecordReads DEF EInv, IInv
  <2> QED
    BY <2>2, <2>3, <2>4 DEF EInv
<1>2. CASE Look
  <2>1. UNCHANGED recorderVars
    BY <1>2 DEF Look
  <2>2. IInv'
    BY <2>1, StutterKeeps, CalledKeeps DEF EInv, IInv
  <2>3. End' /\ Watch'
    BY <2>1, <1>2, EndStill, LookReads DEF EInv, IInv
  <2> QED
    BY <2>2, <2>3 DEF EInv
<1>3. CASE UNCHANGED vars
  <2>1. UNCHANGED recorderVars /\ UNCHANGED monitorVars
    BY <1>3 DEF vars
  <2>2. IInv'
    BY <2>1, StutterKeeps, CalledKeeps DEF EInv, IInv
  <2>3. End'
    BY <2>1, EndStill DEF EInv, IInv
  <2>4. Watch'
    BY <2>1 DEF recorderVars, writerVars, monitorVars, EInv, Watch, NoFile, Reads, Excused
  <2> QED
    BY <2>2, <2>3, <2>4 DEF EInv
<1> QED
  BY <1>1, <1>2, <1>3 DEF Next

LEMMA EndKeptInvariant == Spec => []EInv
<1>1. Init => EInv
  BY Initially, EndInit DEF EInv, IInv, Init, RecorderInit, Called
<1> QED
  BY <1>1, EInvKeeps, PTL DEF Spec

LEMMA KeptAlways == ASSUME Roomy PROVE Spec => []Kept
<1>1. Init => Kept
  BY EndInit
<1>2. ASSUME EInv, Kept, [Next]_vars PROVE Kept'
  <2>1. CASE Record
    BY <1>2, <2>1, OfferKept, RunKept DEF Record, RecorderNext, EInv, IInv
  <2>2. CASE UNCHANGED recorderVars
    BY <1>2, <2>2, EndStill DEF EInv, IInv
  <2> QED
    BY <1>2, <2>1, <2>2 DEF Next, Look, vars
<1> QED
  BY <1>1, <1>2, EndKeptInvariant, PTL DEF Spec

\* Where the directory does not fail, the footer is in the stream once the
\* recorder is done, and with it the last events of a run that returned, however
\* full the queue and the stream were: the 16 urgent places and the reserve are
\* enough for them (recorder.go:168-174, 283-292).
THEOREM EndAlwaysKept == ASSUME Roomy PROVE Spec => []EndKept
<1>1. EInv /\ Kept => EndKept
  <2> SUFFICES ASSUME EInv, Kept, pc = "done", faults = 0,
                      NEW k \in {"closed"} \cup (IF returned THEN {"finalized", "returned", "delivery"} ELSE {})
               PROVE  \E i \in DOMAIN file : file[i].kind = k
    BY DEF EndKept
  <2>1. closing /\ waiting = {} /\ batch = {} /\ caller = "closing"
    BY DEF EInv, IInv, Stream, Closed, End, Marked
  <2>2. held = filed
    BY <2>1 DEF held
  <2>3. k \in Finals /\ Behind(k)
    BY <2>1 DEF Finals, Behind
  <2>4. k \in kindsOf(filed)
    BY <2>2, <2>3 DEF Kept
  <2> QED
    BY <2>4 DEF kindsOf, filed
<1> QED
  BY <1>1, EndKeptInvariant, KeptAlways, PTL

\* A stream the page calls normal is the whole run up to its return: nothing was
\* lost, and nothing is shown that did not happen (monitor/projection.go:143-151).
THEOREM NormalAlwaysWhole == Spec => []NormalIsWhole
<1>1. EInv => NormalIsWhole
  <2> SUFFICES ASSUME EInv, view.quality = "normal"
               PROVE  /\ caller \in {"returned", "delivered", "closing"}
                      /\ \A i \in 1 .. offset : file[i].nth = i
    BY DEF NormalIsWhole
  <2>1. offset # 0 /\ recordQuality = "normal"
    BY DEF view
  <2>2. sawReturn /\ ~gap
    BY <2>1 DEF recordQuality
  <2>3. Len(file) \in Nat /\ DOMAIN file = 1 .. Len(file) /\ offset \in 0 .. Len(file)
    BY DEF EInv, IInv, Stream, RecorderTypeOK, Watch, Reads
  <2>4. \A i \in 1 .. offset : file[i] \in held
    BY <2>3 DEF held, filed
  <2>5. PICK e \in held : e.kind = "returned"
    BY <2>2, <2>4 DEF sawReturn, read
  <2>6. caller \in {"returned", "delivered", "closing"}
    <3>1. ~Ahead("returned")
      BY <2>5 DEF EInv, End, Single, Finals
    <3>2. caller \in Phase
      BY DEF EInv, IInv, Stream, RecorderTypeOK
    <3> QED
      BY <3>1, <3>2 DEF Ahead, Phase
  <2>7. \A i \in 1 .. offset : file[i].seq = i
    BY <2>2 DEF EInv, Watch, Reads
  <2> QED
    BY <2>4, <2>6, <2>7 DEF EInv, IInv, Stream, Numbered
<1> QED
  BY <1>1, EndKeptInvariant, PTL

\* And none is called corrupt for nothing: the recorder's own lines are in order,
\* so that its stream only is after a refresh that fell between the two steps of
\* openWriter and found a directory without a file (monitor/index.go:455).
THEOREM QualityAlwaysTrue == Spec => []QualityIsTrue
<1>1. EInv => early \/ CorruptIsDamaged
  <2> SUFFICES ASSUME EInv, view.quality = "corrupt" PROVE early
    BY DEF CorruptIsDamaged
  <2>1. recordQuality = "corrupt"
    BY DEF view
  <2>2. err = "unreadable"
    BY <2>1 DEF recordQuality, EInv, Watch, Reads
  <2> QED
    BY <2>2 DEF EInv, Watch, Excused
<1>2. Spec => [](early \/ CorruptIsDamaged)
  BY <1>1, EndKeptInvariant, PTL
<1> QED
  BY <1>2, NormalAlwaysWhole, PTL DEF QualityIsTrue

\* The variables of the recorder and of the index keep their types.
THEOREM ViewTypesKept == Spec => []TypeOK
<1>1. EInv => TypeOK
  <2> SUFFICES ASSUME EInv PROVE TypeOK
    OBVIOUS
  <2>1. RecorderTypeOK /\ Reads /\ early \in BOOLEAN
    BY DEF EInv, IInv, Stream, Watch, Excused
  <2>2. lastSeq \in Nat
    <3>1. file \in Seq(Event) /\ offset \in 0 .. Len(file)
      BY <2>1 DEF RecorderTypeOK, Reads
    <3>2. offset # 0 => file[offset] \in Event
      BY <3>1
    <3> QED
      BY <2>1, <3>2 DEF Reads, Event
  <2> QED
    BY <2>1, <2>2 DEF Reads, TypeOK
<1> QED
  BY <1>1, EndKeptInvariant, PTL
=================================================================================
