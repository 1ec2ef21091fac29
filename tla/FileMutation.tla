------------------------------ MODULE FileMutation ------------------------------
(***************************************************************************)
(* internal/tools/files.go and the part of internal/engine/execution.go    *)
(* that settles an interrupted write: write_file and edit_file replace one *)
(* file under a version check.                                             *)
(*                                                                         *)
(* A call names the version it has read.  The engine previews it without a *)
(* lock, then mutateFile, under the process-wide fileWrites, compares,     *)
(* writes and syncs a temporary file, compares again, and renames (links,  *)
(* when the file must not exist) it over the target.  Calls of one process *)
(* run concurrently, an outsider edits the file, system calls fail, the    *)
(* process dies and the machine may lose power.                            *)
(*                                                                         *)
(* A version is a number: the hash of a content nobody else ever writes.   *)
(* What an outsider saves is on disk at once.                              *)
(***************************************************************************)
EXTENDS Naturals, FiniteSets

CONSTANTS
    Calls,      \* write_file and edit_file calls of the agent
    NoCall,
    Torn,       \* what the path shows when a power loss cut its data short
    MaxForeign, \* bound: edits by an outsider
    MaxCrashes  \* bound: deaths of the process

ASSUME CallsAssumption == NoCall \notin Calls
ASSUME BoundsAssumption == MaxForeign \in Nat /\ MaxCrashes \in Nat
ASSUME TornAssumption == Torn \notin Nat

Missing == 0

VARIABLES
    path,    \* the version the path shows
    safe,    \* the versions the path may show after a power loss
    onDisk,  \* versions whose data a power loss cannot tear
    next,    \* the next unused version
    lock,    \* fileWrites
    call,    \* each call: where it stands, version expected, version written, was it previewed?
    effect,  \* what the engine records of each call's effect
    foreign, crashes, \* counters for the bounds
    installed,  \* history: calls whose content reached the path
    success,    \* history: calls whose tool returned without an error
    overtaken   \* history: calls an outsider saved behind, after their last comparison

fileVars == <<path, safe, onDisk, next, lock, call, effect, foreign, crashes, installed, success, overtaken>>

Stages == {"new", "started", "prepared", "written", "synced", "checked",
           "installed", "failed", "over"}
New == [at |-> "new", before |-> Missing, after |-> Missing, previewed |-> FALSE]

FileInit ==
    /\ path \in {Missing, 1}
    /\ safe = {path} /\ onDisk = {path}
    /\ next = 2
    /\ lock = NoCall
    /\ call = [c \in Calls |-> New]
    /\ effect = [c \in Calls |-> "unset"]
    /\ foreign = 0 /\ crashes = 0
    /\ installed = {} /\ success = {} /\ overtaken = {}

At(c, stage) == call[c].at = stage
Go(c, stage) == call' = [call EXCEPT ![c].at = stage]

\* The hook before dispatch: previews without the lock and records the start.
\* The agent has read some version, which need not be the current one.
Start(c) ==
    /\ At(c, "new")
    /\ \E expected \in 0..(next - 1) :
          call' = [call EXCEPT ![c] = [at |-> "started", before |-> expected, after |-> next,
                                       previewed |-> expected = path]]
    /\ next' = next + 1
    /\ effect' = [effect EXCEPT ![c] = "unknown"]
    /\ UNCHANGED <<path, safe, onDisk, lock, foreign, crashes, installed, success, overtaken>>

Reject(c) ==
    /\ Go(c, "over")
    /\ effect' = [effect EXCEPT ![c] = "none"]

\* Mutant: mutateFile does not lock.
PrepareUnlocked(c) ==
    /\ At(c, "started")
    /\ IF path = call[c].before THEN Go(c, "prepared") /\ UNCHANGED effect ELSE Reject(c)
    /\ UNCHANGED <<path, safe, onDisk, next, lock, foreign, crashes, installed, success, overtaken>>

\* mutateFile takes the lock; prepareMutation refuses a version that is not current.
Prepare(c) ==
    /\ At(c, "started") /\ lock = NoCall
    /\ IF path = call[c].before
       THEN lock' = c /\ Go(c, "prepared") /\ UNCHANGED effect
       ELSE Reject(c) /\ UNCHANGED lock
    /\ UNCHANGED <<path, safe, onDisk, next, foreign, crashes, installed, success, overtaken>>

\* commitFile: a call that fails leaves the deferred unlock to run.
Fails(c) ==
    /\ call[c].at \in {"prepared", "written", "synced", "checked", "installed"}
    /\ Go(c, "failed")
    /\ lock' = NoCall
    /\ UNCHANGED <<path, safe, onDisk, next, effect, foreign, crashes, installed, success, overtaken>>

WriteTemp(c) ==
    /\ At(c, "prepared")
    /\ Go(c, "written")
    /\ UNCHANGED <<path, safe, onDisk, next, lock, effect, foreign, crashes, installed, success, overtaken>>

SyncTemp(c) ==
    /\ At(c, "written")
    /\ onDisk' = onDisk \cup {call[c].after}
    /\ Go(c, "synced")
    /\ UNCHANGED <<path, safe, next, lock, effect, foreign, crashes, installed, success, overtaken>>

Compare(c) ==
    /\ At(c, "synced")
    /\ IF path = call[c].before
       THEN Go(c, "checked") /\ UNCHANGED <<lock, effect>>
       ELSE Reject(c) /\ lock' = NoCall
    /\ UNCHANGED <<path, safe, onDisk, next, foreign, crashes, installed, success, overtaken>>

\* Link refuses a path that exists, Rename replaces whatever is there.
Install(c) ==
    /\ At(c, "checked")
    /\ IF call[c].before = Missing /\ path # Missing
       THEN Go(c, "failed") /\ lock' = NoCall /\ UNCHANGED <<path, safe, installed>>
       ELSE /\ path' = call[c].after
            /\ safe' = safe \cup {call[c].after}
            /\ installed' = installed \cup {c}
            /\ Go(c, "installed") /\ UNCHANGED lock
    /\ UNCHANGED <<onDisk, next, effect, foreign, crashes, success, overtaken>>

\* Mutant: the directory is not synced.
SkipSyncDir(c) ==
    /\ At(c, "installed")
    /\ lock' = NoCall
    /\ Go(c, "over")
    /\ effect' = [effect EXCEPT ![c] = "confirmed"]
    /\ success' = success \cup {c}
    /\ UNCHANGED <<path, safe, onDisk, next, foreign, crashes, installed, overtaken>>

SyncDir(c) ==
    /\ At(c, "installed")
    /\ safe' = {path}
    /\ lock' = NoCall
    /\ Go(c, "over")
    /\ effect' = [effect EXCEPT ![c] = "confirmed"]
    /\ success' = success \cup {c}
    /\ UNCHANGED <<path, onDisk, next, foreign, crashes, installed, overtaken>>

\* Mutant: whatever is not the new version is taken for no effect.
SettleOptimistic(c) ==
    /\ At(c, "failed")
    /\ effect' = [effect EXCEPT ![c] = IF path = call[c].after THEN "confirmed" ELSE "none"]
    /\ Go(c, "over")
    /\ UNCHANGED <<path, safe, onDisk, next, lock, foreign, crashes, installed, success, overtaken>>

\* execute, and reconcile after a restart, compare the file with both versions.
Settle(c) ==
    /\ At(c, "failed")
    /\ effect' = [effect EXCEPT ![c] =
          IF call[c].previewed /\ path = call[c].after THEN "confirmed"
          ELSE IF call[c].previewed /\ path = call[c].before THEN "none"
          ELSE "unknown"]
    /\ Go(c, "over")
    /\ UNCHANGED <<path, safe, onDisk, next, lock, foreign, crashes, installed, success, overtaken>>

ForeignEdit ==
    /\ foreign < MaxForeign
    /\ foreign' = foreign + 1
    /\ path' = next
    /\ safe' = {next}
    /\ onDisk' = onDisk \cup {next}
    /\ next' = next + 1
    /\ overtaken' = overtaken \cup {c \in Calls : At(c, "checked")}
    /\ UNCHANGED <<lock, call, effect, crashes, installed, success>>

\* The process dies and comes back: started calls are settled by reconcile.
Crash ==
    /\ crashes < MaxCrashes
    /\ crashes' = crashes + 1
    /\ lock' = NoCall
    /\ call' = [c \in Calls |-> IF call[c].at \in {"new", "over"} THEN call[c]
                                ELSE [call[c] EXCEPT !.at = "failed"]]
    /\ \/ UNCHANGED <<path, safe>>
       \/ \E v \in safe :
             /\ path' = IF v \in onDisk THEN v ELSE Torn
             /\ safe' = {path'}
    /\ UNCHANGED <<onDisk, next, effect, foreign, installed, success, overtaken>>

FileNext ==
    \/ \E c \in Calls :
          \/ Start(c) \/ Prepare(c) \/ WriteTemp(c) \/ SyncTemp(c) \/ Compare(c)
          \/ Install(c) \/ SyncDir(c) \/ Fails(c) \/ Settle(c)
    \/ ForeignEdit \/ Crash

FileSpec == FileInit /\ [][FileNext]_fileVars

(***************************************************************************)
(* Properties.                                                             *)
(***************************************************************************)
\* Types, and fileWrites is held by the call that is inside commitFile.
FileTypes ==
    /\ path \in Nat \cup {Torn} /\ safe \subseteq Nat \cup {Torn} /\ onDisk \subseteq Nat
    /\ next \in Nat /\ lock \in Calls \cup {NoCall}
    /\ \A c \in Calls :
          lock = c <=> call[c].at \in {"prepared", "written", "synced", "checked", "installed"}
    /\ call \in [Calls -> [at : Stages, before : Nat, after : Nat, previewed : BOOLEAN]]
    /\ effect \in [Calls -> {"unset", "unknown", "none", "confirmed"}]
    /\ installed \subseteq Calls /\ success \subseteq Calls /\ overtaken \subseteq Calls

\* No crash and no power loss shows a reader half of a content.
FileWhole == path # Torn

Installs(c) == installed' # installed /\ c \in installed' \ installed

\* TOOL-05: a call replaces the version it names, so that of two calls on one
\* version one succeeds, and overwrites no newer one (FS-04,
\* docs/functional-test-cases.md:194).  The one exception is what an outsider
\* saves behind the last comparison: the rename undoes that edit without a
\* conflict, a link does not, and neither ever undoes the work of another call.
ReplacesOnlyItsVersion ==
    [][\A c \in Calls : Installs(c) =>
          \/ path = call[c].before
          \/ /\ c \in overtaken /\ call[c].before # Missing
             /\ \A d \in installed : path # call[d].after]_fileVars

\* A call whose tool succeeded is not taken back by a power loss.
SuccessSurvives ==
    \A c \in success : call[c].before \notin safe

\* "confirmed" is recorded only for a content that did reach the file, and after
\* "none" the content is not there and no power loss brings it up.
EffectTrue ==
    \A c \in Calls :
        /\ effect[c] = "confirmed" => c \in installed
        /\ effect[c] = "none" => call[c].after \notin safe \cup {path}
================================================================================
