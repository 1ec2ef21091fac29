# A specification of go-agent-claw

TLA+ models of the parts of this agent that have to be right when something
goes wrong: a task that survives crashes, effects that are never repeated or
forgotten, approvals that let exactly one action through, subagents that stay
within their share, readings that are believed only where they were seen, and a
monitor that says what it does not know. TLC checks each model on a small instance; TLAPS
proves the invariants that matter most for every value of the constants.

1. [The system](#1-the-system)
2. [Modules](#2-modules)
3. [Runs](#3-runs)
4. [Proofs](#4-proofs)
5. [What the checks found](#5-what-the-checks-found)
6. [Not modelled](#6-not-modelled)
7. [Plan](#7-plan)

## 1. The system

go-agent-claw runs a language model in a loop with tools over a workspace. An
entry point (`cmd/claw`, or the Feishu bot in `cmd/agentops`) submits a task to
the engine; the engine asks a provider for the next step, executes tools, and
records every event of the task in a log so that a later process can resume.
Beside the task record, each run writes an observation stream that a local
monitor reads and shows.

    Feishu platform --events--> feishu.Bot --task--> engine.Run <--task-- cmd/claw
                                   |  approvals         |   |  |
                                   +---- guard ---------+   |  +--- observe.Attempt --> events.jsonl
                                                            |                                |
              provider (model)  <---- requests -------------+                                | poll
              tools (files, bash) <-- calls ----------------+                                v
              taskstore (log, snapshot) <-- every event ----+-----------------------> monitor.Index --SSE--> page

| Component | State | Operations | Hard behaviours | What makes it correct |
|---|---|---|---|---|
| `taskstore` (store.go) | lock file, `events.jsonl`, `snapshot.json`, artifacts; per task: sequence, offset, writeError | Open, CreateTask, OpenTask, Append, SaveSnapshot, ReadArtifactPage, Close | any call may fail, a process may die between two calls, a power loss takes back what was not synced, a second process | an acknowledged event survives; the log stays readable; a snapshot is never ahead of the log |
| `taskstore` (reader.go) | offset, anchor, file identity | Poll | reads without a lock what recovery truncates and others replace | what the monitor has of a log nobody has touched since is that log |
| `engine`, one run (loop, run_state, persistence, execution, verification, delivery, plan, closing) | task state (limits, usage, plan, pending actions, effects, completed actions, verification, last result), the run's context, clock | create, resume, reconcile, plan, ask, execute, verify, deliver, close | crash between a charge, an effect and its receipt; a failed append; the clock's own append; edits from outside; budgets across resumes | charged before used; no effect forgotten or denied; no repetition; verification holds for the content delivered; the run ends |
| `engine` delegation, subagents, handoff | ledger of admitted subtasks, two slots, reports and what they depend on | admitSubtask, RunSub, finishSubtask, finalizeHandoff, refreshHandoff | parallel admission, shared and local budgets, resume, files that change under a report | at most two per task; disjoint paths; each within its share; what is shown as standing is current |
| `engine` readonly closing | failure boundaries, closings | noteReadonlyResult, resumedReadonlyStop, reserveReadonlyClosing | counted over resumes, repaired in between | stops at three, closes once per boundary, leaves a state that can be loaded |
| `engine` reading (catalog, reuse, coverage) | receipts by version, exposures, intervals | remember, invalidate, rejectDuplicateRead, coverageFromManifest | files that change between readings, requests that leave text out | a read is refused only when its content is still at hand; "complete" is true |
| `engine` analysis (contract, evidence, runtime, context) | evidence, delivered ids, reports and summaries of each agent | captureAnalysisRead, prepareAnalysisRequest, acceptAnalysis, mergeAnalysisReports | notes about text that was not delivered or has changed, folding, merging at a limit | a finding that is kept quotes what was delivered; what a request leaves out it speaks of |
| `tools` write_file, edit_file (files.go) | the file, `fileWrites` | PreviewWrite, mutateFile, commitFile | concurrent calls, outsiders, crashes around the rename | a call replaces only the version it names; readers see whole files; a success survives |
| `tools` registry, scope, bash, reading, finding | middleware, modes, allowed paths | Execute, VisibleTools | cancellation, child processes | a call outside the mode or scope is rejected |
| `feishu` (bot, approval, ledger) | queues, workers, gates, pending approvals, markers on disk | handle, worker, guard, resolve, Close | events delivered twice or late, two chats in one directory, cancel against gate, timeouts, restarts | a task starts once and in order; one run per directory; an action runs only on one approver's answer for what was shown |
| `observe` (recorder.go) | bounded queue, urgent queue, counters, the writer's file | Emit, Returned, Close, the writer goroutine | queue and stream full, failing disk, half writes, heartbeat against return | order; losses are declared; the end of a run is kept |
| `monitor` index, projection | offset, last number, gap, error per stream; per task the log's events and the attempts | Refresh, poll, scanObservations, detect | reads files that are being written, cut, created and replaced; log and streams lag differently | never vouches for an incomplete record, never condemns a sound one, shows no report of a superseded run, catches up |
| `monitor` server, page | ring of announcements, subscribers; cursor, timer, requests of the page | Notify, stream, reconnect, fetch | slow and reconnecting subscribers, answers that overtake each other | no change is lost on the way to the page |
| `context` | conversation, working memory | Append, GetWorkingMemory, CompactWithin, CompactAnalysisWithin | cutting between a call and its result | messages that belong together stay together, and fit |
| `observability`, `provider`, `runtimeenv`, `schema`, `eval`, `cmd` | spans, HTTP clients, defaults, types | - | - | - |

Shared state: the workspace (tools, outsiders and several runs), the task
record (one process at a time through the lock, the monitor without it), the
observation stream (one writer, any number of readers). Callbacks: the engine
calls the bot's `guard` before an action, and the bot's context cancels the run.
The hazards of the code, each at its line and with the properties that cover it,
are listed in `PROJECT.json`.

## 2. Modules

| Module | Models | State and actions |
|---|---|---|
| `DurableLog` | what a task's log promises | a log that only grows, of which an acknowledged prefix never shrinks |
| `TaskStore` | `taskstore/store.go` | one action per system call of Open, CreateTask, OpenTask, Append and SaveSnapshot, each of which may fail; `Die` and `PowerLoss`. The file is a sequence of lines and a flag for a torn one. Implements `DurableLog` |
| `TaskRun` | `engine` from task creation through crashes and resumes | `mem` is `runState.state`; `durable` the set of states a restart may find (a failed append may or may not have reached the disk: exactly what `DurableLog` allows). One action between any two points where a crash, the end of the context, a failing append or an outsider can come |
| `FeishuBot` | `feishu/bot.go`, `approval.go`, `ledger.go` | the platform delivers any event again at any time; one worker per chat; gates, approvals, timers, Close, crashes, restarts |
| `FileMutation` | `tools/files.go`, and the comparison in `engine/execution.go` that settles an interrupted write | commitFile call by call: temporary file, sync, comparison, rename or link, directory sync; concurrent calls, outsiders, crashes |
| `Recorder` | `observe/recorder.go` | offering events under the mutex (`Work`, `Heartbeat`, `Finalize`, `Mark`, `Returned`, `Deliver`, `Close`) and the writer goroutine (`Drain`, `Refuse`, `MakeDir`, `OpenFile`, `Write`, `Footer`, `FinalSync`, `Corrected`) |
| `Observation` | `monitor/index.go` (poll), `projection.go` (scanObservations), over `Recorder` | `Refresh` reads what is new in a stream; `view` is what the page is given |
| `PlanOrder` | `engine/plan.go` | the search of `checkPlan`, `readyStep`, and what a patch keeps, as operators |
| `Delegation` | `engine/delegation.go`, `subagent.go`, `handoff.go` in the task's run | admission, the shares, the two parallel subagents step by step, their reports, and what the task's agent is shown of them (`view`); edits, cancellation, a failing append and a crash between any two steps |
| `ReadFile` | `tools/read_file.go`, `read_lines.go`; `knownReadInterval` and the interval arithmetic of `read_reuse.go` and `reading_coverage.go` | pure: which bytes a read returns, what can be told of another one from them, gaps and overlaps |
| `Context` | `context/session.go`, `compactor.go` | pure: the working memory of a conversation, and how a request is made to fit |
| `Artifact` | `taskstore/store.go` (pages of an artifact) | pure: pages by bytes, cut between characters |
| `Conversation` | `engine/loop.go` (generateRequest, converse, executeBatch) with `read_reuse.go`, `read_catalog.go`, `reading_coverage.go`, `readonly_closing.go`, over `ReadFile` and `Context` | a readonly question: requests, parallel calls step by step, what is remembered of reads, counters of refusals, coverage, closings, resumed runs |
| `AnalysisReport` | `engine/analysis_evidence.go`, `analysis_contract.go`, merging, over `ReadFile` | pure: citations, which findings hold, reports |
| `AnalysisCheck` | the search of `ValidateAnalysisReport` (`engine/analysis_contract.go`) | pure: `check` as it recurses, for TLC only: an assumption of `MCAnalysis` compares what it keeps with `Holding` |
| `Analysis` | `engine/analysis_runtime.go`, `analysis_context.go` within the loop | `sources`, `delivered`, `accepted`, `exposed` of the run; the evidence and the notes of each agent, in memory and in the log; the task's agent and subagents that run beside its calls |
| `MonitorIndex` | `monitor/index.go` (Refresh), `projection.go`, `taskstore/reader.go`, with what the engine and the recorders write | the log as bytes and the streams of the attempts on disk; the reader's offset, anchor and file; `shown`, what the index has of the task |
| `Monitor` | `monitor/server.go`, `cmd/claw-monitor`, `web/app.js`, over `MonitorIndex` | ring, channel, connection and cursor; the page's timer and requests |
| `MCTaskRun`, `MCFeishuBot`, `MCDelegation`, `MCConversation`, `MCAnalysis`, `MCMonitor` | - | values for TLC, and assumptions that compare the pure operators with what they stand for |
| `RecordProofs` (`TaskStore`, `Monitor`), `FileProofs` (`FileMutation`, `Observation`), `ReadFileProofs`, `TaskRunProofs`, `DelegationProofs`, `FeishuBotProofs`, `ConversationProofs`, `AnalysisProofs` | - | theorems and proofs |

`Recorder` and `Observation` are composed in one specification, as are the engine's
writing, `MonitorIndex` and the page in `Monitor`. `TaskRun` and
`TaskStore` meet in `durable`: the store's refinement of `DurableLog` is what
entitles `TaskRun` to its set of possible logs. `FeishuBot` has the engine's run
as one stage in which it may ask, act and end at any time, and `TaskRun` has a
tool's write as one step, whose inside is `FileMutation`. `Conversation`,
`Delegation` and `Analysis` are the same loop as `TaskRun`, each with the part of
the state that `TaskRun` leaves out: `mem` and `durable` have the same meaning, and
an append may fail in the same way.

Abstractions worth knowing when reading a model beside the code:

- **TaskStore.** Payloads are opaque; every line has the same length, so an
  offset counts lines. flock, page cache and disk are modelled as used: a crash
  of a process keeps the page cache, a power loss does not.
- **TaskRun.** The workspace is one file with a version. Plans are sets of steps
  (dependencies only restrict the order, which is left open). The counter of
  repeated failures becomes "blocked after a failing result". Reads that the
  engine runs in parallel are taken one by one, since they share nothing but the
  budget, which is charged under the mutex (`Conversation` has them in parallel).
  What subagents do inside one call, read-only closings, reading and analysis state
  are in other modules. A tool's handler is one step; the race inside it is
  FileMutation's.
- **Delegation.** What the models say is a choice among the reports of the
  instance. A finding cites one version of one file. The expansion of a directory
  into files is part of the range a call asks for. The scope "manifest" of a
  finding is checked when the report is delivered, as in the code, and not again.
- **Conversation.** The thinking request, plan steps, the turn budget and writing
  tools are not in it. A file is edited only if the task's menu reads it. Which
  faults happen is part of the task explored. The window of 20 messages is 3 here,
  the 3 messages it may go back for a user's are 1.
- **Analysis.** A text is a name; a quotation is made of bytes and is looked for in
  what the read returned. Preparing a request and accepting a note look at the
  files once. Overview ids and the scope "manifest" are not exercised; neither are
  closings and plan steps, whose last report replaces the one before.
  Agents of a resumed run have new names, so older notes are never consulted, as in
  the code.
- **MonitorIndex.** A line of the log is two bytes long, or three when it is of
  another copy of the log, so that offsets fall within lines. A refresh reads a
  stream as a whole; reading it piece by piece is `Observation`. Attempts are
  numbered in the order of their start. The index may look at any moment, also between
  a task's directory and its log; `early` is history of such a look, until the index
  begins anew. A log that another file takes the place of while it is being read is left
  out: the reader would go on with the file it has open, and find out at the next look.
- **Monitor.** An answer carries the whole of what the index shows. A fetch that
  fails is not repeated before the next change, and is not modelled.
- **FeishuBot.** Approval ids, random text in the code, are a task and a number.
  Messages that `handle` drops before it touches any state (unknown chat, sender
  not authorised) are assumptions on the constants.
- **FileMutation.** A version is a number nobody else uses, which is what a hash
  is for. Path confinement and fuzzy matching only decide whether there is a new
  content, and which. Outsiders save at any moment; `overtaken` is history of the calls
  somebody saved behind, between their last comparison and their rename.
- **Observation.** The monitor looks at any moment, also between the two steps of
  `openWriter`; `early` is history of such a look, until the index begins anew.
- **Recorder.** A line is as long as a record may be, so sizes count lines; an
  event may also be too long by itself (`~fits`). The wake channel is left out:
  the ticker lets the writer look at any time. `happened` and `nth` are history.
  A process that is killed takes no more steps, which nothing in the
  specification forbids.

## 3. Runs

All runs say `CHECK_DEADLOCK FALSE` where the system may really stop: a process
that is down for good, a stream that is closed. `TaskStore` can always go on.

| Run | Instance | Shows |
|---|---|---|
| `task_store` | 2 processes, 2 payloads, 3 events | `AckedSurvives`, `SnapshotNotAhead`, `ImplementsDurableLog` |
| `task_run` | a change with a verification command; 2 runs, 2 tool calls, 2 contents, 1 outside edit | `NoEffectForgotten`, `LedgerIsTrue`, `QuietWhileUnknown`, `VerifiedIsCurrent` |
| `task_run_plan` | a planned change, 2 runs, a tool limit the second one raises | `ChargedBeforeUsed`, `NoReplay`, `ClosedOnce`; with all of these runs, the assumptions on `PlanOrder` |
| `task_run_ends` | one run with a plan and verification, fair | `RunEnds` |
| `feishu_queue` | 2 chats on 1 directory, 3 tasks, 1 cancel, 2 starts of the process, queues of 2, fair | `OnceInOrder`, `OneRunPerDirectory`, `CancelHitsOne`, `StoppedNeverBegins`, `EveryTaskAnswered`, `CloseReturns` |
| `feishu_approval` | 1 task that asks twice, 3 answers from two chats, 1 outside change | `ActsAreGranted`, `WritesKeepTheirVersion` |
| `file_mutation` | 2 concurrent calls, 2 outside edits, 2 crashes | `SuccessSurvives`, `EffectTrue`, `ReplacesOnlyItsVersion` |
| `observation` | queue of 1, stream of 9 lines with 6 in reserve, 1 gap record, 2 ordinary events, 1 failure of the directory, fair | `FileInOrder`, `LossesDeclared`, `EndKept`, `QualityIsTrue`, `ViewSettles` |
| `delegation` | 3 calls for 2 places, shares of 2 requests and 3 tool calls, 2 files, 1 edit, 2 runs; delegation auto, on and off | `DelegatesTwice`, `ShareIsCharged`, `StandingIsCurrent` |
| `conversation` | 6 tasks: one text asked for in several ways, a workspace read to the end, paths that cannot be listed over 3 runs, the same with failing appends and cancellation, a review of an earlier read, a request that cannot fit; files of up to 10 bytes with a character of two, a window of 3 messages | `RefusedMeansShown`, `CompleteIsRead`, `RequestIsLegal`, `ClosesOnce`, `StateStaysValid`; assumptions on `ReadFile` and `Artifact` |
| `analysis` | 4 tasks: notes that replace and merge, a report about a whole file, a subagent, 2 runs with failing appends and crashes; 1 file in 2 versions, up to 2 findings and 1 item to verify in a report | `CitedIsSeen`, `LeftOutIsNoted`; an assumption on `AnalysisReport` |
| `monitor` | 7 courses: a task that runs once or twice with a crash, lost events, silence, a log replaced or moved away; a page with a ring and a channel of one announcement and a connection that breaks | `ReadsTheLog`, `NothingMissed`, `NoStaleReport` |

Where the code does not keep what is promised, the exception is in the property and not
in the steps: outsiders save, and the monitor looks, at any moment.
`ReplacesOnlyItsVersion` lets a rename undo what was saved behind the last comparison
(`overtaken`), and nothing else; `QualityIsTrue` and `ReadsTheLog` excuse a mark only
after a look that came too early (`early`); and `ViewSettles` is about the view with that
mark, which is there for good. Section 5 says what each exception stands for.

Why the bounds are enough for the interesting cases to happen: three events let a
log have an acknowledged, an unacknowledged and a torn line at once; two runs of a
task are an interruption and what resumes from it; one directory, two chats and
three tasks make a queue behind a running task and a rival at the gate; a queue of
one overflows with the second event while the writer sleeps; three ordinary lines
fill the stream's ordinary part, so that a gap record uses the reserve; one
failure is each of mkdir, open, write (cut off or not) and sync in turn. Three calls
for two places need a refusal, in one run or over two; one edit makes a finding stale
together with what depends on it. A window of three messages drops the call of a
result and the last message of a user, and a request of twelve units masks, drops and
refuses; ten bytes take two reads of eight, one of which ends within a line. Two
versions of a file and two runs make every evidence stale that can be. A channel and
a ring of one are full with the second announcement, and a cursor may be before
the ring. Every
property has a mutant of the code in the modules (`\* Mutant:`) under which TLC
finds it violated in the same instance.

**Fairness.** `TaskRun`: weak fairness of the run's own steps; a call to the model
or a tool returns at the latest when the deadline context ends. `FeishuBot`: weak
fairness of each worker (a goroutine), of the end of a run (its deadline), of each
approval's timer and of Close's wait. Nothing is assumed of the platform, of users
or of crashes, so `EveryTaskAnswered` excepts a process that is closed or dies.
`Observation`: weak fairness of the monitor's ticker and of nothing in the process
observed, which may be killed at any step. `Delegation`, `Conversation`, `Analysis` and
`Monitor` assume no fairness; what would be a liveness property of the page is said as
the invariant `NothingMissed`: as long as page and index differ, something is under way
that brings them together.

**Assumptions as checks.** The pure operators are compared with a definition of what
they stand for, on every small input, when TLC starts: `KnownIsExact` (what one read
tells of another request is what that request returns), `GapsAreTheRest` (gaps and
overlaps against sets of bytes), `PagesMakeTheWhole` (pages of an artifact, with bytes
that are no UTF-8), `CheckIsHolding` (the search of `ValidateAnalysisReport` against
the findings that can be put in order), `AcceptedIsOrdered` and `PatchedIsNeverStuck`
(`checkPlan` against the existence of an order; `readyStep` finds no step only when all
are done, however often a plan was worked at and patched; `runTask` takes that for the
end).

What some properties do not say: a marker that was created but not synced can lose
an event (delivery is at most once, `ClaimTorn`); commands have no version and are
not checked again after the approval, only writes are; `VerifiedIsCurrent` speaks
of the content at the run's last look; `EndKept` needs a directory that does not
fail and a process that lives; "normal" means that the lines shown are the first
events of the run without exception, while what was lost after the return, with a
footer that was lost too, remains unseen. `StandingIsCurrent` speaks of the moment a
request is prepared, `CitedIsSeen` of the moment a note is accepted: a file may be
edited right after. `NoStaleReport` is said of a log that nobody has replaced:
one that was put back by hand may match an old end by its number for one refresh.

## 4. Proofs

The state invariants of a component are not inductive by themselves. Each proof
module defines the strengthening, which TLC has checked as an invariant of the
same instance, and proves it action by action.

| Module | Invariant | Why it is needed | Theorems |
|---|---|---|---|
| `RecordProofs` | `Durable` | who has anything open holds the lock; what a registered task knows of its log (its sequence lies between the acknowledged and the written lines, and is the end unless a write failed); lines on disk reach at least to every snapshot | types, `AckedSurvives`, `SnapshotNotAhead`, that the log stays readable (`LogReadable`) and a usable task's offset is its end (`OffsetIsEnd`), and `StoreImplementsLog`: the store implements `DurableLog` |
| `TaskRunProofs` | `Honest` | a restart may find any state of `durable`, so `Kept` must hold of all of them and of the memory that is written next; between a charge and its use, and between an action's start and its receipt, the counts differ by exactly the step under way | types, `ChargedBeforeUsed`, `NoEffectForgotten`, `QuietWhileUnknown`, `ClosedOnce` |
| `TaskRunProofs` | `Truthful`, on top of `Honest` | whatever is in the log or in memory is `Faithful`: an action that was entered is without effect, answered by a receipt for its request, or still pending, and what is pending can be told from the file. While an action is executed the log holds only the state that has it pending; a run's receipts answer for every action of the runs before it (`Answered`), so that a call that is let through repeats nothing that had an effect (`Ready`); the verifier's evidence names the content it started on | `NoReplay`, `LedgerIsTrue`, `VerifiedIsCurrent` |
| `FileProofs` | `Sound` | versions handed out are fresh and unseen before their rename; from the last comparison to the rename the file is the version the call names or one an outsider has saved since, of which no call is the author | types, `SuccessSurvives`, `EffectTrue`, `ReplacesOnlyItsVersion`, and that readers see whole files (`FileWhole`) |
| `FileProofs` | `IInv` | an event is waiting, in the batch, in the file or counted as dropped; the three places hold them in the order of their numbers; a footer under way already knows all that is missing before it; the caller marks the return before recording it | types, `FileInOrder`, `LossesDeclared` |
| `FileProofs` | `EInv`, on top of `IInv`; `Kept` | each of the four records of the end is made once (`Single`), so that few of them wait behind the queue (`Places`) and few lines of the reserve are taken (`Room`); while the directory does not fail, the file can be made and what was made is in the queues, the batch or the file (`Healthy`, `Kept`). What the index has read is a beginning of the file, numbered in a row unless it knows of a loss (`Watch`) | `EndKept`, `NormalIsWhole`, `QualityIsTrue`, types of the index |
| `DelegationProofs` | `IInv` | the ledger in memory and every ledger in the log charge each admitted call with what it sent and tried (`LedgerTrue`); a sub-agent that works was admitted, in the log too (`SubsAdmitted`); a finding that is delivered as valid cites what its sub-agent read (`ReportsTrue`), and the items of a view come from those reports (`ViewTrue`). That what stands rests on what stands needs `GroundedStands`: the search of `checkHandoffDependencies` is a least fixpoint | types, `DelegatesTwice`, `ShareIsCharged`, `StandingIsCurrent` |
| `FeishuBotProofs` | `IInv` | a task waits in one queue, has been taken by one worker or is past (`Queue`, `Busy`, `Claimed`, `Begun`); who is inside a directory holds its gate (`Gated`); an approval that was answered is gone, so no other answer can meet it, and a worker that acts holds the grant of just this id, for the version it showed (`AsksTrue`, `GrantsTrue`, `ActsTrue`) | types, `OnceInOrder`, `OneRunPerDirectory`, `CancelHitsOne`, `ActsAreGranted`, `WritesKeepTheirVersion`, and the action property `StoppedNeverBegins` |
| `RecordProofs` | `IInv` | the ring holds the last announcements without a gap, the channel what came after the cursor unless it was cut (`Notices`, `Kept`); what the page has been told of it has fetched, is fetching or will (`Caught`, `Asked`) | `NothingMissed` |
| `RecordProofs` | `RInv`, on its own | a task without a log has not been read, and an error the index knows of is that of an early look, or of a log that is gone or another file (`Directory`), and the offset of the reader is the end of an event, its anchor that event, and what it holds the events before it (`Polled`); what was read of an attempt's stream is a beginning of that stream, and a report that is shown is the newest attempt's (`Streams`). Scanning the bytes behind the offset gives the lines that end there, one after another, which needs `endOf` and `byte` as functions of the position | types, `ReadsTheLog`, and the action property `NoStaleReport` |
| `ConversationProofs` | `IInv` | the state in memory and the one the log yields are both good, and one while appends succeed (`Ledger`); a boundary counts a refusal once its result is noted, and those still to be noted are counted apart (`Owed`); what is kept of a read is what it returned, of the version the file had (`Reads`); while calls run, what counts as shown is whole in the request answered last (`Exposed`) | `ClosesOnce`, `StateStaysValid`, `RefusedMeansShown` |
| `ConversationProofs` | `Covered`, on top of `IInv` | a receipt is of a read of a version the file has had, and what a report takes for complete was read whole in a version the file has had since the report was begun. That no gap is left where every byte was read, and none is missed, is `GapsCover`: an induction over the readings in the order of their places (`SweepIs`) | `CompleteIsRead` |
| `ConversationProofs` | `Heard`, on top of `IInv` | a session begins with the question, each of its answers is followed by a result of each of its calls, and the request that is under way is the one made of the session. Dropping groups keeps calls and results together (`DroppedPaired`), so do the window (`WindowIs`) and the masks (`MaskPaired`), and what is sent fits (`CompactIs`) | `RequestIsLegal` |
| `AnalysisProofs` | `Types`, `Reads`, `Had` | each read of the run has a number of its own and is what the file held then; what counts as delivered stood whole in a request that was answered (`seen`) | types |
| `AnalysisProofs` | `Backed`, on top of these | a finding that was accepted depends on findings of its own report and cites what its agent, or one that works for it, had read and been sent, of the version the file had when the report was judged. Reads are only added, so this stays true. That validation leaves such findings only is `ValidIs`: those that hold (`Holding`, the smallest set closed under its dependencies) and no other | `CitedIsSeen` |
| `AnalysisProofs` | `Accounts`, on top of these | of each agent (`Accounted`): what it is done with was delivered to it and it has said so in its conversation (`Spoken`); its report tells of every finding of every note that was accepted, as one that stands, as unverified, or in the count of those there was no room for, merging included (`StillTold`, by `MergeIs` and `CheckedIs`); a repeated read is refused while the request it is in is the last one (`Idle`, `Refused`). A subagent begins with nothing and is started by one call only (`Untouched`, `Starting`) | `LeftOutIsNoted` |

`RefusedMeansShown` rests on a theorem about `ReadFile` alone, `KnownIsWhatIsRead` (in `ReadFileProofs`): the
interval `knownReadInterval` tells of a request, from an earlier read of any kind, is the
one `executeReadSource` would return, for every text, every two requests and any size of
a page and of the lines' numbers. (The run compares the two on small texts, as
`KnownIsExact`.) Its proof counts lines in newlines (`Breaks`, `LineAt`), finds the bytes
of a range of lines as an interval without gaps (`LinesAre`), and shows that what `Fits`
estimates is never less than what the numbers of a page take (`ConsumedAll`). An empty
interval that does not end the file is excepted: no read returns one. `ReadFile` asks for
pages that hold one character with its line's number, as those of 8000 bytes do, and
`Conversation` for files of whole characters, as the tool refuses others.

Assumptions beyond those the modules declare: the theorems on `TaskStore` assume that a
failed fsync leaves its pages dirty (`SyncErrorDropsPages = FALSE`; with the other
kernel the store does lose acknowledged events, section 5). `EndKept` is for three
urgent places and a reserve three quarters of which hold four records (`Roomy`; the code
has 16 places, and its default reserve is eight of the longest records), the smallest
sizes for which it holds and those of the run. The other modules need none: they hold
for any budgets, plans, numbers of runs and edits (`TaskRun`), calls, edits, crashes and
power losses (`FileMutation`), calls, files and reports (`Delegation`), chats, users,
events and bounds (`FeishuBot`), sizes of queue and stream (`Observation`), attempts,
lines, faults and looks (`MonitorIndex`), sizes of ring and channel (`Monitor`), files,
paths, menus and limits (`Conversation`), agents, files, tasks, notes and sizes
(`Analysis`, for files of whole characters and notes that are reports of the declared
form, with any findings, citations and dependencies in them).

The types of `TaskStore`, `TaskRun`, `FileMutation`, `Recorder`, `Observation`,
`Delegation`, `FeishuBot`, `Analysis`, `MonitorIndex` and `Monitor` are theorems, and so are
`LogReadable`, `OffsetIsEnd` and `FileWhole`; the runs spend their time on other properties.

Every invariant and action property a run checks is a theorem. Only model-checked is
liveness under fairness (`RunEnds`, `EveryTaskAnswered`, `CloseReturns`, `ViewSettles`), for
which the prover has no ENABLED. Recursive operators are out of reach, too; `AnalysisCheck`
and `PlanOrder` have them and are evaluated in assumptions only.

Inductions over numbers that the library cannot do for us are done by hand, as the least
number for which a statement fails (`Induct`, and `Recursively` for what a recursive
function is).

Some definitions have the form they have because of the proofs, and say the same as
before: `OnceInOrder` compares two sequences by the places of their members instead of
filtering one of them, and `Grounded` is the smallest set closed under its dependencies
instead of a count of rounds; `Put` adds a key to a function where the library's operators
`:>` and `@@` would say the same. `replay` cuts the ring where the code does (`behind`),
instead of comparing numbers. `endOf` and `byte` say where a line of the log ends and which
byte stands at a place, where a flattened sequence would do; `scanned`, `Sweep`, `Nth`,
`Listed` and `Chosen` are recursive functions over numbers instead of folds over sequences:
the lines of a piece of the log, the cursor that goes over the readings of a file, the
groups that are dropped from a request, oldest first, the texts of a list without
repetitions, and the findings that are kept, in their order. `IdsAt` and `Replaced` name
what merging looks for and what it finds. Where two components share a proof module their
names differ (`StoreNext`, `FileNext`).

## 5. What the checks found

All but the smaller ones were met in traces of TLC; where a constant or a stronger
property brings the counterexample back, it is named.

- **An undamaged stream called corrupt.** `openWriter` makes an attempt's directory and
  then the file in it. A refresh in between cannot open the file and marks the stream;
  nothing clears the mark, so an undamaged run is shown as corrupt for as long as the
  monitor lives (`monitor/index.go:457`), although only bad lines and numbers are said
  to mark one (docs/local-monitor.md:39). `CorruptIsDamaged` alone, without the `early`
  of `QualityIsTrue`, is violated in the instance of `observation`. The lines of the
  record are shown in full; its quality never becomes that of the file, and
  `ViewSettles` says so (`marked`). The mark goes only if the index begins the stream
  anew, after half a line was cut off.
- **The same of a task.** `openTask` makes and syncs a task's directory before it
  creates `events.jsonl` (`taskstore/store.go:147`). A refresh in between cannot open
  the log, and the mark stays, as Poll reports no reset later (`ReadsTheLog` without its
  `early` is violated in the instance of `monitor`).
- **An answer without a text.** A run resumed after a crash behind its last plan step has
  no step left and delivers ANSWERED without a text (`engine/loop.go:387`, `:341`),
  although the code refuses empty replies elsewhere (`engine/loop.go:598`).
- **A failed fsync.** After it, reopening adopts lines that the page
  cache shows and the disk never got; on a kernel that marks such pages clean the
  next sync succeeds, and an acknowledged event can be lost with the power
  (`SyncErrorDropsPages = TRUE` in the run `task_store` violates `SnapshotNotAhead`
  first, and `AckedSurvives` when it is checked alone).
- **An edit in the window.** `commitFile` compares and then renames; an edit saved in
  between is replaced without a conflict (`tools/files.go:399`, `:419`), although an old
  approval is said to overwrite no new version (docs/functional-test-cases.md:194).
  `ReplacesOnlyItsVersion` without the disjunct of `overtaken` is violated in the
  instance of `file_mutation`. Two calls of the agent never do this to each other, and a
  new file is put in place by a link, which refuses.
- **The order of a directory.** The index adds attempts in the order `readDir` gives,
  which is none, and each that is later than those before it decides for the task. An
  older attempt that comes first is compared with the newest result: the report is
  withheld and a `result_mismatch` is shown, although nothing is wrong
  (`monitor/projection.go:199`; the test at `monitor/projection_regression_test.go:77`
  wants the budget, at least, to be independent of the order). In the model: `Flush`
  puts the newer attempt behind the older one or before it.
- **An evidence's number used again.** Numbers of a resumed run go on from the count of
  what was recorded (`engine/analysis_runtime.go:66`). When a crash leaves the second
  of two parallel readings recorded and the first not, the resumed run gives the second
  number again, and the record it overwrites may be cited by an older report. In the
  model: the task of `analysis` with crashes reaches such a state.
- **Smaller ones.** A repetition that differs only in `line_numbers` is refused with the
  text it was first read in (`engine/read_reuse.go:63`). A finding about a whole range
  stays standing when another file of the range changes, as `refreshHandoff` looks at
  the files it cites. Reads of a subagent whose own request failed count for the scope
  "file" of its parent. A crash between a successful listing and its noting leaves the
  counter of refusals as it was.

## 6. Not modelled

`PROJECT.json` lists every component with its status and the reason. In short:
HTTP clients, prompts, rendering, redaction, traces and environment defaults are
input and output without a state others depend on; `search_content` returns text
nothing else reasons about; budgets, usage, traces and evaluations shown by the monitor
are sums and lists of what was read; the evaluation fixtures and scripts (copies of older
sources among them) are not part of the program. Of what is modelled in part: closings
and plan steps of an analysis and its scope "manifest", the table of readings shown to
the model, path confinement and fuzzy matching of the file tools, process groups of
bash, and the page's other views.

## 7. Plan

Done, in this order: `TaskStore` over `DurableLog`; `TaskRun`; `FeishuBot`;
`FileMutation`; `Recorder` with `Observation`; the proofs of section 4; `Delegation`;
`ReadFile`, `Context` and `Conversation`; `MonitorIndex` and `Monitor`;
`AnalysisReport` and `Analysis`; `PlanOrder` and `Artifact`.

Then the proofs of `Delegation`, `FeishuBot` and `Monitor`, of `NoReplay`,
`LedgerIsTrue` and `VerifiedIsCurrent` of `TaskRun`, of `Conversation` with the
intervals of `ReadFile`, of `EndKept` and `QualityIsTrue` of `Observation`, of
`ReadsTheLog` and `NoStaleReport` of `MonitorIndex`, of `CompleteIsRead` and
`RequestIsLegal` of `Conversation`, and of `CitedIsSeen` and `LeftOutIsNoted` of
`Analysis`. What is left:

1. The closings and plan steps of an analysis, and its scope "manifest".
