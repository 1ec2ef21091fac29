-------------------------------- MODULE TaskRun --------------------------------
(***************************************************************************)
(* internal/engine: AgentEngine.Run on one task, from the creation of the  *)
(* task through any number of crashes and resumed runs.                    *)
(*                                                                         *)
(* A run holds the task's state in memory and persists the whole of it     *)
(* with every event; a resumed run starts from what the log yields.  A     *)
(* step below is what the code does between two points where something     *)
(* else may happen: the process dies, the context ends, the clock's own    *)
(* append fails, somebody edits the workspace.                             *)
(*                                                                         *)
(* The log is abstracted to the set of states a restart may find in it:    *)
(* DurableLog's acknowledged event and, after a failed append, the event   *)
(* that may or may not have reached the disk.  The workspace is one file   *)
(* whose content is a version.  What the model says is a choice.           *)
(***************************************************************************)
EXTENDS Naturals, FiniteSets

CONSTANTS
    StepId,        \* steps a plan may have; {} for a task without a plan
    Version,       \* contents of the workspace file
    Budget,        \* budgets an invocation of the engine may bring
    Verify,        \* does the task have a VerifyCommand?
    Change,        \* is its Kind "change"?
    MaxId,         \* no budget allows more tool calls than this
    MaxRuns,       \* bound: invocations of Run on the task
    MaxEdits       \* bound: edits of the workspace by somebody else

NoStep    == "no step"
FixStep   == "verify-fix"
None      == "nil"
Step      == StepId \union {NoStep, FixStep}
Write     == {c \in [tool : {"write"}, from : Version, to : Version] : c.from # c.to}
Bash      == [tool |-> "bash", from |-> None, to |-> None]
Read      == [tool |-> "read", from |-> None, to |-> None]
Call      == Write \union {Bash, Read}
Id        == 1..MaxId

ASSUME NamesAssumption  == StepId \cap {NoStep, FixStep} = {} /\ None \notin Version
ASSUME KindAssumption   == Verify \in BOOLEAN /\ Change \in BOOLEAN
ASSUME BoundsAssumption == MaxId \in Nat /\ MaxRuns \in Nat /\ MaxEdits \in Nat
ASSUME BudgetAssumption ==
    /\ Budget \subseteq [turns : Nat, models : Nat, tools : Nat]
    /\ \A b \in Budget : b.tools <= MaxId

VARIABLES
    pc,        \* what the run does next; "idle" when no process runs the task
    mem,       \* runState.state
    durable,   \* states that reading the log back may yield
    storage,   \* "ok", "artifact" (fatalStorage is set) or "broken" (so is writeError)
    ctx,       \* "live", "cancelled" or "deadline"
    step,      \* stepID of the conversation under way
    act,       \* the tool call being executed
    evidence,  \* workspace version read before, later by, the verifier
    receipts,  \* resumeReceipts
    patched,   \* patchUsed
    outcome,   \* RunResult.Status, or "tool_limit" for that stop code
    text,      \* is there a text to deliver as FinalText?
    resumed,   \* TaskSpec.Resume
    file,      \* content of the workspace
    attempts,  \* action ids drawn so far
    \* history
    runs,      \* invocations so far
    edits,     \* edits by somebody else so far
    seen,      \* edits when the run last read the workspace version
    sent,      \* model requests sent
    closings,  \* of those, the closing requests, by tool limit
    ran,       \* actions whose handler was entered, and in which run
    did,       \* ids whose handler changed the workspace
    passedOn   \* contents on which the verifier passed without changing them

taskVars == <<mem, durable, storage>>
setup    == <<ctx, receipts, resumed>>
talk     == <<step, patched, text>>
call     == <<act, evidence>>
locals   == <<setup, talk, call>>
outside  == <<file, edits, seen>>
actions  == <<attempts, ran, did, passedOn>>
world    == <<outside, actions>>
counters == <<runs, sent, closings>>
vars     == <<pc, outcome, taskVars, locals, world, counters>>

Key      == Step \X Call
Receipt  == {"absent", "unknown", "none", "confirmed", "succeeded", "failed"}
Pending  == [id : Id, step : Step, call : Call, known : BOOLEAN]
Evidence == [passed : BOOLEAN, version : Version \union {None}]
Outcome  == {None, "answered", "verified", "needs_verification", "blocked",
             "cancelled", "exhausted", "tool_limit", "failed"}
Result   == {None, "rejected", "none", "confirmed", "succeeded", "failed", "unclear"}
Limits   == {b.tools : b \in Budget}
State ==
    [limits : [turns : Nat, models : Nat, tools : Nat],
     turns : Nat, models : Nat, tools : Nat,
     todo : SUBSET StepId, done : SUBSET StepId,
     pending : SUBSET Pending,
     effects : [Id -> Receipt],
     completed : SUBSET Key,
     verification : Evidence,
     last : Outcome,
     closing : [limit : Nat, status : {None, "started", "completed", "failed"}]]
Act == [id : Id \union {0}, call : Call, known : BOOLEAN, verifier : BOOLEAN,
        started : BOOLEAN, result : Result]

NoEvidence == [passed |-> FALSE, version |-> None]
NoAct == [id |-> 0, call |-> Read, known |-> FALSE, verifier |-> FALSE,
          started |-> FALSE, result |-> None]

\* openTask for a task that does not exist yet.
NewState(b) ==
    [limits |-> b, turns |-> 0, models |-> 0, tools |-> 0, todo |-> {}, done |-> {},
     pending |-> {}, effects |-> [i \in Id |-> "absent"], completed |-> {},
     verification |-> NoEvidence, last |-> None, closing |-> [limit |-> 0, status |-> None]]

Larger(m, n) == IF m < n THEN n ELSE m

\* openTask for a task that does: limits are only ever raised.
Reopened(s, b) ==
    [s EXCEPT !.limits = [turns  |-> Larger(s.limits.turns, b.turns),
                          models |-> Larger(s.limits.models, b.models),
                          tools  |-> Larger(s.limits.tools, b.tools)]]

\* While no process runs the task, nothing is in memory.
NoState == NewState([turns |-> 0, models |-> 0, tools |-> 0])

Init ==
    /\ pc = "idle"
    /\ mem = NoState
    /\ durable = {}
    /\ storage = "ok" /\ ctx = "live" /\ step = NoStep /\ act = NoAct
    /\ evidence = None /\ receipts = {} /\ patched = FALSE
    /\ outcome = None /\ text = FALSE /\ resumed = FALSE
    /\ file \in Version
    /\ attempts = 0 /\ edits = 0 /\ seen = 0
    /\ ran = {} /\ did = {} /\ passedOn = {}
    /\ runs = 0 /\ sent = 0 /\ closings = [n \in Limits |-> 0]

-----------------------------------------------------------------------------
(* runState.record, RunResult.stop and the two ways a run can disappear.   *)

Interrupted == ctx # "live"
CtxOutcome  == IF ctx = "cancelled" THEN "cancelled" ELSE "exhausted"

\* The change was applied and the append acknowledged it.
Saved(s) ==
    /\ storage # "broken"
    /\ mem' = s /\ durable' = {s}
    /\ UNCHANGED storage

\* The change was applied, the append failed: the event may be in the log all
\* the same.  After one failed append Task refuses every other.
NotSaved(s) ==
    /\ mem' = s
    /\ durable' \in IF storage = "broken" THEN {durable}
                    ELSE {durable, durable \union {s}}
    /\ storage' = "broken"

\* RunResult.stop: a cancelled context wins over every error but storage's.
Stop(o) ==
    /\ pc' = "stop"
    /\ outcome' = IF ctx = "cancelled" /\ o # "failed" THEN "cancelled" ELSE o

\* record(kind, s) where a failure ends the run.
Record(s, next) ==
    \/ Saved(s) /\ pc' = next /\ UNCHANGED outcome
    \/ NotSaved(s) /\ Stop("failed")

\* The run gives up before it records anything.
GiveUp(o) == Stop(o) /\ UNCHANGED <<taskVars>>

\* What only a process knows is gone.
Gone ==
    /\ pc' = "idle" /\ mem' = NoState
    /\ storage' = "ok" /\ ctx' = "live" /\ step' = NoStep /\ act' = NoAct
    /\ evidence' = None /\ receipts' = {} /\ patched' = FALSE
    /\ outcome' = None /\ text' = FALSE /\ resumed' = FALSE

Crash ==
    /\ pc # "idle"
    /\ Gone
    /\ UNCHANGED <<durable, world, counters>>

\* The caller cancels, or the task's remaining time is over.
CtxEnds ==
    /\ pc # "idle" /\ ~Interrupted
    /\ ctx' \in {"cancelled", "deadline"}
    /\ UNCHANGED <<pc, outcome, taskVars, talk, call, receipts, resumed, world, counters>>

\* The clock goroutine cannot append its "elapsed" event: it cancels the run.
ClockFails ==
    /\ pc # "idle" /\ ~Interrupted /\ storage = "ok"
    /\ storage' = "broken" /\ ctx' = "cancelled"
    /\ UNCHANGED <<pc, mem, durable, outcome, talk, call, receipts, resumed, world, counters>>

\* Somebody else edits the workspace.
Edit ==
    /\ edits < MaxEdits
    /\ edits' = edits + 1
    /\ file' \in Version \ {file}
    /\ UNCHANGED <<pc, outcome, taskVars, locals, actions, counters, seen>>

-----------------------------------------------------------------------------
(* Opening the task and what a run does before the first model call.       *)

Create(b) ==
    /\ pc = "idle" /\ runs = 0 /\ MaxRuns > 0
    /\ pc' = "begin" /\ mem' = NewState(b) /\ runs' = 1
    /\ UNCHANGED <<durable, storage, outcome, locals, world, sent, closings>>

Resume(s, b) ==
    /\ pc = "idle" /\ runs \in 1..MaxRuns-1
    /\ s.last \notin {"answered", "verified"}
    /\ pc' = "begin" /\ mem' = Reopened(s, b) /\ runs' = runs + 1 /\ resumed' = TRUE
    /\ UNCHANGED <<durable, storage, outcome, talk, call, ctx, receipts, world, sent, closings>>

\* record("started"), which also makes raised limits durable.
Begin ==
    /\ pc = "begin"
    /\ \/ Interrupted /\ Saved(mem) /\ Stop(CtxOutcome)
       \/ Interrupted /\ NotSaved(mem) /\ Stop("failed")
       \/ ~Interrupted /\ Record(mem, "reconcile")
    /\ UNCHANGED <<locals, world, counters>>

\* Mutant: whatever the file holds now, the action is taken for undone.
SettledUndone(p) ==
    [mem EXCEPT !.pending = @ \ {p}, !.effects[p.id] = "none"]

\* reconcile, one pending action at a time: a file whose content is what the
\* action expected, or what it replaced, settles the action.
Settled(p) ==
    LET applied == file = p.call.to
    IN  [mem EXCEPT !.pending = @ \ {p},
                    !.effects[p.id] = IF applied THEN "confirmed" ELSE "none",
                    !.completed = IF applied THEN @ \union {<<p.step, p.call>>} ELSE @]

Reconcile(p) ==
    /\ pc = "reconcile" /\ p \in mem.pending
    /\ \/ /\ p.known /\ file \in {p.call.from, p.call.to}
          /\ Record(Settled(p), "reconcile")
       \/ /\ ~p.known \/ Interrupted \/ file \notin {p.call.from, p.call.to}
          /\ GiveUp("blocked")
    /\ UNCHANGED <<locals, world, counters>>

\* Mutant: a command of unknown effect does not stop the run.
NothingToSettle ==
    /\ pc = "reconcile" /\ \A p \in mem.pending : ~p.known
    /\ pc' = "recheck"
    /\ receipts' = IF resumed THEN mem.completed ELSE {}
    /\ UNCHANGED <<outcome, taskVars, talk, call, ctx, resumed, world, counters>>

NothingPending ==
    /\ pc = "reconcile" /\ mem.pending = {}
    /\ pc' = "recheck"
    /\ receipts' = IF resumed THEN mem.completed ELSE {}
    /\ UNCHANGED <<outcome, taskVars, talk, call, ctx, resumed, world, counters>>

\* Mutant: passed once, passed for ever.
RecheckNothing ==
    /\ pc = "recheck" /\ resumed /\ mem.verification.passed
    /\ pc' = "finish" /\ outcome' = "verified"
    /\ seen' = edits
    /\ UNCHANGED <<taskVars, locals, actions, counters, file, edits>>

\* Evidence saved before the interruption holds only for the content it names.
Recheck ==
    /\ pc = "recheck" /\ resumed /\ mem.verification.passed
    /\ \/ Interrupted /\ GiveUp(CtxOutcome)
       \/ /\ ~Interrupted /\ file = mem.verification.version
          /\ pc' = "finish" /\ outcome' = "verified"
          /\ UNCHANGED <<taskVars>>
       \/ /\ ~Interrupted /\ file # mem.verification.version
          /\ Record([mem EXCEPT !.verification.passed = FALSE], "plan or work")
    /\ seen' = edits
    /\ UNCHANGED <<locals, actions, counters, file, edits>>

ToolsExhausted == mem.tools >= mem.limits.tools

\* What follows the checks of a resumed run.  A run with less permission than
\* VerifyCommand needs is blocked; a plan may be wanted and there is none.
Plan ==
    /\ \/ pc = "recheck" /\ ~(resumed /\ mem.verification.passed)
       \/ pc = "plan or work"
    /\ \/ Verify /\ Stop("blocked")
       \/ ToolsExhausted /\ Stop("tool_limit")
       \/ /\ ~ToolsExhausted
          /\ pc' = IF StepId # {} /\ mem.todo \union mem.done = {} THEN "plan" ELSE "work"
          /\ UNCHANGED outcome
    /\ UNCHANGED <<taskVars, locals, world, counters>>

-----------------------------------------------------------------------------
(* Model requests.                                                         *)

\* Where a request is asked for, and where its reply is handled.
Reply == [plan |-> "planned", patch |-> "planned", ask |-> "reply"]

\* Mutant: the charge stays in memory until the next event.
AskUncharged ==
    /\ pc \in DOMAIN Reply
    /\ ~Interrupted /\ ~ToolsExhausted /\ mem.models < mem.limits.models
    /\ mem' = [mem EXCEPT !.models = @ + 1]
    /\ pc' = Reply[pc]
    /\ sent' = sent + 1
    /\ UNCHANGED <<durable, storage, outcome, locals, world, runs, closings>>

\* generateRequest: the context is made to fit, reserve("model"), the request.
Ask ==
    /\ pc \in DOMAIN Reply
    /\ \/ GiveUp("blocked") /\ UNCHANGED sent
       \/ Interrupted /\ GiveUp(CtxOutcome) /\ UNCHANGED sent
       \/ ~Interrupted /\ ToolsExhausted /\ GiveUp("tool_limit") /\ UNCHANGED sent
       \/ /\ ~Interrupted /\ ~ToolsExhausted /\ mem.models >= mem.limits.models
          /\ GiveUp("exhausted") /\ UNCHANGED sent
       \/ /\ ~Interrupted /\ ~ToolsExhausted /\ mem.models < mem.limits.models
          /\ Record([mem EXCEPT !.models = @ + 1], Reply[pc])
          /\ sent' = IF storage' = "ok" THEN sent + 1 ELSE sent
    /\ UNCHANGED <<locals, world, runs, closings>>

ModelFails ==
    /\ pc \in {"planned", "reply"}
    /\ GiveUp(IF Interrupted THEN CtxOutcome ELSE "failed")
    /\ UNCHANGED <<locals, world, counters>>

\* proposePlan and the "plan" or "plan_patch" record: steps that are done stay,
\* the others are replaced.  checkPlan wants at least one step.
Planned(steps) ==
    /\ pc = "planned"
    /\ steps \cap mem.done = {} /\ steps \union mem.done # {}
    /\ Record([mem EXCEPT !.todo = steps], "work")
    /\ UNCHANGED <<locals, world, counters>>

\* runTask: the next step, the whole task when there is no plan, or what
\* follows the conversation.
AfterWork == IF Verify THEN "verify" ELSE "final"

Work ==
    /\ pc = "work"
    /\ \/ \E s \in mem.todo : step' = s /\ pc' = "turn"
       \/ mem.todo = {} /\ mem.done = {} /\ step' = NoStep /\ pc' = "turn"
       \/ mem.todo = {} /\ mem.done # {} /\ UNCHANGED step /\ pc' = AfterWork
    /\ UNCHANGED <<outcome, taskVars, setup, call, patched, text, world, counters>>

\* converse, the top of its loop: toolsExhausted, then reserve("turn").
Turn ==
    /\ pc = "turn"
    /\ \/ ToolsExhausted /\ GiveUp("tool_limit")
       \/ ~ToolsExhausted /\ Interrupted /\ GiveUp(CtxOutcome)
       \/ /\ ~ToolsExhausted /\ ~Interrupted /\ mem.turns >= mem.limits.turns
          /\ GiveUp("exhausted")
       \/ /\ ~ToolsExhausted /\ ~Interrupted /\ mem.turns < mem.limits.turns
          /\ Record([mem EXCEPT !.turns = @ + 1], "ask")
    /\ UNCHANGED <<locals, world, counters>>

\* The model answers with text: the conversation is over.
TextReply ==
    /\ pc = "reply"
    /\ text' = TRUE
    /\ \/ step \in StepId
          /\ Record([mem EXCEPT !.todo = @ \ {step}, !.done = @ \union {step}], "work")
       \/ /\ step = NoStep
          /\ pc' = AfterWork /\ UNCHANGED <<outcome, taskVars>>
       \/ /\ step = FixStep /\ Interrupted
          /\ GiveUp(CtxOutcome)
       \/ /\ step = FixStep /\ ~Interrupted
          /\ pc' = IF file = evidence THEN "final" ELSE "verify"
          /\ UNCHANGED <<outcome, taskVars>>
    /\ UNCHANGED <<setup, call, step, patched, world, counters>>

\* errBlocked inside a conversation (an empty reply, tool calls without
\* distinct ids, the third failure of one request): a plan may be patched once.
Blocked ==
    /\ \/ pc = "reply"
       \/ pc = "batch" /\ act.result \in {"rejected", "none", "unclear"}
    /\ IF step \in StepId /\ mem.pending = {} /\ ~patched
       THEN /\ pc' = "patch" /\ patched' = TRUE /\ text' = FALSE
            /\ UNCHANGED <<outcome, taskVars>>
       ELSE GiveUp("blocked") /\ UNCHANGED <<patched, text>>
    /\ UNCHANGED <<setup, call, step, world, counters>>

\* The model answers with tool calls; executeBatch takes them one by one.
CallsReply ==
    /\ pc = "reply"
    /\ pc' = "call"
    /\ UNCHANGED <<outcome, taskVars, locals, world, counters>>

EndBatch ==
    /\ pc = "batch"
    /\ pc' = "turn"
    /\ act' = NoAct
    /\ UNCHANGED <<outcome, taskVars, setup, talk, evidence, world, counters>>

-----------------------------------------------------------------------------
(* One tool call: execute, with Registry.Execute in the middle.            *)

\* reserve("tool").
Attempt(next) ==
    \/ Interrupted /\ GiveUp(CtxOutcome)
    \/ ~Interrupted /\ ToolsExhausted /\ GiveUp("tool_limit")
    \/ ~Interrupted /\ ~ToolsExhausted /\ Record([mem EXCEPT !.tools = @ + 1], next)

\* Mutant: only this run's receipts count, and only in a plan.
ReceiptedNow(c) == c.tool # "read" /\ step # NoStep /\ <<step, c>> \in mem.completed \ receipts

\* A receipt answers for the call: one of an earlier run, or, within a plan
\* step, one of this run too.
Receipted(c) ==
    /\ c.tool # "read"
    /\ \/ <<step, c>> \in receipts
       \/ step # NoStep /\ <<step, c>> \in mem.completed

Execute(c) ==
    /\ pc \in {"call", "batch"}
    /\ Attempt(IF Receipted(c) THEN "batch" ELSE "admit")
    /\ act' = [NoAct EXCEPT !.call = c]
    /\ UNCHANGED <<setup, talk, evidence, world, counters>>

\* verify: the workspace version, then the command as a call of its own.
StartVerify ==
    /\ pc = "verify"
    /\ Attempt("admit")
    /\ evidence' = file /\ seen' = edits
    /\ act' = [NoAct EXCEPT !.call = Bash, !.verifier = TRUE]
    /\ UNCHANGED <<setup, talk, actions, counters, file, edits>>

\* Not registered, not permitted, invalid, not approved, or cancelled.
Reject ==
    /\ pc = "admit"
    /\ pc' = "result" /\ act' = [act EXCEPT !.result = "rejected"]
    /\ UNCHANGED <<outcome, taskVars, setup, talk, evidence, world, counters>>

\* A read-only tool runs without a hook.
ReadOnly ==
    /\ pc = "admit" /\ act.call = Read
    /\ pc' = "result" /\ act' = [act EXCEPT !.result = "none"]
    /\ UNCHANGED <<outcome, taskVars, setup, talk, evidence, world, counters>>

\* The hook's record("action_started"): the action is pending, its effect
\* unknown, and no earlier verification stands.
Started(p) ==
    [mem EXCEPT !.pending = @ \union {p}, !.effects[p.id] = "unknown",
                !.verification = NoEvidence]

Hook(known) ==
    /\ pc = "admit" /\ act.call # Read
    /\ known => act.call \in Write /\ file = act.call.from
    /\ \/ Interrupted /\ GiveUp(CtxOutcome) /\ UNCHANGED <<act, attempts>>
       \/ /\ ~Interrupted
          /\ attempts' = attempts + 1
          /\ act' = [act EXCEPT !.id = attempts', !.known = known, !.started = TRUE]
          /\ Record(Started([id |-> attempts', step |-> step, call |-> act.call,
                             known |-> known]), "handler")
    /\ UNCHANGED <<setup, talk, evidence, outside, counters, ran, did, passedOn>>

-----------------------------------------------------------------------------
(* The handler, and what is made of its result.                            *)

\* [result, file afterwards] of the handlers.  A write checks the version it
\* was given; either may fail after it has changed the workspace.
WriteOutcomes(c) ==
    IF file # c.from THEN {<<"rejected", file>>}
    ELSE {<<"confirmed", c.to>>, <<"unclear", c.to>>, <<"unclear", file>>}
BashOutcomes == {<<"none", file>>} \union ({"succeeded", "failed", "unclear"} \X Version)

Handler ==
    /\ pc = "handler"
    /\ \E o \in IF act.call = Bash THEN BashOutcomes ELSE WriteOutcomes(act.call) :
          /\ act' = [act EXCEPT !.result = o[1]]
          /\ file' = o[2]
          /\ did' = IF file' # file THEN did \union {act.id} ELSE did
          /\ passedOn' = IF act.verifier /\ o[1] = "succeeded" /\ file' = file
                         THEN passedOn \union {file} ELSE passedOn
    /\ ran' = ran \union {[id |-> act.id, run |-> runs, step |-> step, call |-> act.call,
                           verifier |-> act.verifier]}
    /\ pc' = "result"
    /\ UNCHANGED <<outcome, taskVars, setup, talk, evidence, counters, attempts, edits, seen>>

\* The context ended between the hook and the handler.
HandlerCancelled ==
    /\ pc = "handler" /\ Interrupted
    /\ act' = [act EXCEPT !.result = "none"]
    /\ pc' = "result"
    /\ UNCHANGED <<outcome, taskVars, setup, talk, evidence, world, counters>>

\* An exited verifier is evidence, whatever its exit code; any other command
\* or write that did not succeed leaves its effect in doubt ...
Doubtful(a) == a.result = "unclear" \/ (a.result = "failed" /\ ~a.verifier)

\* Mutant: a write that failed is taken for a write that did nothing.
ReceiptsOptimistic(a) ==
    IF a.result = "unclear" /\ a.call # Bash THEN {"none"}
    ELSE IF ~Doubtful(a) THEN {IF a.result = "rejected" THEN "none" ELSE a.result}
    ELSE {"unknown"}

\* ... unless the file can be read and settles the doubt.
Receipts(a) ==
    IF ~Doubtful(a) THEN {IF a.result = "rejected" THEN "none" ELSE a.result}
    ELSE {"unknown"} \union
         (IF ~a.known \/ Interrupted THEN {}
          ELSE IF file = a.call.to THEN {"confirmed"}
          ELSE IF file = a.call.from THEN {"none"} ELSE {})

\* Mutant: the pending entry goes whatever the result.
ResultedForgotten(a, receipt) ==
    [mem EXCEPT
        !.effects   = IF a.started THEN [@ EXCEPT ![a.id] = receipt] ELSE @,
        !.pending   = {p \in @ : p.id # a.id},
        !.completed = IF receipt \in {"confirmed", "succeeded"} /\ ~a.verifier
                      THEN @ \union {<<step, a.call>>} ELSE @]

\* record("action_result").
Resulted(a, receipt) ==
    LET mutation == a.call # Read
        good     == receipt \in {"confirmed", "succeeded"}
    IN  [mem EXCEPT
            !.effects   = IF a.started THEN [@ EXCEPT ![a.id] = receipt] ELSE @,
            !.pending   = IF receipt = "unknown" THEN @ ELSE {p \in @ : p.id # a.id},
            !.completed = IF mutation /\ good /\ ~a.verifier
                          THEN @ \union {<<step, a.call>>} ELSE @]

ActionResult(receipt) ==
    /\ pc = "result"
    /\ receipt \in Receipts(act)
    /\ LET s == Resulted(act, receipt) IN
       \/ /\ storage # "ok"
          /\ GiveUp("failed")
       \/ /\ storage = "ok" /\ Interrupted
          /\ \/ Saved(s) /\ Stop(CtxOutcome)
             \/ NotSaved(s) /\ Stop("failed")
       \/ /\ storage = "ok" /\ ~Interrupted /\ receipt = "unknown"
          /\ \/ Saved(s) /\ Stop("blocked")
             \/ NotSaved(s) /\ Stop("failed")
       \/ /\ storage = "ok" /\ ~Interrupted /\ receipt # "unknown"
          /\ Record(s, IF act.verifier THEN "judge" ELSE "batch")
    /\ act' = [NoAct EXCEPT !.result = act.result]
    /\ UNCHANGED <<setup, talk, evidence, world, counters>>

\* A long output could not be saved as an artifact: memory learns the effect,
\* the log does not.
ArtifactFails(receipt) ==
    /\ pc = "result" /\ storage = "ok"
    /\ act.call \in {Bash, Read} /\ act.result # "rejected"
    /\ receipt \in Receipts(act)
    /\ mem' = IF act.started THEN [mem EXCEPT !.effects[act.id] = receipt] ELSE mem
    /\ storage' = "artifact"
    /\ Stop("failed")
    /\ UNCHANGED <<durable, locals, world, counters>>

-----------------------------------------------------------------------------
(* Verification, and the end of the run.                                   *)

\* Mutant: the workspace may change under the command.
PassesAnyway == act.result = "succeeded"

\* verify after the command, and record("verification").
Passes == act.result = "succeeded" /\ evidence = file

Judge ==
    /\ pc = "judge"
    /\ \/ act.result = "rejected" /\ GiveUp("blocked") /\ UNCHANGED <<evidence, step, seen>>
       \/ /\ act.result # "rejected" /\ Interrupted
          /\ GiveUp(CtxOutcome) /\ UNCHANGED <<evidence, step, seen>>
       \/ /\ act.result # "rejected" /\ ~Interrupted
          /\ evidence' = file /\ seen' = edits
          /\ step' = IF Passes THEN step ELSE FixStep
          /\ Record([mem EXCEPT !.verification = [passed |-> Passes, version |-> file]],
                    IF Passes THEN "final" ELSE "turn")
    /\ UNCHANGED <<setup, act, patched, text, actions, counters, file, edits>>

Final ==
    /\ pc = "final"
    /\ pc' = "finish"
    /\ outcome' = IF mem.verification.passed THEN "verified"
                  ELSE IF Change \/ Verify THEN "needs_verification" ELSE "answered"
    /\ UNCHANGED <<taskVars, locals, world, counters>>

\* Mutant: the mark is about the run, not about the limit.
MayCloseAgain ==
    /\ outcome = "tool_limit" /\ ~Interrupted /\ storage = "ok"
    /\ ToolsExhausted
    /\ mem.models < mem.limits.models /\ mem.turns < mem.limits.turns

\* reserveClosing: one request for every limit the tools have run into, and
\* the mark that it was admitted is durable before it is sent.
MayClose ==
    /\ outcome = "tool_limit" /\ ~Interrupted /\ storage = "ok"
    /\ ToolsExhausted
    /\ mem.closing.limit # mem.limits.tools \/ mem.closing.status = None
    /\ mem.models < mem.limits.models /\ mem.turns < mem.limits.turns

Close ==
    /\ pc = "stop" /\ MayClose
    /\ LET s == [mem EXCEPT !.models = @ + 1, !.turns = @ + 1,
                            !.closing = [limit |-> mem.limits.tools, status |-> "started"]] IN
       \/ /\ Saved(s)
          /\ pc' = "closing"
          /\ sent' = sent + 1
          /\ closings' = [closings EXCEPT ![mem.limits.tools] = @ + 1]
          /\ UNCHANGED outcome
       \/ /\ NotSaved(s)
          /\ pc' = "finish" /\ outcome' = "failed"
          /\ UNCHANGED <<sent, closings>>
    /\ UNCHANGED <<locals, world, runs>>

\* record("budget_closing_finished").
ClosingReply(status) ==
    /\ pc = "closing"
    /\ LET s == [mem EXCEPT !.closing.status = status] IN
       \/ Saved(s) /\ UNCHANGED outcome
       \/ NotSaved(s) /\ outcome' = "failed"
    /\ pc' = "finish"
    /\ UNCHANGED <<locals, world, counters>>

\* Mutant: at a tool limit the closing request is the only way out.
NoClosingElsewhere ==
    /\ pc = "stop" /\ outcome # "tool_limit"
    /\ pc' = "finish"
    /\ UNCHANGED <<outcome, taskVars, locals, world, counters>>

\* The other ends, and a closing request that does not fit or may not be sent.
NoClosing ==
    /\ pc = "stop"
    /\ pc' = "finish"
    /\ UNCHANGED <<outcome, taskVars, locals, world, counters>>

\* The status a run reports: storage errors first, then cancellation.
Reported ==
    IF storage # "ok" THEN "failed"
    ELSE IF outcome \in {"exhausted", "tool_limit"} /\ ctx = "cancelled" THEN "cancelled"
    ELSE outcome

\* record("finished"); the snapshot that follows repeats it.
Finish ==
    /\ pc = "finish"
    /\ LET s == [mem EXCEPT !.last = Reported] IN
       \/ storage # "broken" /\ durable' = {s}
       \/ storage # "broken" /\ durable' = durable \union {s}
       \/ UNCHANGED durable
    /\ Gone
    /\ UNCHANGED <<world, counters>>

-----------------------------------------------------------------------------

Opening == Begin \/ (\E p \in mem.pending : Reconcile(p)) \/ NothingPending \/ Recheck \/ Plan

Talking ==
    \/ Ask \/ ModelFails \/ Work \/ Turn \/ TextReply \/ Blocked \/ CallsReply \/ EndBatch
    \/ \E steps \in SUBSET StepId : Planned(steps)

Acting ==
    \/ (\E c \in Call : Execute(c)) \/ StartVerify \/ Reject \/ ReadOnly
    \/ (\E known \in BOOLEAN : Hook(known)) \/ Handler \/ HandlerCancelled
    \/ \E r \in Receipt : ActionResult(r) \/ ArtifactFails(r)

Ending ==
    \/ Judge \/ Final \/ Close \/ NoClosing \/ Finish
    \/ \E status \in {"completed", "failed"} : ClosingReply(status)

\* What only needs the scheduler, the model and the tools to go on.
Go == Opening \/ Talking \/ Acting \/ Ending

Next ==
    \/ \E b \in Budget : Create(b) \/ \E s \in durable : Resume(s, b)
    \/ Go
    \/ Crash \/ CtxEnds \/ ClockFails \/ Edit

Spec == Init /\ [][Next]_vars

\* A run that can go on does: its calls return, at the latest when ctx ends.
FairSpec == Spec /\ WF_vars(Go)

-----------------------------------------------------------------------------
(* Properties.                                                             *)

PcValues == {"idle", "begin", "reconcile", "recheck", "plan or work", "plan", "patch",
             "planned", "work", "turn", "ask", "reply", "call", "batch", "verify", "admit",
             "handler", "result", "judge", "final", "stop", "closing", "finish"}

Handled == [id : Id, run : Nat, step : Step, call : Call, verifier : BOOLEAN]

\* The variables have the values the comments above say they have.
TypeOK ==
    /\ pc \in PcValues
    /\ mem \in State /\ durable \subseteq State
    /\ storage \in {"ok", "artifact", "broken"}
    /\ ctx \in {"live", "cancelled", "deadline"}
    /\ step \in Step /\ act \in Act
    /\ evidence \in Version \union {None}
    /\ receipts \subseteq Key /\ patched \in BOOLEAN
    /\ outcome \in Outcome /\ text \in BOOLEAN /\ resumed \in BOOLEAN
    /\ file \in Version
    /\ attempts \in Nat /\ runs \in Nat /\ edits \in Nat /\ seen \in Nat /\ sent \in Nat
    /\ closings \in [Limits -> Nat]
    /\ ran \subseteq Handled /\ did \subseteq Id /\ passedOn \subseteq Version

\* Every model request ever sent and every action ever started is charged in
\* s, and no charge exceeds its limit.
Charged(s) ==
    /\ sent <= s.models /\ s.models <= s.limits.models
    /\ attempts <= s.tools /\ s.tools <= s.limits.tools
    /\ s.turns <= s.limits.turns

\* Whatever a restart finds in the log charges the task with all it has used
\* (STATE-06: a resumed task keeps its account).
ChargedBeforeUsed == \A s \in durable : Charged(s)

\* The state s knows the action, and without a known effect it is pending.
Remembers(s, id) ==
    /\ s.effects[id] # "absent"
    /\ s.effects[id] = "unknown" => \E p \in s.pending : p.id = id

\* Whatever a restart finds in the log, it remembers every action whose handler
\* was entered ("UNKNOWN" never vanishes, docs/real-task-repair-spec.md:35-39).
NoEffectForgotten == \A s \in durable : \A r \in ran : Remembers(s, r.id)

\* As long as nobody else edits the workspace, the ledger denies no effect an
\* action had, and confirms none it did not have.
LedgerIsTrue ==
    edits = 0 => \A s \in durable : \A i \in Id :
        /\ i \in did => s.effects[i] \notin {"absent", "none"}
        /\ s.effects[i] = "confirmed" => i \in did

\* A request is not executed again once it had an effect: not by a resumed
\* run, and not within a plan step (STATE-09, "原已完成动作不重跑").
NoReplay ==
    \A q, r \in ran :
        /\ q.id < r.id /\ ~q.verifier /\ ~r.verifier
        /\ q.step = r.step /\ q.call = r.call
        /\ q.run < r.run \/ q.step # NoStep
        => \A s \in durable : s.effects[q.id] = "none"

\* No request is sent and no other action handled while the effect of one is
\* unknown (STATE-05: a pending bash blocks the task without any call).
QuietWhileUnknown ==
    /\ pc \in {"ask", "plan", "patch", "reply", "planned", "closing", "verify", "call",
               "batch", "admit", "judge"} => mem.pending = {}
    /\ pc = "handler" => {p.id : p \in mem.pending} = {act.id}

\* VERIFIED is reported only with evidence that passed, for the content the
\* workspace had when the run looked last; and unless somebody else put the
\* content back meanwhile, the command passed on just that content.
VerifiedIsCurrent ==
    pc = "finish" /\ outcome = "verified" =>
        /\ mem.verification.passed
        /\ edits = 0 => mem.verification.version \in passedOn
        /\ edits = seen => file = mem.verification.version

\* A tool limit is closed by one model request at most, through all crashes
\* and resumed runs; raising it earns another (docs/task-analysis-repair.md:25).
ClosedOnce == \A n \in Limits : closings[n] <= 1

\* Every run comes to an end: the budgets bound its loops.
RunEnds == pc # "idle" ~> pc = "idle"
=============================================================================
