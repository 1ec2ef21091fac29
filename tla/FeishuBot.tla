------------------------------- MODULE FeishuBot -------------------------------
(***************************************************************************)
(* internal/feishu: bot.go, approval.go and ledger.go.                     *)
(*                                                                         *)
(* The platform delivers an event at least once, in any order.  handle     *)
(* claims it in a ledger on disk and, under b.mu, queues a task, stops the *)
(* current one or passes an approval on.  Each chat has one worker that    *)
(* takes the queued tasks in order; chats bound to one directory share a   *)
(* gate of capacity 1.  A running task asks an approver before each write  *)
(* or command, waits, re-computes what it asked for, and only then acts.   *)
(*                                                                         *)
(* The engine's run is the stage "run": it may ask for an action, be told  *)
(* the outcome and end at any moment (TaskRun is its model).  An approval  *)
(* is identified by its task and its number in the task, standing for the  *)
(* random text of the code.  Messages that handle drops before it touches  *)
(* any state (unknown chat, sender not authorised) are left out.           *)
(***************************************************************************)
EXTENDS Naturals, Sequences, SequencesExt, FiniteSets

CONSTANTS
    Chats, Dirs, Users,
    WorkDir,            \* binding.WorkDir of each chat
    Approvers,          \* binding.Approvers of each chat
    Tasks, Cancels, Verdicts, \* the events that will be delivered, by what they say
    ChatOf, Sender,     \* the chat and the sender of each event
    Kinds,              \* the actions a task takes that need approval
    NoTask, Free,
    MaxQueued,          \* maxQueuedTasks
    MaxAsks,            \* bound: approvals one task asks for
    MaxVersion,         \* bound: no outsider changes a directory at this version
    MaxStarts           \* bound: starts of the process

Events == Tasks \cup Cancels \cup Verdicts

ASSUME TablesAssumption ==
    /\ WorkDir \in [Chats -> Dirs]
    /\ Approvers \in [Chats -> SUBSET Users]
    /\ ChatOf \in [Events -> Chats]
    /\ Sender \in [Events -> Users]
    /\ \A v \in Verdicts : Sender[v] \in Approvers[ChatOf[v]]
ASSUME NamesAssumption ==
    /\ NoTask \notin Events /\ Free \notin Chats
    /\ Tasks \cap Cancels = {} /\ Tasks \cap Verdicts = {} /\ Cancels \cap Verdicts = {}
ASSUME KindsAssumption == Kinds \subseteq {"write", "command"}
ASSUME BoundsAssumption ==
    /\ MaxQueued \in Nat /\ MaxAsks \in Nat /\ MaxVersion \in Nat /\ MaxStarts \in Nat \ {0}

VARIABLES
    life,     \* "open", "closed" (Close was called) or "down"
    starts,   \* how often the process was started
    ledger,   \* marker file of each event: "absent", "created" or "synced"
    jobs,     \* chatQueue.jobs of each chat
    worker,   \* runQueue of each chat: where it stands, its task, the approval it asks for
    stopped,  \* tasks whose own context was cancelled
    gate,     \* the chat that fills the gate of a directory, or Free
    pending,  \* approvalManager.pending: the ids one may still decide
    expired,  \* ids whose five minutes are over
    decision, \* the channel of the approval a chat's worker waits on
    inflight, \* approvals past the ledger, on their way to resolve
    version,  \* content of each directory
    accepted, \* history: tasks queued by each chat, in order
    began,    \* history: tasks each chat's worker handed to the engine, in order
    answered, \* history: tasks whose reply was sent
    stops,    \* history: which cancel event stopped which task
    grants,   \* history: decisions that resolve recorded
    acts      \* history: writes and commands that ran

botVars  == <<life, starts, ledger>>
workVars == <<jobs, worker, stopped, gate>>
askVars  == <<pending, expired, decision, inflight>>
history  == <<accepted, began, answered, stops, grants, acts>>
vars     == <<botVars, workVars, askVars, version, history>>

Stages == {"idle", "top", "gate", "entered", "run", "notify", "await",
           "recheck", "allowed", "report", "leave", "clear"}

Placed(stage, job) == [at |-> stage, job |-> job, asks |-> 0, kind |-> "write", before |-> 0]
Idle == Placed("idle", NoTask)

Init ==
    /\ life = "open"
    /\ starts = 1
    /\ ledger = [e \in Events |-> "absent"]
    /\ jobs = [c \in Chats |-> <<>>]
    /\ worker = [c \in Chats |-> Idle]
    /\ stopped = {}
    /\ gate = [d \in Dirs |-> Free]
    /\ pending = {} /\ expired = {} /\ inflight = {}
    /\ decision = [c \in Chats |-> "none"]
    /\ version = [d \in Dirs |-> 0]
    /\ accepted = [c \in Chats |-> <<>>]
    /\ began = [c \in Chats |-> <<>>]
    /\ answered = {} /\ stops = {} /\ grants = {} /\ acts = {}

(***************************************************************************)
(* handle.                                                                 *)
(***************************************************************************)
\* Mutant: the marker is opened without O_EXCL.
ClaimAgain(e) == ledger' = [ledger EXCEPT ![e] = "synced"]

\* eventLedger.claim succeeds: the marker was not there and is now on disk.
Claim(e) == ledger[e] = "absent" /\ ledger' = [ledger EXCEPT ![e] = "synced"]

\* claim creates the marker and fails to sync it: handle returns the error, and
\* the event the platform delivers again is taken for a duplicate.
ClaimTorn(e) ==
    /\ life = "open"
    /\ e \in Tasks => Len(jobs[ChatOf[e]]) < MaxQueued
    /\ ledger[e] = "absent"
    /\ ledger' = [ledger EXCEPT ![e] = "created"]
    /\ UNCHANGED <<life, starts, workVars, askVars, version, history>>

Submit(t) ==
    LET c == ChatOf[t] IN
    /\ life = "open"
    /\ Len(jobs[c]) < MaxQueued
    /\ Claim(t)
    /\ jobs' = [jobs EXCEPT ![c] = Append(@, t)]
    /\ worker' = [worker EXCEPT ![c].at = IF @ = "idle" THEN "top" ELSE @]
    /\ accepted' = [accepted EXCEPT ![c] = Append(@, t)]
    /\ UNCHANGED <<life, starts, stopped, gate, askVars, version,
                   began, answered, stops, grants, acts>>

\* May this user stop the task the chat's worker is on?
MayStop(u, c) ==
    /\ worker[c].job # NoTask
    /\ u = Sender[worker[c].job] \/ u \in Approvers[c]

\* Mutant: control messages do not pass the ledger.
CancelUnclaimed(e) ==
    LET c == ChatOf[e] IN
    /\ life = "open" /\ MayStop(Sender[e], c)
    /\ stopped' = stopped \cup {worker[c].job}
    /\ stops' = stops \cup {<<e, worker[c].job>>}
    /\ UNCHANGED <<botVars, jobs, worker, gate, askVars, version,
                   accepted, began, answered, grants, acts>>

CancelTask(e) ==
    LET c == ChatOf[e] IN
    /\ life = "open"
    /\ Claim(e)
    /\ IF MayStop(Sender[e], c)
       THEN /\ stopped' = stopped \cup {worker[c].job}
            /\ stops' = stops \cup {<<e, worker[c].job>>}
       ELSE UNCHANGED <<stopped, stops>>
    /\ UNCHANGED <<life, starts, jobs, worker, gate, askVars, version,
                   accepted, began, answered, grants, acts>>

\* The approver names an id some task has asked about, perhaps long ago.
Known == pending \cup expired \cup {g.id : g \in grants}
Verdict(e) ==
    /\ life = "open"
    /\ Claim(e)
    /\ \E id \in Known, allow \in BOOLEAN :
          inflight' = inflight \cup {[id |-> id, chat |-> ChatOf[e], by |-> Sender[e], allow |-> allow]}
    /\ UNCHANGED <<life, starts, workVars, pending, expired, decision, version, history>>

CtxDone(t) == t \in stopped \/ life # "open"

\* The context of the wait for approval id has ended.
Late(id) == CtxDone(id[1]) \/ id \in expired

\* approvalManager.resolve, after b.mu was given back.
Resolvable(v) ==
    LET c == ChatOf[v.id[1]] IN
    /\ v.id \in pending
    /\ v.chat = c
    /\ v.by \in Approvers[c]
    /\ v.id \notin expired
\* Mutant: a decision does not use the id up.
ResolveKept(v) ==
    LET c == ChatOf[v.id[1]] IN
    /\ v \in inflight /\ Resolvable(v)
    /\ inflight' = inflight \ {v}
    /\ decision' = [decision EXCEPT ![c] = IF v.allow THEN "allow" ELSE "reject"]
    /\ grants' = grants \cup {[id |-> v.id, chat |-> v.chat, by |-> v.by, allow |-> v.allow,
                               late |-> Late(v.id)]}
    /\ UNCHANGED <<botVars, workVars, pending, expired, version,
                   accepted, began, answered, stops, acts>>

Resolve(v) ==
    LET c == ChatOf[v.id[1]] IN
    /\ v \in inflight
    /\ inflight' = inflight \ {v}
    /\ IF Resolvable(v)
       THEN /\ pending' = pending \ {v.id}
            /\ decision' = [decision EXCEPT ![c] = IF v.allow THEN "allow" ELSE "reject"]
            /\ grants' = grants \cup {[id |-> v.id, chat |-> v.chat, by |-> v.by, allow |-> v.allow,
                                       late |-> Late(v.id)]}
       ELSE UNCHANGED <<pending, decision, grants>>
    /\ UNCHANGED <<botVars, workVars, expired, version, accepted, began, answered, stops, acts>>

(***************************************************************************)
(* runQueue and execute.                                                   *)
(***************************************************************************)
Job(c) == worker[c].job
Dir(c) == WorkDir[c]
At(c, stage) == life # "down" /\ worker[c].at = stage
Go(c, stage) == worker' = [worker EXCEPT ![c].at = stage]

TakeJob(c) ==
    /\ At(c, "top") /\ life = "open" /\ jobs[c] # <<>>
    /\ jobs' = [jobs EXCEPT ![c] = Tail(@)]
    /\ worker' = [worker EXCEPT ![c] = Placed("gate", Head(jobs[c]))]
    /\ UNCHANGED <<botVars, stopped, gate, askVars, version, history>>

\* Mutant: only an empty queue ends the worker.
RetireEmpty(c) ==
    /\ At(c, "top") /\ jobs[c] = <<>>
    /\ Go(c, "idle")
    /\ UNCHANGED <<botVars, jobs, stopped, gate, askVars, version, history>>

Retire(c) ==
    /\ At(c, "top") /\ (life # "open" \/ jobs[c] = <<>>)
    /\ jobs' = [jobs EXCEPT ![c] = <<>>]
    /\ Go(c, "idle")
    /\ UNCHANGED <<botVars, stopped, gate, askVars, version, history>>

\* Mutant: the gate is not shared by the chats of a directory.
EnterOwnGate(c) ==
    /\ At(c, "gate")
    /\ gate' = [gate EXCEPT ![Dir(c)] = c]
    /\ Go(c, "entered")
    /\ UNCHANGED <<botVars, jobs, stopped, askVars, version, history>>

EnterGate(c) ==
    /\ At(c, "gate") /\ gate[Dir(c)] = Free
    /\ gate' = [gate EXCEPT ![Dir(c)] = c]
    /\ Go(c, "entered")
    /\ UNCHANGED <<botVars, jobs, stopped, askVars, version, history>>

\* The reply of a task that was stopped while it waited.
StopAtGate(c) ==
    /\ At(c, "gate") /\ CtxDone(Job(c))
    /\ answered' = answered \cup {Job(c)}
    /\ Go(c, "clear")
    /\ UNCHANGED <<botVars, jobs, stopped, gate, askVars, version,
                   accepted, began, stops, grants, acts>>

\* Mutant: the context is not checked behind the gate.
BeginStopped(c) ==
    /\ At(c, "entered")
    /\ began' = [began EXCEPT ![c] = Append(@, Job(c))]
    /\ Go(c, "run")
    /\ UNCHANGED <<botVars, jobs, stopped, gate, askVars, version,
                   accepted, answered, stops, grants, acts>>

BeginRun(c) ==
    /\ At(c, "entered")
    /\ IF CtxDone(Job(c))
       THEN /\ answered' = answered \cup {Job(c)}
            /\ Go(c, "leave")
            /\ UNCHANGED began
       ELSE /\ began' = [began EXCEPT ![c] = Append(@, Job(c))]
            /\ Go(c, "run")
            /\ UNCHANGED answered
    /\ UNCHANGED <<botVars, jobs, stopped, gate, askVars, version,
                   accepted, stops, grants, acts>>

EndRun(c) ==
    /\ At(c, "run")
    /\ Go(c, "report")
    /\ UNCHANGED <<botVars, jobs, stopped, gate, askVars, version, history>>

Report(c) ==
    /\ At(c, "report")
    /\ answered' = answered \cup {Job(c)}
    /\ Go(c, "leave")
    /\ UNCHANGED <<botVars, jobs, stopped, gate, askVars, version,
                   accepted, began, stops, grants, acts>>

\* Mutant: the gate is not emptied.
LeaveGateFull(c) ==
    /\ At(c, "leave")
    /\ Go(c, "clear")
    /\ UNCHANGED <<botVars, jobs, stopped, gate, askVars, version, history>>

\* The deferred receive from the gate.
LeaveGate(c) ==
    /\ At(c, "leave")
    /\ gate' = [gate EXCEPT ![Dir(c)] = Free]
    /\ Go(c, "clear")
    /\ UNCHANGED <<botVars, jobs, stopped, askVars, version, history>>

ClearCancel(c) ==
    /\ At(c, "clear")
    /\ worker' = [worker EXCEPT ![c] = Placed("top", NoTask)]
    /\ UNCHANGED <<botVars, jobs, stopped, gate, askVars, version, history>>

(***************************************************************************)
(* guard and wait.                                                         *)
(***************************************************************************)
AskId(c) == <<Job(c), worker[c].asks>>
WaitDone(c) == Late(AskId(c))

\* A write or a command reaches the guard with the version it will show.
Ask(c) ==
    /\ At(c, "run") /\ ~CtxDone(Job(c)) /\ worker[c].asks < MaxAsks
    /\ \E kind \in Kinds :
          worker' = [worker EXCEPT ![c] = [at |-> "notify", job |-> Job(c), asks |-> worker[c].asks + 1,
                                           kind |-> kind, before |-> version[Dir(c)]]]
    /\ pending' = pending \cup {<<Job(c), worker[c].asks + 1>>}
    /\ decision' = [decision EXCEPT ![c] = "none"]
    /\ UNCHANGED <<botVars, jobs, stopped, gate, expired, inflight, version, history>>

\* The message to the approvers is sent, or fails and the action is refused.
Notify(c) ==
    /\ At(c, "notify")
    /\ \/ Go(c, "await") /\ UNCHANGED pending
       \/ Go(c, "run") /\ pending' = pending \ {AskId(c)}
    /\ UNCHANGED <<botVars, jobs, stopped, gate, expired, decision, inflight, version, history>>

\* The timer of the wait fires.
Expire(c) ==
    /\ worker[c].at \in {"notify", "await"} /\ life # "down"
    /\ AskId(c) \notin expired
    /\ expired' = expired \cup {AskId(c)}
    /\ UNCHANGED <<botVars, workVars, pending, decision, inflight, version, history>>

\* Mutant: the wait has no deadline of its own.
GiveUpOnCancel(c) ==
    /\ At(c, "await") /\ CtxDone(Job(c))
    /\ pending' = pending \ {AskId(c)}
    /\ Go(c, "run")
    /\ UNCHANGED <<botVars, jobs, stopped, gate, expired, decision, inflight, version, history>>

GiveUp(c) ==
    /\ At(c, "await") /\ WaitDone(c)
    /\ pending' = pending \ {AskId(c)}
    /\ Go(c, "run")
    /\ UNCHANGED <<botVars, jobs, stopped, gate, expired, decision, inflight, version, history>>

\* select takes the decision although the context may be done: it is checked again.
TakeDecision(c) ==
    /\ At(c, "await") /\ decision[c] # "none"
    /\ pending' = pending \ {AskId(c)}
    /\ Go(c, IF WaitDone(c) \/ decision[c] = "reject" THEN "run" ELSE "recheck")
    /\ UNCHANGED <<botVars, jobs, stopped, gate, expired, decision, inflight, version, history>>

\* guard computes the target again and compares; Execute then checks the context.
Recheck(c) ==
    /\ At(c, "recheck")
    /\ Go(c, IF version[Dir(c)] # worker[c].before \/ CtxDone(Job(c)) THEN "run" ELSE "allowed")
    /\ UNCHANGED <<botVars, jobs, stopped, gate, askVars, version, history>>

\* Mutant: the tool trusts the version the guard compared.
ActUnchecked(c) ==
    /\ At(c, "allowed")
    /\ Go(c, "run")
    /\ version' = [version EXCEPT ![Dir(c)] = @ + 1]
    /\ acts' = acts \cup {[id |-> AskId(c), kind |-> worker[c].kind,
                          before |-> worker[c].before, on |-> version[Dir(c)]]}
    /\ UNCHANGED <<botVars, jobs, stopped, gate, askVars,
                   accepted, began, answered, stops, grants>>

\* The tool.  A write checks the version once more, a command does not.
Act(c) ==
    /\ At(c, "allowed")
    /\ Go(c, "run")
    /\ IF CtxDone(Job(c)) \/ (worker[c].kind = "write" /\ version[Dir(c)] # worker[c].before)
       THEN UNCHANGED <<version, acts>>
       ELSE /\ version' = [version EXCEPT ![Dir(c)] = @ + 1]
            /\ acts' = acts \cup {[id |-> AskId(c), kind |-> worker[c].kind,
                                   before |-> worker[c].before, on |-> version[Dir(c)]]}
    /\ UNCHANGED <<botVars, jobs, stopped, gate, askVars,
                   accepted, began, answered, stops, grants>>

(***************************************************************************)
(* Around the bot.                                                         *)
(***************************************************************************)
Close ==
    /\ life = "open"
    /\ life' = "closed"
    /\ UNCHANGED <<starts, ledger, workVars, askVars, version, history>>

\* Close returns when every worker has: queued tasks are gone, markers stay.
Exit ==
    /\ life = "closed" /\ \A c \in Chats : worker[c].at = "idle"
    /\ life' = "down"
    /\ inflight' = {}
    /\ UNCHANGED <<starts, ledger, workVars, pending, expired, decision, version, history>>

\* The process dies; with the machine, markers that were not synced may go too.
Crash ==
    /\ life # "down"
    /\ life' = "down"
    /\ \/ UNCHANGED ledger
       \/ ledger' = [e \in Events |-> IF ledger[e] = "created" THEN "absent" ELSE ledger[e]]
    /\ jobs' = [c \in Chats |-> <<>>]
    /\ worker' = [c \in Chats |-> Idle]
    /\ stopped' = {}
    /\ gate' = [d \in Dirs |-> Free]
    /\ pending' = {} /\ expired' = {} /\ inflight' = {}
    /\ decision' = [c \in Chats |-> "none"]
    /\ UNCHANGED <<starts, version, history>>

\* newFeishuBot: fresh queues, gates and approvals over the same ledger.
Restart ==
    /\ life = "down" /\ starts < MaxStarts
    /\ life' = "open"
    /\ starts' = starts + 1
    /\ jobs' = [c \in Chats |-> <<>>]
    /\ worker' = [c \in Chats |-> Idle]
    /\ stopped' = {}
    /\ gate' = [d \in Dirs |-> Free]
    /\ pending' = {} /\ expired' = {} /\ inflight' = {}
    /\ decision' = [c \in Chats |-> "none"]
    /\ UNCHANGED <<ledger, version, history>>

\* Somebody outside the bot changes the directory.
ForeignEdit(d) ==
    /\ version[d] < MaxVersion
    /\ version' = [version EXCEPT ![d] = @ + 1]
    /\ UNCHANGED <<botVars, workVars, askVars, history>>

Step(c) ==
    \/ TakeJob(c) \/ Retire(c)
    \/ EnterGate(c) \/ StopAtGate(c) \/ BeginRun(c)
    \/ Notify(c) \/ GiveUp(c) \/ TakeDecision(c) \/ Recheck(c) \/ Act(c)
    \/ EndRun(c) \/ Report(c) \/ LeaveGate(c) \/ ClearCancel(c)

Next ==
    \/ \E e \in Events : ClaimTorn(e)
    \/ \E t \in Tasks : Submit(t)
    \/ \E e \in Cancels : CancelTask(e)
    \/ \E e \in Verdicts : Verdict(e)
    \/ \E v \in inflight : Resolve(v)
    \/ \E c \in Chats : Step(c) \/ Ask(c) \/ Expire(c)
    \/ Close \/ Exit \/ Crash \/ Restart
    \/ \E d \in Dirs : ForeignEdit(d)

Spec == Init /\ [][Next]_vars

\* Goroutines are scheduled, timers fire, the engine's run ends at its deadline,
\* and a handler that is past the ledger goes on.  Nothing is assumed of the
\* platform, of users, of outsiders and of crashes.
Fairness ==
    /\ \A c \in Chats : WF_vars(Step(c)) /\ WF_vars(EndRun(c)) /\ WF_vars(Expire(c))
    /\ WF_vars(Exit)
FairSpec == Spec /\ Fairness

(***************************************************************************)
(* Properties.                                                             *)
(***************************************************************************)
AskIds   == Tasks \X (1..MaxAsks)
Decision == [id : AskIds, chat : Chats, by : Users, allow : BOOLEAN]
Grant    == [id : AskIds, chat : Chats, by : Users, allow : BOOLEAN, late : BOOLEAN]
Deed     == [id : AskIds, kind : {"write", "command"}, before : Nat, on : Nat]
Worker   == [at : Stages, job : Tasks \cup {NoTask}, asks : 0..MaxAsks,
             kind : {"write", "command"}, before : Nat]

TypeOK ==
    /\ life \in {"open", "closed", "down"} /\ starts \in 1..MaxStarts
    /\ ledger \in [Events -> {"absent", "created", "synced"}]
    /\ jobs \in [Chats -> Seq(Tasks)]
    /\ worker \in [Chats -> Worker]
    /\ stopped \subseteq Tasks
    /\ gate \in [Dirs -> Chats \cup {Free}]
    /\ pending \subseteq AskIds /\ expired \subseteq AskIds /\ inflight \subseteq Decision
    /\ decision \in [Chats -> {"none", "allow", "reject"}]
    /\ version \in [Dirs -> Nat]
    /\ accepted \in [Chats -> Seq(Tasks)] /\ began \in [Chats -> Seq(Tasks)]
    /\ answered \subseteq Tasks /\ stops \subseteq Cancels \X Tasks
    /\ grants \subseteq Grant /\ acts \subseteq Deed

\* Whatever occurs in s occurs in t, any two of them in the same order.
InOrder(s, t) ==
    \A i, j \in DOMAIN s : i <= j =>
        \E p, q \in DOMAIN t : p <= q /\ t[p] = s[i] /\ t[q] = s[j]

\* FS-01: an event delivered again, also after a crash or a power loss, starts no
\* second run, and the runs of a chat begin in the order its messages were queued.
OnceInOrder ==
    \A c \in Chats :
        /\ IsInjective(accepted[c]) /\ IsInjective(began[c])
        /\ InOrder(began[c], accepted[c])

\* FS-01: chats that share a directory never have two tasks at work in it.
Inside == {"entered", "run", "notify", "await", "recheck", "allowed", "report", "leave"}
OneRunPerDirectory ==
    \A b, c \in Chats :
        WorkDir[b] = WorkDir[c] /\ {worker[b].at, worker[c].at} \subseteq Inside => b = c

\* FS-02: whatever ran was allowed by exactly one decision, of an approver of the
\* task's chat who answered there while the task was neither stopped nor late.
ActsAreGranted ==
    \A a \in acts :
        LET c == ChatOf[a.id[1]]
            decisions == {g \in grants : g.id = a.id}
        IN /\ Cardinality(decisions) = 1
           /\ \A g \in decisions :
                 g.allow /\ ~g.late /\ g.chat = c /\ g.by \in Approvers[c]
           /\ Cardinality({b \in acts : b.id = a.id}) = 1

\* FS-04: an approval does not carry a write over to a version it did not show.
WritesKeepTheirVersion == \A a \in acts : a.kind = "write" => a.on = a.before

\* One /cancel, however often it is delivered, stops one task at most, and the
\* task was its sender's or the sender may approve in that chat.
CancelHitsOne ==
    \A s \in stops :
        /\ \A r \in stops : r[1] = s[1] => r = s
        /\ ChatOf[s[2]] = ChatOf[s[1]]
        /\ Sender[s[2]] = Sender[s[1]] \/ Sender[s[1]] \in Approvers[ChatOf[s[1]]]

\* FS-02: a task stopped before its run began does not begin.
StoppedNeverBegins ==
    [][\A c \in Chats : began'[c] # began[c] => ~CtxDone(Last(began'[c]))]_vars

\* A queued task is answered, unless the process is closed or dies first.
Queued(t) == Contains(jobs[ChatOf[t]], t) \/ worker[ChatOf[t]].job = t
EveryTaskAnswered == \A t \in Tasks : Queued(t) ~> (t \in answered \/ life # "open")

\* Close returns: no worker hangs in a gate, an approval or a run.
CloseReturns == (life = "closed") ~> (life # "closed")
================================================================================
