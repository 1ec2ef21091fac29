---------------------------- MODULE FeishuBotProofs ----------------------------
(***************************************************************************)
(* What the bot promises for any chats, directories, users, events and     *)
(* bounds. A task runs once and in its turn because its place in the       *)
(* queue's history is never behind that of a task that began (Claimed,     *)
(* Queue). Whatever ran was granted because an id is asked once, decided   *)
(* once while it is pending, and used at once (AsksTrue, GrantsTrue,       *)
(* ActsTrue).                                                              *)
(***************************************************************************)
EXTENDS FeishuBot, FiniteSetTheorems, SequenceTheorems, TLAPS

\* A worker has a task exactly while it is on one, and has asked before it waits.
Waiting == {"notify", "await"}
Asking == {"notify", "await", "recheck", "allowed"}
Busy ==
    \A c \in Chats :
        /\ worker[c].job = NoTask <=> worker[c].at \in {"idle", "top"}
        /\ worker[c].at \in Asking => worker[c].asks > 0

\* What a chat has accepted is its own and on disk, each of it once.
Claimed ==
    /\ \A c \in Chats :
        /\ IsInjective(accepted[c])
        /\ \A i \in DOMAIN accepted[c] :
              ledger[accepted[c][i]] = "synced" /\ ChatOf[accepted[c][i]] = c
    /\ \A s \in stops : ledger[s[1]] = "synced"

\* The tasks of chat c that have left its queue are the first of its history.
Left(c) == Len(accepted[c]) - Len(jobs[c])

\* The worker's task is the p-th its chat accepted; before it is begun, all
\* that began were accepted before it.
Place(c, p) ==
    /\ accepted[c][p] = worker[c].job
    /\ worker[c].at \in {"gate", "entered"} =>
          \A i \in DOMAIN began[c] : \E q \in 1..(p - 1) : accepted[c][q] = began[c][i]

Lined(c) ==
    /\ Len(jobs[c]) <= Len(accepted[c])
    /\ \A k \in DOMAIN jobs[c] : jobs[c][k] = accepted[c][Left(c) + k]
    /\ \A i \in DOMAIN began[c] : \E q \in 1..Left(c) : accepted[c][q] = began[c][i]
    /\ worker[c].job # NoTask => \E p \in 1..Left(c) : Place(c, p)

Queue == \A c \in Chats : Lined(c)

\* Whoever is in a run has begun it.
Begun ==
    \A c \in Chats : worker[c].at \in {"run"} \cup Asking =>
        \E i \in DOMAIN began[c] : began[c][i] = Job(c)

Gated == \A c \in Chats : worker[c].at \in Inside => gate[Dir(c)] = c

\* An id one may decide is the one its worker waits for.
AsksTrue ==
    \A id \in pending :
        LET c == ChatOf[id[1]] IN worker[c].at \in Waiting /\ id = AskId(c)

\* An id is decided once, by an approver of its chat, and only a task that
\* began and has asked for it can have it.
GrantsTrue ==
    \A g \in grants :
        /\ g.id \notin pending
        /\ g.chat = ChatOf[g.id[1]] /\ g.by \in Approvers[g.chat]
        /\ \E i \in DOMAIN began[g.chat] : began[g.chat][i] = g.id[1]
        /\ worker[g.chat].job = g.id[1] => g.id[2] <= worker[g.chat].asks
        /\ \A h \in grants : h.id = g.id => h = g

\* The worker has the grant that lets it go on.
HasGrant(id) == \E g \in grants : g.id = id /\ g.allow /\ ~g.late

ActsTrue ==
    /\ \A c \in Chats :
        /\ worker[c].at \in Waiting /\ decision[c] = "allow" =>
              \E g \in grants : g.id = AskId(c) /\ g.allow /\ (g.late => WaitDone(c))
        /\ worker[c].at \in {"recheck", "allowed"} => HasGrant(AskId(c))
        /\ worker[c].at \in Asking =>
              \A a \in acts : a.id # AskId(c)
    /\ \A a \in acts : /\ HasGrant(a.id)
                       /\ \A b \in acts : b.id = a.id => b = a

IInv ==
    /\ TypeOK
    /\ OnceInOrder /\ OneRunPerDirectory /\ CancelHitsOne /\ WritesKeepTheirVersion
    /\ Busy /\ Claimed /\ Queue /\ Begun /\ Gated /\ AsksTrue /\ GrantsTrue /\ ActsTrue

-----------------------------------------------------------------------------
(* Types.                                                                  *)

\* Only its stage changes of the worker that goes on.
LEMMA Goes ==
    ASSUME TypeOK, NEW c \in Chats, NEW stage \in Stages, Go(c, stage)
    PROVE  /\ worker' \in [Chats -> Worker]
           /\ \A b \in Chats \ {c} : worker'[b] = worker[b]
           /\ worker'[c].at = stage /\ worker'[c].job = worker[c].job
           /\ worker'[c].asks = worker[c].asks /\ worker'[c].kind = worker[c].kind
           /\ worker'[c].before = worker[c].before
<1>1. worker \in [Chats -> Worker] /\ worker[c] \in Worker
  BY DEF TypeOK
<1>2. worker' = [worker EXCEPT ![c] = [worker[c] EXCEPT !.at = stage]]
  BY DEF Go
<1>3. [worker[c] EXCEPT !.at = stage] =
         [at |-> stage, job |-> worker[c].job, asks |-> worker[c].asks,
          kind |-> worker[c].kind, before |-> worker[c].before]
  BY <1>1 DEF Worker
<1>4. QED
  BY <1>1, <1>2, <1>3 DEF Worker

\* The worker of a chat that takes a task, or has none.
LEMMA Fresh ==
    /\ Idle \in Worker /\ Idle.at = "idle" /\ Idle.job = NoTask
    /\ \A stage \in Stages, job \in Tasks \cup {NoTask} :
          LET w == Placed(stage, job) IN
          w \in Worker /\ w.at = stage /\ w.job = job /\ w.asks = 0
<1>1. 0 \in 0..MaxAsks
  BY BoundsAssumption
<1>2. QED
  BY <1>1 DEF Idle, Placed, Worker, Stages

LEMMA Asks ==
    ASSUME TypeOK, NEW c \in Chats, Ask(c)
    PROVE  /\ worker' \in [Chats -> Worker]
           /\ \A b \in Chats \ {c} : worker'[b] = worker[b]
           /\ worker'[c].at = "notify" /\ worker'[c].job = worker[c].job
           /\ worker'[c].asks = worker[c].asks + 1 /\ worker[c].asks < MaxAsks
           /\ worker[c].at = "run"
<1>1. worker \in [Chats -> Worker] /\ worker[c] \in Worker /\ version[Dir(c)] \in Nat
  BY TablesAssumption DEF TypeOK, Dir
<1>2. PICK kind \in Kinds :
         worker' = [worker EXCEPT ![c] = [at |-> "notify", job |-> worker[c].job,
             asks |-> worker[c].asks + 1, kind |-> kind, before |-> version[Dir(c)]]]
  BY DEF Ask, Job
<1>. DEFINE w == [at |-> "notify", job |-> worker[c].job, asks |-> worker[c].asks + 1,
                  kind |-> kind, before |-> version[Dir(c)]]
<1>3. worker[c].asks < MaxAsks /\ worker[c].at = "run"
  BY DEF Ask, At
<1>4. w \in Worker
  BY <1>1, <1>3, KindsAssumption, BoundsAssumption DEF Worker, Stages
<1>5. QED
  BY <1>1, <1>2, <1>3, <1>4

LEMMA StagesAre ==
    {"idle", "top", "gate", "entered", "run", "notify", "await",
     "recheck", "allowed", "report", "leave", "clear"} \subseteq Stages
BY DEF Stages

\* The bot's queue, its worker and its gates as they are typed.
LEMMA Queues ==
    ASSUME TypeOK, NEW c \in Chats
    PROVE  /\ jobs[c] \in Seq(Tasks) /\ Len(jobs[c]) \in Nat /\ DOMAIN jobs[c] = 1..Len(jobs[c])
           /\ accepted[c] \in Seq(Tasks) /\ Len(accepted[c]) \in Nat
           /\ DOMAIN accepted[c] = 1..Len(accepted[c])
           /\ began[c] \in Seq(Tasks) /\ Len(began[c]) \in Nat /\ DOMAIN began[c] = 1..Len(began[c])
           /\ \A t \in Tasks :
                 /\ Append(began[c], t) \in Seq(Tasks) /\ Append(jobs[c], t) \in Seq(Tasks)
                 /\ Append(accepted[c], t) \in Seq(Tasks)
           /\ jobs[c] # <<>> =>
                 /\ Len(jobs[c]) > 0 /\ Head(jobs[c]) \in Tasks /\ Tail(jobs[c]) \in Seq(Tasks)
                 /\ Len(Tail(jobs[c])) = Len(jobs[c]) - 1 /\ Head(jobs[c]) = jobs[c][1]
                 /\ \A k \in 1..(Len(jobs[c]) - 1) : Tail(jobs[c])[k] = jobs[c][k + 1]
<1>1. jobs[c] \in Seq(Tasks) /\ accepted[c] \in Seq(Tasks) /\ began[c] \in Seq(Tasks)
  BY DEF TypeOK
<1>2. QED
  BY <1>1, LenProperties, AppendProperties, HeadTailProperties, EmptySeq

LEMMA HandleTypes ==
    ASSUME TypeOK,
           \/ \E e \in Events : ClaimTorn(e)
           \/ \E t \in Tasks : Submit(t)
           \/ \E e \in Cancels : CancelTask(e)
           \/ \E e \in Verdicts : Verdict(e)
           \/ \E v \in inflight : Resolve(v)
    PROVE  TypeOK'
<1>. USE DEF botVars, workVars, askVars, history
<1>1. CASE \E e \in Events : ClaimTorn(e)
  BY <1>1 DEF ClaimTorn, TypeOK
<1>2. CASE \E t \in Tasks : Submit(t)
  <2>1. PICK t \in Tasks : Submit(t)
    BY <1>2
  <2>. DEFINE c == ChatOf[t]
  <2>2. c \in Chats
    BY TablesAssumption DEF Events
  <2>3. ledger' \in [Events -> {"absent", "created", "synced"}]
    BY <2>1 DEF Submit, Claim, TypeOK
  <2>4. jobs' \in [Chats -> Seq(Tasks)] /\ accepted' \in [Chats -> Seq(Tasks)]
    BY <2>1, <2>2, Queues DEF Submit, TypeOK
  <2>5. worker' = worker \/ (Go(c, "top"))
    BY <2>1, <2>2 DEF Submit, TypeOK, Go, Worker
  <2>6. worker' \in [Chats -> Worker]
    BY <2>2, <2>5, Goes, StagesAre DEF TypeOK
  <2>7. QED
    BY <2>1, <2>3, <2>4, <2>6 DEF Submit, TypeOK
<1>3. CASE \E e \in Cancels : CancelTask(e)
  <2>1. PICK e \in Cancels : CancelTask(e)
    BY <1>3
  <2>2. ledger' \in [Events -> {"absent", "created", "synced"}]
    BY <2>1 DEF CancelTask, Claim, TypeOK
  <2>3. worker[ChatOf[e]] \in Worker
    BY TablesAssumption DEF Events, TypeOK
  <2>4. stopped' \subseteq Tasks /\ stops' \subseteq Cancels \X Tasks
    BY <2>1, <2>3 DEF CancelTask, MayStop, TypeOK, Worker
  <2>5. QED
    BY <2>1, <2>2, <2>4 DEF CancelTask, TypeOK
<1>4. CASE \E e \in Verdicts : Verdict(e)
  <2>1. PICK e \in Verdicts : Verdict(e)
    BY <1>4
  <2>2. ledger' \in [Events -> {"absent", "created", "synced"}]
    BY <2>1 DEF Verdict, Claim, TypeOK
  <2>3. ChatOf[e] \in Chats /\ Sender[e] \in Users
    BY TablesAssumption DEF Events
  <2>4. Known \subseteq AskIds
    BY DEF Known, TypeOK, Grant
  <2>5. inflight' \subseteq Decision
    BY <2>1, <2>3, <2>4 DEF Verdict, TypeOK, Decision
  <2>6. QED
    BY <2>1, <2>2, <2>5 DEF Verdict, TypeOK
<1>5. CASE \E v \in inflight : Resolve(v)
  <2>1. PICK v \in inflight : Resolve(v)
    BY <1>5
  <2>2. /\ v.id \in AskIds /\ v.chat \in Chats /\ v.by \in Users /\ v.allow \in BOOLEAN
    BY DEF TypeOK, Decision
  <2>3. [id |-> v.id, chat |-> v.chat, by |-> v.by, allow |-> v.allow, late |-> Late(v.id)] \in Grant
    <3>1. Late(v.id) \in BOOLEAN
      BY DEF Late
    <3>2. QED
      BY <2>2, <3>1 DEF Grant
  <2>4. grants' \subseteq Grant
    BY <2>1, <2>3 DEF Resolve, TypeOK
  <2>5. decision' \in [Chats -> {"none", "allow", "reject"}]
    BY <2>1 DEF Resolve, TypeOK
  <2>6. pending' \subseteq AskIds /\ inflight' \subseteq Decision
    BY <2>1 DEF Resolve, TypeOK
  <2>7. QED
    BY <2>1, <2>4, <2>5, <2>6 DEF Resolve, TypeOK
<1>6. QED
  BY <1>1, <1>2, <1>3, <1>4, <1>5

LEMMA WorkTypes ==
    ASSUME TypeOK, Busy, NEW c \in Chats, Step(c) \/ Ask(c) \/ Expire(c)
    PROVE  TypeOK'
<1>. USE DEF botVars, workVars, askVars, history, At
<1>0. worker[c] \in Worker /\ Dir(c) \in Dirs /\ version[Dir(c)] \in Nat
  BY TablesAssumption DEF TypeOK, Dir
<1>a. worker[c].at \notin {"idle", "top"} => Job(c) \in Tasks
  BY <1>0 DEF Busy, Worker, Job
<1>b. worker[c].at \in Asking => AskId(c) \in AskIds
  BY <1>0, <1>a, BoundsAssumption DEF Busy, Asking, Worker, AskId, AskIds
<1>1. CASE TakeJob(c)
  <2>1. worker' \in [Chats -> Worker]
    BY <1>1, Queues, Fresh, StagesAre DEF TakeJob, TypeOK
  <2>2. jobs' \in [Chats -> Seq(Tasks)]
    BY <1>1, Queues DEF TakeJob, TypeOK
  <2>3. QED
    BY <1>1, <2>1, <2>2 DEF TakeJob, TypeOK
<1>2. CASE Retire(c)
  <2>1. worker' \in [Chats -> Worker] /\ jobs' \in [Chats -> Seq(Tasks)]
    BY <1>2, Goes, StagesAre, EmptySeq DEF Retire, TypeOK
  <2>2. QED
    BY <1>2, <2>1 DEF Retire, TypeOK
<1>3. CASE EnterGate(c) \/ LeaveGate(c)
  <2>1. worker' \in [Chats -> Worker]
    BY <1>3, Goes, StagesAre DEF EnterGate, LeaveGate
  <2>2. gate' \in [Dirs -> Chats \cup {Free}]
    BY <1>3 DEF EnterGate, LeaveGate, TypeOK
  <2>3. QED
    BY <1>3, <2>1, <2>2 DEF EnterGate, LeaveGate, TypeOK
<1>4. CASE StopAtGate(c) \/ BeginRun(c) \/ EndRun(c) \/ Report(c)
  <2>1. worker' \in [Chats -> Worker]
    BY <1>4, Goes, StagesAre DEF StopAtGate, BeginRun, EndRun, Report
  <2>2. Job(c) \in Tasks
    BY <1>a, <1>4 DEF StopAtGate, BeginRun, EndRun, Report
  <2>3. answered' \subseteq Tasks
    BY <1>4, <2>2 DEF StopAtGate, BeginRun, EndRun, Report, TypeOK
  <2>4. began' \in [Chats -> Seq(Tasks)]
    <3>1. began \in [Chats -> Seq(Tasks)] /\ Append(began[c], Job(c)) \in Seq(Tasks)
      BY <2>2, Queues DEF TypeOK
    <3>2. began' = began \/ began' = [began EXCEPT ![c] = Append(began[c], Job(c))]
      BY <1>4 DEF StopAtGate, BeginRun, EndRun, Report
    <3>3. QED
      BY <3>1, <3>2
  <2>5. QED
    BY <1>4, <2>1, <2>3, <2>4 DEF StopAtGate, BeginRun, EndRun, Report, TypeOK
<1>5. CASE ClearCancel(c)
  <2>1. worker' \in [Chats -> Worker]
    BY <1>5, Fresh, StagesAre DEF ClearCancel, TypeOK
  <2>2. QED
    BY <1>5, <2>1 DEF ClearCancel, TypeOK
<1>6. CASE Notify(c) \/ GiveUp(c) \/ TakeDecision(c) \/ Recheck(c)
  <2>1. worker' \in [Chats -> Worker]
    BY <1>6, Goes, StagesAre DEF Notify, GiveUp, TakeDecision, Recheck
  <2>2. pending' \subseteq AskIds
    BY <1>6 DEF Notify, GiveUp, TakeDecision, Recheck, TypeOK
  <2>3. QED
    BY <1>6, <2>1, <2>2 DEF Notify, GiveUp, TakeDecision, Recheck, TypeOK
<1>7. CASE Act(c)
  <2>1. worker' \in [Chats -> Worker]
    BY <1>7, Goes, StagesAre DEF Act
  <2>2. version' \in [Dirs -> Nat]
    <3>1. version' = version \/ version' = [version EXCEPT ![Dir(c)] = version[Dir(c)] + 1]
      BY <1>7 DEF Act
    <3>2. QED
      BY <1>0, <3>1 DEF TypeOK
  <2>3. AskId(c) \in AskIds
    BY <1>b, <1>7 DEF Act, Asking
  <2>4. [id |-> AskId(c), kind |-> worker[c].kind, before |-> worker[c].before,
         on |-> version[Dir(c)]] \in Deed
    BY <1>0, <2>3 DEF Deed, Worker
  <2>5. acts' \subseteq Deed
    BY <1>7, <2>4 DEF Act, TypeOK
  <2>6. QED
    BY <1>7, <2>1, <2>2, <2>5 DEF Act, TypeOK
<1>8. CASE Ask(c)
  <2>1. worker[c].asks < MaxAsks /\ worker[c].at = "run"
    BY <1>8, Asks
  <2>2. worker' \in [Chats -> Worker]
    BY <1>8, Asks
  <2>3. <<Job(c), worker[c].asks + 1>> \in AskIds
    BY <1>0, <1>a, <2>1, BoundsAssumption DEF AskIds, Worker
  <2>4. pending' \subseteq AskIds /\ decision' \in [Chats -> {"none", "allow", "reject"}]
    BY <1>8, <2>3 DEF Ask, TypeOK
  <2>5. QED
    BY <1>8, <2>2, <2>4 DEF Ask, TypeOK
<1>9. CASE Expire(c)
  <2>1. AskId(c) \in AskIds
    BY <1>b, <1>9 DEF Expire, Asking
  <2>2. QED
    BY <1>9, <2>1 DEF Expire, TypeOK
<1>10. QED
  BY <1>1, <1>2, <1>3, <1>4, <1>5, <1>6, <1>7, <1>8, <1>9 DEF Step

LEMMA TypeStep ==
    ASSUME TypeOK, Busy, [Next]_vars
    PROVE  TypeOK'
<1>. USE DEF botVars, workVars, askVars, history
<1>1. CASE \E c \in Chats : Step(c) \/ Ask(c) \/ Expire(c)
  BY <1>1, WorkTypes
<1>2. CASE Close \/ Exit
  BY <1>2 DEF Close, Exit, TypeOK
<1>3. CASE Crash \/ Restart
  <2>1. Idle \in Worker /\ <<>> \in Seq(Tasks)
    BY Fresh, StagesAre, EmptySeq
  <2>2. ledger' \in [Events -> {"absent", "created", "synced"}]
    BY <1>3 DEF Crash, Restart, TypeOK
  <2>3. starts' \in 1..MaxStarts
    BY <1>3, BoundsAssumption DEF Crash, Restart, TypeOK
  <2>4. QED
    BY <1>3, <2>1, <2>2, <2>3, ZenonT(40) DEF Crash, Restart, TypeOK
<1>4. CASE \E d \in Dirs : ForeignEdit(d)
  BY <1>4 DEF ForeignEdit, TypeOK
<1>5. CASE UNCHANGED vars
  BY <1>5 DEF vars, TypeOK
<1>6. QED
  BY <1>1, <1>2, <1>3, <1>4, <1>5, HandleTypes DEF Next

-----------------------------------------------------------------------------
(* The worker and the queue.                                               *)

Resting == {"idle", "top"}

\* How a worker goes from stage to stage: it stays on its task, asks for one
\* more action, takes the next task, or has none.
LEMMA Moves ==
    ASSUME TypeOK, NEW c \in Chats, Step(c) \/ Ask(c) \/ Expire(c)
    PROVE  /\ \A b \in Chats \ {c} : worker'[b] = worker[b]
           /\ \/ /\ worker'[c].job = worker[c].job /\ worker'[c].asks = worker[c].asks
                 /\ worker[c].at \notin Resting /\ worker'[c].at \notin Resting
                 /\ worker'[c].at \in Asking => worker[c].at \in Asking
                 /\ worker'[c].at \in {"gate", "entered"} => worker[c].at = "gate"
                 /\ worker'[c].at \in Waiting => worker[c].at \in Waiting
                 /\ worker'[c].at \in {"recheck", "allowed"} =>
                       worker[c].at = "recheck" \/ TakeDecision(c)
                 /\ worker'[c].at \in {"run"} \cup Asking =>
                       worker[c].at \in {"run"} \cup Asking \/ BeginRun(c)
                 /\ UNCHANGED jobs
              \/ /\ Ask(c) /\ worker'[c].at = "notify" /\ worker[c].at = "run"
                 /\ worker'[c].job = worker[c].job /\ worker'[c].asks = worker[c].asks + 1
              \/ TakeJob(c) /\ worker'[c] = Placed("gate", Head(jobs[c]))
              \/ /\ Retire(c) /\ worker[c].at = "top" /\ worker'[c].at = "idle"
                 /\ worker'[c].job = worker[c].job
              \/ ClearCancel(c) /\ worker'[c] = Placed("top", NoTask)
<1>. USE DEF At, Resting, Asking, Waiting
<1>0. worker \in [Chats -> Worker]
  BY DEF TypeOK
<1>1. CASE TakeJob(c) \/ ClearCancel(c)
  BY <1>0, <1>1 DEF TakeJob, ClearCancel
<1>2. CASE Ask(c)
  BY <1>2, Asks
<1>3. CASE Retire(c)
  BY <1>3, Goes, StagesAre DEF Retire
<1>4. CASE Expire(c)
  BY <1>0, <1>4 DEF Expire, workVars
<1>5. CASE EnterGate(c) \/ StopAtGate(c) \/ LeaveGate(c) \/ EndRun(c) \/ Report(c)
  BY <1>5, Goes, StagesAre DEF EnterGate, StopAtGate, LeaveGate, EndRun, Report
<1>6. CASE BeginRun(c)
  BY <1>6, Goes, StagesAre DEF BeginRun
<1>7. CASE Notify(c) \/ GiveUp(c)
  BY <1>7, Goes, StagesAre DEF Notify, GiveUp
<1>8. CASE TakeDecision(c)
  BY <1>8, Goes, StagesAre DEF TakeDecision
<1>9. CASE Recheck(c)
  BY <1>9, Goes, StagesAre DEF Recheck
<1>10. CASE Act(c)
  BY <1>10, Goes, StagesAre DEF Act
<1>11. QED
  BY <1>1, <1>2, <1>3, <1>4, <1>5, <1>6, <1>7, <1>8, <1>9, <1>10 DEF Step

\* Whoever queues a task wakes the worker, and nothing else moves it.
LEMMA Wakes ==
    ASSUME TypeOK, NEW t \in Tasks, Submit(t)
    PROVE  /\ ChatOf[t] \in Chats
           /\ \A b \in Chats : worker'[b] = worker[b]
                 \/ /\ b = ChatOf[t] /\ worker[b].at = "idle" /\ worker'[b].at = "top"
                    /\ worker'[b].job = worker[b].job
<1>. DEFINE c == ChatOf[t]
<1>1. c \in Chats
  BY TablesAssumption DEF Events
<1>2. worker' = [worker EXCEPT ![c].at = IF worker[c].at = "idle" THEN "top" ELSE worker[c].at]
  BY DEF Submit
<1>3. CASE worker[c].at = "idle"
  <2>1. Go(c, "top")
    BY <1>2, <1>3 DEF Go
  <2>2. QED
    BY <1>1, <1>3, <2>1, Goes, StagesAre
<1>4. CASE worker[c].at # "idle"
  BY <1>1, <1>2, <1>4 DEF TypeOK, Worker
<1>5. QED
  BY <1>1, <1>3, <1>4

\* The steps of the bot that leave every worker where it is.
Aside ==
    \/ \E e \in Events : ClaimTorn(e)
    \/ \E e \in Cancels : CancelTask(e)
    \/ \E e \in Verdicts : Verdict(e)
    \/ \E v \in inflight : Resolve(v)
    \/ Close \/ Exit
    \/ \E d \in Dirs : ForeignEdit(d)
    \/ UNCHANGED vars

LEMMA AsideKeeps ==
    ASSUME Aside
    PROVE  UNCHANGED <<worker, jobs, gate, accepted, began, acts>>
BY DEF Aside, ClaimTorn, CancelTask, Verdict, Resolve, Close, Exit, ForeignEdit,
       botVars, workVars, askVars, history, vars

LEMMA Cases ==
    ASSUME [Next]_vars
    PROVE  \/ Aside
           \/ \E t \in Tasks : Submit(t)
           \/ \E c \in Chats : Step(c) \/ Ask(c) \/ Expire(c)
           \/ Crash \/ Restart
BY DEF Next, Aside

LEMMA BusyStep ==
    ASSUME TypeOK, Busy, [Next]_vars
    PROVE  Busy'
<1>1. CASE Aside
  BY <1>1, AsideKeeps DEF Busy
<1>2. CASE \E t \in Tasks : Submit(t)
  BY <1>2, Wakes DEF Busy, Asking
<1>3. ASSUME NEW c \in Chats, Step(c) \/ Ask(c) \/ Expire(c)
      PROVE  Busy'
  <2>1. /\ worker'[c].job = NoTask <=> worker'[c].at \in {"idle", "top"}
        /\ worker'[c].at \in Asking => worker'[c].asks > 0
    <3>1. worker[c].asks \in Nat
      BY BoundsAssumption DEF TypeOK, Worker
    <3>2. CASE TakeJob(c)
      <4>1. jobs[c] # <<>> /\ worker'[c] = Placed("gate", Head(jobs[c]))
        BY <3>2 DEF TakeJob, TypeOK
      <4>2. Head(jobs[c]) # NoTask
        BY <4>1, Queues, NamesAssumption DEF Events
      <4>3. QED
        BY <4>1, <4>2 DEF Placed, Asking
    <3>3. CASE ~TakeJob(c)
      <4>1. \/ /\ worker'[c].job = worker[c].job /\ worker'[c].asks = worker[c].asks
               /\ worker[c].at \notin Resting /\ worker'[c].at \notin Resting
               /\ worker'[c].at \in Asking => worker[c].at \in Asking
            \/ /\ worker'[c].at = "notify" /\ worker[c].at = "run"
               /\ worker'[c].job = worker[c].job /\ worker'[c].asks = worker[c].asks + 1
            \/ /\ worker[c].at = "top" /\ worker'[c].at = "idle"
               /\ worker'[c].job = worker[c].job
            \/ worker'[c] = Placed("top", NoTask)
        BY <1>3, <3>3, Moves
      <4>2. QED
        BY <3>1, <4>1 DEF Busy, Placed, Resting, Asking
    <3>4. QED
      BY <3>2, <3>3
  <2>2. QED
    BY <1>3, <2>1, Moves DEF Busy
<1>4. CASE Crash \/ Restart
  <2>1. \A c \in Chats : worker'[c] = Idle
    BY <1>4 DEF Crash, Restart
  <2>2. QED
    BY <2>1, Fresh, StagesAre DEF Busy, Asking
<1>5. QED
  BY <1>1, <1>2, <1>3, <1>4, Cases

\* A marker that is on disk stays there.
LEMMA MarkersStay ==
    ASSUME TypeOK, [Next]_vars
    PROVE  \A e \in Events : ledger[e] = "synced" => ledger'[e] = "synced"
<1>. USE DEF botVars, workVars, askVars, history
<1>0. ledger \in [Events -> {"absent", "created", "synced"}]
  BY DEF TypeOK
<1>1. CASE \E e \in Events : ClaimTorn(e)
  BY <1>0, <1>1 DEF ClaimTorn
<1>2. CASE \/ \E e \in Tasks : Submit(e)
           \/ \E e \in Cancels : CancelTask(e)
           \/ \E e \in Verdicts : Verdict(e)
  BY <1>0, <1>2 DEF Submit, CancelTask, Verdict, Claim
<1>3. CASE \/ Close \/ Exit \/ Restart \/ UNCHANGED vars
           \/ \E v \in inflight : Resolve(v)
           \/ \E d \in Dirs : ForeignEdit(d)
  BY <1>3 DEF Close, Exit, Restart, vars, Resolve, ForeignEdit
<1>4. CASE Crash
  BY <1>0, <1>4 DEF Crash
<1>5. CASE \E c \in Chats : Step(c) \/ Ask(c) \/ Expire(c)
  BY <1>5 DEF Step, Ask, Expire, TakeJob, Retire, EnterGate, StopAtGate, BeginRun, Notify,
     GiveUp, TakeDecision, Recheck, Act, EndRun, Report, LeaveGate, ClearCancel
<1>6. QED
  BY <1>1, <1>2, <1>3, <1>4, <1>5 DEF Next

\* What a step of one worker leaves to the others, and to handle.
LEMMA OneWorks ==
    ASSUME TypeOK, NEW c \in Chats, Step(c) \/ Ask(c) \/ Expire(c)
    PROVE  /\ UNCHANGED <<accepted, ledger, stops, stopped, life>>
           /\ \A b \in Chats \ {c} : /\ jobs'[b] = jobs[b] /\ began'[b] = began[b]
                                     /\ decision'[b] = decision[b]
           /\ TakeJob(c) \/ Retire(c) \/ UNCHANGED jobs
           /\ BeginRun(c) \/ UNCHANGED began
           /\ EnterGate(c) \/ LeaveGate(c) \/ UNCHANGED gate
           /\ Act(c) \/ UNCHANGED acts
           /\ Ask(c) \/ (UNCHANGED decision /\ pending' \subseteq pending)
           /\ UNCHANGED grants /\ expired \subseteq expired'
<1>. USE DEF botVars, workVars, askVars, history
<1>0. /\ jobs \in [Chats -> Seq(Tasks)] /\ began \in [Chats -> Seq(Tasks)]
      /\ decision \in [Chats -> {"none", "allow", "reject"}]
  BY DEF TypeOK
<1>1. UNCHANGED <<accepted, ledger, stops, stopped, life>>
  BY DEF Step, Ask, Expire, TakeJob, Retire, EnterGate, StopAtGate, BeginRun, Notify,
     GiveUp, TakeDecision, Recheck, Act, EndRun, Report, LeaveGate, ClearCancel
<1>2. TakeJob(c) \/ Retire(c) \/ UNCHANGED jobs
  BY DEF Step, Ask, Expire, EnterGate, StopAtGate, BeginRun, Notify,
     GiveUp, TakeDecision, Recheck, Act, EndRun, Report, LeaveGate, ClearCancel
<1>3. BeginRun(c) \/ UNCHANGED began
  BY DEF Step, Ask, Expire, TakeJob, Retire, EnterGate, StopAtGate, Notify,
     GiveUp, TakeDecision, Recheck, Act, EndRun, Report, LeaveGate, ClearCancel
<1>4. EnterGate(c) \/ LeaveGate(c) \/ UNCHANGED gate
  BY DEF Step, Ask, Expire, TakeJob, Retire, StopAtGate, BeginRun, Notify,
     GiveUp, TakeDecision, Recheck, Act, EndRun, Report, ClearCancel
<1>5. Act(c) \/ UNCHANGED acts
  BY DEF Step, Ask, Expire, TakeJob, Retire, EnterGate, StopAtGate, BeginRun, Notify,
     GiveUp, TakeDecision, Recheck, EndRun, Report, LeaveGate, ClearCancel
<1>6. Ask(c) \/ (UNCHANGED decision /\ pending' \subseteq pending)
  BY DEF Step, Expire, TakeJob, Retire, EnterGate, StopAtGate, BeginRun, Notify,
     GiveUp, TakeDecision, Recheck, Act, EndRun, Report, LeaveGate, ClearCancel
<1>7. \A b \in Chats \ {c} : jobs'[b] = jobs[b]
  BY <1>0, <1>2 DEF TakeJob, Retire
<1>8. \A b \in Chats \ {c} : began'[b] = began[b]
  BY <1>0, <1>3 DEF BeginRun
<1>9. \A b \in Chats \ {c} : decision'[b] = decision[b]
  BY <1>0, <1>6 DEF Ask
<1>10. UNCHANGED grants /\ expired \subseteq expired'
  BY DEF Step, Ask, Expire, TakeJob, Retire, EnterGate, StopAtGate, BeginRun, Notify,
     GiveUp, TakeDecision, Recheck, Act, EndRun, Report, LeaveGate, ClearCancel
<1>11. QED
  BY <1>1, <1>2, <1>3, <1>4, <1>5, <1>6, <1>7, <1>8, <1>9, <1>10

LEMMA ClaimedStep ==
    ASSUME TypeOK, Claimed, [Next]_vars
    PROVE  Claimed'
<1>. USE DEF botVars, workVars, askVars, history
<1>0. \A e \in Events : ledger[e] = "synced" => ledger'[e] = "synced"
  BY MarkersStay
<1>1. \A c \in Chats : \A i \in DOMAIN accepted[c] : accepted[c][i] \in Events
  BY Queues DEF Events
<1>2. \A s \in stops : s[1] \in Events
  BY DEF TypeOK, Events
<1>3. CASE UNCHANGED <<accepted, stops>>
  BY <1>0, <1>1, <1>2, <1>3 DEF Claimed
<1>4. CASE \E t \in Tasks : Submit(t)
  <2>1. PICK t \in Tasks : Submit(t)
    BY <1>4
  <2>. DEFINE c == ChatOf[t]
              new == Append(accepted[c], t)
  <2>2. c \in Chats /\ t \in Events
    BY TablesAssumption DEF Events
  <2>3. ledger[t] = "absent" /\ ledger'[t] = "synced"
    BY <2>1, <2>2 DEF Submit, Claim, TypeOK
  <2>4. accepted' = [accepted EXCEPT ![c] = new] /\ UNCHANGED stops
    BY <2>1 DEF Submit
  <2>5. /\ DOMAIN new = 1..(Len(accepted[c]) + 1)
        /\ new[Len(accepted[c]) + 1] = t
        /\ \A i \in 1..Len(accepted[c]) : new[i] = accepted[c][i]
        /\ Len(accepted[c]) \in Nat /\ DOMAIN accepted[c] = 1..Len(accepted[c])
    BY <2>2, Queues, AppendProperties
  <2>. HIDE DEF new
  <2>6. \A i \in 1..Len(accepted[c]) : accepted[c][i] # t
    BY <2>2, <2>3, <2>5 DEF Claimed
  <2>7. IsInjective(new)
    <3>1. SUFFICES ASSUME NEW i \in DOMAIN new, NEW j \in DOMAIN new, new[i] = new[j]
                   PROVE  i = j
      BY DEF IsInjective
    <3>2. \A k \in DOMAIN new : k # Len(accepted[c]) + 1 => k \in 1..Len(accepted[c])
      BY <2>5
    <3>3. QED
      BY <2>2, <2>5, <2>6, <3>1, <3>2 DEF Claimed, IsInjective
  <2>8. \A i \in DOMAIN new : ledger'[new[i]] = "synced" /\ ChatOf[new[i]] = c
    <3>1. \A k \in DOMAIN new : k # Len(accepted[c]) + 1 => k \in 1..Len(accepted[c])
      BY <2>5
    <3>2. QED
      BY <1>0, <1>1, <2>2, <2>3, <2>5, <3>1 DEF Claimed
  <2>9. accepted'[c] = new /\ \A b \in Chats \ {c} : accepted'[b] = accepted[b]
    BY <2>2, <2>4 DEF TypeOK
  <2>10. QED
    BY <1>0, <1>1, <1>2, <2>4, <2>7, <2>8, <2>9 DEF Claimed
<1>5. CASE \E e \in Cancels : CancelTask(e)
  <2>1. PICK e \in Cancels : CancelTask(e)
    BY <1>5
  <2>2. /\ ledger'[e] = "synced" /\ UNCHANGED accepted
        /\ stops' = stops \/ stops' = stops \cup {<<e, worker[ChatOf[e]].job>>}
    BY <2>1 DEF CancelTask, Claim, TypeOK, Events
  <2>3. QED
    BY <1>0, <1>1, <1>2, <2>2 DEF Claimed
<1>6. CASE Aside
  BY <1>3, <1>5, <1>6 DEF Aside, ClaimTorn, Verdict, Resolve, Close, Exit, ForeignEdit, vars
<1>7. CASE Crash \/ Restart
  BY <1>3, <1>7 DEF Crash, Restart
<1>8. QED
  BY <1>3, <1>4, <1>6, <1>7, Cases, OneWorks

LEMMA LinedStays ==
    ASSUME NEW c \in Chats, Lined(c),
           jobs'[c] = jobs[c], accepted'[c] = accepted[c], began'[c] = began[c],
           worker'[c].job \in {worker[c].job, NoTask},
           worker'[c].at \in {"gate", "entered"} => worker[c].at \in {"gate", "entered"}
    PROVE  Lined(c)'
<1>1. Left(c)' = Left(c)
  BY DEF Left
<1>2. worker'[c].job # NoTask => \A p : Place(c, p) => Place(c, p)'
  BY DEF Place
<1>3. QED
  BY <1>1, <1>2 DEF Lined

LEMMA Sizes ==
    ASSUME TypeOK, NEW c \in Chats, Lined(c)
    PROVE  /\ Len(jobs[c]) \in Nat /\ DOMAIN jobs[c] = 1..Len(jobs[c])
           /\ Len(accepted[c]) \in Nat /\ DOMAIN accepted[c] = 1..Len(accepted[c])
           /\ Left(c) \in Nat /\ Len(accepted[c]) = Left(c) + Len(jobs[c])
<1>1. /\ Len(jobs[c]) \in Nat /\ DOMAIN jobs[c] = 1..Len(jobs[c])
      /\ Len(accepted[c]) \in Nat /\ DOMAIN accepted[c] = 1..Len(accepted[c])
  BY Queues
<1>2. Len(jobs[c]) <= Len(accepted[c])
  BY DEF Lined
<1>3. QED
  BY <1>1, <1>2 DEF Left

\* A task that is queued is last in the history and in the queue.
LEMMA SubmitLines ==
    ASSUME TypeOK, Queue, NEW t \in Tasks, Submit(t)
    PROVE  Queue'
<1>. DEFINE c == ChatOf[t]
            n == Len(accepted[c])
            m == Len(jobs[c])
<1>1. c \in Chats
  BY TablesAssumption DEF Events
<1>2. /\ jobs' = [jobs EXCEPT ![c] = Append(jobs[c], t)]
      /\ accepted' = [accepted EXCEPT ![c] = Append(accepted[c], t)]
      /\ UNCHANGED began
  BY DEF Submit
<1>3. \A b \in Chats \ {c} : jobs'[b] = jobs[b] /\ accepted'[b] = accepted[b]
  BY <1>1, <1>2 DEF TypeOK
<1>4. jobs'[c] = Append(jobs[c], t) /\ accepted'[c] = Append(accepted[c], t)
  BY <1>1, <1>2 DEF TypeOK
<1>. DEFINE l == Left(c)
<1>5. Lined(c) /\ n \in Nat /\ m \in Nat /\ l \in Nat /\ n = l + m /\ DOMAIN jobs[c] = 1..m
  BY <1>1, Sizes DEF Queue
<1>a. /\ Len(jobs'[c]) = m + 1 /\ DOMAIN jobs'[c] = 1..(m + 1)
      /\ jobs'[c][m + 1] = t /\ \A k \in 1..m : jobs'[c][k] = jobs[c][k]
      /\ Len(accepted'[c]) = n + 1
      /\ accepted'[c][n + 1] = t /\ \A k \in 1..n : accepted'[c][k] = accepted[c][k]
  BY <1>1, <1>4, Queues, AppendProperties
<1>6. Left(c)' = l
  <2>1. Left(c)' = (n + 1) - (m + 1)
    BY <1>a DEF Left
  <2>2. QED
    BY <1>5, <2>1
<1>. HIDE DEF l, m, n
<1>7. \A k \in 1..l : accepted'[c][k] = accepted[c][k]
  <2>1. \A k \in 1..l : k \in 1..n
    BY <1>5
  <2>2. QED
    BY <1>a, <2>1
<1>8. \A k \in DOMAIN jobs'[c] : jobs'[c][k] = accepted'[c][l + k]
  <2>1. SUFFICES ASSUME NEW k \in 1..(m + 1)
                 PROVE  jobs'[c][k] = accepted'[c][l + k]
    BY <1>a
  <2>2. CASE k = m + 1
    <3>1. l + k = n + 1
      BY <1>5, <2>2
    <3>2. QED
      BY <1>a, <2>2, <3>1
  <2>3. CASE k # m + 1
    <3>1. k \in 1..m /\ l + k \in 1..n
      BY <1>5, <2>3
    <3>2. jobs[c][k] = accepted[c][l + k]
      BY <1>5, <3>1 DEF Lined, l
    <3>3. QED
      BY <1>a, <3>1, <3>2
  <2>4. QED
    BY <2>2, <2>3
<1>9. worker'[c].job = worker[c].job
  BY <1>1, Wakes
<1>10. \A p \in 1..l : worker[c].job # NoTask /\ Place(c, p) => Place(c, p)'
  <2>1. worker'[c].at \in {"gate", "entered"} => worker'[c].at = worker[c].at
    BY <1>1, Wakes
  <2>2. SUFFICES ASSUME NEW p \in 1..l, Place(c, p)
                 PROVE  Place(c, p)'
    OBVIOUS
  <2>3. \A q \in 1..(p - 1) : q \in 1..l
    BY <1>5
  <2>4. accepted'[c][p] = worker'[c].job
    BY <1>7, <1>9, <2>2 DEF Place
  <2>5. ASSUME worker'[c].at \in {"gate", "entered"}, NEW i \in DOMAIN began[c]
        PROVE  \E q \in 1..(p - 1) : accepted'[c][q] = began[c][i]
    <3>1. PICK q \in 1..(p - 1) : accepted[c][q] = began[c][i]
      BY <2>1, <2>2, <2>5 DEF Place
    <3>2. QED
      BY <1>7, <2>3, <3>1
  <2>6. QED
    BY <1>2, <2>4, <2>5 DEF Place
<1>11. Lined(c)'
  <2>1. Len(jobs'[c]) <= Len(accepted'[c])
    BY <1>5, <1>a
  <2>2. \A i \in DOMAIN began[c] : \E q \in 1..l : accepted'[c][q] = began[c][i]
    BY <1>5, <1>7 DEF Lined, l
  <2>3. worker[c].job # NoTask => \E p \in 1..l : Place(c, p)'
    BY <1>5, <1>10 DEF Lined, l
  <2>4. \A k \in DOMAIN jobs'[c] : jobs'[c][k] = accepted'[c][Left(c)' + k]
    BY <1>6, <1>8
  <2>5. \A i \in DOMAIN began'[c] : \E q \in 1..Left(c)' : accepted'[c][q] = began'[c][i]
    BY <1>2, <1>6, <2>2, ZenonT(40)
  <2>6. worker'[c].job # NoTask => \E p \in 1..Left(c)' : Place(c, p)'
    BY <1>6, <1>9, <2>3
  <2>7. QED
    BY <2>1, <2>4, <2>5, <2>6 DEF Lined
<1>12. ASSUME NEW b \in Chats, b # c
       PROVE  Lined(b)'
  <2>1. worker'[b] = worker[b]
    BY <1>12, Wakes
  <2>2. QED
    BY <1>2, <1>3, <1>12, <2>1, LinedStays DEF Queue
<1>13. QED
  BY <1>11, <1>12 DEF Queue

\* The worker's new task was accepted after all that left the queue before.
LEMMA TakeLines ==
    ASSUME TypeOK, NEW c \in Chats, Lined(c), TakeJob(c)
    PROVE  Lined(c)'
<1>. DEFINE n == Len(accepted[c])
            m == Len(jobs[c])
<1>1. /\ jobs[c] # <<>> /\ jobs' = [jobs EXCEPT ![c] = Tail(jobs[c])]
      /\ worker' = [worker EXCEPT ![c] = Placed("gate", Head(jobs[c]))]
      /\ UNCHANGED <<accepted, began>>
  BY DEF TakeJob, history
<1>2. jobs'[c] = Tail(jobs[c]) /\ worker'[c] = Placed("gate", Head(jobs[c]))
  BY <1>1 DEF TypeOK
<1>. DEFINE l == Left(c)
<1>3. n \in Nat /\ m \in Nat /\ l \in Nat /\ n = l + m /\ DOMAIN jobs[c] = 1..m /\ 0 < m
  BY <1>1, Sizes, Queues
<1>4. /\ Len(jobs'[c]) = m - 1 /\ DOMAIN jobs'[c] = 1..(m - 1)
      /\ \A k \in 1..(m - 1) : jobs'[c][k] = jobs[c][k + 1]
      /\ worker'[c].job = jobs[c][1] /\ worker'[c].at = "gate"
  <2>1. /\ Tail(jobs[c]) \in Seq(Tasks) /\ Len(Tail(jobs[c])) = m - 1 /\ Head(jobs[c]) = jobs[c][1]
        /\ \A k \in 1..(m - 1) : Tail(jobs[c])[k] = jobs[c][k + 1]
    BY <1>1, Queues
  <2>2. DOMAIN Tail(jobs[c]) = 1..(m - 1)
    BY <2>1, LenProperties
  <2>3. QED
    BY <1>2, <2>1, <2>2 DEF Placed
<1>5. Left(c)' = l + 1
  <2>1. Left(c)' = n - (m - 1)
    BY <1>1, <1>4 DEF Left
  <2>2. QED
    BY <1>3, <2>1
<1>6. \A k \in 1..m : jobs[c][k] = accepted[c][l + k]
  BY <1>3 DEF Lined
<1>7. \A i \in DOMAIN began[c] : \E q \in 1..l : accepted[c][q] = began[c][i]
  BY DEF Lined
<1>. HIDE DEF l, m, n
<1>8. ASSUME NEW p, p = l + 1
      PROVE  Place(c, p)'
  <2>1. jobs[c][1] = accepted[c][l + 1]
    BY <1>3, <1>6
  <2>2. (l + 1) - 1 = l
    BY <1>3
  <2>3. \A i \in DOMAIN began'[c] : \E q \in 1..((l + 1) - 1) : accepted'[c][q] = began'[c][i]
    BY <1>1, <1>7, <2>2
  <2>4. accepted'[c][l + 1] = worker'[c].job
    BY <1>1, <1>4, <2>1
  <2>5. QED
    BY <1>8, <2>3, <2>4 DEF Place
<1>9. \A k \in DOMAIN jobs'[c] : jobs'[c][k] = accepted[c][(l + 1) + k]
  <2>1. \A k \in 1..(m - 1) : k + 1 \in 1..m /\ l + (k + 1) = (l + 1) + k
    BY <1>3
  <2>2. QED
    BY <1>4, <1>6, <2>1
<1>10. \A i \in DOMAIN began[c] : \E q \in 1..(l + 1) : accepted[c][q] = began[c][i]
  <2>1. \A q \in 1..l : q \in 1..(l + 1)
    BY <1>3
  <2>2. QED
    BY <1>7, <2>1
<1>11. l + 1 \in 1..(l + 1) /\ Len(jobs'[c]) <= n
  BY <1>3, <1>4
<1>12. \A k \in DOMAIN jobs'[c] : jobs'[c][k] = accepted'[c][Left(c)' + k]
  BY <1>1, <1>5, <1>9
<1>13. \A i \in DOMAIN began'[c] : \E q \in 1..Left(c)' : accepted'[c][q] = began'[c][i]
  BY <1>1, <1>5, <1>10
<1>14. Len(jobs'[c]) <= Len(accepted'[c]) /\ \E p \in 1..Left(c)' : Place(c, p)'
  BY <1>1, <1>5, <1>8, <1>11 DEF n
<1>15. QED
  BY <1>12, <1>13, <1>14 DEF Lined

\* What the queue drops is no longer to come.
LEMMA DropLines ==
    ASSUME TypeOK, NEW c \in Chats, Lined(c), jobs'[c] = <<>>,
           accepted'[c] = accepted[c], began'[c] = began[c], worker'[c].job = NoTask
    PROVE  Lined(c)'
<1>1. /\ Len(accepted[c]) \in Nat /\ Left(c) \in Nat /\ Len(jobs[c]) \in Nat
      /\ Len(accepted[c]) = Left(c) + Len(jobs[c])
      /\ Len(jobs'[c]) = 0 /\ DOMAIN jobs'[c] = {}
  BY Sizes, EmptySeq
<1>2. Left(c)' = Len(accepted[c]) - 0
  BY <1>1 DEF Left
<1>3. \A q \in 1..Left(c) : q \in 1..Left(c)'
  BY <1>1, <1>2
<1>4. QED
  BY <1>1, <1>3 DEF Lined

LEMMA BeginLines ==
    ASSUME TypeOK, Busy, NEW c \in Chats, Lined(c), BeginRun(c)
    PROVE  Lined(c)'
<1>1. /\ worker'[c].job = worker[c].job /\ worker'[c].at \in {"run", "leave"}
      /\ worker[c].job # NoTask /\ UNCHANGED <<jobs, accepted>>
  BY Goes, StagesAre DEF BeginRun, Busy, At
<1>2. worker[c].job \in Tasks
  BY <1>1 DEF TypeOK, Worker
<1>3. PICK p \in 1..Left(c) : Place(c, p)
  BY <1>1 DEF Lined
<1>4. Left(c)' = Left(c) /\ Place(c, p)'
  BY <1>1, <1>3 DEF Left, Place
<1>5. \A i \in DOMAIN began'[c] : \E q \in 1..Left(c) : accepted[c][q] = began'[c][i]
  <2>1. CASE UNCHANGED began
    BY <2>1 DEF Lined
  <2>2. CASE began' = [began EXCEPT ![c] = Append(began[c], worker[c].job)]
    <3>1. began'[c] = Append(began[c], worker[c].job)
      BY <2>2 DEF TypeOK
    <3>2. \A i \in DOMAIN began'[c] : \/ began'[c][i] = worker[c].job
                                      \/ i \in DOMAIN began[c] /\ began'[c][i] = began[c][i]
      BY <1>2, <3>1, Queues, AppendProperties
    <3>3. QED
      BY <1>3, <3>2 DEF Lined, Place
  <2>3. QED
    BY <2>1, <2>2 DEF BeginRun, Job
<1>6. QED
  BY <1>1, <1>3, <1>4, <1>5 DEF Lined

LEMMA QueueStep ==
    ASSUME TypeOK, Busy, Queue, [Next]_vars
    PROVE  Queue'
<1>1. CASE Aside
  BY <1>1, AsideKeeps, LinedStays DEF Queue
<1>2. CASE \E t \in Tasks : Submit(t)
  BY <1>2, SubmitLines
<1>3. ASSUME NEW c \in Chats, Step(c) \/ Ask(c) \/ Expire(c)
      PROVE  Queue'
  <2>1. ASSUME NEW b \in Chats, b # c
        PROVE  Lined(b)'
    BY <1>3, <2>1, Moves, OneWorks, LinedStays DEF Queue
  <2>2. Lined(c)'
    <3>1. CASE TakeJob(c)
      BY <3>1, TakeLines DEF Queue
    <3>2. CASE Retire(c)
      <4>1. worker'[c].job = NoTask /\ jobs'[c] = <<>> /\ UNCHANGED <<accepted, began>>
        BY <3>2, Goes, StagesAre DEF Retire, Busy, TypeOK, history, At
      <4>2. QED
        BY <4>1, DropLines DEF Queue
    <3>3. CASE BeginRun(c)
      BY <3>3, BeginLines DEF Queue
    <3>4. CASE ~(TakeJob(c) \/ Retire(c) \/ BeginRun(c))
      <4>1. UNCHANGED <<jobs, accepted, began>>
        BY <1>3, <3>4, OneWorks
      <4>2. /\ worker'[c].job \in {worker[c].job, NoTask}
            /\ worker'[c].at \in {"gate", "entered"} => worker[c].at \in {"gate", "entered"}
        <5>1. \/ /\ worker'[c].job = worker[c].job
                 /\ worker'[c].at \in {"gate", "entered"} => worker[c].at = "gate"
              \/ worker'[c].at \in {"notify", "idle"} /\ worker'[c].job = worker[c].job
              \/ worker'[c] = Placed("top", NoTask)
          BY <1>3, <3>4, Moves
        <5>2. QED
          BY <5>1 DEF Placed
      <4>3. QED
        BY <4>1, <4>2, LinedStays DEF Queue
    <3>5. QED
      BY <3>1, <3>2, <3>3, <3>4
  <2>3. QED
    BY <2>1, <2>2 DEF Queue
<1>4. CASE Crash \/ Restart
  <2>1. \A c \in Chats : worker'[c] = Idle /\ jobs'[c] = <<>>
    BY <1>4 DEF Crash, Restart
  <2>2. UNCHANGED <<accepted, began>>
    BY <1>4 DEF Crash, Restart, history
  <2>3. QED
    BY <2>1, <2>2, Fresh, DropLines DEF Queue
<1>5. QED
  BY <1>1, <1>2, <1>3, <1>4, Cases

\* The task that begins was accepted after all that began.
LEMMA BeginsInOrder ==
    ASSUME TypeOK, Busy, Claimed, Queue, OnceInOrder, NEW c \in Chats, BeginRun(c)
    PROVE  IsInjective(began'[c]) /\ InOrder(began'[c], accepted[c])
<1>. DEFINE t == worker[c].job
            n == Len(began[c])
<1>1. IsInjective(began[c]) /\ InOrder(began[c], accepted[c]) /\ IsInjective(accepted[c])
  BY DEF OnceInOrder
<1>2. worker[c].at = "entered" /\ t # NoTask
  BY DEF BeginRun, At, Busy
<1>3. t \in Tasks
  BY <1>2 DEF TypeOK, Worker
<1>4. PICK p \in 1..Left(c) : Place(c, p)
  BY <1>2 DEF Queue, Lined
<1>5. /\ p \in DOMAIN accepted[c] /\ accepted[c][p] = t
      /\ \A i \in DOMAIN began[c] : \E q \in 1..(p - 1) : accepted[c][q] = began[c][i]
      /\ \A q \in 1..(p - 1) : q \in DOMAIN accepted[c] /\ q < p
  <2>1. p \in DOMAIN accepted[c] /\ \A q \in 1..(p - 1) : q \in DOMAIN accepted[c] /\ q < p
    BY <1>4, Sizes DEF Queue
  <2>2. QED
    BY <1>2, <1>4, <2>1 DEF Place
<1>6. CASE UNCHANGED began
  BY <1>1, <1>6
<1>7. CASE began' = [began EXCEPT ![c] = Append(began[c], t)]
  <2>1. began'[c] = Append(began[c], t)
    BY <1>7 DEF TypeOK
  <2>2. /\ n \in Nat /\ DOMAIN began'[c] = 1..(n + 1) /\ began'[c][n + 1] = t
        /\ DOMAIN began[c] = 1..n /\ \A i \in 1..n : began'[c][i] = began[c][i]
    BY <1>3, <2>1, Queues, AppendProperties
  <2>. HIDE DEF n
  <2>3. \A i \in 1..n : began[c][i] # t
    BY <1>1, <1>5, <2>2 DEF IsInjective
  <2>4. \A i \in 1..(n + 1) : i = n + 1 \/ i \in 1..n
    BY <2>2
  <2>5. IsInjective(began'[c])
    BY <1>1, <2>2, <2>3, <2>4 DEF IsInjective
  <2>6. ASSUME NEW i \in 1..(n + 1), NEW j \in 1..(n + 1), i <= j
        PROVE  \E q, r \in DOMAIN accepted[c] :
                  q <= r /\ accepted[c][q] = began'[c][i] /\ accepted[c][r] = began'[c][j]
    <3>1. CASE j \in 1..n
      <4>1. i \in 1..n
        BY <2>2, <2>6, <3>1
      <4>2. QED
        BY <1>1, <2>2, <2>6, <3>1, <4>1 DEF InOrder
    <3>2. CASE j = n + 1 /\ i = n + 1
      <4>1. p <= p
        BY <1>4
      <4>2. QED
        BY <1>5, <2>2, <3>2, <4>1
    <3>3. CASE j = n + 1 /\ i \in 1..n
      <4>1. PICK q \in 1..(p - 1) : accepted[c][q] = began[c][i]
        BY <1>5, <2>2, <3>3
      <4>2. q \in DOMAIN accepted[c] /\ q <= p
        BY <1>4, <1>5, <4>1
      <4>3. QED
        BY <1>5, <2>2, <3>3, <4>1, <4>2
    <3>4. QED
      BY <2>4, <3>1, <3>2, <3>3
  <2>7. InOrder(began'[c], accepted[c])
    <3>1. DOMAIN began'[c] = 1..(n + 1)
      BY <2>2
    <3>2. QED
      BY <2>6, <3>1 DEF InOrder
  <2>8. QED
    BY <2>5, <2>7
<1>8. QED
  BY <1>6, <1>7 DEF BeginRun, Job

LEMMA OnceStep ==
    ASSUME TypeOK, Busy, Claimed, Queue, OnceInOrder, [Next]_vars
    PROVE  OnceInOrder'
<1>1. \A c \in Chats : IsInjective(accepted'[c])
  BY ClaimedStep DEF Claimed
<1>2. CASE UNCHANGED <<accepted, began>>
  BY <1>2 DEF OnceInOrder
<1>3. CASE \E t \in Tasks : Submit(t)
  <2>1. PICK t \in Tasks : Submit(t)
    BY <1>3
  <2>2. /\ UNCHANGED began
        /\ \A c \in Chats : accepted'[c] = accepted[c] \/ accepted'[c] = Append(accepted[c], t)
    BY <2>1 DEF Submit, TypeOK
  <2>3. \A c \in Chats : \A i \in DOMAIN accepted[c] :
           i \in DOMAIN accepted'[c] /\ accepted'[c][i] = accepted[c][i]
    <3>1. SUFFICES ASSUME NEW c \in Chats, NEW i \in DOMAIN accepted[c],
                          accepted'[c] = Append(accepted[c], t)
                   PROVE  i \in DOMAIN accepted'[c] /\ accepted'[c][i] = accepted[c][i]
      BY <2>2
    <3>2. accepted[c] \in Seq(Tasks) /\ Len(accepted[c]) \in Nat /\ i \in 1..Len(accepted[c])
      BY Queues
    <3>3. /\ DOMAIN accepted'[c] = 1..(Len(accepted[c]) + 1)
          /\ accepted'[c][i] = accepted[c][i]
      BY <3>1, <3>2, AppendProperties
    <3>4. QED
      BY <3>2, <3>3
  <2>4. \A c \in Chats : InOrder(began[c], accepted'[c])
    BY <2>3 DEF OnceInOrder, InOrder
  <2>5. QED
    BY <1>1, <2>2, <2>4 DEF OnceInOrder
<1>4. ASSUME NEW c \in Chats, Step(c) \/ Ask(c) \/ Expire(c)
      PROVE  OnceInOrder'
  <2>1. CASE BeginRun(c)
    BY <1>1, <1>4, <2>1, BeginsInOrder, OneWorks DEF OnceInOrder
  <2>2. CASE ~BeginRun(c)
    BY <1>2, <1>4, <2>2, OneWorks
  <2>3. QED
    BY <2>1, <2>2
<1>5. CASE Aside
  BY <1>2, <1>5, AsideKeeps
<1>6. CASE Crash \/ Restart
  BY <1>2, <1>6 DEF Crash, Restart, history
<1>7. QED
  BY <1>3, <1>4, <1>5, <1>6, Cases

-----------------------------------------------------------------------------
(* The gate.                                                               *)

LEMMA GatedStep ==
    ASSUME TypeOK, Gated, [Next]_vars
    PROVE  Gated'
<1>. USE DEF Dir, Inside
<1>0. \A c \in Chats : WorkDir[c] \in Dirs /\ c # Free
  BY TablesAssumption, NamesAssumption
<1>1. CASE Aside
  BY <1>1, AsideKeeps DEF Gated
<1>2. CASE \E t \in Tasks : Submit(t)
  <2>1. UNCHANGED gate
    BY <1>2 DEF Submit
  <2>2. QED
    BY <1>2, <2>1, Wakes DEF Gated
<1>3. ASSUME NEW c \in Chats, Step(c) \/ Ask(c) \/ Expire(c)
      PROVE  Gated'
  <2>1. \A b \in Chats \ {c} : worker'[b] = worker[b]
    BY <1>3, Moves
  <2>2. CASE EnterGate(c)
    <3>1. /\ gate[WorkDir[c]] = Free
          /\ gate' = [gate EXCEPT ![WorkDir[c]] = c]
      BY <2>2 DEF EnterGate
    <3>2. QED
      BY <1>0, <2>1, <3>1 DEF Gated, TypeOK
  <2>3. CASE LeaveGate(c)
    <3>1. /\ worker[c].at = "leave" /\ worker'[c].at = "clear"
          /\ gate' = [gate EXCEPT ![WorkDir[c]] = Free]
      BY <2>3, Goes, StagesAre DEF LeaveGate, At
    <3>2. QED
      BY <1>0, <2>1, <3>1 DEF Gated, TypeOK
  <2>4. CASE ~(EnterGate(c) \/ LeaveGate(c))
    <3>1. UNCHANGED gate
      BY <1>3, <2>4, OneWorks
    <3>2. worker'[c].at \in Inside => worker[c].at \in Inside
      <4>1. CASE TakeJob(c) \/ ClearCancel(c)
        BY <4>1 DEF TakeJob, ClearCancel, Placed, TypeOK
      <4>2. CASE ~(TakeJob(c) \/ ClearCancel(c) \/ StopAtGate(c))
        BY <1>3, <2>4, <4>2, Goes, Asks, StagesAre
           DEF Step, Retire, BeginRun, Notify, Expire, GiveUp, TakeDecision, Recheck, Act,
               EndRun, Report, At, workVars
      <4>3. CASE StopAtGate(c)
        BY <4>3, Goes, StagesAre DEF StopAtGate
      <4>4. QED
        BY <4>1, <4>2, <4>3
    <3>3. QED
      BY <2>1, <3>1, <3>2 DEF Gated
  <2>5. QED
    BY <2>2, <2>3, <2>4
<1>4. CASE Crash \/ Restart
  <2>1. \A c \in Chats : worker'[c].at = "idle"
    BY <1>4, Fresh DEF Crash, Restart
  <2>2. QED
    BY <2>1 DEF Gated
<1>5. QED
  BY <1>1, <1>2, <1>3, <1>4, Cases

LEMMA OneInside == TypeOK /\ Gated => OneRunPerDirectory
BY DEF Gated, OneRunPerDirectory, Dir

-----------------------------------------------------------------------------
(* Cancellations.                                                          *)

LEMMA CancelStep ==
    ASSUME TypeOK, Busy, Claimed, Queue, CancelHitsOne, [Next]_vars
    PROVE  CancelHitsOne'
<1>1. CASE UNCHANGED stops
  BY <1>1 DEF CancelHitsOne
<1>2. CASE \E e \in Cancels : CancelTask(e)
  <2>1. PICK e \in Cancels : CancelTask(e)
    BY <1>2
  <2>. DEFINE c == ChatOf[e]
              t == worker[c].job
  <2>2. c \in Chats /\ ledger[e] = "absent"
    BY <2>1, TablesAssumption DEF CancelTask, Claim, Events
  <2>3. CASE stops' = stops \cup {<<e, t>>} /\ MayStop(Sender[e], c)
    <3>1. PICK p \in 1..Left(c) : Place(c, p)
      BY <2>2, <2>3 DEF MayStop, Queue, Lined
    <3>2. p \in DOMAIN accepted[c] /\ accepted[c][p] = t
      BY <2>2, <3>1, Sizes DEF Queue, Place
    <3>3. ChatOf[t] = c
      BY <2>2, <3>2 DEF Claimed
    <3>4. Sender[t] = Sender[e] \/ Sender[e] \in Approvers[c]
      BY <2>3 DEF MayStop
    <3>5. \A s \in stops : s[1] # e
      BY <2>2 DEF Claimed
    <3>. HIDE DEF t, c
    <3>6. \A s \in stops' : /\ \A r \in stops' : r[1] = s[1] => r = s
                            /\ ChatOf[s[2]] = ChatOf[s[1]]
                            /\ Sender[s[2]] = Sender[s[1]] \/ Sender[s[1]] \in Approvers[ChatOf[s[1]]]
      BY <2>3, <3>3, <3>4, <3>5 DEF CancelHitsOne, c
    <3>7. QED
      BY <3>6 DEF CancelHitsOne
  <2>4. QED
    BY <1>1, <2>1, <2>3 DEF CancelTask
<1>3. CASE Aside
  BY <1>1, <1>2, <1>3 DEF Aside, ClaimTorn, Verdict, Resolve, Close, Exit, ForeignEdit, vars, history
<1>4. CASE Crash \/ Restart \/ \E t \in Tasks : Submit(t)
  BY <1>1, <1>4 DEF Crash, Restart, Submit, history
<1>5. QED
  BY <1>1, <1>3, <1>4, Cases, OneWorks

-----------------------------------------------------------------------------
(* Approvals.                                                              *)

LEMMA OwnTask ==
    ASSUME TypeOK, Claimed, Queue, NEW c \in Chats, Job(c) # NoTask
    PROVE  ChatOf[Job(c)] = c
<1>1. PICK p \in 1..Left(c) : Place(c, p)
  BY DEF Queue, Lined, Job
<1>2. p \in DOMAIN accepted[c] /\ accepted[c][p] = Job(c)
  BY <1>1, Sizes DEF Queue, Place, Job
<1>3. QED
  BY <1>2 DEF Claimed

\* A task that comes out of the queue has not begun before.
LEMMA NewTask ==
    ASSUME TypeOK, Claimed, Queue, NEW c \in Chats, jobs[c] # <<>>
    PROVE  \A i \in DOMAIN began[c] : began[c][i] # Head(jobs[c])
<1>. DEFINE l == Left(c)
<1>1. l \in Nat /\ Len(jobs[c]) \in Nat /\ Len(accepted[c]) = l + Len(jobs[c])
      /\ DOMAIN accepted[c] = 1..Len(accepted[c]) /\ DOMAIN jobs[c] = 1..Len(jobs[c])
  BY Sizes DEF Queue
<1>2. Len(jobs[c]) > 0 /\ Head(jobs[c]) = jobs[c][1]
  BY Queues
<1>3. l + 1 \in DOMAIN accepted[c] /\ 1 \in DOMAIN jobs[c]
      /\ \A q \in 1..l : q \in DOMAIN accepted[c] /\ q # l + 1
  BY <1>1, <1>2
<1>4. Head(jobs[c]) = accepted[c][l + 1]
  BY <1>2, <1>3 DEF Queue, Lined
<1>5. \A i \in DOMAIN began[c] : \E q \in 1..l : accepted[c][q] = began[c][i]
  BY DEF Queue, Lined
<1>. HIDE DEF l
<1>6. QED
  BY <1>3, <1>4, <1>5 DEF Claimed, IsInjective

\* What began stays in the history.
LEMMA BeganStays ==
    ASSUME TypeOK, Busy, [Next]_vars
    PROVE  \A c \in Chats : \A i \in DOMAIN began[c] :
              i \in DOMAIN began'[c] /\ began'[c][i] = began[c][i]
<1>1. CASE UNCHANGED began
  BY <1>1
<1>2. ASSUME NEW c \in Chats, BeginRun(c)
      PROVE  \A b \in Chats : \A i \in DOMAIN began[b] :
                i \in DOMAIN began'[b] /\ began'[b][i] = began[b][i]
  <2>1. Job(c) \in Tasks
    BY <1>2 DEF BeginRun, At, Busy, Job, TypeOK, Worker
  <2>2. \A b \in Chats : began'[b] = began[b] \/ began'[b] = Append(began[b], Job(c))
    BY <1>2 DEF BeginRun, TypeOK
  <2>3. SUFFICES ASSUME NEW b \in Chats, NEW i \in DOMAIN began[b],
                        began'[b] = Append(began[b], Job(c))
                 PROVE  i \in DOMAIN began'[b] /\ began'[b][i] = began[b][i]
    BY <2>2
  <2>4. began[b] \in Seq(Tasks) /\ Len(began[b]) \in Nat /\ i \in 1..Len(began[b])
    BY Queues
  <2>5. /\ DOMAIN began'[b] = 1..(Len(began[b]) + 1)
        /\ began'[b][i] = began[b][i]
    BY <2>1, <2>3, <2>4, AppendProperties
  <2>6. QED
    BY <2>4, <2>5
<1>3. CASE Aside
  BY <1>1, <1>3, AsideKeeps
<1>4. CASE Crash \/ Restart \/ \E t \in Tasks : Submit(t)
  BY <1>1, <1>4 DEF Crash, Restart, Submit, history
<1>5. QED
  BY <1>1, <1>2, <1>3, <1>4, Cases, OneWorks

LEMMA BegunStep ==
    ASSUME TypeOK, Busy, Begun, [Next]_vars
    PROVE  Begun'
<1>0. \A c \in Chats : \A i \in DOMAIN began[c] :
              i \in DOMAIN began'[c] /\ began'[c][i] = began[c][i]
  BY BeganStays
<1>1. CASE Aside
  BY <1>0, <1>1, AsideKeeps DEF Begun, Job
<1>2. CASE \E t \in Tasks : Submit(t)
  BY <1>0, <1>2, Wakes DEF Begun, Job, Asking
<1>3. ASSUME NEW c \in Chats, Step(c) \/ Ask(c) \/ Expire(c)
      PROVE  Begun'
  <2>1. CASE BeginRun(c)
    <3>1. CASE worker'[c].at = "run"
      <4>1. /\ began' = [began EXCEPT ![c] = Append(began[c], Job(c))]
            /\ worker'[c].job = Job(c) /\ Job(c) \in Tasks
        <5>1. Job(c) \in Tasks
          BY <2>1 DEF BeginRun, At, Busy, Job, TypeOK, Worker
        <5>2. ~Go(c, "leave")
          BY <3>1, Goes, StagesAre
        <5>3. Go(c, "run") /\ began' = [began EXCEPT ![c] = Append(began[c], Job(c))]
          BY <2>1, <5>2 DEF BeginRun
        <5>4. worker'[c].job = worker[c].job
          BY <5>3, Goes, StagesAre
        <5>5. QED
          BY <5>1, <5>3, <5>4 DEF Job
      <4>2. began'[c] = Append(began[c], Job(c))
        BY <4>1 DEF TypeOK
      <4>3. Len(began[c]) + 1 \in DOMAIN began'[c] /\ began'[c][Len(began[c]) + 1] = Job(c)
        BY <4>1, <4>2, Queues, AppendProperties
      <4>4. QED
        BY <1>0, <1>3, <4>1, <4>3, Moves DEF Begun, Job
    <3>2. CASE worker'[c].at # "run"
      <4>1. worker'[c].at = "leave"
        BY <2>1, <3>2, Goes, StagesAre DEF BeginRun
      <4>2. QED
        BY <1>0, <1>3, <4>1, Moves DEF Begun, Job, Asking
    <3>3. QED
      BY <3>1, <3>2
  <2>2. CASE ~BeginRun(c)
    <3>1. worker'[c].at \in {"run"} \cup Asking =>
             worker[c].at \in {"run"} \cup Asking /\ worker'[c].job = worker[c].job
      <4>1. \/ /\ worker'[c].job = worker[c].job
               /\ worker'[c].at \in {"run"} \cup Asking => worker[c].at \in {"run"} \cup Asking
            \/ worker[c].at = "run" /\ worker'[c].job = worker[c].job
            \/ worker'[c].at = "idle"
            \/ worker'[c] = Placed("gate", Head(jobs[c])) \/ worker'[c] = Placed("top", NoTask)
        BY <1>3, <2>2, Moves
      <4>2. QED
        BY <4>1 DEF Placed, Asking
    <3>2. QED
      BY <1>0, <1>3, <3>1, Moves DEF Begun, Job
  <2>3. QED
    BY <2>1, <2>2
<1>4. CASE Crash \/ Restart
  <2>1. \A c \in Chats : worker'[c].at = "idle"
    BY <1>4, Fresh DEF Crash, Restart
  <2>2. QED
    BY <2>1 DEF Begun, Asking
<1>5. QED
  BY <1>1, <1>2, <1>3, <1>4, Cases

\* A worker that waits keeps its id, and gives it up with the wait.
LEMMA Waits ==
    ASSUME TypeOK, NEW c \in Chats, Step(c) \/ Ask(c) \/ Expire(c), worker[c].at \in Waiting
    PROVE  /\ ~Ask(c) /\ AskId(c)' = AskId(c) /\ worker'[c].job = worker[c].job
           /\ worker'[c].asks = worker[c].asks
           /\ worker'[c].at \in Waiting \/ AskId(c) \notin pending'
<1>1. ~Ask(c) /\ worker'[c].job = worker[c].job /\ worker'[c].asks = worker[c].asks
  <2>1. ~Ask(c) /\ ~TakeJob(c) /\ ~ClearCancel(c) /\ worker[c].at # "top"
    BY DEF Waiting, Ask, TakeJob, ClearCancel, At
  <2>2. QED
    BY <2>1, Moves
<1>2. AskId(c)' = AskId(c)
  BY <1>1 DEF AskId, Job
<1>3. Notify(c) \/ GiveUp(c) \/ TakeDecision(c) \/ Expire(c)
  BY <1>1 DEF Waiting, At, Step, TakeJob, Retire, EnterGate, StopAtGate, BeginRun, Recheck, Act,
     EndRun, Report, LeaveGate, ClearCancel
<1>4. Go(c, "await") \/ UNCHANGED worker \/ pending' = pending \ {AskId(c)}
  BY <1>3 DEF Notify, GiveUp, TakeDecision, Expire, workVars
<1>5. worker'[c].at \in Waiting \/ AskId(c) \notin pending'
  BY <1>4, Goes, StagesAre DEF Waiting
<1>6. QED
  BY <1>1, <1>2, <1>5

LEMMA AsideAsks ==
    ASSUME Aside
    PROVE  /\ pending' \subseteq pending /\ UNCHANGED began
           /\ (\E v \in inflight : Resolve(v)) \/ UNCHANGED <<decision, grants>>
BY DEF Aside, ClaimTorn, CancelTask, Verdict, Resolve, Close, Exit, ForeignEdit,
       botVars, workVars, askVars, history, vars

LEMMA AsksStep ==
    ASSUME TypeOK, Busy, Claimed, Queue, AsksTrue, [Next]_vars
    PROVE  AsksTrue'
<1>0. \A id \in pending : ChatOf[id[1]] \in Chats
  BY TablesAssumption DEF TypeOK, AskIds, Events
<1>. DEFINE Right(id, c) == worker[c].at \in Waiting /\ id = AskId(c)
<1>a. \A id \in pending : Right(id, ChatOf[id[1]])
  BY DEF AsksTrue, Waiting
<1>b. SUFFICES \A id \in pending' : Right(id, ChatOf[id[1]])'
  BY DEF AsksTrue, Waiting
<1>1. CASE Aside
  BY <1>a, <1>1, AsideKeeps, AsideAsks DEF AskId, Job
<1>2. CASE \E t \in Tasks : Submit(t)
  <2>1. UNCHANGED pending
    BY <1>2 DEF Submit, askVars
  <2>2. \A c \in Chats : worker[c].at \in Waiting => worker'[c] = worker[c]
    BY <1>2, Wakes DEF Waiting
  <2>3. QED
    BY <1>0, <1>a, <2>1, <2>2 DEF AskId, Job
<1>3. ASSUME NEW c \in Chats, Step(c) \/ Ask(c) \/ Expire(c)
      PROVE  \A id \in pending' : Right(id, ChatOf[id[1]])'
  <2>1. SUFFICES ASSUME NEW id \in pending'
                 PROVE  Right(id, ChatOf[id[1]])'
    OBVIOUS
  <2>2. CASE id \notin pending
    <3>1. Ask(c)
      BY <1>3, <2>2, OneWorks
    <3>2. id = <<Job(c), worker[c].asks + 1>>
      BY <2>2, <3>1 DEF Ask
    <3>3. /\ worker'[c].at = "notify" /\ worker'[c].job = Job(c)
          /\ worker'[c].asks = worker[c].asks + 1 /\ worker[c].at = "run"
      BY <3>1, Asks DEF Job
    <3>4. ChatOf[Job(c)] = c
      BY <3>3, OwnTask DEF Busy, Job
    <3>5. QED
      BY <3>2, <3>3, <3>4 DEF AskId, Job, Waiting
  <2>3. CASE id \in pending /\ ChatOf[id[1]] = c
    <3>1. worker[c].at \in Waiting /\ id = AskId(c)
      BY <1>a, <2>3
    <3>2. QED
      BY <1>3, <2>3, <3>1, Waits
  <2>4. CASE id \in pending /\ ChatOf[id[1]] # c
    <3>1. worker'[ChatOf[id[1]]] = worker[ChatOf[id[1]]]
      BY <1>0, <1>3, <2>4, Moves
    <3>2. QED
      BY <1>a, <2>4, <3>1 DEF AskId, Job
  <2>5. QED
    BY <2>2, <2>3, <2>4
<1>4. CASE Crash \/ Restart
  BY <1>4 DEF Crash, Restart
<1>5. QED
  BY <1>1, <1>2, <1>3, <1>4, Cases

\* An id that is asked now has no decision yet.
LEMMA AskedFirst ==
    ASSUME TypeOK, Busy, Claimed, Queue, GrantsTrue, NEW c \in Chats,
           worker[c].at \notin Resting
    PROVE  \A g \in grants : g.id # <<Job(c), worker[c].asks + 1>>
<1>1. Job(c) # NoTask /\ ChatOf[Job(c)] = c
  BY OwnTask DEF Busy, Resting, Job
<1>2. worker[c].asks \in Nat
  BY BoundsAssumption DEF TypeOK, Worker
<1>3. SUFFICES ASSUME NEW g \in grants, g.id = <<Job(c), worker[c].asks + 1>>
               PROVE  FALSE
  OBVIOUS
<1>4. g.chat = c /\ worker[c].job = g.id[1]
  BY <1>1, <1>3 DEF GrantsTrue, Job
<1>5. worker[c].asks + 1 <= worker[c].asks
  BY <1>3, <1>4 DEF GrantsTrue
<1>6. QED
  BY <1>2, <1>5

\* A decision that is recorded is the only one of the id its worker waits for.
LEMMA ResolveGrants ==
    ASSUME TypeOK, Busy, Claimed, Queue, Begun, AsksTrue, GrantsTrue,
           NEW v \in inflight, Resolve(v)
    PROVE  GrantsTrue'
<1>1. CASE Resolvable(v)
  <2>. DEFINE c == ChatOf[v.id[1]]
              g == [id |-> v.id, chat |-> v.chat, by |-> v.by, allow |-> v.allow,
                    late |-> Late(v.id)]
  <2>1. v.id \in pending /\ v.chat = c /\ v.by \in Approvers[c]
    BY <1>1 DEF Resolvable
  <2>2. c \in Chats
    BY <2>1, TablesAssumption DEF TypeOK, AskIds, Events
  <2>3. worker[c].at \in Waiting /\ v.id = AskId(c)
    BY <2>1 DEF AsksTrue, Waiting
  <2>4. pending' = pending \ {v.id} /\ grants' = grants \cup {g}
        /\ UNCHANGED <<worker, began>>
    BY <1>1 DEF Resolve, workVars
  <2>5. \E i \in DOMAIN began[c] : began[c][i] = v.id[1]
    BY <2>2, <2>3 DEF Begun, Waiting, Asking, AskId
  <2>6. v.id[2] <= worker[c].asks
    <3>1. worker[c].asks \in Nat
      BY <2>2, BoundsAssumption DEF TypeOK, Worker
    <3>2. QED
      BY <2>3, <3>1 DEF AskId
  <2>7. g.id = v.id /\ g.chat = c /\ g.by = v.by
    BY <2>1
  <2>. HIDE DEF g
  <2>8. \A h \in grants : h.id # v.id
    BY <2>1 DEF GrantsTrue
  <2>9. QED
    BY <2>1, <2>4, <2>5, <2>6, <2>7, <2>8 DEF GrantsTrue
<1>2. CASE ~Resolvable(v)
  <2>1. UNCHANGED <<pending, grants, worker, began>>
    BY <1>2 DEF Resolve, workVars
  <2>2. QED
    BY <2>1 DEF GrantsTrue
<1>3. QED
  BY <1>1, <1>2

LEMMA GrantsStep ==
    ASSUME TypeOK, Busy, Claimed, Queue, Begun, AsksTrue, GrantsTrue, [Next]_vars
    PROVE  GrantsTrue'
<1>0. \A g \in grants : g.chat \in Chats /\ g.id[1] \in Tasks /\ g.id[2] \in Nat
  BY BoundsAssumption DEF TypeOK, Grant, AskIds
<1>a. \A c \in Chats : \A i \in DOMAIN began[c] :
              i \in DOMAIN began'[c] /\ began'[c][i] = began[c][i]
  BY BeganStays
<1>b. ASSUME UNCHANGED grants, \A g \in grants : g.id \notin pending',
             \A g \in grants : worker'[g.chat].job = g.id[1] => g.id[2] <= worker'[g.chat].asks
      PROVE  GrantsTrue'
  BY <1>0, <1>a, <1>b DEF GrantsTrue
<1>1. CASE \E v \in inflight : Resolve(v)
  BY <1>1, ResolveGrants
<1>2. CASE Aside /\ ~\E v \in inflight : Resolve(v)
  BY <1>2, <1>b, AsideKeeps, AsideAsks DEF GrantsTrue
<1>3. CASE \E t \in Tasks : Submit(t)
  <2>1. UNCHANGED <<pending, grants>>
    BY <1>3 DEF Submit, askVars
  <2>2. \A c \in Chats : worker'[c].job = NoTask \/ worker'[c] = worker[c]
    BY <1>3, Wakes DEF Busy
  <2>3. QED
    BY <1>0, <1>b, <2>1, <2>2, NamesAssumption DEF GrantsTrue, Events
<1>4. ASSUME NEW c \in Chats, Step(c) \/ Ask(c) \/ Expire(c)
      PROVE  GrantsTrue'
  <2>1. UNCHANGED grants
    BY <1>4, OneWorks
  <2>2. \A g \in grants : g.id \notin pending'
    <3>1. CASE Ask(c)
      <4>1. pending' = pending \cup {<<Job(c), worker[c].asks + 1>>}
        BY <3>1 DEF Ask
      <4>2. worker[c].at \notin Resting
        BY <3>1, Asks DEF Resting
      <4>3. QED
        BY <4>1, <4>2, AskedFirst DEF GrantsTrue
    <3>2. CASE ~Ask(c)
      BY <1>4, <3>2, OneWorks DEF GrantsTrue
    <3>3. QED
      BY <3>1, <3>2
  <2>3. SUFFICES ASSUME NEW g \in grants, worker'[g.chat].job = g.id[1]
                 PROVE  g.id[2] <= worker'[g.chat].asks
    BY <1>b, <2>1, <2>2
  <2>4. CASE g.chat # c
    BY <1>0, <1>4, <2>3, <2>4, Moves DEF GrantsTrue
  <2>5. CASE g.chat = c
    <3>1. CASE TakeJob(c)
      <4>1. jobs[c] # <<>> /\ worker'[c].job = Head(jobs[c])
        BY <3>1 DEF TakeJob, TypeOK, Placed
      <4>2. \E i \in DOMAIN began[c] : began[c][i] = Head(jobs[c])
        BY <2>3, <2>5, <4>1 DEF GrantsTrue
      <4>3. QED
        BY <4>1, <4>2, NewTask
    <3>2. CASE ~TakeJob(c)
      <4>1. \/ worker'[c].job = worker[c].job /\ worker'[c].asks = worker[c].asks
            \/ worker'[c].job = worker[c].job /\ worker'[c].asks = worker[c].asks + 1
            \/ worker'[c].job = NoTask
        <5>1. \/ worker'[c].job = worker[c].job /\ worker'[c].asks = worker[c].asks
              \/ worker'[c].job = worker[c].job /\ worker'[c].asks = worker[c].asks + 1
              \/ worker[c].at = "top" /\ worker'[c].job = worker[c].job
              \/ worker'[c] = Placed("top", NoTask)
          BY <1>4, <3>2, Moves
        <5>2. QED
          BY <5>1 DEF Placed, Busy
      <4>2. worker[c].asks \in Nat /\ g.id[1] # NoTask
        BY <1>0, BoundsAssumption, NamesAssumption DEF TypeOK, Worker, Events
      <4>3. worker[c].job = g.id[1] => g.id[2] <= worker[c].asks
        BY <2>5 DEF GrantsTrue
      <4>4. QED
        BY <1>0, <2>3, <2>5, <4>1, <4>2, <4>3
    <3>3. QED
      BY <3>1, <3>2
  <2>6. QED
    BY <2>4, <2>5
<1>5. CASE Crash \/ Restart
  <2>1. UNCHANGED grants /\ pending' = {} /\ \A c \in Chats : worker'[c].job = NoTask
    BY <1>5, Fresh DEF Crash, Restart, history
  <2>2. QED
    BY <1>0, <1>b, <2>1, NamesAssumption DEF Events
<1>6. QED
  BY <1>1, <1>2, <1>3, <1>4, <1>5, Cases

-----------------------------------------------------------------------------
(* Actions.                                                                *)

\* While the process lives, a wait that is over stays over.
LEMMA LateStays ==
    ASSUME TypeOK, [Next]_vars, ~Crash, ~Restart
    PROVE  \A id : Late(id) => Late(id)'
<1>1. stopped \subseteq stopped' /\ expired \subseteq expired' /\ (life # "open" => life' # "open")
  <2>1. CASE Aside
    BY <2>1 DEF Aside, ClaimTorn, CancelTask, Verdict, Resolve, Close, Exit, ForeignEdit,
       botVars, workVars, askVars, vars
  <2>2. CASE \E t \in Tasks : Submit(t)
    BY <2>2 DEF Submit, askVars
  <2>3. QED
    BY <2>1, <2>2, OneWorks, Cases
<1>2. QED
  BY <1>1 DEF Late, CtxDone

\* A decision stays in the records.
LEMMA GrantsGrow ==
    ASSUME TypeOK, [Next]_vars
    PROVE  grants \subseteq grants'
<1>1. CASE Aside
  BY <1>1 DEF Aside, ClaimTorn, CancelTask, Verdict, Resolve, Close, Exit, ForeignEdit,
     history, vars
<1>2. CASE Crash \/ Restart \/ \E t \in Tasks : Submit(t)
  BY <1>2 DEF Crash, Restart, Submit, history
<1>3. QED
  BY <1>1, <1>2, OneWorks, Cases

LEMMA ActsStay ==
    ASSUME TypeOK, [Next]_vars
    PROVE  UNCHANGED acts \/ \E c \in Chats : Act(c)
<1>1. CASE Aside
  BY <1>1, AsideKeeps
<1>2. CASE Crash \/ Restart \/ \E t \in Tasks : Submit(t)
  BY <1>2 DEF Crash, Restart, Submit, history
<1>3. QED
  BY <1>1, <1>2, OneWorks, Cases

\* Where a worker that asks was before the step: it asked for the same, or asks now.
LEMMA Asked ==
    ASSUME TypeOK, [Next]_vars, NEW c \in Chats, worker'[c].at \in Asking
    PROVE  \/ worker[c].at \in Asking /\ AskId(c)' = AskId(c) /\ ~Act(c)
              /\ (worker'[c].at \in Waiting => worker[c].at \in Waiting /\ ~Ask(c))
              /\ (worker'[c].at \in {"recheck", "allowed"} =>
                    worker[c].at \in {"recheck", "allowed"} \/ TakeDecision(c))
           \/ /\ Ask(c) /\ worker'[c].at = "notify" /\ worker[c].at = "run"
              /\ AskId(c)' = <<Job(c), worker[c].asks + 1>>
<1>1. ASSUME worker'[c] = worker[c], ~Act(c), ~Ask(c)
      PROVE  /\ worker[c].at \in Asking /\ AskId(c)' = AskId(c) /\ ~Act(c)
             /\ (worker'[c].at \in Waiting => worker[c].at \in Waiting /\ ~Ask(c))
             /\ (worker'[c].at \in {"recheck", "allowed"} =>
                   worker[c].at \in {"recheck", "allowed"} \/ TakeDecision(c))
  BY <1>1 DEF AskId, Job
<1>2. Act(c) => worker'[c].at = "run"
  BY Goes, StagesAre DEF Act
<1>3. ASSUME worker'[c] = worker[c]
      PROVE  ~Act(c) /\ ~Ask(c)
  BY <1>2, <1>3, Asks DEF Asking
<1>4. CASE Step(c) \/ Ask(c) \/ Expire(c)
  <2>1. \/ /\ worker'[c].job = worker[c].job /\ worker'[c].asks = worker[c].asks
           /\ worker[c].at \in Asking
           /\ worker'[c].at \in Waiting => worker[c].at \in Waiting
           /\ worker'[c].at \in {"recheck", "allowed"} =>
                 worker[c].at = "recheck" \/ TakeDecision(c)
        \/ /\ Ask(c) /\ worker'[c].at = "notify" /\ worker[c].at = "run"
           /\ worker'[c].job = worker[c].job /\ worker'[c].asks = worker[c].asks + 1
    <3>1. \/ /\ worker'[c].job = worker[c].job /\ worker'[c].asks = worker[c].asks
             /\ worker'[c].at \in Asking => worker[c].at \in Asking
             /\ worker'[c].at \in Waiting => worker[c].at \in Waiting
             /\ worker'[c].at \in {"recheck", "allowed"} =>
                   worker[c].at = "recheck" \/ TakeDecision(c)
          \/ /\ Ask(c) /\ worker'[c].at = "notify" /\ worker[c].at = "run"
             /\ worker'[c].job = worker[c].job /\ worker'[c].asks = worker[c].asks + 1
          \/ worker'[c] = Placed("gate", Head(jobs[c]))
          \/ worker'[c].at = "idle"
          \/ worker'[c] = Placed("top", NoTask)
      BY <1>4, Moves
    <3>2. QED
      BY <3>1 DEF Placed, Asking
  <2>2. worker[c].at \in Asking => ~Ask(c)
    BY Asks DEF Asking
  <2>3. ~Act(c)
    BY <1>2 DEF Asking
  <2>4. QED
    BY <2>1, <2>2, <2>3 DEF AskId, Job, Waiting
<1>5. CASE Aside
  BY <1>1, <1>3, <1>5, AsideKeeps
<1>6. CASE \E t \in Tasks : Submit(t)
  BY <1>1, <1>3, <1>6, Wakes DEF Asking
<1>7. CASE \E b \in Chats \ {c} : Step(b) \/ Ask(b) \/ Expire(b)
  BY <1>1, <1>3, <1>7, Moves
<1>8. CASE Crash \/ Restart
  <2>1. worker'[c].at = "idle"
    BY <1>8, Fresh DEF Crash, Restart
  <2>2. QED
    BY <2>1 DEF Asking
<1>9. QED
  BY <1>4, <1>5, <1>6, <1>7, <1>8, Cases

\* A decision that lets the waiting worker go on is recorded, and in time unless
\* the wait is over by now.
Promised(c) ==
    worker[c].at \in Waiting /\ decision[c] = "allow" =>
        \E g \in grants : g.id = AskId(c) /\ g.allow /\ (g.late => WaitDone(c))

LEMMA PromisedStep ==
    ASSUME TypeOK, AsksTrue, \A c \in Chats : Promised(c), [Next]_vars, NEW b \in Chats
    PROVE  Promised(b)'
<1>1. SUFFICES ASSUME worker'[b].at \in Waiting, decision'[b] = "allow",
                      NEW id, id = AskId(b)'
               PROVE  \E g \in grants' : g.id = id /\ g.allow /\ (g.late => Late(id)')
  BY DEF Promised, WaitDone, Late
<1>2. ~Crash /\ ~Restart /\ ~Ask(b)
  <2>1. Crash \/ Restart => worker'[b].at = "idle"
    BY Fresh DEF Crash, Restart
  <2>2. Ask(b) => decision'[b] = "none"
    BY DEF Ask, TypeOK
  <2>3. QED
    BY <1>1, <2>1, <2>2 DEF Waiting
<1>3. worker[b].at \in Waiting /\ id = AskId(b)
  BY <1>1, <1>2, Asked DEF Waiting, Asking
<1>4. CASE decision[b] = "allow"
  <2>1. PICK g \in grants : g.id = id /\ g.allow /\ (g.late => Late(id))
    BY <1>3, <1>4 DEF Promised, WaitDone
  <2>2. Late(id) => Late(id)'
    BY <1>2, LateStays
  <2>3. QED
    BY <2>1, <2>2, GrantsGrow
<1>5. CASE decision[b] # "allow"
  <2>1. PICK v \in inflight : Resolve(v) /\ b = ChatOf[v.id[1]] /\ Resolvable(v) /\ v.allow
    <3>1. decision'[b] # decision[b]
      BY <1>1, <1>5
    <3>2. \E v \in inflight : Resolve(v)
      <4>1. CASE Aside
        BY <3>1, <4>1, AsideAsks
      <4>2. CASE \E t \in Tasks : Submit(t)
        BY <3>1, <4>2 DEF Submit, askVars
      <4>3. ASSUME NEW c \in Chats, Step(c) \/ Ask(c) \/ Expire(c)
            PROVE  decision'[b] = decision[b]
        BY <1>2, <4>3, OneWorks
      <4>4. QED
        BY <1>2, <3>1, <4>1, <4>2, <4>3, Cases
    <3>3. PICK v \in inflight : Resolve(v)
      BY <3>2
    <3>4. Resolvable(v)
      BY <3>1, <3>3 DEF Resolve
    <3>5. decision' = [decision EXCEPT ![ChatOf[v.id[1]]] = IF v.allow THEN "allow" ELSE "reject"]
      BY <3>3, <3>4 DEF Resolve
    <3>6. QED
      BY <1>1, <3>1, <3>3, <3>4, <3>5 DEF TypeOK
  <2>. DEFINE g == [id |-> v.id, chat |-> v.chat, by |-> v.by, allow |-> v.allow,
                    late |-> Late(v.id)]
  <2>2. v.id = id
    BY <1>3, <2>1 DEF Resolvable, AsksTrue
  <2>3. g \in grants' /\ UNCHANGED <<worker, stopped, expired, life>>
    BY <2>1 DEF Resolve, workVars, botVars
  <2>4. g.id = id /\ g.allow
    BY <2>1, <2>2
  <2>5. g.late => Late(id)'
    BY <2>2, <2>3 DEF Late, CtxDone
  <2>. HIDE DEF g
  <2>6. QED
    BY <2>3, <2>4, <2>5
<1>6. QED
  BY <1>4, <1>5

\* Who goes on has been allowed to.
Granted(c) == worker[c].at \in {"recheck", "allowed"} => HasGrant(AskId(c))

LEMMA GrantedStep ==
    ASSUME TypeOK, [Next]_vars, NEW b \in Chats, Promised(b), Granted(b)
    PROVE  Granted(b)'
<1>1. SUFFICES ASSUME worker'[b].at \in {"recheck", "allowed"}
               PROVE  \E g \in grants' : g.id = AskId(b)' /\ g.allow /\ ~g.late
  BY DEF Granted, HasGrant
<1>2. AskId(b)' = AskId(b) /\ (worker[b].at \in {"recheck", "allowed"} \/ TakeDecision(b))
  BY <1>1, Asked DEF Asking
<1>3. CASE worker[b].at \in {"recheck", "allowed"}
  BY <1>2, <1>3, GrantsGrow DEF Granted, HasGrant
<1>4. CASE TakeDecision(b)
  <2>1. ~WaitDone(b) /\ decision[b] # "reject"
    <3>1. WaitDone(b) \/ decision[b] = "reject" => Go(b, "run")
      BY <1>4 DEF TakeDecision
    <3>2. ~Go(b, "run")
      BY <1>1, Goes, StagesAre
    <3>3. QED
      BY <3>1, <3>2
  <2>2. decision[b] = "allow" /\ worker[b].at \in Waiting
    BY <1>4, <2>1 DEF TakeDecision, At, TypeOK, Waiting
  <2>3. \E g \in grants : g.id = AskId(b) /\ g.allow /\ ~g.late
    BY <2>1, <2>2 DEF Promised
  <2>4. QED
    BY <1>2, <2>3, GrantsGrow
<1>5. QED
  BY <1>2, <1>3, <1>4

\* What is asked for has not run yet.
Pending(c) == worker[c].at \in Asking => \A a \in acts : a.id # AskId(c)

LEMMA PendingStep ==
    ASSUME TypeOK, Busy, Claimed, Queue, GrantsTrue, ActsTrue, [Next]_vars, NEW b \in Chats
    PROVE  Pending(b)'
<1>1. SUFFICES ASSUME worker'[b].at \in Asking
               PROVE  \A a \in acts' : a.id # AskId(b)'
  BY DEF Pending
<1>2. CASE worker[b].at \in Asking /\ AskId(b)' = AskId(b) /\ ~Act(b)
  <2>1. \A a \in acts : a.id # AskId(b)
    BY <1>2 DEF ActsTrue
  <2>2. ASSUME NEW c \in Chats, Act(c)
        PROVE  \A a \in acts' : a.id # AskId(b)
    <3>1. Job(c) # NoTask /\ Job(b) # NoTask
      BY <1>2, <2>2 DEF Act, At, Busy, Asking, Job
    <3>2. AskId(c) # AskId(b)
      BY <1>2, <2>2, <3>1, OwnTask DEF AskId
    <3>3. acts' = acts \/ acts' = acts \cup {[id |-> AskId(c), kind |-> worker[c].kind,
                before |-> worker[c].before, on |-> version[Dir(c)]]}
      BY <2>2 DEF Act
    <3>4. QED
      BY <2>1, <3>2, <3>3
  <2>3. QED
    BY <1>2, <2>1, <2>2, ActsStay
<1>3. CASE Ask(b) /\ worker[b].at = "run" /\ AskId(b)' = <<Job(b), worker[b].asks + 1>>
  <2>1. \A g \in grants : g.id # <<Job(b), worker[b].asks + 1>>
    BY <1>3, AskedFirst DEF Resting
  <2>2. \A a \in acts : a.id # <<Job(b), worker[b].asks + 1>>
    BY <2>1 DEF ActsTrue, HasGrant
  <2>3. UNCHANGED acts
    BY <1>3 DEF Ask, history
  <2>4. QED
    BY <1>3, <2>2, <2>3
<1>4. QED
  BY <1>1, <1>2, <1>3, Asked

LEMMA ActsStep ==
    ASSUME TypeOK, Busy, Claimed, Queue, AsksTrue, GrantsTrue, ActsTrue, [Next]_vars
    PROVE  ActsTrue'
<1>1. \A c \in Chats : Promised(c) /\ Granted(c)
  BY DEF ActsTrue, Promised, Granted
<1>2. \A c \in Chats : Promised(c)' /\ Granted(c)' /\ Pending(c)'
  BY <1>1, PromisedStep, GrantedStep, PendingStep
<1>3. \A a \in acts' : \E g \in grants' : g.id = a.id /\ g.allow /\ ~g.late
  <2>1. \A a \in acts : \E g \in grants' : g.id = a.id /\ g.allow /\ ~g.late
    BY GrantsGrow DEF ActsTrue, HasGrant
  <2>2. ASSUME NEW c \in Chats, Act(c)
        PROVE  \A a \in acts' : \E g \in grants' : g.id = a.id /\ g.allow /\ ~g.late
    <3>1. \E g \in grants' : g.id = AskId(c) /\ g.allow /\ ~g.late
      BY <2>2, GrantsGrow DEF Act, At, ActsTrue, HasGrant
    <3>2. acts' = acts \/ acts' = acts \cup {[id |-> AskId(c), kind |-> worker[c].kind,
                before |-> worker[c].before, on |-> version[Dir(c)]]}
      BY <2>2 DEF Act
    <3>3. QED
      BY <2>1, <3>1, <3>2
  <2>3. QED
    BY <2>1, <2>2, ActsStay
<1>4. \A a, b \in acts' : b.id = a.id => b = a
  <2>1. ASSUME NEW c \in Chats, Act(c)
        PROVE  \A a, b \in acts' : b.id = a.id => b = a
    <3>1. \A a \in acts : a.id # AskId(c)
      BY <2>1 DEF Act, At, ActsTrue, Asking
    <3>2. acts' = acts \/ acts' = acts \cup {[id |-> AskId(c), kind |-> worker[c].kind,
                before |-> worker[c].before, on |-> version[Dir(c)]]}
      BY <2>1 DEF Act
    <3>3. QED
      BY <3>1, <3>2 DEF ActsTrue
  <2>2. QED
    BY <2>1, ActsStay DEF ActsTrue
<1>5. \A a \in acts' : HasGrant(a.id)'
  BY <1>3 DEF HasGrant
<1>6. QED
  BY <1>2, <1>4, <1>5 DEF ActsTrue, Promised, Granted, Pending

LEMMA WritesStep ==
    ASSUME TypeOK, WritesKeepTheirVersion, [Next]_vars
    PROVE  WritesKeepTheirVersion'
<1>1. ASSUME NEW c \in Chats, Act(c)
      PROVE  \A a \in acts' : a.kind = "write" => a.on = a.before
  <2>1. acts' = acts \/ /\ worker[c].kind = "write" => version[Dir(c)] = worker[c].before
                        /\ acts' = acts \cup {[id |-> AskId(c), kind |-> worker[c].kind,
                              before |-> worker[c].before, on |-> version[Dir(c)]]}
    BY <1>1 DEF Act
  <2>2. QED
    BY <2>1 DEF WritesKeepTheirVersion
<1>2. QED
  BY <1>1, ActsStay DEF WritesKeepTheirVersion

-----------------------------------------------------------------------------
(* Theorems.                                                               *)

LEMMA Starts == Init => IInv
<1>1. SUFFICES ASSUME Init PROVE IInv
  OBVIOUS
<1>2. /\ \A c \in Chats : worker[c] = Idle /\ jobs[c] = <<>> /\ accepted[c] = <<>> /\ began[c] = <<>>
      /\ pending = {} /\ grants = {} /\ acts = {} /\ stops = {}
  BY <1>1 DEF Init
<1>3. TypeOK
  <2>1. Idle \in Worker /\ <<>> \in Seq(Tasks)
    BY Fresh, StagesAre, EmptySeq
  <2>2. starts \in 1..MaxStarts
    BY <1>1, BoundsAssumption DEF Init
  <2>3. QED
    BY <1>1, <2>1, <2>2 DEF Init, TypeOK
<1>4. Len(<<>>) = 0 /\ DOMAIN <<>> = {}
  <2>1. <<>> \in Seq(Tasks)
    BY EmptySeq
  <2>2. QED
    BY <2>1, EmptySeq, LenProperties
<1>5. Busy /\ Begun /\ Gated
  BY <1>2, Fresh, StagesAre DEF Busy, Begun, Gated, Asking, Inside
<1>6. Claimed /\ OnceInOrder
  BY <1>2, <1>4 DEF Claimed, OnceInOrder, IsInjective, InOrder
<1>7. Queue
  BY <1>2, <1>4, Fresh, StagesAre DEF Queue, Lined, Left
<1>8. AsksTrue /\ GrantsTrue /\ CancelHitsOne /\ WritesKeepTheirVersion
  BY <1>2 DEF AsksTrue, GrantsTrue, CancelHitsOne, WritesKeepTheirVersion
<1>9. ActsTrue
  BY <1>2, Fresh, StagesAre DEF ActsTrue, Waiting, Asking
<1>10. QED
  BY <1>3, <1>5, <1>6, <1>7, <1>8, <1>9, OneInside DEF IInv

\* The bot never leaves its inductive invariant: queues and histories, gates,
\* approvals and deeds stay as handle, runQueue, guard and resolve keep them.
THEOREM Invariance == Spec => []IInv
<1>1. ASSUME IInv, [Next]_vars
      PROVE  IInv'
  <2>1. TypeOK' /\ Busy' /\ Begun' /\ Gated'
    BY <1>1, TypeStep, BusyStep, BegunStep, GatedStep DEF IInv
  <2>2. Claimed' /\ Queue' /\ OnceInOrder' /\ CancelHitsOne'
    BY <1>1, ClaimedStep, QueueStep, OnceStep, CancelStep DEF IInv
  <2>3. AsksTrue' /\ GrantsTrue'
    BY <1>1, AsksStep, GrantsStep DEF IInv
  <2>4. ActsTrue' /\ WritesKeepTheirVersion'
    BY <1>1, ActsStep, WritesStep DEF IInv
  <2>5. OneRunPerDirectory'
    <3>1. TypeOK' /\ Gated'
      BY <2>1
    <3>2. \A c \in Chats : worker'[c].at \in Inside => gate'[WorkDir[c]] = c
      BY <3>1 DEF Gated, Dir
    <3>3. QED
      BY <3>2 DEF OneRunPerDirectory
  <2>6. QED
    BY <2>1, <2>2, <2>3, <2>4, <2>5 DEF IInv
<1>2. QED
  BY <1>1, Starts, PTL DEF Spec

\* Every variable keeps its type, for any chats, users, events and bounds.
THEOREM BotTypes == Spec => []TypeOK
<1>1. IInv => TypeOK
  BY DEF IInv
<1>2. QED
  BY Invariance, <1>1, PTL

\* FS-01: an event starts at most one run, through any number of deliveries,
\* crashes and restarts, and runs begin in the order their messages were queued.
THEOREM RunsOnceInOrder == Spec => []OnceInOrder
<1>1. IInv => OnceInOrder
  BY DEF IInv
<1>2. QED
  BY Invariance, <1>1, PTL

\* FS-01: two chats that share a directory are never both at work in it.
THEOREM OneAtWork == Spec => []OneRunPerDirectory
<1>1. IInv => OneRunPerDirectory
  BY DEF IInv
<1>2. QED
  BY Invariance, <1>1, PTL

\* One /cancel stops one task at most, and only one its sender may stop.
THEOREM OneCancelled == Spec => []CancelHitsOne
<1>1. IInv => CancelHitsOne
  BY DEF IInv
<1>2. QED
  BY Invariance, <1>1, PTL

\* FS-04: a write that ran was made on the version its approval showed.
THEOREM WritesOnVersion == Spec => []WritesKeepTheirVersion
<1>1. IInv => WritesKeepTheirVersion
  BY DEF IInv
<1>2. QED
  BY Invariance, <1>1, PTL

\* FS-02: whatever ran was allowed by one decision, of one approver of its chat,
\* taken in time, and that decision let nothing else run.
THEOREM OneGrantPerAct == Spec => []ActsAreGranted
<1>1. IInv => ActsAreGranted
  <2>1. SUFFICES ASSUME IInv, NEW a \in acts
                 PROVE  /\ Cardinality({g \in grants : g.id = a.id}) = 1
                        /\ \A g \in {h \in grants : h.id = a.id} :
                              /\ g.allow /\ ~g.late /\ g.chat = ChatOf[a.id[1]]
                              /\ g.by \in Approvers[ChatOf[a.id[1]]]
                        /\ Cardinality({b \in acts : b.id = a.id}) = 1
    BY DEF ActsAreGranted
  <2>2. PICK g \in grants : g.id = a.id /\ g.allow /\ ~g.late
    BY <2>1 DEF IInv, ActsTrue, HasGrant
  <2>3. {h \in grants : h.id = a.id} = {g}
    BY <2>1, <2>2 DEF IInv, GrantsTrue
  <2>4. {b \in acts : b.id = a.id} = {a}
    BY <2>1 DEF IInv, ActsTrue
  <2>5. g.chat = ChatOf[a.id[1]] /\ g.by \in Approvers[ChatOf[a.id[1]]]
    BY <2>1, <2>2 DEF IInv, GrantsTrue
  <2>6. Cardinality({g}) = 1 /\ Cardinality({a}) = 1
    BY FS_Singleton
  <2>7. QED
    BY <2>2, <2>3, <2>4, <2>5, <2>6
<1>2. QED
  BY Invariance, <1>1, PTL

\* FS-02: when a run begins, its task is not stopped and the bot is open.
THEOREM BeginsUnstopped == Spec => StoppedNeverBegins
<1>1. ASSUME IInv, [Next]_vars
      PROVE  [\A c \in Chats : began'[c] # began[c] => ~CtxDone(Last(began'[c]))]_vars
  <2>1. SUFFICES ASSUME NEW c \in Chats, began'[c] # began[c]
                 PROVE  ~CtxDone(Last(began'[c]))
    OBVIOUS
  <2>2. BeginRun(c)
    <3>1. CASE Aside
      BY <2>1, <3>1, AsideKeeps
    <3>2. CASE Crash \/ Restart \/ \E t \in Tasks : Submit(t)
      BY <2>1, <3>2 DEF Crash, Restart, Submit, history
    <3>3. ASSUME NEW b \in Chats, Step(b) \/ Ask(b) \/ Expire(b)
          PROVE  BeginRun(c)
      BY <1>1, <2>1, <3>3, OneWorks DEF IInv
    <3>4. QED
      BY <1>1, <3>1, <3>2, <3>3, Cases
  <2>3. ~CtxDone(Job(c)) /\ began'[c] = Append(began[c], Job(c))
    BY <1>1, <2>1, <2>2 DEF BeginRun, IInv, TypeOK
  <2>4. Job(c) \in Tasks /\ began[c] \in Seq(Tasks)
    BY <1>1, <2>2 DEF BeginRun, At, IInv, Busy, Job, TypeOK, Worker
  <2>5. Last(began'[c]) = Job(c)
    <3>1. Len(Append(began[c], Job(c))) = Len(began[c]) + 1
          /\ Append(began[c], Job(c))[Len(began[c]) + 1] = Job(c)
      BY <2>4, AppendProperties
    <3>2. QED
      BY <2>3, <3>1 DEF Last
  <2>6. QED
    BY <2>3, <2>5
<1>2. QED
  BY <1>1, Invariance, PTL DEF Spec, StoppedNeverBegins
================================================================================
