----------------------------- MODULE TaskRunProofs -----------------------------
(***************************************************************************)
(* What a task's run promises for every plan, workspace, budget and number *)
(* of runs.  The invariants of TaskRun are not inductive: a restart may    *)
(* find any state of durable, so what they say of the log must also hold   *)
(* of the state in memory, which becomes the log's with the next event,    *)
(* and the moments between a charge and its use, and between an action's   *)
(* start and its receipt, need invariants of their own. The last part is   *)
(* about the ledger of a change: which mutations stand, which version a    *)
(* verification saw, and why neither is replayed.                          *)
(***************************************************************************)
EXTENDS TaskRun, TLAPS

\* A limit that was closed is below the present one, or is marked as closed.
Marked(s) ==
    \A n \in Limits : closings[n] > 0 =>
        \/ n < s.limits.tools
        \/ n = s.limits.tools /\ s.closing.limit = n /\ s.closing.status # None

\* What any state a run may continue from must say.
Kept(s) ==
    /\ s \in State
    /\ Charged(s)
    /\ s.limits.tools \in Limits
    /\ Marked(s)
    /\ \A r \in ran : Remembers(s, r.id)

\* TypeOK without the task's state, which Keeping types.
LocalsOK ==
    /\ pc \in PcValues
    /\ storage \in {"ok", "artifact", "broken"}
    /\ ctx \in {"live", "cancelled", "deadline"}
    /\ step \in Step /\ act \in Act
    /\ evidence \in Version \union {None}
    /\ receipts \subseteq Key /\ patched \in BOOLEAN
    /\ outcome \in Outcome /\ text \in BOOLEAN /\ resumed \in BOOLEAN
    /\ file \in Version
    /\ attempts \in Nat /\ runs \in Nat /\ edits \in Nat /\ seen \in Nat /\ sent \in Nat
    /\ closings \in [Limits -> Nat]
    /\ ran \subseteq Handled /\ did \subseteq Id /\ passedOn \subseteq Version

Keeping ==
    /\ mem \in State
    /\ \A s \in durable : Kept(s)
    /\ pc # "idle" => Kept(mem)

\* Before the first run there is nothing to charge or to remember.
Unborn ==
    runs = 0 => /\ pc = "idle" /\ durable = {} /\ sent = 0 /\ attempts = 0 /\ ran = {}
                /\ \A n \in Limits : closings[n] = 0

\* Between the charge of a tool call and the id it is for.
Admitted ==
    pc = "admit" => /\ attempts < mem.tools /\ \A s \in durable : attempts < s.tools
                    /\ ~act.started

\* The action at hand is the only one pending, and its start is durable
\* before its handler is entered.
InHand ==
    /\ IF act.started THEN act.id \in Id ELSE act.id = 0
    /\ pc = "handler" => /\ act.started /\ Remembers(mem, act.id)
                         /\ \A s \in durable : Remembers(s, act.id)
    /\ pc \in {"handler", "result"} =>
           IF act.started
           THEN /\ \A p \in mem.pending : p.id = act.id
                /\ \E p \in mem.pending : p.id = act.id
           ELSE mem.pending = {}

\* Nothing is pending wherever the run may turn to the model or to a tool.
Calm ==
    /\ pc \in {"recheck", "plan or work", "plan", "patch", "planned", "work", "turn", "ask",
               "reply", "call", "batch", "verify", "admit", "judge", "final", "closing"}
           => mem.pending = {}
    /\ pc = "stop" /\ outcome = "tool_limit" => mem.pending = {}

Honest == LocalsOK /\ Keeping /\ Unborn /\ Admitted /\ InHand /\ Calm
-----------------------------------------------------------------------------
(* States and what is recorded of them.                                    *)

\* A record with the same ledger and closing mark and a larger account keeps
\* what a state must say.
LEMMA KeptAlong ==
    ASSUME LocalsOK, NEW s, Kept(s), NEW t \in State,
           t.limits = s.limits, t.effects = s.effects, t.pending = s.pending,
           t.closing = s.closing,
           s.models <= t.models, t.models <= t.limits.models,
           s.tools <= t.tools, t.tools <= t.limits.tools, t.turns <= t.limits.turns
    PROVE  Kept(t)
<1>1. t.limits.tools \in Limits /\ Marked(t)
  BY DEF Kept, Marked
<1>2. \A r \in ran : Remembers(t, r.id)
  BY DEF Kept, Remembers
<1>3. /\ s.models \in Nat /\ t.models \in Nat /\ s.tools \in Nat /\ t.tools \in Nat
      /\ sent \in Nat /\ attempts \in Nat
  BY DEF Kept, State, LocalsOK
<1>4. Charged(t)
  BY <1>3 DEF Kept, Charged
<1>5. QED
  BY <1>1, <1>2, <1>4 DEF Kept

\* Whether or not the append succeeds, what a restart may find is kept.
LEMMA RecordKeeps ==
    ASSUME NEW s, Kept(s), Keeping, Saved(s) \/ NotSaved(s),
           UNCHANGED <<sent, attempts, ran, closings>>
    PROVE  Keeping'
<1>1. mem' = s /\ \A t \in durable' : t \in durable \/ t = s
  BY DEF Saved, NotSaved
<1>2. ASSUME NEW t, Kept(t) PROVE Kept(t)'
  BY <1>2 DEF Kept, Charged, Marked
<1>3. QED
  BY <1>1, <1>2 DEF Keeping, Kept

\* A step that leaves the task's state and its history alone.
LEMMA StillKeeps ==
    ASSUME Keeping, UNCHANGED <<mem, durable, sent, attempts, ran, closings>>, pc # "idle"
    PROVE  Keeping'
<1>1. ASSUME NEW t, Kept(t) PROVE Kept(t)'
  BY <1>1 DEF Kept, Charged, Marked
<1>2. QED
  BY <1>1 DEF Keeping

\* What a process leaves behind.
LEMMA GoneKeeps ==
    ASSUME Gone, \A s \in durable' : Kept(s), UNCHANGED <<sent, attempts, ran, closings>>
    PROVE  Keeping'
<1>1. ASSUME NEW t, Kept(t) PROVE Kept(t)'
  BY <1>1 DEF Kept, Charged, Marked
<1>2. NoState \in State
  BY DEF NoState, NewState, State, NoEvidence, Evidence, Outcome, Receipt, None
<1>3. QED
  BY <1>1, <1>2 DEF Keeping, Gone
-----------------------------------------------------------------------------
(* The initial states, and the steps from outside.                         *)

LEMMA InitHonest == Init => Honest
<1>. SUFFICES ASSUME Init PROVE Honest
  OBVIOUS
<1>1. LocalsOK
  <2>1. act \in Act
    BY DEF Init, NoAct, Act, Call, Read, Result, None
  <2>2. step \in Step /\ evidence \in Version \union {None}
    BY DEF Init, Step
  <2>3. closings \in [Limits -> Nat]
    BY DEF Init
  <2>4. QED
    BY <2>1, <2>2, <2>3 DEF LocalsOK, Init, PcValues, Outcome
<1>2. NoState \in State
  BY DEF NoState, NewState, State, NoEvidence, Evidence, Outcome, Receipt, None
<1>3. Keeping
  BY <1>2 DEF Keeping, Init
<1>4. Unborn /\ Admitted /\ InHand /\ Calm
  BY DEF Init, Unborn, Admitted, InHand, Calm, NoAct
<1>5. QED
  BY <1>1, <1>3, <1>4 DEF Honest

LEMMA OutsideHonest ==
    ASSUME Honest, Crash \/ CtxEnds \/ ClockFails \/ Edit
    PROVE  Honest'
<1>. USE DEF Honest, taskVars, locals, setup, talk, call, world, outside, actions, counters
<1>1. CASE Crash
  <2>1. LocalsOK'
    <3>1. act' \in Act
      BY <1>1 DEF Crash, Gone, NoAct, Act, Call, Read, Result, None
    <3>2. QED
      BY <1>1, <3>1 DEF LocalsOK, Crash, Gone, PcValues, Step, Outcome
  <2>2. Keeping'
    BY <1>1, GoneKeeps DEF Crash, Keeping
  <2>3. (Unborn /\ Admitted /\ InHand /\ Calm)'
    BY <1>1 DEF Crash, Gone, Unborn, Admitted, InHand, Calm, NoAct
  <2>4. QED
    BY <2>1, <2>2, <2>3
<1>2. CASE CtxEnds \/ ClockFails \/ Edit
  <2>1. LocalsOK'
    BY <1>2 DEF LocalsOK, CtxEnds, ClockFails, Edit
  <2>2. Keeping'
    <3>1. ASSUME NEW t, Kept(t) PROVE Kept(t)'
      BY <1>2, <3>1 DEF Kept, Charged, Marked, CtxEnds, ClockFails, Edit
    <3>2. QED
      BY <1>2, <3>1 DEF Keeping, CtxEnds, ClockFails, Edit
  <2>3. (Unborn /\ Admitted /\ Calm)'
    BY <1>2 DEF CtxEnds, ClockFails, Edit, Unborn, Admitted, Calm
  <2>4. InHand'
    BY <1>2 DEF CtxEnds, ClockFails, Edit, InHand, Remembers
  <2>5. QED
    BY <2>1, <2>2, <2>3, <2>4
<1>3. QED
  BY <1>1, <1>2

\* Raising the limits of a state keeps what it says.
LEMMA ReopenedKept ==
    ASSUME LocalsOK, NEW s, Kept(s), NEW b \in Budget
    PROVE  Kept(Reopened(s, b))
<1>. DEFINE t == Reopened(s, b)
<1>1. /\ b \in [turns : Nat, models : Nat, tools : Nat]
      /\ s.limits \in [turns : Nat, models : Nat, tools : Nat]
      /\ s \in State
  BY BudgetAssumption DEF Kept, State
<1>2. /\ t.limits \in [turns : Nat, models : Nat, tools : Nat]
      /\ t.limits.tools = Larger(s.limits.tools, b.tools)
      /\ s.limits.turns <= t.limits.turns /\ s.limits.models <= t.limits.models
      /\ s.limits.tools <= t.limits.tools
  BY <1>1 DEF Reopened, Larger, State
<1>3. /\ t.turns = s.turns /\ t.models = s.models /\ t.tools = s.tools
      /\ t.effects = s.effects /\ t.pending = s.pending /\ t.closing = s.closing
  BY <1>1 DEF Reopened, State
<1>4. t \in State
  BY <1>1, <1>2 DEF Reopened, State
<1>5. t.limits.tools \in Limits
  BY <1>2 DEF Larger, Limits, Kept
<1>. HIDE DEF t
<1>6. /\ s.turns \in Nat /\ s.models \in Nat /\ s.tools \in Nat
      /\ sent \in Nat /\ attempts \in Nat
  BY <1>1 DEF State, LocalsOK
<1>7. Charged(t)
  BY <1>1, <1>2, <1>3, <1>6 DEF Charged, Kept
<1>8. Marked(t)
  <2>1. Limits \subseteq Nat
    BY BudgetAssumption DEF Limits
  <2>2. s.limits.tools \in Nat /\ t.limits.tools \in Nat
    BY <1>1, <1>2
  <2>3. SUFFICES ASSUME NEW n \in Limits, closings[n] > 0
                 PROVE  \/ n < t.limits.tools
                        \/ n = t.limits.tools /\ t.closing.limit = n /\ t.closing.status # None
    BY DEF Marked
  <2>4. \/ n < s.limits.tools
        \/ n = s.limits.tools /\ s.closing.limit = n /\ s.closing.status # None
    <3>1. Marked(s)
      BY DEF Kept
    <3>2. QED
      BY <2>3, <3>1, Zenon DEF Marked
  <2>5. QED
    BY <1>2, <1>3, <2>1, <2>2, <2>4
<1>9. \A r \in ran : Remembers(t, r.id)
  BY <1>3 DEF Kept, Remembers
<1>10. QED
  BY <1>4, <1>5, <1>7, <1>8, <1>9 DEF Kept, t

LEMMA CreateHonest ==
    ASSUME Honest, NEW b \in Budget, Create(b)
    PROVE  Honest'
<1>. USE DEF Honest, taskVars, locals, setup, talk, call, world, outside, actions, counters
<1>1. LocalsOK'
  BY DEF LocalsOK, Create, PcValues
<1>2. NewState(b) \in State
  BY BudgetAssumption
  DEF NewState, State, NoEvidence, Evidence, Outcome, Receipt, None
<1>3. /\ Kept(NewState(b))
  <2>1. b \in [turns : Nat, models : Nat, tools : Nat] /\ b.tools \in Limits
    BY BudgetAssumption DEF Limits
  <2>2. /\ runs = 0 /\ sent = 0 /\ attempts = 0 /\ ran = {}
        /\ \A n \in Limits : closings[n] = 0
    BY DEF Create, Unborn
  <2>3. Charged(NewState(b))
    BY <2>1, <2>2 DEF Charged, NewState
  <2>4. Marked(NewState(b)) /\ NewState(b).limits.tools \in Limits
    BY <2>1, <2>2 DEF Marked, NewState
  <2>5. QED
    BY <1>2, <2>2, <2>3, <2>4 DEF Kept
<1>4. Keeping'
  <2>1. ASSUME NEW t, Kept(t) PROVE Kept(t)'
    BY <2>1 DEF Kept, Charged, Marked, Create
  <2>2. QED
    BY <1>2, <1>3, <2>1 DEF Keeping, Create
<1>5. (Unborn /\ Admitted /\ InHand /\ Calm)'
  BY DEF Create, Unborn, Admitted, InHand, Calm
<1>6. QED
  BY <1>1, <1>4, <1>5

LEMMA ResumeHonest ==
    ASSUME Honest, NEW s \in durable, NEW b \in Budget, Resume(s, b)
    PROVE  Honest'
<1>. USE DEF Honest, taskVars, locals, setup, talk, call, world, outside, actions, counters
<1>1. LocalsOK'
  BY DEF LocalsOK, Resume, PcValues
<1>2. Kept(Reopened(s, b))
  BY ReopenedKept DEF Keeping
<1>3. Keeping'
  <2>1. ASSUME NEW t, Kept(t) PROVE Kept(t)'
    BY <2>1 DEF Kept, Charged, Marked, Resume
  <2>2. Kept(mem') /\ mem' \in State
    BY <1>2 DEF Resume, Kept
  <2>3. QED
    BY <2>1, <2>2 DEF Keeping, Resume
<1>4. (Unborn /\ Admitted /\ InHand /\ Calm)'
  BY DEF Resume, Unborn, Admitted, InHand, Calm, LocalsOK
<1>5. QED
  BY <1>1, <1>3, <1>4

-----------------------------------------------------------------------------
(* What a run does before the first model request.                         *)

\* Settling a pending action forgets no other.
LEMMA SettledKept ==
    ASSUME LocalsOK, Kept(mem), NEW p \in mem.pending
    PROVE  Kept(Settled(p))
<1>. DEFINE t == Settled(p)
<1>1. /\ mem \in State /\ p \in Pending /\ p.id \in Id
      /\ <<p.step, p.call>> \in Key
  BY DEF Kept, State, Pending, Key
<1>2. /\ t.limits = mem.limits /\ t.closing = mem.closing
      /\ t.models = mem.models /\ t.tools = mem.tools /\ t.turns = mem.turns
      /\ t.pending = mem.pending \ {p}
      /\ \E e \in {"confirmed", "none"} : t.effects = [mem.effects EXCEPT ![p.id] = e]
  BY <1>1 DEF Settled, State
<1>3. t \in State
  BY <1>1 DEF Settled, State, Receipt
<1>4. \A r \in ran : Remembers(t, r.id)
  <2>1. SUFFICES ASSUME NEW r \in ran PROVE Remembers(t, r.id)
    OBVIOUS
  <2>2. r.id \in Id /\ mem.effects \in [Id -> Receipt] /\ Remembers(mem, r.id)
    BY <1>1 DEF LocalsOK, Handled, State, Kept
  <2>. HIDE DEF t
  <2>3. CASE r.id = p.id
    BY <1>1, <1>2, <2>2, <2>3 DEF Remembers
  <2>4. CASE r.id # p.id
    BY <1>1, <1>2, <2>2, <2>4 DEF Remembers
  <2>5. QED
    BY <2>3, <2>4
<1>. HIDE DEF t
<1>5. QED
  BY <1>2, <1>3, <1>4 DEF Kept, Charged, Marked, t

LEMMA OpeningHonest ==
    ASSUME Honest, Opening
    PROVE  Honest'
<1>. USE DEF Honest, taskVars, locals, setup, talk, call, world, outside, actions, counters
<1>1. CASE Begin
  <2>1. LocalsOK'
    BY <1>1, ZenonT(40) DEF LocalsOK, Begin, Record, Saved, NotSaved, Stop, CtxOutcome, PcValues, Outcome
  <2>2. Keeping'
    BY <1>1, RecordKeeps DEF Begin, Record, Keeping
  <2>3. (Unborn /\ Admitted /\ InHand /\ Calm)'
    BY <1>1 DEF Begin, Record, Saved, NotSaved, Stop, CtxOutcome, Unborn, Admitted, InHand, Calm
  <2>4. QED
    BY <2>1, <2>2, <2>3
<1>2. ASSUME NEW p \in mem.pending, Reconcile(p) PROVE Honest'
  <2>1. LocalsOK'
    <3>1. pc' \in PcValues /\ outcome' \in Outcome
      BY <1>2 DEF LocalsOK, Reconcile, GiveUp, Record, Stop, PcValues, Outcome
    <3>2. storage' \in {"ok", "artifact", "broken"}
      BY <1>2 DEF LocalsOK, Reconcile, GiveUp, Record, Saved, NotSaved
    <3>3. QED
      BY <1>2, <3>1, <3>2 DEF LocalsOK, Reconcile
  <2>2. Kept(mem) /\ Kept(Settled(p))
    BY <1>2, SettledKept DEF Keeping, Reconcile
  <2>3. Keeping'
    <3>1. CASE GiveUp("blocked")
      BY <1>2, <3>1, StillKeeps DEF Reconcile, GiveUp
    <3>2. CASE Record(Settled(p), "reconcile")
      BY <1>2, <2>2, <3>2, RecordKeeps DEF Reconcile, Record
    <3>3. QED
      BY <1>2, <3>1, <3>2 DEF Reconcile
  <2>4. (Unborn /\ Admitted /\ InHand /\ Calm)'
    BY <1>2 DEF Reconcile, GiveUp, Record, Saved, NotSaved, Stop, Unborn, Admitted, InHand, Calm
  <2>5. QED
    BY <2>1, <2>3, <2>4
<1>3. CASE NothingPending
  <2>1. LocalsOK'
    BY <1>3 DEF LocalsOK, NothingPending, PcValues, Keeping, State
  <2>2. Keeping'
    BY <1>3, StillKeeps DEF NothingPending
  <2>3. (Unborn /\ Admitted /\ InHand /\ Calm)'
    BY <1>3 DEF NothingPending, Unborn, Admitted, InHand, Calm
  <2>4. QED
    BY <2>1, <2>2, <2>3
<1>4. CASE Recheck
  <2>1. LocalsOK'
    BY <1>4, ZenonT(40) DEF LocalsOK, Recheck, GiveUp, Record, Saved, NotSaved, Stop, CtxOutcome, PcValues,
                Outcome
  <2>2. Kept([mem EXCEPT !.verification.passed = FALSE])
    <3>1. mem \in State /\ Kept(mem)
      BY <1>4 DEF Keeping, Recheck
    <3>2. [mem EXCEPT !.verification.passed = FALSE] \in State
      BY <3>1 DEF State, Evidence
    <3>3. /\ Charged(mem)
          /\ mem.models \in Nat /\ mem.tools \in Nat
      BY <3>1 DEF Kept, State
    <3>4. QED
      BY <3>1, <3>2, <3>3, KeptAlong DEF Charged, State
  <2>3. Keeping'
    <3>1. CASE UNCHANGED <<mem, durable>>
      BY <1>4, <3>1, StillKeeps DEF Recheck
    <3>2. CASE Record([mem EXCEPT !.verification.passed = FALSE], "plan or work")
      BY <1>4, <2>2, <3>2, RecordKeeps DEF Recheck, Record
    <3>3. QED
      BY <1>4, <3>1, <3>2 DEF Recheck, GiveUp
  <2>4. (Unborn /\ Admitted /\ InHand)'
    BY <1>4 DEF Recheck, GiveUp, Record, Saved, NotSaved, Stop, CtxOutcome, Unborn, Admitted,
                InHand
  <2>5. Calm'
    BY <1>4 DEF Recheck, GiveUp, Record, Saved, NotSaved, Stop, CtxOutcome, Calm, Keeping, State
  <2>6. QED
    BY <2>1, <2>3, <2>4, <2>5
<1>5. CASE Plan
  <2>1. LocalsOK'
    <3>1. pc' \in PcValues
      BY <1>5 DEF Plan, Stop, PcValues
    <3>2. outcome' \in Outcome
      BY <1>5 DEF LocalsOK, Plan, Stop, Outcome
    <3>3. QED
      BY <1>5, <3>1, <3>2 DEF LocalsOK, Plan
  <2>2. Keeping'
    BY <1>5, StillKeeps DEF Plan
  <2>3. (Unborn /\ Admitted /\ InHand /\ Calm)'
    BY <1>5 DEF Plan, Stop, Unborn, Admitted, InHand, Calm
  <2>4. QED
    BY <2>1, <2>2, <2>3
<1>6. QED
  BY <1>1, <1>2, <1>3, <1>4, <1>5 DEF Opening

-----------------------------------------------------------------------------
(* Model requests and what follows their replies.                          *)

\* One more unit of a budget that is not used up.
LEMMA ChargedMore ==
    ASSUME LocalsOK, Kept(mem)
    PROVE  /\ mem.models < mem.limits.models => Kept([mem EXCEPT !.models = @ + 1])
           /\ mem.turns < mem.limits.turns => Kept([mem EXCEPT !.turns = @ + 1])
           /\ ~ToolsExhausted => Kept([mem EXCEPT !.tools = @ + 1])
<1>1. /\ mem \in State /\ Charged(mem)
      /\ mem.models \in Nat /\ mem.tools \in Nat /\ mem.turns \in Nat
      /\ mem.limits.models \in Nat /\ mem.limits.tools \in Nat /\ mem.limits.turns \in Nat
  BY DEF Kept, State
<1>2. ASSUME mem.models < mem.limits.models
      PROVE  Kept([mem EXCEPT !.models = @ + 1])
  <2>1. [mem EXCEPT !.models = @ + 1] \in State
    BY <1>1 DEF State
  <2>2. QED
    BY <1>1, <1>2, <2>1, KeptAlong DEF Charged, State
<1>3. ASSUME mem.turns < mem.limits.turns
      PROVE  Kept([mem EXCEPT !.turns = @ + 1])
  <2>1. [mem EXCEPT !.turns = @ + 1] \in State
    BY <1>1 DEF State
  <2>2. QED
    BY <1>1, <1>3, <2>1, KeptAlong DEF Charged, State
<1>4. ASSUME ~ToolsExhausted
      PROVE  Kept([mem EXCEPT !.tools = @ + 1])
  <2>1. [mem EXCEPT !.tools = @ + 1] \in State
    BY <1>1 DEF State
  <2>2. QED
    BY <1>1, <1>4, <2>1, KeptAlong DEF Charged, State, ToolsExhausted
<1>5. QED
  BY <1>2, <1>3, <1>4

LEMMA AskHonest ==
    ASSUME Honest, Ask
    PROVE  Honest'
<1>. USE DEF Honest, taskVars, locals, setup, talk, call, world, outside, actions, counters
<1>1. pc \in {"plan", "patch", "ask"} /\ pc # "idle" /\ mem.pending = {}
  BY DEF Ask, Reply, Calm
<1>2. LocalsOK'
  <2>1. Reply[pc] \in PcValues
    <3>1. Reply["plan"] = "planned" /\ Reply["patch"] = "planned" /\ Reply["ask"] = "reply"
      BY DEF Reply
    <3>2. QED
      BY <1>1, <3>1 DEF PcValues
  <2>2. pc' \in PcValues
    BY <2>1 DEF Ask, GiveUp, Record, Stop, PcValues
  <2>3. outcome' \in Outcome /\ storage' \in {"ok", "artifact", "broken"} /\ sent' \in Nat
    BY DEF Ask, GiveUp, Record, Saved, NotSaved, Stop, CtxOutcome, LocalsOK, Outcome
  <2>4. QED
    BY <2>2, <2>3 DEF LocalsOK, Ask
<1>3. Keeping'
  <2>1. CASE UNCHANGED <<mem, durable, sent>>
    BY <1>1, <2>1, StillKeeps DEF Ask
  <2>2. CASE /\ mem.models < mem.limits.models
             /\ Record([mem EXCEPT !.models = @ + 1], Reply[pc])
             /\ sent' = IF storage' = "ok" THEN sent + 1 ELSE sent
    <3>1. PICK s : s = [mem EXCEPT !.models = @ + 1]
      OBVIOUS
    <3>2. Kept(s)
      BY <1>1, <2>2, <3>1, ChargedMore DEF Keeping
    <3>3. CASE sent' = sent
      BY <2>2, <3>1, <3>2, <3>3, RecordKeeps DEF Ask, Record
    <3>4. CASE sent' # sent
      <4>1. mem' = s /\ durable' = {s} /\ sent' = sent + 1
        BY <2>2, <3>1, <3>4 DEF Record, Saved, NotSaved
      <4>2. sent \in Nat /\ mem.models \in Nat /\ sent <= mem.models
        BY <1>1 DEF LocalsOK, Keeping, Kept, State, Charged
      <4>3. s.models = mem.models + 1
        BY <3>1 DEF Keeping, State
      <4>4. Charged(s)'
        BY <3>2, <4>1, <4>2, <4>3 DEF Kept, Charged, Ask
      <4>5. Kept(s)'
        BY <3>2, <4>4 DEF Kept, Marked, Ask
      <4>6. QED
        BY <4>1, <4>5, <3>2 DEF Keeping, Kept
    <3>5. QED
      BY <3>3, <3>4
  <2>3. QED
    BY <2>1, <2>2 DEF Ask, GiveUp
<1>4. (Unborn /\ Admitted /\ InHand)'
  BY <1>1 DEF Ask, Reply, GiveUp, Record, Saved, NotSaved, Stop, CtxOutcome, Unborn, Admitted, InHand
<1>5. mem'.pending = {}
  BY <1>1 DEF Ask, GiveUp, Record, Saved, NotSaved, Keeping, State
<1>6. QED
  BY <1>2, <1>3, <1>4, <1>5 DEF Calm

\* A step of the conversation that replaces parts of the state no account,
\* receipt or mark depends on.
LEMMA ProgressKept ==
    ASSUME LocalsOK, Kept(mem), NEW t \in State,
           t.limits = mem.limits, t.effects = mem.effects, t.pending = mem.pending,
           t.closing = mem.closing, t.models = mem.models, t.tools = mem.tools,
           t.turns = mem.turns
    PROVE  Kept(t)
<1>1. mem.models \in Nat /\ mem.tools \in Nat
  BY DEF Kept, State
<1>2. QED
  BY <1>1, KeptAlong DEF Kept, Charged

LEMMA TalkingHonest ==
    ASSUME Honest, Talking
    PROVE  Honest'
<1>. USE DEF Honest, taskVars, locals, setup, talk, call, world, outside, actions, counters
<1>1. CASE ModelFails \/ CallsReply
  <2>1. LocalsOK'
    <3>1. pc' \in PcValues /\ outcome' \in Outcome
      BY <1>1 DEF ModelFails, CallsReply, GiveUp, Stop, CtxOutcome, PcValues, Outcome, LocalsOK
    <3>2. QED
      BY <1>1, <3>1 DEF LocalsOK, ModelFails, CallsReply, GiveUp
  <2>2. Keeping'
    BY <1>1, StillKeeps DEF ModelFails, CallsReply, GiveUp
  <2>3. (Unborn /\ Admitted /\ InHand)'
    BY <1>1 DEF ModelFails, CallsReply, GiveUp, Stop, CtxOutcome, Unborn, Admitted, InHand
  <2>4. mem'.pending = {}
    BY <1>1 DEF ModelFails, CallsReply, GiveUp, Calm
  <2>5. QED
    BY <2>1, <2>2, <2>3, <2>4 DEF Calm
<1>2. CASE EndBatch
  <2>1. NoAct \in Act /\ ~NoAct.started /\ NoAct.id = 0
    BY DEF Act, NoAct, Call, Read, Result, None
  <2>2. LocalsOK'
    BY <1>2, <2>1 DEF LocalsOK, EndBatch, PcValues
  <2>3. Keeping'
    BY <1>2, StillKeeps DEF EndBatch
  <2>4. (Unborn /\ Admitted /\ InHand /\ Calm)'
    BY <1>2, <2>1 DEF EndBatch, Unborn, Admitted, InHand, Calm
  <2>5. QED
    BY <2>2, <2>3, <2>4
<1>3. ASSUME NEW steps \in SUBSET StepId, Planned(steps) PROVE Honest'
  <2>1. LocalsOK'
    BY <1>3, ZenonT(40) DEF LocalsOK, Planned, Record, Saved, NotSaved, Stop, PcValues, Outcome
  <2>2. Kept([mem EXCEPT !.todo = steps])
    <3>1. Kept(mem) /\ mem \in State
      BY <1>3 DEF Planned, Keeping
    <3>2. [mem EXCEPT !.todo = steps] \in State
      BY <3>1 DEF State
    <3>3. QED
      BY <3>1, <3>2, ProgressKept DEF State
  <2>3. Keeping'
    BY <1>3, <2>2, RecordKeeps DEF Planned, Record
  <2>4. (Unborn /\ Admitted /\ InHand)'
    BY <1>3 DEF Planned, Record, Saved, NotSaved, Stop, Unborn, Admitted, InHand
  <2>5. mem'.pending = {}
    BY <1>3 DEF Planned, Record, Saved, NotSaved, Calm, Keeping, State
  <2>6. QED
    BY <2>1, <2>3, <2>4, <2>5 DEF Calm
<1>4. CASE Work
  <2>1. LocalsOK'
    <3>1. step' \in Step
      BY <1>4 DEF Work, LocalsOK, Keeping, State, Step
    <3>2. pc' \in PcValues
      BY <1>4 DEF Work, AfterWork, PcValues
    <3>3. QED
      BY <1>4, <3>1, <3>2 DEF Work, LocalsOK
  <2>2. Keeping'
    BY <1>4, StillKeeps DEF Work
  <2>3. (Unborn /\ Admitted /\ InHand /\ Calm)'
    BY <1>4 DEF Work, AfterWork, Unborn, Admitted, InHand, Calm
  <2>4. QED
    BY <2>1, <2>2, <2>3
<1>5. CASE Turn
  <2>1. LocalsOK'
    <3>1. pc' \in PcValues /\ outcome' \in Outcome
      BY <1>5 DEF Turn, GiveUp, Record, Stop, CtxOutcome, PcValues, Outcome, LocalsOK
    <3>2. storage' \in {"ok", "artifact", "broken"}
      BY <1>5 DEF Turn, GiveUp, Record, Saved, NotSaved, LocalsOK
    <3>3. QED
      BY <1>5, <3>1, <3>2 DEF LocalsOK, Turn
  <2>2. Keeping'
    <3>1. CASE UNCHANGED <<mem, durable>>
      BY <1>5, <3>1, StillKeeps DEF Turn
    <3>2. CASE /\ mem.turns < mem.limits.turns
               /\ Record([mem EXCEPT !.turns = @ + 1], "ask")
      BY <1>5, <3>2, ChargedMore, RecordKeeps DEF Turn, Record, Keeping
    <3>3. QED
      BY <1>5, <3>1, <3>2 DEF Turn, GiveUp
  <2>3. (Unborn /\ Admitted /\ InHand)'
    BY <1>5 DEF Turn, GiveUp, Record, Saved, NotSaved, Stop, CtxOutcome, Unborn, Admitted, InHand
  <2>4. mem'.pending = {}
    BY <1>5 DEF Turn, GiveUp, Record, Saved, NotSaved, Calm, Keeping, State
  <2>5. QED
    BY <2>1, <2>2, <2>3, <2>4 DEF Calm
<1>6. CASE TextReply
  <2>1. LocalsOK'
    <3>1. pc' \in PcValues
      BY <1>6 DEF TextReply, GiveUp, Record, Stop, AfterWork, PcValues
    <3>2. outcome' \in Outcome /\ storage' \in {"ok", "artifact", "broken"} /\ text' \in BOOLEAN
      BY <1>6 DEF TextReply, GiveUp, Record, Saved, NotSaved, Stop, CtxOutcome, LocalsOK, Outcome
    <3>3. QED
      BY <1>6, <3>1, <3>2 DEF TextReply, LocalsOK
  <2>2. Keeping'
    <3>1. CASE UNCHANGED <<mem, durable>>
      BY <1>6, <3>1, StillKeeps DEF TextReply
    <3>2. CASE /\ step \in StepId
               /\ Record([mem EXCEPT !.todo = @ \ {step}, !.done = @ \union {step}], "work")
      <4>1. Kept(mem) /\ mem \in State
        BY <1>6 DEF TextReply, Keeping
      <4>2. [mem EXCEPT !.todo = @ \ {step}, !.done = @ \union {step}] \in State
        BY <3>2, <4>1 DEF State
      <4>3. Kept([mem EXCEPT !.todo = @ \ {step}, !.done = @ \union {step}])
        BY <4>1, <4>2, ProgressKept DEF State
      <4>4. QED
        BY <1>6, <3>2, <4>3, RecordKeeps DEF TextReply, Record
    <3>3. QED
      BY <1>6, <3>1, <3>2 DEF TextReply, GiveUp
  <2>3. (Unborn /\ Admitted /\ InHand)'
    BY <1>6 DEF TextReply, GiveUp, Record, Saved, NotSaved, Stop, CtxOutcome, AfterWork,
                Unborn, Admitted, InHand
  <2>4. mem'.pending = {}
    BY <1>6 DEF TextReply, GiveUp, Record, Saved, NotSaved, Calm, Keeping, State
  <2>5. QED
    BY <2>1, <2>2, <2>3, <2>4 DEF Calm
<1>7. CASE Blocked
  <2>1. LocalsOK'
    <3>1. pc' \in PcValues /\ outcome' \in Outcome
      BY <1>7 DEF Blocked, GiveUp, Stop, PcValues, Outcome, LocalsOK
    <3>2. patched' \in BOOLEAN /\ text' \in BOOLEAN
      BY <1>7 DEF Blocked, LocalsOK
    <3>3. QED
      BY <1>7, <3>1, <3>2 DEF LocalsOK, Blocked, GiveUp
  <2>2. Keeping'
    BY <1>7, StillKeeps DEF Blocked, GiveUp
  <2>3. (Unborn /\ Admitted /\ InHand /\ Calm)'
    BY <1>7 DEF Blocked, GiveUp, Stop, Unborn, Admitted, InHand, Calm
  <2>4. QED
    BY <2>1, <2>2, <2>3
<1>8. QED
  BY <1>1, <1>2, <1>3, <1>4, <1>5, <1>6, <1>7, AskHonest DEF Talking

-----------------------------------------------------------------------------
(* Tool calls.                                                             *)

LEMMA NoActFacts == NoAct \in Act /\ ~NoAct.started /\ NoAct.id = 0
  BY DEF Act, NoAct, Call, Read, Result, None

\* reserve("tool"): a call that is admitted is charged in all a restart may find.
LEMMA AttemptCharges ==
    ASSUME Honest, NEW next \in {"admit", "batch"}, Attempt(next),
           pc # "idle", mem.pending = {}, UNCHANGED <<sent, attempts, ran, closings>>
    PROVE  /\ Keeping' /\ mem'.pending = {}
           /\ pc' \in {next, "stop"} /\ outcome' \in Outcome
           /\ storage' \in {"ok", "artifact", "broken"}
           /\ pc' = "admit" => attempts < mem'.tools /\ \A s \in durable' : attempts < s.tools
<1>. USE DEF Honest
<1>1. CASE UNCHANGED <<mem, durable>> /\ pc' = "stop"
  <2>1. Keeping'
    BY <1>1, StillKeeps
  <2>2. QED
    BY <1>1, <2>1 DEF Attempt, GiveUp, Stop, CtxOutcome, Record, Saved, NotSaved, taskVars,
                      LocalsOK, Outcome
<1>2. CASE ~ToolsExhausted /\ Record([mem EXCEPT !.tools = @ + 1], next)
  <2>1. PICK s : s = [mem EXCEPT !.tools = @ + 1]
    OBVIOUS
  <2>2. Kept(s) /\ Kept(mem)
    BY <1>2, <2>1, ChargedMore DEF Keeping
  <2>3. Keeping'
    BY <1>2, <2>1, <2>2, RecordKeeps DEF Record
  <2>4. s.pending = {} /\ s.tools = mem.tools + 1
    BY <2>1 DEF Keeping, State
  <2>5. attempts < s.tools
    BY <2>2, <2>4 DEF Kept, Charged, State, LocalsOK
  <2>6. pc' = "admit" => durable' = {s}
    BY <1>2, <2>1 DEF Record, Saved, Stop
  <2>7. mem' = s
    BY <1>2, <2>1 DEF Record, Saved, NotSaved
  <2>8. /\ pc' \in {next, "stop"} /\ outcome' \in Outcome
        /\ storage' \in {"ok", "artifact", "broken"}
    BY <1>2 DEF Record, Saved, NotSaved, Stop, LocalsOK, Outcome
  <2>9. QED
    BY <2>3, <2>4, <2>5, <2>6, <2>7, <2>8
<1>3. QED
  BY <1>1, <1>2 DEF Attempt, GiveUp, Stop, taskVars

LEMMA CallsHonest ==
    ASSUME Honest, (\E c \in Call : Execute(c)) \/ StartVerify \/ Reject \/ ReadOnly
    PROVE  Honest'
<1>. USE DEF Honest, taskVars, locals, setup, talk, call, world, outside, actions, counters
<1>1. ASSUME NEW c \in Call, Execute(c) PROVE Honest'
  <2>1. PICK next \in {"admit", "batch"} : Attempt(next)
    BY <1>1 DEF Execute
  <2>2. /\ Keeping' /\ mem'.pending = {}
        /\ pc' \in {next, "stop"} /\ outcome' \in Outcome
        /\ storage' \in {"ok", "artifact", "broken"}
        /\ pc' = "admit" => attempts < mem'.tools /\ \A s \in durable' : attempts < s.tools
    BY <1>1, <2>1, AttemptCharges DEF Execute, Calm
  <2>3. act' \in Act /\ ~act'.started /\ act'.id = 0
    BY <1>1, NoActFacts DEF Execute, Act
  <2>4. LocalsOK'
    BY <1>1, <2>2, <2>3 DEF LocalsOK, Execute, PcValues
  <2>5. (Admitted /\ InHand /\ Calm)'
    BY <1>1, <2>2, <2>3 DEF Execute, Admitted, InHand, Calm
  <2>6. Unborn'
    BY <1>1 DEF Execute, Unborn
  <2>7. QED
    BY <2>2, <2>4, <2>5, <2>6
<1>2. CASE StartVerify
  <2>1. /\ Keeping' /\ mem'.pending = {}
        /\ pc' \in {"admit", "stop"} /\ outcome' \in Outcome
        /\ storage' \in {"ok", "artifact", "broken"}
        /\ pc' = "admit" => attempts < mem'.tools /\ \A s \in durable' : attempts < s.tools
    BY <1>2, AttemptCharges DEF StartVerify, Calm
  <2>2. act' \in Act /\ ~act'.started /\ act'.id = 0
    BY <1>2, NoActFacts DEF StartVerify, Act, Call
  <2>3. LocalsOK'
    BY <1>2, <2>1, <2>2 DEF LocalsOK, StartVerify, PcValues
  <2>4. (Admitted /\ InHand /\ Calm)'
    BY <1>2, <2>1, <2>2 DEF StartVerify, Admitted, InHand, Calm
  <2>5. Unborn'
    BY <1>2 DEF StartVerify, Unborn
  <2>6. QED
    BY <2>1, <2>3, <2>4, <2>5
<1>3. CASE Reject \/ ReadOnly
  <2>1. act' \in Act /\ act'.started = act.started /\ act'.id = act.id
    BY <1>3 DEF Reject, ReadOnly, LocalsOK, Act, Result
  <2>2. LocalsOK'
    BY <1>3, <2>1 DEF LocalsOK, Reject, ReadOnly, PcValues
  <2>3. Keeping'
    BY <1>3, StillKeeps DEF Reject, ReadOnly
  <2>4. (Unborn /\ Admitted /\ InHand /\ Calm)'
    BY <1>3, <2>1 DEF Reject, ReadOnly, Unborn, Admitted, InHand, Calm
  <2>5. QED
    BY <2>2, <2>3, <2>4
<1>4. QED
  BY <1>1, <1>2, <1>3

\* An action is in the ledger before anything can come of it.
LEMMA HookHonest ==
    ASSUME Honest, NEW known \in BOOLEAN, Hook(known)
    PROVE  Honest'
<1>. USE DEF Honest, taskVars, locals, setup, talk, call, world, outside, actions, counters
<1>1. CASE Interrupted /\ GiveUp(CtxOutcome) /\ UNCHANGED <<act, attempts>>
  <2>1. pc' \in PcValues /\ outcome' \in Outcome
    BY <1>1 DEF GiveUp, Stop, CtxOutcome, PcValues, Outcome
  <2>2. LocalsOK'
    BY <1>1, <2>1 DEF LocalsOK, Hook, GiveUp
  <2>3. Keeping'
    BY <1>1, StillKeeps DEF Hook, GiveUp
  <2>4. (Unborn /\ Admitted /\ InHand /\ Calm)'
    BY <1>1 DEF Hook, GiveUp, Stop, CtxOutcome, Unborn, Admitted, InHand, Calm
  <2>5. QED
    BY <2>2, <2>3, <2>4
<1>2. CASE ~(Interrupted /\ GiveUp(CtxOutcome) /\ UNCHANGED <<act, attempts>>)
  <2>1. PICK p : p = [id |-> attempts + 1, step |-> step, call |-> act.call, known |-> known]
    OBVIOUS
  <2>2. PICK s : s = Started(p)
    OBVIOUS
  <2>3. /\ pc = "admit" /\ attempts' = attempts + 1
        /\ act' = [act EXCEPT !.id = attempts + 1, !.known = known, !.started = TRUE]
        /\ Record(s, "handler")
    BY <1>2, <2>1, <2>2 DEF Hook
  <2>4. Kept(mem) /\ mem \in State /\ mem.pending = {}
    BY <2>3 DEF Keeping, Calm
  <2>5. p.id \in Id /\ attempts + 1 = p.id
    <3>1. mem.limits.tools \in Limits /\ mem.tools <= mem.limits.tools /\ attempts < mem.tools
      BY <2>3, <2>4 DEF Kept, Charged, Admitted
    <3>2. mem.limits.tools <= MaxId /\ mem.limits.tools \in Nat /\ mem.tools \in Nat
      BY <2>4, <3>1, BudgetAssumption DEF Limits, State
    <3>3. QED
      BY <2>1, <3>1, <3>2, BoundsAssumption DEF Id, LocalsOK
  <2>6. p \in Pending
    BY <2>1, <2>5 DEF Pending, LocalsOK, Act
  <2>7. /\ s \in State /\ s.limits = mem.limits /\ s.closing = mem.closing
        /\ s.models = mem.models /\ s.tools = mem.tools /\ s.turns = mem.turns
        /\ s.pending = {p} /\ s.effects = [mem.effects EXCEPT ![p.id] = "unknown"]
    BY <2>2, <2>4, <2>5, <2>6 DEF Started, State, Receipt, NoEvidence, Evidence
  <2>8. Remembers(s, p.id) /\ \A r \in ran : Remembers(s, r.id)
    <3>1. Remembers(s, p.id)
      BY <2>4, <2>5, <2>7 DEF Remembers, State
    <3>2. ASSUME NEW r \in ran, r.id # p.id PROVE Remembers(s, r.id)
      BY <2>4, <2>5, <2>7, <3>2 DEF Remembers, State, Kept
    <3>3. QED
      BY <3>1, <3>2
  <2>9. Kept(s)
    BY <2>4, <2>7, <2>8 DEF Kept, Charged, Marked
  <2>10. mem' = s /\ \A t \in durable' : t \in durable \/ t = s
    BY <2>3 DEF Record, Saved, NotSaved
  <2>11. Keeping'
    <3>1. ASSUME NEW t, Kept(t), attempts < t.tools PROVE Kept(t)'
      <4>1. attempts + 1 <= t.tools
        BY <3>1 DEF Kept, State, LocalsOK
      <4>2. QED
        BY <2>3, <3>1, <4>1 DEF Kept, Charged, Marked, Hook
    <3>2. \A t \in durable \union {s} : Kept(t) /\ attempts < t.tools
      BY <2>3, <2>7, <2>9 DEF Keeping, Admitted
    <3>3. QED
      BY <2>7, <2>10, <3>1, <3>2 DEF Keeping
  <2>12. LocalsOK'
    <3>1. act' \in Act
      BY <2>3, <2>5 DEF LocalsOK, Act
    <3>2. /\ pc' \in PcValues /\ outcome' \in Outcome
          /\ storage' \in {"ok", "artifact", "broken"}
      BY <2>3 DEF Record, Saved, NotSaved, Stop, PcValues, Outcome, LocalsOK
    <3>3. QED
      BY <2>3, <3>1, <3>2 DEF LocalsOK, Hook
  <2>13. Unborn' /\ Admitted' /\ Calm'
    BY <2>3 DEF Record, Stop, Hook, Unborn, Admitted, Calm
  <2>14. InHand'
    <3>1. act'.started /\ act'.id = p.id
      BY <2>3, <2>5 DEF LocalsOK, Act
    <3>2. pc' = "handler" => durable' = {s}
      BY <2>3 DEF Record, Saved, Stop
    <3>3. Remembers(s, act'.id)
      BY <2>8, <3>1
    <3>4. QED
      BY <2>3, <2>5, <2>7, <2>10, <3>1, <3>2, <3>3 DEF InHand, Record, Stop, Remembers
  <2>15. QED
    BY <2>11, <2>12, <2>13, <2>14
<1>3. QED
  BY <1>1, <1>2

\* Entering the handler adds an action that every state to be found remembers.
LEMMA HandlerHonest ==
    ASSUME Honest, Handler \/ HandlerCancelled
    PROVE  Honest'
<1>. USE DEF Honest, taskVars, locals, setup, talk, call, world, outside, actions, counters
<1>1. CASE Handler
  <2>1. PICK o \in IF act.call = Bash THEN BashOutcomes ELSE WriteOutcomes(act.call) :
          /\ act' = [act EXCEPT !.result = o[1]]
          /\ file' = o[2]
          /\ did' = IF file' # file THEN did \union {act.id} ELSE did
          /\ passedOn' = IF act.verifier /\ o[1] = "succeeded" /\ file' = file
                         THEN passedOn \union {file} ELSE passedOn
    BY <1>1 DEF Handler
  <2>2. act.started /\ act.id \in Id /\ act \in Act /\ file \in Version
    BY <1>1 DEF Handler, InHand, LocalsOK
  <2>3. o[1] \in Result /\ o[2] \in Version
    <3>1. CASE act.call = Bash
      BY <2>1, <2>2, <3>1 DEF BashOutcomes, Result
    <3>2. CASE act.call # Bash
      <4>1. file = act.call.from => act.call.to \in Version
        <5>1. act.call \in Write \/ act.call = Read
          BY <2>2, <3>2 DEF Act, Call
        <5>2. act.call = Read => act.call.from \notin Version
          BY NamesAssumption DEF Read
        <5>3. QED
          BY <2>2, <5>1, <5>2 DEF Write
      <4>2. QED
        BY <2>1, <2>2, <3>2, <4>1 DEF WriteOutcomes, Result
    <3>3. QED
      BY <3>1, <3>2
  <2>4. act' \in Act /\ act'.started /\ act'.id = act.id
    BY <2>1, <2>2, <2>3 DEF Act
  <2>5. PICK r : r = [id |-> act.id, run |-> runs, step |-> step, call |-> act.call,
                      verifier |-> act.verifier]
    OBVIOUS
  <2>6. r \in Handled /\ ran' = ran \union {r} /\ r.id = act.id
    BY <1>1, <2>2, <2>5 DEF Handler, Handled, LocalsOK, Act
  <2>7. LocalsOK'
    BY <1>1, <2>1, <2>2, <2>3, <2>4, <2>6 DEF LocalsOK, Handler, PcValues
  <2>8. Keeping'
    <3>1. ASSUME NEW t, Kept(t), Remembers(t, r.id) PROVE Kept(t)'
      BY <1>1, <2>6, <3>1 DEF Kept, Charged, Marked, Handler
    <3>2. /\ \A s \in durable : Remembers(s, r.id)
          /\ Remembers(mem, r.id)
      BY <1>1, <2>6 DEF Handler, InHand
    <3>3. QED
      BY <1>1, <3>1, <3>2 DEF Keeping, Handler
  <2>9. (Unborn /\ Admitted /\ InHand /\ Calm)'
    BY <1>1, <2>2, <2>4 DEF Handler, Unborn, Admitted, InHand, Calm
  <2>10. QED
    BY <2>7, <2>8, <2>9
<1>2. CASE HandlerCancelled
  <2>1. act' \in Act /\ act'.started = act.started /\ act'.id = act.id
    BY <1>2 DEF HandlerCancelled, LocalsOK, Act, Result
  <2>2. LocalsOK'
    BY <1>2, <2>1 DEF LocalsOK, HandlerCancelled, PcValues
  <2>3. Keeping'
    BY <1>2, StillKeeps DEF HandlerCancelled
  <2>4. (Unborn /\ Admitted /\ InHand /\ Calm)'
    BY <1>2, <2>1 DEF HandlerCancelled, Unborn, Admitted, InHand, Calm
  <2>5. QED
    BY <2>2, <2>3, <2>4
<1>3. QED
  BY <1>1, <1>2

\* A receipt replaces "unknown" by an effect, or leaves the action pending.
LEMMA ReceiptRemembers ==
    ASSUME Honest, pc = "result", NEW receipt \in Receipt, receipt \in Receipts(act),
           NEW t \in State, t.limits = mem.limits, t.closing = mem.closing,
           t.models = mem.models, t.tools = mem.tools, t.turns = mem.turns,
           t.effects = IF act.started THEN [mem.effects EXCEPT ![act.id] = receipt]
                       ELSE mem.effects,
           \/ t.pending = mem.pending
           \/ receipt # "unknown" /\ t.pending = {p \in mem.pending : p.id # act.id}
    PROVE  Kept(t)
<1>. USE DEF Honest
<1>1. Kept(mem) /\ mem \in State /\ act \in Act
  BY DEF Keeping, LocalsOK
<1>2. receipt # "absent"
  BY <1>1 DEF Receipts, Doubtful, Act, Result, None
<1>3. ASSUME NEW r \in ran PROVE Remembers(t, r.id)
  <2>1. r.id \in Id /\ Remembers(mem, r.id) /\ mem.effects \in [Id -> Receipt]
    BY <1>1 DEF LocalsOK, Handled, Kept, State
  <2>2. CASE act.started /\ r.id = act.id
    <3>1. \E p \in mem.pending : p.id = act.id
      BY <2>2 DEF InHand
    <3>2. QED
      BY <1>2, <2>1, <2>2, <3>1 DEF Remembers
  <2>3. CASE act.started /\ r.id # act.id
    BY <2>1, <2>3 DEF Remembers
  <2>4. CASE ~act.started
    BY <2>1, <2>4 DEF Remembers, InHand
  <2>5. QED
    BY <2>2, <2>3, <2>4
<1>4. QED
  BY <1>1, <1>3 DEF Kept, Charged, Marked

LEMMA ActionResultHonest ==
    ASSUME Honest, NEW receipt \in Receipt, ActionResult(receipt)
    PROVE  Honest'
<1>. USE DEF Honest, taskVars, locals, setup, talk, call, world, outside, actions, counters
<1>1. PICK s : s = Resulted(act, receipt)
  OBVIOUS
<1>2. Kept(mem) /\ mem \in State /\ act \in Act /\ step \in Step
  BY DEF ActionResult, Keeping, LocalsOK
<1>3. /\ s.limits = mem.limits /\ s.closing = mem.closing
      /\ s.models = mem.models /\ s.tools = mem.tools /\ s.turns = mem.turns
      /\ s.effects = IF act.started THEN [mem.effects EXCEPT ![act.id] = receipt]
                     ELSE mem.effects
      /\ s.pending = IF receipt = "unknown" THEN mem.pending
                     ELSE {p \in mem.pending : p.id # act.id}
  BY <1>1, <1>2 DEF Resulted, State
<1>4. s \in State
  <2>1. IF act.started THEN act.id \in Id ELSE act.id = 0
    BY DEF InHand
  <2>2. <<step, act.call>> \in Key
    BY <1>2 DEF Key, Act
  <2>3. mem.effects \in [Id -> Receipt] /\ mem.pending \subseteq Pending /\ mem.completed \subseteq Key
    BY <1>2 DEF State
  <2>4. /\ (IF act.started THEN [mem.effects EXCEPT ![act.id] = receipt] ELSE mem.effects)
              \in [Id -> Receipt]
        /\ (IF receipt = "unknown" THEN mem.pending ELSE {p \in mem.pending : p.id # act.id})
              \subseteq Pending
        /\ mem.completed \union {<<step, act.call>>} \subseteq Key
    BY <2>1, <2>2, <2>3
  <2>5. QED
    BY <1>1, <1>2, <2>2, <2>4 DEF Resulted, State
<1>5. Kept(s)
  BY <1>3, <1>4, ReceiptRemembers DEF ActionResult
<1>6. act' \in Act /\ ~act'.started /\ act'.id = 0
  BY <1>2, NoActFacts DEF ActionResult, Act
<1>7. \/ UNCHANGED <<mem, durable, storage>> /\ Stop("failed")
      \/ (Saved(s) \/ NotSaved(s)) /\ \E o \in {"cancelled", "exhausted", "failed", "blocked"} : Stop(o)
      \/ receipt # "unknown" /\ Record(s, IF act.verifier THEN "judge" ELSE "batch")
  BY <1>1 DEF ActionResult, GiveUp, CtxOutcome
<1>8. LocalsOK'
  <2>1. /\ pc' \in PcValues /\ outcome' \in Outcome
        /\ storage' \in {"ok", "artifact", "broken"}
    BY <1>7 DEF Record, Saved, NotSaved, Stop, PcValues, Outcome, LocalsOK
  <2>2. QED
    BY <1>6, <2>1 DEF LocalsOK, ActionResult
<1>9. Keeping'
  <2>1. CASE UNCHANGED <<mem, durable>>
    BY <2>1, StillKeeps DEF ActionResult
  <2>2. CASE Saved(s) \/ NotSaved(s)
    BY <1>5, <2>2, RecordKeeps DEF ActionResult
  <2>3. QED
    BY <1>7, <2>1, <2>2 DEF Record
<1>10. (Unborn /\ Admitted /\ InHand)'
  BY <1>6, <1>7 DEF ActionResult, Record, Saved, NotSaved, Stop, Unborn, Admitted, InHand
<1>11. Calm'
  <2>1. pc' = "stop" => outcome' # "tool_limit"
    BY <1>7 DEF Record, Stop
  <2>2. CASE pc' = "stop"
    BY <2>1, <2>2 DEF Calm
  <2>3. CASE pc' # "stop"
    <3>1. receipt # "unknown" /\ mem' = s
      BY <1>7, <2>3 DEF Record, Saved, NotSaved, Stop
    <3>2. s.pending = {}
      <4>1. pc = "result"
        BY DEF ActionResult
      <4>2. \A p \in mem.pending : p.id = act.id
        BY <4>1 DEF InHand
      <4>3. QED
        BY <1>3, <3>1, <4>2
    <3>3. QED
      BY <3>1, <3>2 DEF Calm
  <2>4. QED
    BY <2>2, <2>3
<1>12. QED
  BY <1>8, <1>9, <1>10, <1>11

LEMMA ArtifactFailsHonest ==
    ASSUME Honest, NEW receipt \in Receipt, ArtifactFails(receipt)
    PROVE  Honest'
<1>. USE DEF Honest, taskVars, locals, setup, talk, call, world, outside, actions, counters
<1>1. Kept(mem) /\ mem \in State /\ pc = "result" /\ receipt \in Receipts(act)
  BY DEF ArtifactFails, Keeping
<1>2. /\ mem' \in State /\ mem'.limits = mem.limits /\ mem'.closing = mem.closing
      /\ mem'.models = mem.models /\ mem'.tools = mem.tools /\ mem'.turns = mem.turns
      /\ mem'.effects = IF act.started THEN [mem.effects EXCEPT ![act.id] = receipt]
                        ELSE mem.effects
      /\ mem'.pending = mem.pending
  BY <1>1 DEF ArtifactFails, State, InHand
<1>3. PICK s : s = mem'
  OBVIOUS
<1>4. Kept(s)
  BY <1>1, <1>2, <1>3, ReceiptRemembers
<1>5. Keeping'
  <2>1. ASSUME NEW t, Kept(t) PROVE Kept(t)'
    BY <2>1 DEF Kept, Charged, Marked, ArtifactFails
  <2>2. QED
    BY <1>2, <1>3, <1>4, <2>1 DEF Keeping, ArtifactFails
<1>6. LocalsOK'
  BY DEF LocalsOK, ArtifactFails, Stop, PcValues, Outcome
<1>7. (Unborn /\ Admitted /\ InHand /\ Calm)'
  BY DEF ArtifactFails, Stop, Unborn, Admitted, InHand, Calm
<1>8. QED
  BY <1>5, <1>6, <1>7

LEMMA ActingHonest ==
    ASSUME Honest, Acting
    PROVE  Honest'
  BY CallsHonest, HookHonest, HandlerHonest, ActionResultHonest, ArtifactFailsHonest DEF Acting

-----------------------------------------------------------------------------
(* The end of a run.                                                       *)

\* The closing request is charged and its limit marked before it is sent.
LEMMA CloseHonest ==
    ASSUME Honest, Close
    PROVE  Honest'
<1>. USE DEF Honest, taskVars, locals, setup, talk, call, world, outside, actions, counters
<1>1. Kept(mem) /\ mem \in State /\ pc = "stop" /\ mem.pending = {}
  BY DEF Close, Keeping, MayClose, Calm
<1>2. PICK s : s = [mem EXCEPT !.models = @ + 1, !.turns = @ + 1,
                               !.closing = [limit |-> mem.limits.tools, status |-> "started"]]
  OBVIOUS
<1>3. /\ s \in State /\ s.limits = mem.limits /\ s.tools = mem.tools
      /\ s.models = mem.models + 1 /\ s.turns = mem.turns + 1
      /\ s.effects = mem.effects /\ s.pending = {}
      /\ s.closing.limit = s.limits.tools /\ s.closing.status = "started"
  <2>1. PICK c : c = [limit |-> mem.limits.tools, status |-> "started"]
    OBVIOUS
  <2>2. /\ c \in [limit : Nat, status : {None, "started", "completed", "failed"}]
        /\ c.limit = mem.limits.tools /\ c.status = "started"
    BY <1>1, <2>1 DEF State
  <2>3. /\ s.limits = mem.limits /\ s.tools = mem.tools
        /\ s.models = mem.models + 1 /\ s.turns = mem.turns + 1
        /\ s.effects = mem.effects /\ s.pending = {} /\ s.closing = c
    BY <1>1, <1>2, <2>1 DEF State
  <2>4. s \in State
    <3>1. PICK u : u = [mem EXCEPT !.models = @ + 1]
      OBVIOUS
    <3>2. PICK v : v = [u EXCEPT !.turns = @ + 1]
      OBVIOUS
    <3>3. u \in State
      BY <1>1, <3>1 DEF State
    <3>4. v \in State
      BY <3>2, <3>3 DEF State
    <3>5. s = [v EXCEPT !.closing = c]
      BY <1>1, <1>2, <2>1, <3>1, <3>2 DEF State
    <3>6. QED
      BY <2>2, <3>4, <3>5 DEF State
  <2>5. QED
    BY <2>2, <2>3, <2>4
<1>4. /\ mem.models \in Nat /\ mem.turns \in Nat /\ sent \in Nat
      /\ mem.limits.models \in Nat /\ mem.limits.turns \in Nat /\ mem.limits.tools \in Nat
      /\ mem.models < mem.limits.models /\ mem.turns < mem.limits.turns
  BY <1>1 DEF State, LocalsOK, Close, MayClose
<1>5. Charged(s)
  BY <1>1, <1>3, <1>4 DEF Kept, Charged
<1>6. \A n \in Limits : closings[n] > 0 => n < s.limits.tools \/ n = s.limits.tools
  BY <1>1, <1>3 DEF Kept, Marked
<1>7. Marked(s)
  BY <1>3, <1>6 DEF Marked, None
<1>8. \A r \in ran : Remembers(s, r.id)
  BY <1>1, <1>3 DEF Kept, Remembers
<1>9. Kept(s)
  BY <1>1, <1>3, <1>5, <1>7, <1>8 DEF Kept
<1>10. \/ /\ Saved(s) /\ pc' = "closing" /\ sent' = sent + 1 /\ outcome' = outcome
          /\ closings' = [closings EXCEPT ![mem.limits.tools] = @ + 1]
       \/ /\ NotSaved(s) /\ pc' = "finish" /\ outcome' = "failed"
          /\ UNCHANGED <<sent, closings>>
  BY <1>2 DEF Close
<1>11. mem.limits.tools \in Limits
  BY <1>1 DEF Kept
<1>12. LocalsOK'
  <2>1. /\ pc' \in PcValues /\ outcome' \in Outcome
        /\ storage' \in {"ok", "artifact", "broken"}
    BY <1>10 DEF Saved, NotSaved, PcValues, Outcome, LocalsOK
  <2>2. sent' \in Nat
    BY <1>4, <1>10
  <2>3. closings' \in [Limits -> Nat]
    BY <1>10, <1>11 DEF LocalsOK
  <2>4. QED
    BY <2>1, <2>2, <2>3 DEF LocalsOK, Close
<1>13. Keeping'
  <2>1. CASE NotSaved(s) /\ UNCHANGED <<sent, closings>>
    BY <1>9, <2>1, RecordKeeps DEF Close
  <2>2. CASE /\ Saved(s) /\ sent' = sent + 1
             /\ closings' = [closings EXCEPT ![mem.limits.tools] = @ + 1]
    <3>1. mem' = s /\ durable' = {s}
      BY <2>2 DEF Saved
    <3>2. Charged(s)'
      BY <1>1, <1>3, <1>4, <1>5, <2>2 DEF Charged, Kept, Close
    <3>3. Marked(s)'
      <4>1. SUFFICES ASSUME NEW n \in Limits, closings'[n] > 0
                     PROVE  n < s.limits.tools \/ n = s.limits.tools
        BY <1>3 DEF Marked, None
      <4>2. n # mem.limits.tools => closings'[n] = closings[n]
        BY <2>2 DEF LocalsOK
      <4>3. QED
        BY <1>3, <1>6, <4>1, <4>2
    <3>4. Kept(s)'
      BY <1>9, <3>2, <3>3 DEF Kept, Close
    <3>5. QED
      BY <1>3, <3>1, <3>4 DEF Keeping
  <2>3. QED
    BY <1>10, <2>1, <2>2
<1>14. (Unborn /\ Admitted /\ InHand)'
  BY <1>1, <1>10 DEF Close, Unborn, Admitted, InHand
<1>15. mem'.pending = {}
  BY <1>3, <1>10 DEF Saved, NotSaved
<1>16. QED
  BY <1>12, <1>13, <1>14, <1>15 DEF Calm

LEMMA EndingHonest ==
    ASSUME Honest, Ending
    PROVE  Honest'
<1>. USE DEF Honest, taskVars, locals, setup, talk, call, world, outside, actions, counters
<1>1. CASE Judge
  <2>1. Kept(mem) /\ mem \in State /\ mem.pending = {} /\ pc = "judge"
    BY <1>1 DEF Judge, Keeping, Calm
  <2>2. PICK s : s = [mem EXCEPT !.verification = [passed |-> Passes, version |-> file]]
    OBVIOUS
  <2>3. s \in State
    <3>1. [passed |-> Passes, version |-> file] \in Evidence
      <4>1. Passes \in BOOLEAN
        BY DEF Passes
      <4>2. QED
        BY <4>1 DEF Evidence, LocalsOK
    <3>2. QED
      BY <2>1, <2>2, <3>1 DEF State
  <2>4. Kept(s)
    BY <2>1, <2>2, <2>3, ProgressKept DEF State
  <2>5. \/ UNCHANGED <<mem, durable, storage, evidence, step, seen>>
           /\ \E o \in {"blocked", "cancelled", "exhausted"} : Stop(o)
        \/ /\ evidence' = file /\ seen' = edits
           /\ step' = IF Passes THEN step ELSE FixStep
           /\ Record(s, IF Passes THEN "final" ELSE "turn")
    BY <1>1, <2>2 DEF Judge, GiveUp, CtxOutcome
  <2>6. LocalsOK'
    <3>1. /\ pc' \in PcValues /\ outcome' \in Outcome
          /\ storage' \in {"ok", "artifact", "broken"}
      BY <2>5 DEF Record, Saved, NotSaved, Stop, PcValues, Outcome, LocalsOK
    <3>2. step' \in Step /\ evidence' \in Version \union {None} /\ seen' \in Nat
      BY <2>5 DEF LocalsOK, Step
    <3>3. QED
      BY <1>1, <3>1, <3>2 DEF LocalsOK, Judge
  <2>7. Keeping'
    <3>1. CASE UNCHANGED <<mem, durable>>
      BY <1>1, <2>1, <3>1, StillKeeps DEF Judge
    <3>2. CASE Saved(s) \/ NotSaved(s)
      BY <1>1, <2>4, <3>2, RecordKeeps DEF Judge
    <3>3. QED
      BY <2>5, <3>1, <3>2 DEF Record
  <2>8. (Unborn /\ Admitted /\ InHand)'
    BY <1>1, <2>1, <2>5 DEF Judge, Record, Stop, Unborn, Admitted, InHand
  <2>9. mem'.pending = {}
    BY <2>1, <2>2, <2>5 DEF Record, Saved, NotSaved, State
  <2>10. QED
    BY <2>6, <2>7, <2>8, <2>9 DEF Calm
<1>2. CASE Final \/ NoClosing
  <2>1. LocalsOK'
    <3>1. pc' \in PcValues /\ outcome' \in Outcome
      BY <1>2 DEF Final, NoClosing, PcValues, Outcome, LocalsOK
    <3>2. QED
      BY <1>2, <3>1 DEF LocalsOK, Final, NoClosing
  <2>2. Keeping'
    BY <1>2, StillKeeps DEF Final, NoClosing
  <2>3. (Unborn /\ Admitted /\ InHand /\ Calm)'
    BY <1>2 DEF Final, NoClosing, Unborn, Admitted, InHand, Calm
  <2>4. QED
    BY <2>1, <2>2, <2>3
<1>3. ASSUME NEW status \in {"completed", "failed"}, ClosingReply(status) PROVE Honest'
  <2>1. Kept(mem) /\ mem \in State /\ pc = "closing"
    BY <1>3 DEF ClosingReply, Keeping
  <2>2. PICK s : s = [mem EXCEPT !.closing.status = status]
    OBVIOUS
  <2>3. /\ s \in State /\ s.limits = mem.limits /\ s.effects = mem.effects
        /\ s.pending = mem.pending /\ s.models = mem.models /\ s.tools = mem.tools
        /\ s.turns = mem.turns /\ s.closing.limit = mem.closing.limit
        /\ s.closing.status # None
    BY <2>1, <2>2 DEF State, None
  <2>4. Charged(s) /\ Marked(s)
    BY <2>1, <2>3 DEF Kept, Charged, Marked
  <2>5. Kept(s)
    BY <2>1, <2>3, <2>4 DEF Kept, Remembers
  <2>6. /\ Saved(s) \/ NotSaved(s)
        /\ pc' = "finish" /\ outcome' \in {outcome, "failed"}
    BY <1>3, <2>2 DEF ClosingReply
  <2>7. LocalsOK'
    <3>1. /\ pc' \in PcValues /\ outcome' \in Outcome
          /\ storage' \in {"ok", "artifact", "broken"}
      BY <2>6 DEF Saved, NotSaved, PcValues, Outcome, LocalsOK
    <3>2. QED
      BY <1>3, <3>1 DEF LocalsOK, ClosingReply
  <2>8. Keeping'
    BY <1>3, <2>5, <2>6, RecordKeeps DEF ClosingReply
  <2>9. (Unborn /\ Admitted /\ InHand /\ Calm)'
    BY <1>3, <2>6 DEF ClosingReply, Unborn, Admitted, InHand, Calm
  <2>10. QED
    BY <2>7, <2>8, <2>9
<1>4. CASE Finish
  <2>1. Kept(mem) /\ mem \in State /\ pc = "finish"
    BY <1>4 DEF Finish, Keeping
  <2>2. PICK s : s = [mem EXCEPT !.last = Reported]
    OBVIOUS
  <2>3. s \in State
    <3>1. Reported \in Outcome
      BY DEF Reported, LocalsOK, Outcome
    <3>2. QED
      BY <2>1, <2>2, <3>1 DEF State
  <2>4. Kept(s)
    BY <2>1, <2>2, <2>3, ProgressKept DEF State
  <2>5. Gone /\ \A t \in durable' : t \in durable \/ t = s
    BY <1>4, <2>2 DEF Finish
  <2>6. Keeping'
    BY <1>4, <2>4, <2>5, GoneKeeps DEF Finish, Keeping
  <2>7. LocalsOK'
    BY <1>4, <2>5, NoActFacts DEF LocalsOK, Finish, Gone, PcValues, Step, Outcome
  <2>8. (Unborn /\ Admitted /\ InHand /\ Calm)'
    BY <1>4, <2>1, <2>5, NoActFacts DEF Finish, Gone, Unborn, Admitted, InHand, Calm
  <2>9. QED
    BY <2>6, <2>7, <2>8
<1>5. QED
  BY <1>1, <1>2, <1>3, <1>4, CloseHonest DEF Ending

-----------------------------------------------------------------------------
(* The theorems.                                                           *)

LEMMA StepHonest == Honest /\ [Next]_vars => Honest'
<1>. SUFFICES ASSUME Honest, [Next]_vars PROVE Honest'
  OBVIOUS
<1>1. CASE UNCHANGED vars
  <2>1. ASSUME NEW t, Kept(t) PROVE Kept(t)'
    BY <1>1, <2>1 DEF Kept, Charged, Marked, vars, world, actions, counters
  <2>2. Keeping'
    BY <1>1, <2>1 DEF Honest, Keeping, vars, taskVars
  <2>. USE DEF Honest, vars, taskVars, locals, setup, talk, call, world, outside, actions, counters
  <2>3. LocalsOK'
    BY <1>1 DEF LocalsOK
  <2>4. (Unborn /\ Admitted /\ Calm)'
    BY <1>1 DEF Unborn, Admitted, Calm
  <2>5. InHand'
    BY <1>1 DEF InHand, Remembers
  <2>6. QED
    BY <2>2, <2>3, <2>4, <2>5
<1>2. CASE \E b \in Budget : Create(b) \/ \E s \in durable : Resume(s, b)
  BY <1>2, CreateHonest, ResumeHonest
<1>3. CASE Go
  BY <1>3, OpeningHonest, TalkingHonest, ActingHonest, EndingHonest DEF Go
<1>4. CASE Crash \/ CtxEnds \/ ClockFails \/ Edit
  BY <1>4, OutsideHonest
<1>5. QED
  BY <1>1, <1>2, <1>3, <1>4 DEF Next

\* The strengthened invariant of a task's runs (engine/loop.go, run_state.go,
\* persistence.go, execution.go, closing.go).
THEOREM HonestAlways == Spec => []Honest
  BY InitHonest, StepHonest, PTL DEF Spec

\* The variables of the run and the state it records keep their types; in
\* particular no action id exceeds what the budgets allow.
THEOREM TypeAlwaysOK == Spec => []TypeOK
<1>1. Honest => TypeOK
  BY DEF Honest, LocalsOK, Keeping, Kept, TypeOK
<1>2. QED
  BY <1>1, HonestAlways, PTL

\* Whatever a restart finds charges the task with every request that was sent
\* and every action that was started (runState.reserve before use).
THEOREM ChargedAlways == Spec => []ChargedBeforeUsed
<1>1. Honest => ChargedBeforeUsed
  BY DEF Honest, Keeping, Kept, ChargedBeforeUsed
<1>2. QED
  BY <1>1, HonestAlways, PTL

\* Whatever a restart finds remembers every action whose handler was entered
\* (action_started before the handler, execution.go:67).
THEOREM EffectsNeverForgotten == Spec => []NoEffectForgotten
<1>1. Honest => NoEffectForgotten
  BY DEF Honest, Keeping, Kept, NoEffectForgotten
<1>2. QED
  BY <1>1, HonestAlways, PTL

\* While the effect of an action is unknown, nothing else is done
\* (reconcile, and the stop after an unknown effect, execution.go:176).
THEOREM QuietAlways == Spec => []QuietWhileUnknown
<1>1. Honest => QuietWhileUnknown
  <2>1. SUFFICES ASSUME Honest PROVE QuietWhileUnknown
    OBVIOUS
  <2>2. pc = "handler" => {p.id : p \in mem.pending} = {act.id}
    BY <2>1 DEF Honest, InHand
  <2>3. QED
    BY <2>1, <2>2 DEF Honest, Calm, QuietWhileUnknown
<1>2. QED
  BY <1>1, HonestAlways, PTL

\* One closing request for a tool limit, through all crashes and resumed runs
\* (reserveClosing, closing.go:36-72).
THEOREM ClosedOnceAlways == Spec => []ClosedOnce
<1>1. Init => ClosedOnce
  BY DEF Init, ClosedOnce
<1>2. ClosedOnce /\ Honest /\ [Next]_vars => ClosedOnce'
  <2>. SUFFICES ASSUME ClosedOnce, Honest, [Next]_vars PROVE ClosedOnce'
    OBVIOUS
  <2>1. CASE Close
    <3>1. Kept(mem) /\ closings \in [Limits -> Nat]
      BY <2>1 DEF Close, Honest, Keeping, LocalsOK
    <3>2. mem.limits.tools \in Limits /\ closings[mem.limits.tools] = 0
      BY <2>1, <3>1 DEF Kept, Marked, State, Close, MayClose
    <3>3. QED
      BY <2>1, <3>1, <3>2 DEF Close, ClosedOnce
  <2>2. CASE UNCHANGED closings
    BY <2>2 DEF ClosedOnce
  <2>3. QED
    BY <2>1, <2>2
    DEF Next, Go, Opening, Talking, Acting, Ending, Create, Resume, Crash, CtxEnds, ClockFails,
        Edit, Begin, Reconcile, NothingPending, Recheck, Plan, Ask, ModelFails, Work, Turn,
        TextReply, Blocked, CallsReply, EndBatch, Planned, Execute, StartVerify, Reject,
        ReadOnly, Hook, Handler, HandlerCancelled, ActionResult, ArtifactFails, Judge, Final,
        NoClosing, Finish, ClosingReply, vars, counters
<1>3. QED
  BY <1>1, <1>2, HonestAlways, PTL DEF Spec
-----------------------------------------------------------------------------
(* The ledger.  What a state says of the effects of its actions is true,   *)
(* and stays so over crashes, as long as every state a restart may find    *)
(* is as true as the one in memory.                                        *)

\* The action left no effect, and s knows it.
Undone(s, id) == s.effects[id] = "none" /\ \A p \in s.pending : p.id # id

\* The second is a repetition that NoReplay speaks of.
Repeats(q, r) ==
    /\ q.id < r.id /\ ~q.verifier /\ ~r.verifier
    /\ q.step = r.step /\ q.call = r.call
    /\ q.run < r.run \/ q.step # NoStep

\* An action of the model that was entered is without effect, answered by a
\* receipt for its request, or still to be settled.
Settles(s) ==
    \A r \in ran : ~r.verifier =>
        \/ Undone(s, r.id)
        \/ <<r.step, r.call>> \in s.completed
        \/ \E p \in s.pending : p.id = r.id /\ p.step = r.step /\ p.call = r.call

Unrepeated(s) == \A q, r \in ran : Repeats(q, r) => Undone(s, q.id)

\* LedgerIsTrue of one state, and what reconcile may conclude from the file.
LedgerTrue(s) ==
    edits = 0 => \A i \in Id :
        /\ i \in did => s.effects[i] \notin {"absent", "none"}
        /\ s.effects[i] = "confirmed" => i \in did
PendingTrue(s) ==
    edits = 0 => \A p \in s.pending : p.known =>
        /\ p.call \in Write
        /\ file = IF p.id \in did THEN p.call.to ELSE p.call.from

Proven(s) ==
    s.verification.passed /\ edits = 0 => s.verification.version \in passedOn

Faithful(s) ==
    /\ \A p, o \in s.pending : p = o
    /\ Settles(s) /\ Unrepeated(s) /\ LedgerTrue(s) /\ PendingTrue(s) /\ Proven(s)

Faithfuls ==
    /\ \A s \in durable : Faithful(s)
    /\ pc # "idle" => Faithful(mem)

\* Ids are drawn one after the other, runs counted; what was looked at lies
\* in the past.
Numbered ==
    /\ \A r \in ran : r.id <= attempts /\ 1 <= r.run /\ r.run <= runs
    /\ \A i \in did : i <= attempts
    /\ pc # "idle" /\ ~resumed => runs = 1
    /\ seen <= edits

\* While an action is executed, the log has it and nothing else pending.
Underway ==
    pc \in {"handler", "result"} /\ act.started =>
        /\ act.id = attempts /\ durable = {mem}
        /\ mem.effects[act.id] = "unknown"
        /\ mem.pending = {[id |-> act.id, step |-> step, call |-> act.call, known |-> act.known]}
        /\ act.call # Read
        /\ act.known => act.call \in Write

\* A handler is entered once for an id, and its result tells what it did.
Entered ==
    /\ pc = "handler" => act.id \notin did /\ \A r \in ran : r.id # act.id
    /\ pc = "result" /\ act.started =>
        /\ \A r \in ran : r.id = act.id =>
               r.step = step /\ r.call = act.call /\ r.verifier = act.verifier
        /\ act.id \in did => act.result \notin {None, "rejected", "none"}
        /\ act.result = "confirmed" => act.id \in did

\* No earlier action that the call repeats had an effect.
Ready ==
    pc \in {"admit", "handler"} /\ ~act.verifier /\ act.call # Read =>
        \A q \in ran :
            /\ ~q.verifier /\ q.step = step /\ q.call = act.call
            /\ q.run < runs \/ step # NoStep
            => Undone(mem, q.id)

\* Where a run may execute calls, it has the receipts of the runs before it.
Working == {"recheck", "plan or work", "plan", "patch", "planned", "work", "turn", "ask",
            "reply", "call", "batch", "verify", "admit", "handler", "result", "judge", "final"}
Answered ==
    pc \in Working => \A q \in ran : ~q.verifier /\ q.run < runs =>
        Undone(mem, q.id) \/ <<q.step, q.call>> \in receipts

\* The verifier is judged by the content it ran on.
Verifying ==
    /\ pc \in {"admit", "handler"} /\ act.verifier /\ edits = 0 => evidence = file
    /\ (pc = "result" /\ act.verifier) \/ pc = "judge" =>
           (act.result = "succeeded" /\ evidence = file /\ edits = 0 => file \in passedOn)

\* Evidence that passed is not left standing while the run works on.
Unproven ==
    /\ pc \in Working \ {"recheck", "final"} => ~mem.verification.passed
    /\ pc \in {"begin", "reconcile", "recheck"} /\ ~resumed => ~mem.verification.passed
    /\ outcome = "verified" => pc = "finish" /\ mem.verification.passed
    /\ (pc = "final" /\ mem.verification.passed) \/ (pc = "finish" /\ outcome = "verified") =>
           (edits = seen => file = mem.verification.version)

Truthful == Faithfuls /\ Numbered /\ Underway /\ Entered /\ Ready /\ Answered /\ Verifying /\ Unproven

\* As much of a state as its ledger is: a record may lack the evidence that
\* another has, never add to it.
Alike(t, s) ==
    /\ t.effects = s.effects /\ t.pending = s.pending /\ t.completed = s.completed
    /\ t.verification = s.verification \/ ~t.verification.passed

LEMMA AlikeFaithful ==
    ASSUME NEW s, NEW t, Alike(t, s), Faithful(s)
    PROVE  Faithful(t)
<1>1. Settles(t) /\ Unrepeated(t)
  BY DEF Alike, Faithful, Settles, Unrepeated, Undone
<1>2. LedgerTrue(t) /\ PendingTrue(t)
  BY DEF Alike, Faithful, LedgerTrue, PendingTrue
<1>3. Proven(t)
  BY DEF Alike, Faithful, Proven
<1>4. QED
  BY <1>1, <1>2, <1>3 DEF Alike, Faithful

\* A step that adds nothing to what happened leaves what a state says true.
LEMMA FaithfulStays ==
    ASSUME NEW t, Faithful(t), UNCHANGED <<ran, did, file, edits, passedOn>>
    PROVE  Faithful(t)'
<1>1. Settles(t)' /\ Unrepeated(t)'
  BY DEF Faithful, Settles, Unrepeated, Undone
<1>2. LedgerTrue(t)' /\ PendingTrue(t)' /\ Proven(t)'
  BY DEF Faithful, LedgerTrue, PendingTrue, Proven
<1>3. QED
  BY <1>1, <1>2 DEF Faithful

\* The same of the log and the memory, where a step records only states that
\* are faithful already.
LEMMA FaithfulsStay ==
    ASSUME Faithfuls, UNCHANGED <<ran, did, file, edits, passedOn>>,
           \A t \in durable' : t \in durable \/ Faithful(t),
           pc' # "idle" => Faithful(mem')
    PROVE  Faithfuls'
<1>1. \A t \in durable' : Faithful(t)'
  BY FaithfulStays DEF Faithfuls
<1>2. pc' # "idle" => Faithful(mem)'
  <2>1. PICK m : m = mem'
    OBVIOUS
  <2>2. pc' # "idle" => Faithful(m)'
    BY <2>1, FaithfulStays
  <2>3. QED
    BY <2>1, <2>2 DEF Faithful, Settles, Unrepeated, Undone, LedgerTrue, PendingTrue, Proven
<1>3. QED
  BY <1>1, <1>2 DEF Faithfuls

\* What a step records, saved or not.
LEMMA Recorded ==
    ASSUME NEW s, Saved(s) \/ NotSaved(s)
    PROVE  mem' = s /\ \A t \in durable' : t \in durable \/ t = s
  BY DEF Saved, NotSaved

\* A step outside the calls that records at most something else than the ledger.
LEMMA PlainTruthful ==
    ASSUME Truthful, pc # "idle", pc' \notin {"idle", "admit", "handler", "result", "judge"},
           UNCHANGED <<attempts, ran, did, passedOn, file, edits, runs, receipts, resumed>>,
           seen' \in {seen, edits}, LocalsOK,
           Alike(mem', mem), \A t \in durable' : t \in durable \/ t = mem',
           pc' \in Working => pc \in Working
    PROVE  Faithfuls' /\ (Numbered /\ Underway /\ Entered /\ Ready /\ Answered /\ Verifying)'
<1>1. Faithful(mem')
  BY AlikeFaithful DEF Truthful, Faithfuls
<1>2. Faithfuls'
  BY <1>1, FaithfulsStay DEF Truthful
<1>3. Numbered'
  BY DEF Truthful, Numbered, LocalsOK
<1>4. (Underway /\ Entered /\ Ready /\ Verifying)'
  BY DEF Underway, Entered, Ready, Verifying
<1>5. Answered'
  BY DEF Truthful, Answered, Alike, Undone
<1>6. QED
  BY <1>2, <1>3, <1>4, <1>5

LEMMA InitTruthful == Init => Truthful
<1>. SUFFICES ASSUME Init PROVE Truthful
  OBVIOUS
<1>1. Faithfuls /\ Numbered
  BY DEF Init, Faithfuls, Numbered
<1>2. Underway /\ Entered /\ Ready /\ Answered /\ Verifying /\ Unproven
  BY DEF Init, Underway, Entered, Ready, Answered, Working, Verifying, Unproven, None
<1>3. QED
  BY <1>1, <1>2 DEF Truthful

\* Without a process only the log is left.
LEMMA GoneTruthful ==
    ASSUME Truthful, Gone, UNCHANGED <<world, runs>>,
           \A t \in durable' : Faithful(t)
    PROVE  Truthful'
<1>. USE DEF world, outside, actions
<1>1. Faithfuls'
  BY FaithfulsStay DEF Truthful, Gone
<1>2. Numbered'
  BY DEF Truthful, Numbered, Gone
<1>3. (Underway /\ Entered /\ Ready /\ Answered /\ Verifying /\ Unproven)'
  BY DEF Gone, Underway, Entered, Ready, Answered, Working, Verifying, Unproven, None
<1>4. QED
  BY <1>1, <1>2, <1>3 DEF Truthful

LEMMA OutsideTruthful ==
    ASSUME Honest, Truthful, Crash \/ CtxEnds \/ ClockFails \/ Edit
    PROVE  Truthful'
<1>. USE DEF taskVars, locals, setup, talk, call, world, outside, actions, counters
<1>1. CASE Crash
  BY <1>1, GoneTruthful DEF Crash, Truthful, Faithfuls
<1>2. CASE CtxEnds \/ ClockFails
  <2>1. Faithfuls'
    BY <1>2, FaithfulsStay DEF Truthful, Faithfuls, CtxEnds, ClockFails
  <2>2. (Numbered /\ Underway /\ Entered)'
    BY <1>2 DEF Truthful, Numbered, Underway, Entered, CtxEnds, ClockFails
  <2>3. (Ready /\ Answered)'
    BY <1>2 DEF Truthful, Ready, Answered, Undone, CtxEnds, ClockFails
  <2>4. (Verifying /\ Unproven)'
    BY <1>2 DEF Truthful, Verifying, Unproven, CtxEnds, ClockFails
  <2>5. QED
    BY <2>1, <2>2, <2>3, <2>4 DEF Truthful
<1>3. CASE Edit
  <2>1. /\ edits' # 0 /\ edits' > seen' /\ edits' # seen'
        /\ UNCHANGED <<pc, mem, durable, ran, did, passedOn, attempts, runs, act, step,
                       evidence, receipts, resumed, outcome>>
    BY <1>3 DEF Edit, Honest, LocalsOK, Truthful, Numbered
  <2>2. ASSUME NEW t, Faithful(t) PROVE Faithful(t)'
    <3>1. Settles(t)' /\ Unrepeated(t)'
      BY <2>1, <2>2 DEF Faithful, Settles, Unrepeated, Undone
    <3>2. LedgerTrue(t)' /\ PendingTrue(t)' /\ Proven(t)'
      BY <2>1 DEF LedgerTrue, PendingTrue, Proven
    <3>3. QED
      BY <2>2, <3>1, <3>2 DEF Faithful
  <2>3. Faithfuls'
    BY <2>1, <2>2 DEF Truthful, Faithfuls
  <2>4. (Numbered /\ Underway /\ Entered)'
    BY <1>3, <2>1 DEF Truthful, Numbered, Underway, Entered, Edit, Honest, LocalsOK
  <2>5. (Ready /\ Answered)'
    BY <2>1 DEF Truthful, Ready, Answered, Undone
  <2>6. (Verifying /\ Unproven)'
    BY <2>1 DEF Truthful, Verifying, Unproven
  <2>7. QED
    BY <2>3, <2>4, <2>5, <2>6 DEF Truthful
<1>4. QED
  BY <1>1, <1>2, <1>3

\* A task that is new has no actions, and a resumed one goes on from the log.
LEMMA OpenedTruthful ==
    ASSUME Honest, Truthful, NEW b \in Budget, Create(b) \/ \E s \in durable : Resume(s, b)
    PROVE  Truthful'
<1>. USE DEF taskVars, locals, setup, talk, call, world, outside, actions, counters
<1>1. CASE Create(b)
  <2>1. attempts = 0 /\ ran = {} /\ durable = {} /\ did \subseteq Id
    BY <1>1 DEF Honest, Unborn, Create, LocalsOK
  <2>2. did = {}
    BY <2>1, BoundsAssumption DEF Truthful, Numbered, Id
  <2>3. PICK s : s = NewState(b)
    OBVIOUS
  <2>4. /\ s.pending = {} /\ ~s.verification.passed
        /\ \A i \in Id : s.effects[i] = "absent"
    BY <2>3 DEF NewState, NoEvidence
  <2>5. Faithful(s)
    BY <2>1, <2>2, <2>4
    DEF Faithful, Settles, Unrepeated, LedgerTrue, PendingTrue, Proven
  <2>6. mem' = s /\ UNCHANGED <<durable, ran, did, file, edits, passedOn>>
    BY <1>1, <2>3 DEF Create
  <2>7. Faithfuls'
    BY <2>5, <2>6, FaithfulsStay DEF Truthful
  <2>8. (Numbered /\ Underway /\ Entered /\ Ready /\ Answered /\ Verifying)'
    BY <1>1, <2>1, <2>2
    DEF Truthful, Numbered, Create, Underway, Entered, Ready, Answered, Working, Verifying
  <2>9. Unproven'
    BY <1>1, <2>4, <2>6 DEF Truthful, Unproven, Create, Working
  <2>10. QED
    BY <2>7, <2>8, <2>9 DEF Truthful
<1>2. ASSUME NEW s \in durable, Resume(s, b) PROVE Truthful'
  <2>1. PICK t : t = Reopened(s, b)
    OBVIOUS
  <2>2. s \in State /\ Faithful(s)
    BY DEF Honest, Keeping, Kept, Truthful, Faithfuls
  <2>3. Alike(t, s)
    BY <2>1, <2>2 DEF Reopened, State, Alike
  <2>4. Faithful(t)
    BY <2>2, <2>3, AlikeFaithful
  <2>5. Faithfuls'
    BY <1>2, <2>1, <2>4, FaithfulsStay DEF Truthful, Resume
  <2>6. Numbered'
    <3>1. runs \in Nat /\ runs' = runs + 1 /\ resumed'
      BY <1>2 DEF Resume, Honest, LocalsOK
    <3>2. \A r \in ran : r.run \in Nat
      BY DEF Honest, LocalsOK, Handled
    <3>3. UNCHANGED <<ran, did, attempts, seen, edits>>
      BY <1>2 DEF Resume
    <3>4. QED
      BY <3>1, <3>2, <3>3 DEF Truthful, Numbered
  <2>7. (Underway /\ Entered /\ Ready /\ Answered /\ Verifying /\ Unproven)'
    BY <1>2 DEF Truthful, Resume, Underway, Entered, Ready, Answered, Working, Verifying,
                Unproven
  <2>8. QED
    BY <2>5, <2>6, <2>7 DEF Truthful
<1>3. QED
  BY <1>1, <1>2

-----------------------------------------------------------------------------
(* Before the first request.                                               *)

\* Reconciling concludes from the file what the action did: nobody else
\* changed it, and no handler ran while the action was pending.
LEMMA SettledFaithful ==
    ASSUME Honest, Truthful, NEW p \in mem.pending, pc # "idle",
           p.known, file \in {p.call.from, p.call.to}
    PROVE  Faithful(Settled(p))
<1>. DEFINE s == Settled(p)
            applied == file = p.call.to
<1>1. /\ mem \in State /\ Faithful(mem) /\ p \in Pending /\ p.id \in Id
      /\ \A o \in mem.pending : o = p
  BY DEF Honest, Keeping, Kept, Truthful, Faithfuls, State, Pending, Faithful
<1>2. /\ s.effects = [mem.effects EXCEPT ![p.id] = IF applied THEN "confirmed" ELSE "none"]
      /\ s.pending = {}
      /\ s.completed = IF applied THEN mem.completed \union {<<p.step, p.call>>}
                       ELSE mem.completed
      /\ s.verification = mem.verification
  BY <1>1 DEF Settled, State
<1>3. mem.effects \in [Id -> Receipt]
  BY <1>1 DEF State
<1>4. \A r \in ran : r.id \in Id
  BY DEF Honest, LocalsOK, Handled
<1>. HIDE DEF s
<1>5. Settles(s)
  <2>1. SUFFICES ASSUME NEW r \in ran, ~r.verifier, <<r.step, r.call>> \notin s.completed
                 PROVE  Undone(s, r.id)
    BY DEF Settles
  <2>2. \/ Undone(mem, r.id)
        \/ r.id = p.id /\ r.step = p.step /\ r.call = p.call
    BY <1>1, <1>2, <2>1 DEF Faithful, Settles
  <2>3. CASE Undone(mem, r.id)
    BY <1>1, <1>2, <1>3, <2>3 DEF Undone
  <2>4. CASE r.id = p.id /\ r.step = p.step /\ r.call = p.call
    BY <1>1, <1>2, <1>3, <2>1, <2>4 DEF Undone
  <2>5. QED
    BY <2>2, <2>3, <2>4
<1>6. Unrepeated(s)
  BY <1>1, <1>2, <1>3, <1>4 DEF Faithful, Unrepeated, Undone
<1>7. LedgerTrue(s)
  <2>1. SUFFICES ASSUME edits = 0, NEW i \in Id
                 PROVE  /\ i \in did => s.effects[i] \notin {"absent", "none"}
                        /\ s.effects[i] = "confirmed" => i \in did
    BY DEF LedgerTrue
  <2>2. CASE i = p.id
    <3>1. p.call.from # p.call.to /\ (p.id \in did <=> applied)
      BY <1>1, <2>1 DEF Faithful, PendingTrue, Write
    <3>2. QED
      BY <1>1, <1>2, <1>3, <2>2, <3>1
  <2>3. CASE i # p.id
    BY <1>1, <1>2, <1>3, <2>1, <2>3 DEF Faithful, LedgerTrue
  <2>4. QED
    BY <2>2, <2>3
<1>8. PendingTrue(s) /\ Proven(s) /\ \A q, o \in s.pending : q = o
  BY <1>1, <1>2 DEF Faithful, PendingTrue, Proven
<1>9. QED
  BY <1>5, <1>6, <1>7, <1>8 DEF Faithful, s

LEMMA ReconcileTruthful ==
    ASSUME Honest, Truthful, NEW p \in mem.pending, Reconcile(p)
    PROVE  Truthful'
<1>. USE DEF taskVars, locals, setup, talk, call, world, outside, actions, counters
<1>1. /\ pc = "reconcile" /\ pc' \in {"reconcile", "stop"}
      /\ outcome' \in {outcome, "failed", "blocked", "cancelled"}
      /\ mem' = mem \/ mem' = Settled(p)
      /\ \A t \in durable' : t \in durable \/ t = mem'
      /\ mem' # mem => p.known /\ file \in {p.call.from, p.call.to}
  BY DEF Reconcile, GiveUp, Record, Saved, NotSaved, Stop
<1>2. Faithful(mem')
  BY <1>1, SettledFaithful DEF Truthful, Faithfuls
<1>3. Faithfuls'
  BY <1>1, <1>2, FaithfulsStay DEF Truthful, Reconcile
<1>4. (Numbered /\ Underway /\ Entered /\ Ready /\ Answered /\ Verifying)'
  BY <1>1 DEF Reconcile, Truthful, Numbered, Underway, Entered, Ready, Answered, Working,
              Verifying
<1>5. mem'.verification = mem.verification
  BY <1>1 DEF Settled, Honest, Keeping, State
<1>6. Unproven'
  BY <1>1, <1>5 DEF Reconcile, Truthful, Unproven, Working
<1>7. QED
  BY <1>3, <1>4, <1>6 DEF Truthful

\* A run begins its work with the receipts of those before it.
LEMMA NothingPendingTruthful ==
    ASSUME Honest, Truthful, NothingPending
    PROVE  Truthful'
<1>. USE DEF taskVars, locals, setup, talk, call, world, outside, actions, counters
<1>1. Faithfuls'
  BY FaithfulsStay DEF NothingPending, Truthful, Faithfuls
<1>2. (Numbered /\ Underway /\ Entered /\ Ready /\ Verifying /\ Unproven)'
  BY DEF NothingPending, Truthful, Numbered, Underway, Entered, Ready, Verifying, Unproven,
         Working
<1>3. Answered'
  <2>1. SUFFICES ASSUME NEW q \in ran, ~q.verifier, q.run < runs
                 PROVE  Undone(mem, q.id) \/ <<q.step, q.call>> \in receipts'
    BY DEF Answered, NothingPending, Undone
  <2>2. resumed
    <3>1. q.run \in Nat /\ runs \in Nat /\ 1 <= q.run
      BY DEF Honest, LocalsOK, Handled, Truthful, Numbered
    <3>2. QED
      BY <2>1, <3>1 DEF Truthful, Numbered, NothingPending
  <2>3. QED
    BY <2>1, <2>2 DEF NothingPending, Truthful, Faithfuls, Faithful, Settles
<1>4. QED
  BY <1>1, <1>2, <1>3 DEF Truthful

LEMMA OpeningTruthful ==
    ASSUME Honest, Truthful, Opening
    PROVE  Truthful'
<1>. USE DEF taskVars, locals, setup, talk, call, world, outside, actions, counters
<1>1. LocalsOK /\ (pc # "idle" => mem \in State)
  BY DEF Honest, Keeping
<1>2. CASE Begin
  <2>1. /\ pc = "begin" /\ pc' \in {"reconcile", "stop"} /\ mem' = mem
        /\ outcome' \in {outcome, "failed", "cancelled", "exhausted"}
        /\ \A t \in durable' : t \in durable \/ t = mem'
    BY <1>2 DEF Begin, Record, Saved, NotSaved, Stop, CtxOutcome
  <2>2. Alike(mem', mem)
    BY <2>1 DEF Alike
  <2>3. Faithfuls' /\ (Numbered /\ Underway /\ Entered /\ Ready /\ Answered /\ Verifying)'
    BY <1>1, <1>2, <2>1, <2>2, PlainTruthful DEF Begin, Working
  <2>4. Unproven'
    BY <1>2, <2>1 DEF Begin, Truthful, Unproven, Working
  <2>5. QED
    BY <2>3, <2>4 DEF Truthful
<1>3. CASE \E p \in mem.pending : Reconcile(p)
  BY <1>3, ReconcileTruthful
<1>4. CASE NothingPending
  BY <1>4, NothingPendingTruthful
<1>5. CASE Recheck
  <2>1. PICK s : s = [mem EXCEPT !.verification.passed = FALSE]
    OBVIOUS
  <2>2. /\ pc = "recheck" /\ pc' \in {"plan or work", "finish", "stop"}
        /\ mem.verification.passed /\ mem \in State
        /\ \/ pc' = "plan or work" /\ mem' = s /\ outcome' = outcome
           \/ pc' = "finish" /\ mem' = mem /\ outcome' = "verified"
              /\ file = mem.verification.version
           \/ pc' = "stop" /\ mem' \in {mem, s} /\ outcome' \in {"failed", "cancelled", "exhausted"}
        /\ \A t \in durable' : t \in durable \/ t = mem'
    BY <1>1, <1>5, <2>1
    DEF Recheck, GiveUp, Record, Saved, NotSaved, Stop, CtxOutcome
  <2>3. Alike(s, mem) /\ Alike(mem, mem) /\ ~s.verification.passed
    BY <2>1, <2>2 DEF Alike, State, Evidence
  <2>4. Faithfuls' /\ (Numbered /\ Underway /\ Entered /\ Ready /\ Answered /\ Verifying)'
    BY <1>1, <1>5, <2>2, <2>3, PlainTruthful DEF Recheck, Working
  <2>5. Unproven'
    BY <1>5, <2>2, <2>3 DEF Recheck, Truthful, Unproven, Working
  <2>6. QED
    BY <2>4, <2>5 DEF Truthful
<1>6. CASE Plan
  <2>1. /\ pc \in {"recheck", "plan or work"} /\ pc' \in {"plan", "work", "stop"}
        /\ ~mem.verification.passed
        /\ outcome' \in {outcome, "blocked", "cancelled", "tool_limit"}
        /\ mem' = mem /\ durable' = durable
    BY <1>6 DEF Plan, Stop, Truthful, Unproven, Working
  <2>2. Alike(mem', mem)
    BY <2>1 DEF Alike
  <2>3. Faithfuls' /\ (Numbered /\ Underway /\ Entered /\ Ready /\ Answered /\ Verifying)'
    BY <1>1, <1>6, <2>1, <2>2, PlainTruthful DEF Plan, Working
  <2>4. Unproven'
    BY <1>6, <2>1 DEF Plan, Truthful, Unproven, Working
  <2>5. QED
    BY <2>3, <2>4 DEF Truthful
<1>7. QED
  BY <1>2, <1>3, <1>4, <1>5, <1>6 DEF Opening

-----------------------------------------------------------------------------
(* Model requests and replies, closing and finishing, which leave the      *)
(* ledger alone.                                                           *)

\* What such a step must show of itself.
LEMMA QuietTruthful ==
    ASSUME Honest, Truthful, pc # "idle",
           pc' \notin {"idle", "begin", "reconcile", "recheck", "admit", "handler", "result",
                       "judge", "final"},
           UNCHANGED <<attempts, ran, did, passedOn, file, edits, seen, runs, receipts, resumed>>,
           Alike(mem', mem), mem'.verification = mem.verification,
           \A t \in durable' : t \in durable \/ t = mem',
           pc' \in Working => pc \in Working \ {"recheck", "final"},
           outcome' = "verified" => outcome = "verified" /\ pc' = "finish"
    PROVE  Truthful'
<1>1. Faithfuls' /\ (Numbered /\ Underway /\ Entered /\ Ready /\ Answered /\ Verifying)'
  BY PlainTruthful DEF Honest
<1>2. Unproven'
  BY DEF Truthful, Unproven, Working
<1>3. QED
  BY <1>1, <1>2 DEF Truthful

LEMMA TalkingTruthful ==
    ASSUME Honest, Truthful, Talking
    PROVE  Truthful'
<1>. USE DEF taskVars, locals, setup, talk, call, world, outside, actions, counters
<1>1. LocalsOK /\ (pc # "idle" => mem \in State)
  BY DEF Honest, Keeping
<1>2. CASE Ask
  <2>1. /\ pc \in {"plan", "patch", "ask"} /\ pc' \in {"planned", "reply", "stop"}
        /\ outcome' # "verified" \/ outcome' = outcome
    <3>1. Reply["plan"] = "planned" /\ Reply["patch"] = "planned" /\ Reply["ask"] = "reply"
      BY DEF Reply
    <3>2. QED
      BY <1>2, <3>1 DEF Ask, Reply, GiveUp, Record, Stop, CtxOutcome
  <2>2. PICK s : s = [mem EXCEPT !.models = @ + 1]
    OBVIOUS
  <2>3. mem' \in {mem, s} /\ \A t \in durable' : t \in durable \/ t = mem'
    BY <1>2, <2>2 DEF Ask, GiveUp, Record, Saved, NotSaved
  <2>4. Alike(mem', mem) /\ mem'.verification = mem.verification
    BY <1>1, <2>1, <2>2, <2>3 DEF Alike, State
  <2>5. outcome # "verified"
    BY <2>1 DEF Truthful, Unproven
  <2>6. UNCHANGED <<attempts, ran, did, passedOn, file, edits, seen, runs, receipts, resumed>>
    BY <1>2 DEF Ask
  <2>7. QED
    BY <2>1, <2>3, <2>4, <2>5, <2>6, QuietTruthful DEF Working
<1>3. CASE ModelFails \/ CallsReply \/ EndBatch \/ Blocked
  <2>1. /\ pc \in {"planned", "reply", "batch"}
        /\ pc' \in {"patch", "call", "turn", "stop"}
        /\ outcome' # "verified" \/ outcome' = outcome
        /\ mem' = mem /\ durable' = durable
        /\ UNCHANGED <<attempts, ran, did, passedOn, file, edits, seen, runs, receipts, resumed>>
    BY <1>3 DEF ModelFails, CallsReply, EndBatch, Blocked, GiveUp, Stop, CtxOutcome
  <2>2. Alike(mem', mem)
    BY <2>1 DEF Alike
  <2>3. outcome # "verified"
    BY <2>1 DEF Truthful, Unproven
  <2>4. QED
    BY <2>1, <2>2, <2>3, QuietTruthful DEF Working
<1>4. ASSUME NEW steps \in SUBSET StepId, Planned(steps) PROVE Truthful'
  <2>1. PICK s : s = [mem EXCEPT !.todo = steps]
    OBVIOUS
  <2>2. /\ pc = "planned" /\ pc' \in {"work", "stop"}
        /\ outcome' # "verified" \/ outcome' = outcome
        /\ mem' = s /\ \A t \in durable' : t \in durable \/ t = mem'
        /\ UNCHANGED <<attempts, ran, did, passedOn, file, edits, seen, runs, receipts, resumed>>
    BY <1>4, <2>1 DEF Planned, Record, Saved, NotSaved, Stop
  <2>3. Alike(mem', mem) /\ mem'.verification = mem.verification
    BY <1>1, <2>1, <2>2 DEF Alike, State
  <2>4. outcome # "verified"
    BY <2>2 DEF Truthful, Unproven
  <2>5. QED
    BY <2>2, <2>3, <2>4, QuietTruthful DEF Working
<1>5. CASE Work
  <2>1. /\ pc = "work" /\ pc' \in {"turn", "verify", "final"} /\ outcome' = outcome
        /\ mem' = mem /\ durable' = durable
        /\ UNCHANGED <<attempts, ran, did, passedOn, file, edits, seen, runs, receipts, resumed>>
    BY <1>5 DEF Work, AfterWork
  <2>2. Alike(mem', mem) /\ ~mem.verification.passed
    BY <2>1 DEF Alike, Truthful, Unproven, Working
  <2>3. Faithfuls' /\ (Numbered /\ Underway /\ Entered /\ Ready /\ Answered /\ Verifying)'
    BY <1>1, <2>1, <2>2, PlainTruthful DEF Working
  <2>4. Unproven'
    BY <2>1, <2>2 DEF Truthful, Unproven, Working
  <2>5. QED
    BY <2>3, <2>4 DEF Truthful
<1>6. CASE Turn
  <2>1. PICK s : s = [mem EXCEPT !.turns = @ + 1]
    OBVIOUS
  <2>2. /\ pc = "turn" /\ pc' \in {"ask", "stop"}
        /\ outcome' # "verified" \/ outcome' = outcome
        /\ mem' \in {mem, s} /\ \A t \in durable' : t \in durable \/ t = mem'
        /\ UNCHANGED <<attempts, ran, did, passedOn, file, edits, seen, runs, receipts, resumed>>
    BY <1>6, <2>1 DEF Turn, GiveUp, Record, Saved, NotSaved, Stop, CtxOutcome
  <2>3. Alike(mem', mem) /\ mem'.verification = mem.verification
    BY <1>1, <2>1, <2>2 DEF Alike, State
  <2>4. outcome # "verified"
    BY <2>2 DEF Truthful, Unproven
  <2>5. QED
    BY <2>2, <2>3, <2>4, QuietTruthful DEF Working
<1>7. CASE TextReply
  <2>1. PICK s : s = [mem EXCEPT !.todo = @ \ {step}, !.done = @ \union {step}]
    OBVIOUS
  <2>2. /\ pc = "reply" /\ pc' \in {"work", "verify", "final", "stop"}
        /\ outcome' # "verified" \/ outcome' = outcome
        /\ mem' \in {mem, s} /\ \A t \in durable' : t \in durable \/ t = mem'
        /\ UNCHANGED <<attempts, ran, did, passedOn, file, edits, seen, runs, receipts, resumed>>
    BY <1>7, <2>1
    DEF TextReply, GiveUp, Record, Saved, NotSaved, Stop, CtxOutcome, AfterWork
  <2>3. Alike(mem', mem) /\ mem'.verification = mem.verification
    BY <1>1, <2>1, <2>2 DEF Alike, State
  <2>4. ~mem.verification.passed /\ outcome # "verified"
    BY <2>2 DEF Truthful, Unproven, Working
  <2>5. Faithfuls' /\ (Numbered /\ Underway /\ Entered /\ Ready /\ Answered /\ Verifying)'
    BY <1>1, <2>2, <2>3, PlainTruthful DEF Working
  <2>6. Unproven'
    BY <2>2, <2>3, <2>4 DEF Truthful, Unproven, Working
  <2>7. QED
    BY <2>5, <2>6 DEF Truthful
<1>8. QED
  BY <1>2, <1>3, <1>4, <1>5, <1>6, <1>7 DEF Talking

LEMMA ClosingTruthful ==
    ASSUME Honest, Truthful,
           \/ Final \/ Close \/ NoClosing
           \/ \E status \in {"completed", "failed"} : ClosingReply(status)
    PROVE  Truthful'
<1>. USE DEF taskVars, locals, setup, talk, call, world, outside, actions, counters
<1>1. LocalsOK /\ (pc # "idle" => mem \in State)
  BY DEF Honest, Keeping
<1>2. CASE Final
  <2>1. /\ pc = "final" /\ pc' = "finish" /\ mem' = mem /\ durable' = durable
        /\ outcome' = "verified" => mem.verification.passed
        /\ UNCHANGED <<attempts, ran, did, passedOn, file, edits, seen, runs, receipts, resumed>>
    BY <1>2 DEF Final
  <2>2. Alike(mem', mem)
    BY <2>1 DEF Alike
  <2>3. Faithfuls' /\ (Numbered /\ Underway /\ Entered /\ Ready /\ Answered /\ Verifying)'
    BY <1>1, <2>1, <2>2, PlainTruthful DEF Working
  <2>4. Unproven'
    BY <2>1 DEF Truthful, Unproven, Working
  <2>5. QED
    BY <2>3, <2>4 DEF Truthful
<1>3. CASE Close
  <2>1. PICK s : s = [mem EXCEPT !.models = @ + 1, !.turns = @ + 1,
                            !.closing = [limit |-> mem.limits.tools, status |-> "started"]]
    OBVIOUS
  <2>2. /\ pc = "stop" /\ pc' \in {"closing", "finish"} /\ outcome' \in {outcome, "failed"}
        /\ mem' = s /\ \A t \in durable' : t \in durable \/ t = mem'
        /\ UNCHANGED <<attempts, ran, did, passedOn, file, edits, seen, runs, receipts, resumed>>
    BY <1>3, <2>1 DEF Close, Saved, NotSaved
  <2>3. Alike(mem', mem) /\ mem'.verification = mem.verification
    BY <1>1, <2>1, <2>2 DEF Alike, State
  <2>4. outcome # "verified"
    BY <2>2 DEF Truthful, Unproven
  <2>5. QED
    BY <2>2, <2>3, <2>4, QuietTruthful DEF Working
<1>4. CASE NoClosing
  <2>1. /\ pc = "stop" /\ pc' = "finish" /\ outcome' = outcome
        /\ mem' = mem /\ durable' = durable
        /\ UNCHANGED <<attempts, ran, did, passedOn, file, edits, seen, runs, receipts, resumed>>
    BY <1>4 DEF NoClosing
  <2>2. Alike(mem', mem) /\ outcome # "verified"
    BY <2>1 DEF Alike, Truthful, Unproven
  <2>3. QED
    BY <2>1, <2>2, QuietTruthful DEF Working
<1>5. ASSUME NEW status \in {"completed", "failed"}, ClosingReply(status) PROVE Truthful'
  <2>1. PICK s : s = [mem EXCEPT !.closing.status = status]
    OBVIOUS
  <2>2. /\ pc = "closing" /\ pc' = "finish" /\ outcome' \in {outcome, "failed"}
        /\ mem' = s /\ \A t \in durable' : t \in durable \/ t = mem'
        /\ UNCHANGED <<attempts, ran, did, passedOn, file, edits, seen, runs, receipts, resumed>>
    BY <1>5, <2>1 DEF ClosingReply, Saved, NotSaved
  <2>3. Alike(mem', mem) /\ mem'.verification = mem.verification
    BY <1>1, <2>1, <2>2 DEF Alike, State
  <2>4. outcome # "verified"
    BY <2>2 DEF Truthful, Unproven
  <2>5. QED
    BY <2>2, <2>3, <2>4, QuietTruthful DEF Working
<1>6. QED
  BY <1>2, <1>3, <1>4, <1>5

LEMMA FinishTruthful ==
    ASSUME Honest, Truthful, Finish
    PROVE  Truthful'
<1>. USE DEF world, outside, actions, counters
<1>1. PICK s : s = [mem EXCEPT !.last = Reported]
  OBVIOUS
<1>2. pc = "finish" /\ mem \in State /\ Faithful(mem)
  BY DEF Finish, Honest, Keeping, Truthful, Faithfuls
<1>3. Alike(s, mem)
  BY <1>1, <1>2 DEF Alike, State
<1>4. Faithful(s)
  BY <1>2, <1>3, AlikeFaithful
<1>5. \A t \in durable' : t \in durable \/ t = s
  BY <1>1 DEF Finish
<1>6. QED
  BY <1>4, <1>5, GoneTruthful DEF Finish, Truthful, Faithfuls

-----------------------------------------------------------------------------
(* Tool calls.                                                             *)

\* reserve("tool") leaves the ledger alone.
LEMMA AttemptPlain ==
    ASSUME Honest, pc # "idle", NEW next \in {"admit", "batch"}, Attempt(next)
    PROVE  /\ Alike(mem', mem) /\ mem'.verification = mem.verification
           /\ \A t \in durable' : t \in durable \/ t = mem'
           /\ pc' \in {next, "stop"}
           /\ outcome' # "verified" \/ outcome' = outcome
<1>1. PICK s : s = [mem EXCEPT !.tools = @ + 1]
  OBVIOUS
<1>2. /\ mem' \in {mem, s} /\ \A t \in durable' : t \in durable \/ t = mem'
      /\ pc' \in {next, "stop"}
      /\ outcome' # "verified" \/ outcome' = outcome
  BY <1>1 DEF Attempt, GiveUp, Record, Saved, NotSaved, Stop, CtxOutcome, taskVars
<1>3. Alike(mem', mem) /\ mem'.verification = mem.verification
  BY <1>1, <1>2 DEF Alike, Honest, Keeping, State
<1>4. QED
  BY <1>2, <1>3

\* A call that no receipt answers repeats nothing that had an effect.
LEMMA ExecuteTruthful ==
    ASSUME Honest, Truthful, NEW c \in Call, Execute(c)
    PROVE  Truthful'
<1>. USE DEF taskVars, locals, setup, talk, call, world, outside, actions, counters
<1>1. PICK next \in {"admit", "batch"} :
        Attempt(next) /\ (next = "admit" => ~Receipted(c))
  BY DEF Execute
<1>2. /\ pc \in {"call", "batch"} /\ mem.pending = {} /\ outcome # "verified"
      /\ ~mem.verification.passed
  BY DEF Execute, Honest, Calm, Truthful, Unproven, Working
<1>3. /\ Alike(mem', mem) /\ mem'.verification = mem.verification
      /\ \A t \in durable' : t \in durable \/ t = mem'
      /\ pc' \in {next, "stop"} /\ outcome' # "verified"
  BY <1>1, <1>2, AttemptPlain
<1>4. /\ UNCHANGED <<attempts, ran, did, passedOn, file, edits, seen, runs, receipts,
                     resumed, step, evidence>>
      /\ act' = [NoAct EXCEPT !.call = c]
  BY DEF Execute
<1>5. act'.call = c /\ ~act'.started /\ ~act'.verifier
  BY <1>4 DEF NoAct
<1>6. Faithfuls'
  <2>1. Faithful(mem')
    BY <1>2, <1>3, AlikeFaithful DEF Truthful, Faithfuls
  <2>2. QED
    BY <1>3, <1>4, <2>1, FaithfulsStay DEF Truthful
<1>7. (Numbered /\ Underway /\ Entered /\ Verifying /\ Unproven)'
  BY <1>1, <1>2, <1>3, <1>4, <1>5
  DEF Truthful, Numbered, Underway, Entered, Verifying, Unproven, Working
<1>8. Answered'
  BY <1>2, <1>3, <1>4 DEF Truthful, Answered, Working, Alike, Undone
<1>9. Ready'
  <2>1. SUFFICES ASSUME pc' = "admit", c # Read, NEW q \in ran,
                        ~q.verifier, q.step = step, q.call = c, q.run < runs \/ step # NoStep
                 PROVE  Undone(mem, q.id)
    BY <1>3, <1>4, <1>5 DEF Ready, Alike, Undone
  <2>2. ~Receipted(c) /\ c.tool # "read"
    BY <1>1, <1>3, <2>1 DEF Call, Write, Bash, Read
  <2>3. CASE q.run < runs
    <3>1. Undone(mem, q.id) \/ <<q.step, q.call>> \in receipts
      BY <1>2, <2>1, <2>3 DEF Truthful, Answered, Working
    <3>2. QED
      BY <2>1, <2>2, <3>1 DEF Receipted
  <2>4. CASE step # NoStep
    <3>1. Undone(mem, q.id) \/ <<q.step, q.call>> \in mem.completed
      BY <1>2, <2>1 DEF Truthful, Faithfuls, Faithful, Settles
    <3>2. QED
      BY <2>1, <2>2, <2>4, <3>1 DEF Receipted
  <2>5. QED
    BY <2>1, <2>3, <2>4
<1>10. QED
  BY <1>6, <1>7, <1>8, <1>9 DEF Truthful

\* The verifier reads the version before its command.
LEMMA StartVerifyTruthful ==
    ASSUME Honest, Truthful, StartVerify
    PROVE  Truthful'
<1>. USE DEF taskVars, locals, setup, talk, call, world, outside, actions, counters
<1>1. /\ pc = "verify" /\ outcome # "verified" /\ ~mem.verification.passed
  BY DEF StartVerify, Truthful, Unproven, Working
<1>2. /\ Alike(mem', mem) /\ mem'.verification = mem.verification
      /\ \A t \in durable' : t \in durable \/ t = mem'
      /\ pc' \in {"admit", "stop"} /\ outcome' # "verified"
  BY <1>1, AttemptPlain DEF StartVerify
<1>3. /\ UNCHANGED <<attempts, ran, did, passedOn, file, edits, runs, receipts, resumed, step>>
      /\ act' = [NoAct EXCEPT !.call = Bash, !.verifier = TRUE]
      /\ evidence' = file /\ seen' = edits
  BY DEF StartVerify
<1>4. ~act'.started /\ act'.verifier
  BY <1>3 DEF NoAct
<1>5. Faithfuls'
  <2>1. Faithful(mem')
    BY <1>1, <1>2, AlikeFaithful DEF Truthful, Faithfuls
  <2>2. QED
    BY <1>2, <1>3, <2>1, FaithfulsStay DEF Truthful
<1>6. (Numbered /\ Underway /\ Entered /\ Ready /\ Verifying /\ Unproven)'
  <2>1. Numbered'
    BY <1>1, <1>2, <1>3 DEF Truthful, Numbered, Honest, LocalsOK
  <2>2. (Underway /\ Entered /\ Ready /\ Verifying)'
    BY <1>2, <1>3, <1>4 DEF Underway, Entered, Ready, Verifying
  <2>3. Unproven'
    BY <1>1, <1>2, <1>3 DEF Truthful, Unproven, Working
  <2>4. QED
    BY <2>1, <2>2, <2>3
<1>7. Answered'
  BY <1>1, <1>2, <1>3 DEF Truthful, Answered, Working, Alike, Undone
<1>8. QED
  BY <1>5, <1>6, <1>7 DEF Truthful

\* A call whose handler is not entered has no effect.
LEMMA UnenteredTruthful ==
    ASSUME Honest, Truthful, Reject \/ ReadOnly \/ HandlerCancelled
    PROVE  Truthful'
<1>. USE DEF taskVars, locals, setup, talk, call, world, outside, actions, counters
<1>1. /\ pc \in {"admit", "handler"} /\ pc' = "result" /\ act \in Act
      /\ pc = "admit" => ~act.started
      /\ UNCHANGED <<mem, durable, attempts, ran, did, passedOn, file, edits, seen, runs,
                     receipts, resumed, step, evidence, outcome>>
      /\ \E o \in {"rejected", "none"} : act' = [act EXCEPT !.result = o]
  BY DEF Reject, ReadOnly, HandlerCancelled, Honest, LocalsOK, Admitted
<1>2. /\ act'.started = act.started /\ act'.id = act.id /\ act'.call = act.call
      /\ act'.known = act.known /\ act'.verifier = act.verifier
      /\ act'.result \in {"rejected", "none"}
  BY <1>1 DEF Act
<1>3. Faithfuls'
  BY <1>1, FaithfulsStay DEF Truthful, Faithfuls
<1>4. (Numbered /\ Underway)'
  BY <1>1, <1>2 DEF Truthful, Numbered, Underway
<1>5. Entered'
  BY <1>1, <1>2 DEF Truthful, Entered
<1>6. (Ready /\ Verifying /\ Unproven)'
  BY <1>1, <1>2 DEF Truthful, Ready, Verifying, Unproven, Working
<1>7. Answered'
  BY <1>1 DEF Truthful, Answered, Working, Undone
<1>8. QED
  BY <1>3, <1>4, <1>5, <1>6, <1>7 DEF Truthful

\* Starting an action makes it the one thing pending, and nothing proven.
LEMMA StartedFaithful ==
    ASSUME Honest, Truthful, pc = "admit", NEW p, p \in Pending,
           p.id = attempts + 1, p.call = act.call,
           p.known => act.call \in Write /\ file = act.call.from
    PROVE  /\ Faithful(Started(p))
           /\ Started(p).pending = {p} /\ Started(p).effects[p.id] = "unknown"
           /\ \A r \in ran : Undone(mem, r.id) => Undone(Started(p), r.id)
           /\ ~Started(p).verification.passed
<1>. DEFINE s == Started(p)
<1>1. /\ mem \in State /\ Faithful(mem) /\ mem.pending = {} /\ p.id \in Id
      /\ mem.effects \in [Id -> Receipt]
  BY DEF Honest, Keeping, Calm, Truthful, Faithfuls, State, Pending
<1>2. /\ s.effects = [mem.effects EXCEPT ![p.id] = "unknown"] /\ s.pending = {p}
      /\ s.completed = mem.completed /\ ~s.verification.passed
  BY <1>1 DEF Started, State, NoEvidence
<1>3. /\ \A r \in ran : r.id \in Id /\ r.id # p.id
      /\ p.id \notin did
  <2>1. attempts \in Nat /\ did \subseteq Id /\ \A r \in ran : r.id \in Id
    BY DEF Honest, LocalsOK, Handled
  <2>2. QED
    BY <2>1, BoundsAssumption DEF Truthful, Numbered, Id
<1>. HIDE DEF s
<1>4. \A r \in ran : Undone(mem, r.id) => Undone(s, r.id)
  BY <1>1, <1>2, <1>3 DEF Undone
<1>5. Settles(s)
  BY <1>1, <1>2, <1>4 DEF Faithful, Settles
<1>6. Unrepeated(s)
  BY <1>1, <1>4 DEF Faithful, Unrepeated
<1>7. LedgerTrue(s)
  BY <1>1, <1>2, <1>3 DEF Faithful, LedgerTrue
<1>8. PendingTrue(s) /\ Proven(s) /\ \A q, o \in s.pending : q = o
  BY <1>2, <1>3 DEF PendingTrue, Proven
<1>9. QED
  BY <1>1, <1>2, <1>4, <1>5, <1>6, <1>7, <1>8 DEF Faithful, s

LEMMA HookTruthful ==
    ASSUME Honest, Truthful, NEW known \in BOOLEAN, Hook(known)
    PROVE  Truthful'
<1>. USE DEF taskVars, locals, setup, talk, call, world, outside, actions, counters
<1>1. /\ pc = "admit" /\ act.call # Read /\ act \in Act /\ step \in Step
      /\ outcome # "verified" /\ attempts \in Nat
      /\ UNCHANGED <<ran, did, passedOn, file, edits, seen, runs, receipts, resumed, step,
                     evidence>>
  BY DEF Hook, Honest, LocalsOK, Truthful, Unproven
<1>2. CASE Interrupted /\ GiveUp(CtxOutcome) /\ UNCHANGED <<act, attempts>>
  <2>1. /\ pc' = "stop" /\ outcome' # "verified" /\ mem' = mem /\ durable' = durable
    BY <1>2 DEF GiveUp, Stop, CtxOutcome
  <2>2. Alike(mem', mem)
    BY <2>1 DEF Alike
  <2>3. QED
    BY <1>1, <1>2, <2>1, <2>2, QuietTruthful DEF Working
<1>3. CASE ~(Interrupted /\ GiveUp(CtxOutcome) /\ UNCHANGED <<act, attempts>>)
  <2>1. PICK p : p = [id |-> attempts + 1, step |-> step, call |-> act.call, known |-> known]
    OBVIOUS
  <2>2. PICK s : s = Started(p)
    OBVIOUS
  <2>3. /\ attempts' = attempts + 1
        /\ act' = [act EXCEPT !.id = attempts + 1, !.known = known, !.started = TRUE]
        /\ Record(s, "handler")
        /\ known => act.call \in Write /\ file = act.call.from
    BY <1>3, <2>1, <2>2 DEF Hook
  <2>4. /\ act'.id = p.id /\ act'.known = p.known /\ act'.started /\ act'.call = p.call
        /\ act'.verifier = act.verifier
    BY <1>1, <2>1, <2>3 DEF Act
  <2>5. attempts + 1 \in Id
    <3>1. Kept(mem) /\ attempts < mem.tools
      BY <1>1 DEF Honest, Keeping, Admitted
    <3>2. /\ mem.limits.tools \in Limits /\ mem.tools <= mem.limits.tools
          /\ mem.tools \in Nat /\ mem.limits.tools \in Nat
      BY <3>1 DEF Kept, Charged, State
    <3>3. mem.limits.tools <= MaxId
      BY <3>2, BudgetAssumption DEF Limits
    <3>4. QED
      BY <1>1, <3>1, <3>2, <3>3, BoundsAssumption DEF Id
  <2>6. p \in Pending
    BY <1>1, <2>1, <2>5 DEF Pending, Act
  <2>7. /\ Faithful(s) /\ s.pending = {p} /\ s.effects[p.id] = "unknown"
        /\ \A r \in ran : Undone(mem, r.id) => Undone(s, r.id)
        /\ ~s.verification.passed
    BY <1>1, <2>1, <2>2, <2>3, <2>6, StartedFaithful
  <2>8. /\ mem' = s /\ \A t \in durable' : t \in durable \/ t = s
        /\ pc' \in {"handler", "stop"} /\ (pc' = "handler" => durable' = {s})
        /\ outcome' # "verified"
    BY <1>1, <2>3 DEF Record, Saved, NotSaved, Stop
  <2>9. Faithfuls'
    BY <1>1, <2>7, <2>8, FaithfulsStay DEF Truthful
  <2>10. Numbered'
    <3>1. /\ \A r \in ran : r.id \in Nat
          /\ \A i \in did : i \in Nat
      BY BoundsAssumption DEF Honest, LocalsOK, Handled, Id
    <3>2. QED
      BY <1>1, <2>3, <2>8, <3>1 DEF Truthful, Numbered
  <2>11. Underway'
    BY <1>1, <2>1, <2>3, <2>4, <2>7, <2>8 DEF Underway
  <2>12. Entered'
    <3>1. \A r \in ran : r.id # p.id
      BY <1>1, <2>1, BoundsAssumption DEF Honest, LocalsOK, Handled, Id, Truthful, Numbered
    <3>2. p.id \notin did
      BY <1>1, <2>1, BoundsAssumption DEF Honest, LocalsOK, Id, Truthful, Numbered
    <3>3. QED
      BY <1>1, <2>4, <2>8, <3>1, <3>2 DEF Entered
  <2>13. Ready'
    <3>1. act'.call = act.call
      BY <2>1, <2>4
    <3>2. QED
      BY <1>1, <2>4, <2>7, <2>8, <3>1 DEF Truthful, Ready
  <2>14. Answered'
    BY <1>1, <2>7, <2>8 DEF Truthful, Answered, Working
  <2>15. (Verifying /\ Unproven)'
    BY <1>1, <2>4, <2>7, <2>8 DEF Truthful, Verifying, Unproven, Working
  <2>16. QED
    BY <2>9, <2>10, <2>11, <2>12, <2>13, <2>14, <2>15 DEF Truthful
<1>4. QED
  BY <1>2, <1>3

-----------------------------------------------------------------------------
(* The handler and its result.                                             *)

LEMMA HandlerTruthful ==
    ASSUME Honest, Truthful, Handler
    PROVE  Truthful'
<1>. USE DEF taskVars, locals, setup, talk, call, world, outside, actions, counters
<1>1. PICK o \in IF act.call = Bash THEN BashOutcomes ELSE WriteOutcomes(act.call) :
        /\ act' = [act EXCEPT !.result = o[1]]
        /\ file' = o[2]
        /\ did' = IF file' # file THEN did \union {act.id} ELSE did
        /\ passedOn' = IF act.verifier /\ o[1] = "succeeded" /\ file' = file
                       THEN passedOn \union {file} ELSE passedOn
  BY DEF Handler
<1>2. PICK r : r = [id |-> act.id, run |-> runs, step |-> step, call |-> act.call,
                    verifier |-> act.verifier]
  OBVIOUS
<1>3. /\ pc = "handler" /\ pc' = "result" /\ ran' = ran \union {r}
      /\ UNCHANGED <<mem, durable, outcome, receipts, resumed, step, evidence, runs, attempts,
                     edits, seen>>
  BY <1>2 DEF Handler
<1>4. act.started /\ act.id \in Id /\ act \in Act /\ runs \in Nat /\ runs # 0
  BY <1>3 DEF Honest, InHand, LocalsOK, Unborn
<1>5. /\ act.id = attempts /\ durable = {mem} /\ mem.effects[act.id] = "unknown"
      /\ mem.pending = {[id |-> act.id, step |-> step, call |-> act.call, known |-> act.known]}
      /\ act.call # Read /\ (act.known => act.call \in Write)
  BY <1>3, <1>4 DEF Truthful, Underway
<1>6. /\ act.id \notin did /\ \A x \in ran : x.id # act.id
      /\ \A x \in ran : x.id <= act.id /\ x.id \in Id
  BY <1>3, <1>5 DEF Truthful, Entered, Numbered, Honest, LocalsOK, Handled
<1>7. /\ act'.id = act.id /\ act'.started /\ act'.call = act.call /\ act'.known = act.known
      /\ act'.verifier = act.verifier /\ act'.result = o[1]
  BY <1>1, <1>4 DEF Act
<1>8. act.call = Bash \/ act.call \in Write
  BY <1>4, <1>5 DEF Act, Call
<1>9. /\ file' # file => o[1] \notin {None, "rejected", "none"}
      /\ o[1] = "confirmed" => file' # file
      /\ act.call \in Write /\ file = act.call.from => file' \in {file, act.call.to}
  <2>1. CASE act.call = Bash
    <3>1. Bash \notin Write
      BY DEF Bash, Write
    <3>2. QED
      BY <1>1, <2>1, <3>1 DEF BashOutcomes, None
  <2>2. CASE act.call \in Write
    <3>1. act.call # Bash /\ act.call.from # act.call.to
      BY <2>2 DEF Bash, Write
    <3>2. QED
      BY <1>1, <2>2, <3>1 DEF WriteOutcomes, None
  <2>3. QED
    BY <1>8, <2>1, <2>2
<1>10. Faithful(mem)
  BY <1>3 DEF Truthful, Faithfuls
<1>11. Settles(mem)'
  <2>1. \E p \in mem.pending : p.id = r.id /\ p.step = r.step /\ p.call = r.call
    BY <1>2, <1>5
  <2>2. QED
    BY <1>3, <1>10, <2>1 DEF Faithful, Settles, Undone
<1>12. Unrepeated(mem)'
  <2>1. SUFFICES ASSUME NEW q \in ran \union {r}, NEW x \in ran \union {r}, Repeats(q, x)
                 PROVE  Undone(mem, q.id)
    BY <1>3 DEF Unrepeated, Repeats, Undone
  <2>2. CASE q \in ran /\ x \in ran
    BY <1>10, <2>1, <2>2 DEF Faithful, Unrepeated
  <2>3. CASE q \in ran /\ x = r
    BY <1>2, <1>3, <1>5, <2>1, <2>3 DEF Truthful, Ready, Repeats
  <2>4. CASE q = r
    <3>1. q.id < x.id /\ q.id = act.id /\ x.id <= act.id /\ x.id \in Id
      BY <1>2, <1>4, <1>6, <2>1, <2>4, BoundsAssumption DEF Repeats, Id
    <3>2. QED
      BY <1>4, <3>1, BoundsAssumption DEF Id
  <2>5. QED
    BY <2>2, <2>3, <2>4
<1>13. LedgerTrue(mem)'
  BY <1>1, <1>3, <1>5, <1>10 DEF Faithful, LedgerTrue
<1>14. PendingTrue(mem)'
  <2>1. SUFFICES ASSUME edits = 0, act.known
                 PROVE  /\ act.call \in Write
                        /\ file' = IF act.id \in did' THEN act.call.to ELSE act.call.from
    BY <1>3, <1>5 DEF PendingTrue
  <2>2. act.call \in Write /\ file = act.call.from /\ act.call.from # act.call.to
    BY <1>5, <1>6, <1>10, <2>1 DEF Faithful, PendingTrue, Write
  <2>3. QED
    BY <1>1, <1>6, <1>9, <2>2
<1>15. Proven(mem)'
  BY <1>1, <1>3, <1>10 DEF Faithful, Proven
<1>16. Faithfuls'
  BY <1>3, <1>5, <1>10, <1>11, <1>12, <1>13, <1>14, <1>15 DEF Faithfuls, Faithful
<1>17. Numbered'
  <2>1. attempts \in Nat /\ seen <= edits
    BY DEF Honest, LocalsOK, Truthful, Numbered
  <2>2. QED
    BY <1>1, <1>2, <1>3, <1>4, <1>5, <2>1 DEF Truthful, Numbered
<1>18. Underway'
  BY <1>3, <1>5, <1>7 DEF Underway
<1>19. Entered'
  BY <1>1, <1>2, <1>3, <1>6, <1>7, <1>9 DEF Entered
<1>20. Answered'
  <2>1. \A q \in ran' : q.run < runs => q \in ran
    BY <1>2, <1>3, <1>4
  <2>2. QED
    BY <1>3, <2>1 DEF Truthful, Answered, Working, Undone
<1>21. (Ready /\ Verifying)'
  BY <1>1, <1>3, <1>7 DEF Truthful, Ready, Verifying
<1>22. Unproven'
  BY <1>3 DEF Truthful, Unproven, Working
<1>23. QED
  BY <1>16, <1>17, <1>18, <1>19, <1>20, <1>21, <1>22 DEF Truthful

\* The receipt of an action says what its handler did.
LEMMA ReceiptTrue ==
    ASSUME Honest, Truthful, pc = "result", act.started, edits = 0,
           NEW receipt \in Receipt, receipt \in Receipts(act)
    PROVE  /\ act.id \in did => receipt \notin {"absent", "none"}
           /\ receipt = "confirmed" => act.id \in did
<1>1. /\ mem.pending = {[id |-> act.id, step |-> step, call |-> act.call, known |-> act.known]}
      /\ act \in Act /\ Faithful(mem)
  BY DEF Truthful, Underway, Honest, LocalsOK, Faithfuls
<1>2. act.known => /\ act.call.from # act.call.to
                   /\ file = IF act.id \in did THEN act.call.to ELSE act.call.from
  BY <1>1 DEF Faithful, PendingTrue, Write
<1>3. /\ act.id \in did => act.result \notin {None, "rejected", "none"}
      /\ act.result = "confirmed" => act.id \in did
  BY DEF Truthful, Entered
<1>4. CASE ~Doubtful(act)
  BY <1>1, <1>3, <1>4 DEF Receipts, Act, Result, None
<1>5. CASE Doubtful(act)
  BY <1>1, <1>2, <1>5 DEF Receipts
<1>6. QED
  BY <1>4, <1>5

LEMMA ResultFaithful ==
    ASSUME Honest, Truthful, pc = "result",
           NEW receipt \in Receipt, receipt \in Receipts(act), NEW t,
           t.effects = IF act.started THEN [mem.effects EXCEPT ![act.id] = receipt]
                       ELSE mem.effects,
           t.verification = mem.verification, mem.completed \subseteq t.completed,
           \/ t.pending = mem.pending
           \/ /\ receipt # "unknown" /\ t.pending = {p \in mem.pending : p.id # act.id}
              /\ act.call # Read /\ receipt \in {"confirmed", "succeeded"} /\ ~act.verifier
                 => <<step, act.call>> \in t.completed
    PROVE  Faithful(t) /\ \A r \in ran : Undone(mem, r.id) => Undone(t, r.id)
<1>1. /\ Faithful(mem) /\ mem \in State /\ mem.effects \in [Id -> Receipt] /\ act \in Act
      /\ \A r \in ran : r.id \in Id
  BY DEF Truthful, Faithfuls, Honest, Keeping, State, LocalsOK, Handled
<1>2. CASE ~act.started
  <2>1. mem.pending = {} /\ t.pending = {} /\ t.effects = mem.effects
    BY <1>2 DEF Honest, InHand
  <2>2. QED
    BY <1>1, <2>1
    DEF Faithful, Settles, Unrepeated, Undone, LedgerTrue, PendingTrue, Proven
<1>3. CASE act.started
  <2>1. PICK p : p = [id |-> act.id, step |-> step, call |-> act.call, known |-> act.known]
    OBVIOUS
  <2>2. /\ mem.pending = {p} /\ act.call # Read /\ act.id \in Id /\ p.id = act.id
        /\ p.step = step /\ p.call = act.call
    BY <1>3, <2>1 DEF Truthful, Underway, Honest, InHand
  <2>3. /\ \A r \in ran : r.id = act.id =>
               r.step = step /\ r.call = act.call /\ r.verifier = act.verifier
    BY <1>3 DEF Truthful, Entered
  <2>4. \A r \in ran : Undone(mem, r.id) => Undone(t, r.id)
    BY <1>1, <1>3, <2>2 DEF Undone
  <2>5. ~act.verifier => receipt \in {"none", "confirmed", "succeeded", "unknown"}
    BY <1>1 DEF Receipts, Doubtful, Act, Result, None, Receipt
  <2>6. Settles(t)
    <3>1. SUFFICES ASSUME NEW r \in ran, ~r.verifier
                   PROVE  \/ Undone(t, r.id)
                          \/ <<r.step, r.call>> \in t.completed
                          \/ \E x \in t.pending : x.id = r.id /\ x.step = r.step /\ x.call = r.call
      BY DEF Settles
    <3>2. CASE r.id # act.id
      BY <1>1, <2>2, <2>4, <3>1, <3>2 DEF Faithful, Settles
    <3>3. CASE r.id = act.id /\ t.pending = mem.pending
      BY <2>2, <2>3, <3>3
    <3>4. CASE r.id = act.id /\ t.pending # mem.pending
      <4>1. t.pending = {} /\ receipt # "unknown" /\ ~act.verifier
        BY <2>2, <2>3, <3>1, <3>4
      <4>2. CASE receipt = "none"
        BY <1>1, <1>3, <2>2, <3>4, <4>1, <4>2 DEF Undone
      <4>3. CASE receipt \in {"confirmed", "succeeded"}
        BY <2>2, <2>3, <3>4, <4>1, <4>3
      <4>4. QED
        BY <2>5, <4>1, <4>2, <4>3
    <3>5. QED
      BY <3>2, <3>3, <3>4
  <2>7. Unrepeated(t)
    BY <1>1, <2>4 DEF Faithful, Unrepeated
  <2>8. LedgerTrue(t)
    <3>1. edits = 0 => /\ act.id \in did => receipt \notin {"absent", "none"}
                       /\ receipt = "confirmed" => act.id \in did
      BY <1>3, ReceiptTrue
    <3>2. QED
      BY <1>1, <1>3, <2>2, <3>1 DEF Faithful, LedgerTrue
  <2>9. PendingTrue(t) /\ Proven(t) /\ \A x, y \in t.pending : x = y
    BY <1>1 DEF Faithful, PendingTrue, Proven
  <2>10. QED
    BY <2>4, <2>6, <2>7, <2>8, <2>9 DEF Faithful
<1>4. QED
  BY <1>2, <1>3

LEMMA ActionResultTruthful ==
    ASSUME Honest, Truthful, NEW receipt \in Receipt, ActionResult(receipt)
    PROVE  Truthful'
<1>. USE DEF taskVars, locals, setup, talk, call, world, outside, actions, counters
<1>1. PICK s : s = Resulted(act, receipt)
  OBVIOUS
<1>2. /\ pc = "result" /\ mem \in State /\ act \in Act /\ receipt \in Receipts(act)
      /\ outcome # "verified" /\ ~mem.verification.passed
  BY DEF ActionResult, Honest, Keeping, LocalsOK, Truthful, Unproven, Working
<1>3. /\ s.effects = IF act.started THEN [mem.effects EXCEPT ![act.id] = receipt]
                     ELSE mem.effects
      /\ s.pending = IF receipt = "unknown" THEN mem.pending
                     ELSE {p \in mem.pending : p.id # act.id}
      /\ s.completed = IF act.call # Read /\ receipt \in {"confirmed", "succeeded"} /\ ~act.verifier
                       THEN mem.completed \union {<<step, act.call>>} ELSE mem.completed
      /\ s.verification = mem.verification
  BY <1>1, <1>2 DEF Resulted, State
<1>4. Faithful(s) /\ \A r \in ran : Undone(mem, r.id) => Undone(s, r.id)
  BY <1>2, <1>3, ResultFaithful
<1>5. /\ mem' \in {mem, s} /\ \A t \in durable' : t \in durable \/ t = s
      /\ pc' \in {"judge", "batch", "stop"} /\ outcome' # "verified"
      /\ pc' = "judge" => act.verifier
      /\ act' = [NoAct EXCEPT !.result = act.result]
      /\ UNCHANGED <<attempts, ran, did, passedOn, file, edits, seen, runs, receipts,
                     resumed, step, evidence>>
  BY <1>1, <1>2
  DEF ActionResult, GiveUp, Record, Saved, NotSaved, Stop, CtxOutcome
<1>6. act'.result = act.result
  BY <1>5 DEF NoAct
<1>7. Faithfuls'
  <2>1. Faithful(mem')
    BY <1>2, <1>4, <1>5 DEF Truthful, Faithfuls
  <2>2. QED
    BY <1>4, <1>5, <2>1, FaithfulsStay DEF Truthful
<1>8. (Numbered /\ Underway /\ Entered /\ Ready)'
  BY <1>2, <1>5 DEF Truthful, Numbered, Underway, Entered, Ready
<1>9. Answered'
  <2>1. \A r \in ran : Undone(mem, r.id) => Undone(mem', r.id)
    BY <1>4, <1>5
  <2>2. QED
    BY <1>2, <1>5, <2>1 DEF Truthful, Answered, Working
<1>10. Verifying'
  BY <1>2, <1>5, <1>6 DEF Truthful, Verifying
<1>11. Unproven'
  BY <1>2, <1>3, <1>5 DEF Unproven, Working
<1>12. QED
  BY <1>7, <1>8, <1>9, <1>10, <1>11 DEF Truthful

LEMMA ArtifactFailsTruthful ==
    ASSUME Honest, Truthful, NEW receipt \in Receipt, ArtifactFails(receipt)
    PROVE  Truthful'
<1>. USE DEF taskVars, locals, setup, talk, call, world, outside, actions, counters
<1>1. /\ pc = "result" /\ pc' = "stop" /\ mem \in State /\ receipt \in Receipts(act)
      /\ outcome # "verified" /\ outcome' # "verified"
      /\ UNCHANGED <<durable, attempts, ran, did, passedOn, file, edits, seen, runs, receipts,
                     resumed>>
  BY DEF ArtifactFails, Stop, Honest, Keeping, Truthful, Unproven
<1>2. PICK s : s = IF act.started THEN [mem EXCEPT !.effects[act.id] = receipt] ELSE mem
  OBVIOUS
<1>3. /\ mem' = s
      /\ s.effects = IF act.started THEN [mem.effects EXCEPT ![act.id] = receipt]
                     ELSE mem.effects
      /\ s.pending = mem.pending /\ s.completed = mem.completed
      /\ s.verification = mem.verification
  BY <1>1, <1>2 DEF ArtifactFails, State
<1>4. Faithful(s)
  BY <1>1, <1>3, ResultFaithful
<1>5. Faithfuls'
  BY <1>1, <1>3, <1>4, FaithfulsStay DEF Truthful
<1>6. (Numbered /\ Underway /\ Entered /\ Ready /\ Answered /\ Verifying /\ Unproven)'
  BY <1>1 DEF Truthful, Numbered, Underway, Entered, Ready, Answered, Working, Verifying,
              Unproven
<1>7. QED
  BY <1>5, <1>6 DEF Truthful

\* Evidence that passed is about the content the command left as it was.
LEMMA JudgeTruthful ==
    ASSUME Honest, Truthful, Judge
    PROVE  Truthful'
<1>. USE DEF taskVars, locals, setup, talk, call, world, outside, actions, counters
<1>1. /\ pc = "judge" /\ mem \in State /\ Faithful(mem)
      /\ outcome # "verified" /\ ~mem.verification.passed
      /\ UNCHANGED <<attempts, ran, did, passedOn, file, edits, runs, receipts, resumed>>
  BY DEF Judge, Honest, Keeping, Truthful, Faithfuls, Unproven, Working
<1>2. CASE UNCHANGED <<mem, durable, seen>> /\ pc' = "stop" /\ outcome' # "verified"
  <2>1. Alike(mem', mem)
    BY <1>2 DEF Alike
  <2>2. QED
    BY <1>1, <1>2, <2>1, QuietTruthful DEF Working
<1>3. CASE ~(UNCHANGED <<mem, durable, seen>> /\ pc' = "stop" /\ outcome' # "verified")
  <2>1. PICK s : s = [mem EXCEPT !.verification = [passed |-> Passes, version |-> file]]
    OBVIOUS
  <2>2. seen' = edits /\ Record(s, IF Passes THEN "final" ELSE "turn")
    BY <1>3, <2>1 DEF Judge, GiveUp, Stop, CtxOutcome
  <2>3. /\ s.effects = mem.effects /\ s.pending = mem.pending
        /\ s.completed = mem.completed
        /\ s.verification.passed = Passes /\ s.verification.version = file
    BY <1>1, <2>1 DEF State
  <2>4. Proven(s)
    BY <1>1, <2>3 DEF Proven, Passes, Truthful, Verifying
  <2>5. Faithful(s)
    BY <1>1, <2>3, <2>4
    DEF Faithful, Settles, Unrepeated, Undone, LedgerTrue, PendingTrue
  <2>6. /\ mem' = s /\ \A t \in durable' : t \in durable \/ t = s
        /\ pc' \in {IF Passes THEN "final" ELSE "turn", "stop"} /\ outcome' # "verified"
    BY <1>1, <2>2 DEF Record, Saved, NotSaved, Stop
  <2>7. Faithfuls'
    BY <1>1, <2>5, <2>6, FaithfulsStay DEF Truthful
  <2>8. (Numbered /\ Underway /\ Entered /\ Ready /\ Verifying)'
    BY <1>1, <2>2, <2>6
    DEF Truthful, Numbered, Underway, Entered, Ready, Verifying, Honest, LocalsOK
  <2>9. Answered'
    BY <1>1, <2>3, <2>6 DEF Truthful, Answered, Working, Undone
  <2>10. Unproven'
    <3>1. CASE Passes
      BY <1>1, <2>3, <2>6, <3>1 DEF Unproven, Working
    <3>2. CASE ~Passes
      BY <1>1, <2>3, <2>6, <3>2 DEF Unproven, Working
    <3>3. QED
      BY <3>1, <3>2
  <2>11. QED
    BY <2>7, <2>8, <2>9, <2>10 DEF Truthful
<1>4. QED
  BY <1>2, <1>3

-----------------------------------------------------------------------------
(* What follows of the ledger.                                             *)

LEMMA StepTruthful == Honest /\ Truthful /\ [Next]_vars => Truthful'
<1>. SUFFICES ASSUME Honest, Truthful, [Next]_vars PROVE Truthful'
  OBVIOUS
<1>1. CASE UNCHANGED vars
  <2>. USE DEF vars, taskVars, locals, setup, talk, call, world, outside, actions, counters
  <2>1. Faithfuls'
    BY <1>1, FaithfulsStay DEF Truthful, Faithfuls
  <2>2. (Numbered /\ Underway /\ Entered)'
    BY <1>1 DEF Truthful, Numbered, Underway, Entered
  <2>3. (Ready /\ Answered)'
    BY <1>1 DEF Truthful, Ready, Answered, Undone
  <2>4. (Verifying /\ Unproven)'
    BY <1>1 DEF Truthful, Verifying, Unproven
  <2>5. QED
    BY <2>1, <2>2, <2>3, <2>4 DEF Truthful
<1>2. CASE \E b \in Budget : Create(b) \/ \E s \in durable : Resume(s, b)
  BY <1>2, OpenedTruthful
<1>3. CASE Opening \/ Talking
  BY <1>3, OpeningTruthful, TalkingTruthful
<1>4. CASE Acting
  BY <1>4, ExecuteTruthful, StartVerifyTruthful, UnenteredTruthful, HookTruthful,
     HandlerTruthful, ActionResultTruthful, ArtifactFailsTruthful DEF Acting
<1>5. CASE Ending
  BY <1>5, JudgeTruthful, ClosingTruthful, FinishTruthful DEF Ending
<1>6. CASE Crash \/ CtxEnds \/ ClockFails \/ Edit
  BY <1>6, OutsideTruthful
<1>7. QED
  BY <1>1, <1>2, <1>3, <1>4, <1>5, <1>6 DEF Next, Go

\* The invariant of the ledger (run_state.go, record; persistence.go, reconcile;
\* execution.go, the hook and action_result; verification.go).
THEOREM TruthfulAlways == Spec => []Truthful
<1>1. Init => Honest /\ Truthful
  BY InitHonest, InitTruthful
<1>2. Honest /\ Truthful /\ [Next]_vars => (Honest /\ Truthful)'
  BY StepHonest, StepTruthful
<1>3. QED
  BY <1>1, <1>2, PTL DEF Spec

\* A request is not executed again once it had an effect, by a resumed run or
\* within a plan step (receipts, execution.go; reconcile, persistence.go).
THEOREM NothingIsReplayed == Spec => []NoReplay
<1>1. Truthful => NoReplay
  BY DEF Truthful, Faithfuls, Faithful, Unrepeated, Repeats, Undone, NoReplay
<1>2. QED
  BY <1>1, TruthfulAlways, PTL

\* As long as nobody else edits the workspace, no state in the log denies an
\* effect or confirms one that did not happen (reconcile, settle).
THEOREM LedgerAlwaysTrue == Spec => []LedgerIsTrue
<1>1. Truthful => LedgerIsTrue
  BY DEF Truthful, Faithfuls, Faithful, LedgerTrue, LedgerIsTrue
<1>2. QED
  BY <1>1, TruthfulAlways, PTL

\* VERIFIED is reported only with evidence for the content seen last, on which
\* the verifier passed (verification.go, and the check of resumed runs).
THEOREM VerifiedStaysCurrent == Spec => []VerifiedIsCurrent
<1>1. Truthful => VerifiedIsCurrent
  BY DEF Truthful, Faithfuls, Faithful, Proven, Unproven, VerifiedIsCurrent
<1>2. QED
  BY <1>1, TruthfulAlways, PTL
=============================================================================
