------------------------------ MODULE Delegation ------------------------------
(***************************************************************************)
(* internal/engine: delegation.go, subagent.go and handoff.go. A readonly  *)
(* question hands parts of its reading to at most two sub-agents, over all *)
(* the runs of the task; each has a share of the budget of its own, and    *)
(* delivers a report of findings whose evidence the engine has checked.    *)
(*                                                                         *)
(* The root agent asks the model, which answers with calls: it discovers   *)
(* files, reads, or spawns one or two sub-agents that run in parallel. The *)
(* steps of a sub-agent are those of RunSub between two points where a     *)
(* parallel one, an edit of a file, a cancellation or the death of the     *)
(* process may come in. What the models say is a choice; a report is a     *)
(* sequence of findings that cite one file version each.                   *)
(***************************************************************************)
EXTENDS Naturals, Sequences, FiniteSets

CONSTANTS
    File, Child,         \* files of the workspace; identities of sub-agents
    Specs,               \* TaskSpecs explored: Delegation and the two Limits
    Wants,               \* allowed_paths a call may ask for
    Claims,              \* reports a sub-agent may write: sequences of Claim
    ModelLimit,          \* subtaskModelLimit
    ToolLimit,           \* subtaskToolLimit
    MaxRuns, MaxEdits    \* bounds: runs of the task, edits of each file

maxDelegatedTasks == 2
Root == "root"

Versions == 0..MaxEdits
Claim == [file : File, version : Versions, whole : BOOLEAN, on : SUBSET Nat]
Finding == [file : File, version : Versions, whole : BOOLEAN, on : SUBSET Nat,
            status : {"claimed", "position_valid", "unverified", "stale"}]

ASSUME NamesAssumption == Root \notin Child
ASSUME SpecsAssumption ==
    Specs \subseteq [delegation : {"auto", "on", "off"}, models : Nat, tools : Nat]
ASSUME LimitsAssumption ==
    {ModelLimit, ToolLimit, MaxRuns, MaxEdits} \subseteq Nat
ASSUME WantsAssumption == Wants \subseteq SUBSET File
ASSUME ClaimsAssumption == Claims \subseteq Seq(Claim)

VARIABLES
    spec,      \* the task's Spec: delegation, models, tools
    mem,       \* r.state: the admissions and the shared usage
    durable,   \* the state the task's log yields
    storage,   \* "ok", "artifact" (fatalStorage is set) or "broken" (the log is, too)
    live,      \* ctx.Err() = nil
    root,      \* what the root agent does: "idle" "ask" "look" "reply" "wait"
    failed,    \* a call of the batch returned an error: the run ends with it
    known,     \* primaryDiscovery of this run is complete and large
    receipts,  \* the read catalog of this run
    reports,   \* r.handoffs.reports of this run
    view,      \* the report refreshHandoff goes through, then shown with the request
    sub,       \* the RunSub calls
    version,   \* contents of the files
    \* history
    runs, sent, used   \* runs; model requests and tool attempts of each child

ledger  == <<mem, durable, storage>>
talk    == <<root, failed, known, view>>
catalog == <<receipts, reports>>
spent   == <<sent, used>>
vars    == <<spec, ledger, live, talk, catalog, sub, version, runs, spent>>

NewSub == [pc |-> "none", paths |-> {}, items |-> <<>>]
NoView == [of |-> Root, items |-> <<>>, at |-> 0, since |-> [f \in File |-> 0]]
NoAdmission == [paths |-> {}, models |-> 0, tools |-> 0, status |-> "none"]
Finished == [NewSub EXCEPT !.pc = "done"]

Init ==
    /\ spec \in Specs
    /\ mem = [subs |-> [c \in Child |-> NoAdmission], models |-> 0, tools |-> 0]
    /\ durable = mem /\ storage = "ok" /\ live = TRUE
    /\ root = "idle" /\ failed = FALSE /\ known = FALSE
    /\ receipts = {} /\ reports = [c \in Child |-> <<>>]
    /\ view = NoView
    /\ sub = [c \in Child |-> NewSub]
    /\ version = [f \in File |-> 0]
    /\ runs = 0 /\ sent = [c \in Child |-> 0] /\ used = [c \in Child |-> 0]

-----------------------------------------------------------------------------
(* The ledger.                                                             *)

\* runState.record: the state is changed in memory first; when its append
\* fails, the log may or may not hold it, and takes no other.
Record(s) ==
    /\ mem' = s
    /\ \/ storage # "broken" /\ durable' = s /\ UNCHANGED storage
       \/ storage # "broken" /\ storage' = "broken" /\ durable' \in {durable, s}
       \/ storage = "broken" /\ UNCHANGED <<durable, storage>>

Admitted(s) == {c \in Child : s.subs[c] # NoAdmission}

\* Mutant: one request more than the share.
SubBlocksLate(a, kind) ==
    /\ a \in Admitted(mem)
    /\ \/ mem.subs[a].tools >= ToolLimit
       \/ kind = "model" /\ mem.subs[a].models > ModelLimit

\* checkSubBudgetLocked: a share of tools that is spent stops the model, too.
SubBlocks(a, kind) ==
    /\ a \in Admitted(mem)
    /\ \/ mem.subs[a].tools >= ToolLimit
       \/ kind = "model" /\ mem.subs[a].models >= ModelLimit

TaskBlocks(kind) ==
    \/ mem.tools >= spec.tools
    \/ kind = "model" /\ mem.models >= spec.models

MayReserve(a, kind) == storage = "ok" /\ live /\ ~SubBlocks(a, kind) /\ ~TaskBlocks(kind)

\* chargeSubBudgetLocked, with the shared budget in the same event.
Paid(account, kind) ==
    IF kind = "model" THEN [account EXCEPT !.models = @ + 1]
                      ELSE [account EXCEPT !.tools = @ + 1]

Charged(a, kind) ==
    Paid([mem EXCEPT !.subs = [c \in Child |->
             IF c = a /\ c \in Admitted(mem) THEN Paid(mem.subs[c], kind) ELSE mem.subs[c]]],
         kind)

Reserve(a, kind) == MayReserve(a, kind) /\ Record(Charged(a, kind))

\* delegationVisible.
Visible ==
    /\ Cardinality(Admitted(mem)) < maxDelegatedTasks
    /\ \/ spec.delegation = "on"
       \/ spec.delegation = "auto" /\ known

-----------------------------------------------------------------------------
(* The root agent.                                                         *)

Idle == root = "idle"

\* openTask and the first turn of a run: the state is the log's.
Begin ==
    /\ Idle /\ runs < MaxRuns
    /\ runs' = runs + 1 /\ mem' = durable /\ storage' = "ok" /\ live' = TRUE
    /\ root' = "ask"
    /\ UNCHANGED <<spec, durable, sub, version, spent, catalog>>
    /\ UNCHANGED <<failed, known, view>>

\* The run is over, or its process: what was kept in memory only is gone.
Gone ==
    /\ root' = "idle" /\ failed' = FALSE /\ known' = FALSE
    /\ view' = NoView
    /\ receipts' = {} /\ reports' = [c \in Child |-> <<>>]
    /\ sub' = [c \in Child |-> IF sub[c].pc = "none" THEN NewSub ELSE Finished]
    /\ UNCHANGED <<spec, ledger, live, version, runs, spent>>

Calm == UNCHANGED <<spec, live, version, runs>>

\* readContext, before every request: refreshHandoff goes through the reports.
\* They are independent of each other; one of them is followed here.
Look ==
    /\ root = "ask" /\ root' = "look"
    /\ \/ /\ \A c \in Child : reports[c] = <<>>
          /\ view' = NoView
       \/ \E c \in Child :
             /\ reports[c] # <<>>
             /\ view' = [of |-> c, items |-> reports[c], at |-> 1, since |-> version]
    /\ UNCHANGED <<failed, known, ledger, catalog, sub, spent>> /\ Calm

\* One finding of refreshHandoff: FileVersion against what it cites.
Revised(it) ==
    IF it.status # "unverified" /\ version[it.file] # it.version
    THEN [it EXCEPT !.status = "stale"] ELSE it

Refresh ==
    /\ root = "look" /\ view.at \in DOMAIN view.items
    /\ view' = [view EXCEPT !.at = @ + 1, !.items =
                   [view.items EXCEPT ![view.at] = Revised(view.items[view.at])]]
    /\ UNCHANGED <<root, failed, known, ledger, catalog, sub, spent>> /\ Calm

\* checkHandoffDependencies: a finding stands when it is valid and rests only
\* on findings of its report that do; a circle of them rests on nothing. The
\* search of the code finds the smallest set that has all of those.
Sound(it) == it.status \notin {"stale", "unverified"}
Closed(items, S) == \A i \in DOMAIN items : Sound(items[i]) /\ items[i].on \subseteq S => i \in S
Grounded(items) ==
    {i \in DOMAIN items : \A S \in SUBSET DOMAIN items : Closed(items, S) => i \in S}

\* Mutant: the findings that depend on a revoked one stay.
dependenciesIgnored(items) == items

checkHandoffDependencies(items) ==
    [i \in DOMAIN items |->
        IF i \in Grounded(items) \/ ~Sound(items[i])
        THEN items[i] ELSE [items[i] EXCEPT !.status = "unverified"]]

\* generateRequest: the refreshed findings go out with the request.
Ask ==
    /\ root = "look" /\ view.at \notin DOMAIN view.items
    /\ view' = [view EXCEPT !.items = checkHandoffDependencies(@)]
    /\ Reserve(Root, "model")
    /\ root' = IF storage' = "ok" THEN "reply" ELSE "wait"
    /\ failed' = (storage' # "ok")
    /\ UNCHANGED <<known, catalog, sub, spent>> /\ Calm

\* The run ends: by a text, an error, a budget or the end of ctx.
Working == {c \in Child : sub[c].pc \notin {"none", "done"}}

End ==
    /\ \/ root \in {"ask", "look", "reply"}
       \/ root = "wait" /\ Working = {} /\ (failed \/ storage # "ok" \/ ~live)
    /\ Gone

\* find_files: an unfiltered listing may show a small task, a large one, or
\* be cut off; the last one of the same range counts.
Discover ==
    /\ root = "reply" /\ Reserve(Root, "tool")
    /\ known' \in BOOLEAN /\ view' = NoView
    /\ root' = IF storage' = "ok" THEN "ask" ELSE "wait"
    /\ failed' = (storage' # "ok")
    /\ UNCHANGED <<catalog, sub, spent>> /\ Calm

RootReads(f) ==
    /\ root = "reply" /\ Reserve(Root, "tool")
    /\ receipts' = IF storage' = "ok" THEN receipts \union {<<Root, f, version[f]>>} ELSE receipts
    /\ root' = IF storage' = "ok" THEN "ask" ELSE "wait"
    /\ failed' = (storage' # "ok")
    /\ view' = NoView
    /\ UNCHANGED <<known, reports, sub, spent>> /\ Calm

\* executeBatch: one spawn_subagent, or two side by side, with allowed_paths.
Spawn(C, want) ==
    /\ root = "reply" /\ root' = "wait" /\ view' = NoView
    /\ \A c \in C : sub[c].pc = "none"
    /\ sub' = [c \in Child |->
                  IF c \in C THEN [NewSub EXCEPT !.pc = "call", !.paths = want[c]] ELSE sub[c]]
    /\ UNCHANGED <<failed, known, ledger, catalog, spent>> /\ Calm

Return ==
    /\ root = "wait" /\ Working = {} /\ ~failed /\ storage = "ok" /\ live
    /\ root' = "ask"
    /\ UNCHANGED <<failed, known, view, ledger, catalog, sub, spent>> /\ Calm

-----------------------------------------------------------------------------
(* A sub-agent: RunSub, called by the spawn_subagent tool.                 *)

Go(c, pc) == sub' = [sub EXCEPT ![c].pc = pc]
Quit(c) == sub' = [sub EXCEPT ![c] = Finished]
Keep == UNCHANGED <<known, view>> /\ UNCHANGED <<root, version, runs>>
        /\ UNCHANGED <<spec, live>>

\* execute reserves the attempt for the root agent; an error ends the batch.
Call(c) ==
    /\ sub[c].pc = "call"
    /\ \/ /\ Reserve(Root, "tool")
          /\ IF storage' = "ok" THEN Go(c, "check") ELSE Quit(c)
          /\ failed' = (failed \/ storage' # "ok")
       \/ /\ ~MayReserve(Root, "tool")
          /\ Quit(c) /\ failed' = TRUE /\ UNCHANGED ledger
    /\ UNCHANGED <<catalog, spent>> /\ Keep

\* Is the file covered, for the root agent, by what anybody read of it?
Complete(f) == \E r \in receipts : r[2] = f /\ r[3] = version[f]

\* canonicalSubtaskPaths and expandDelegationPaths: a range is the files in it,
\* and no range means all of them.
canonicalSubtaskPaths(want) == IF want = {} THEN File ELSE want

pathsIntersect(a, b) == a \cap b # {}

\* admitSubtask before it takes the lock. An automatic delegation names unread
\* files.
Check(c) ==
    LET want    == sub[c].paths
        refused == \/ ~live \/ ~Visible
                   \/ spec.delegation = "auto" /\ (want = {} \/ \E f \in want : Complete(f))
    IN /\ sub[c].pc = "check"
       /\ sub' = [sub EXCEPT ![c] = IF refused THEN Finished
                                    ELSE [@ EXCEPT !.pc = "admit",
                                                   !.paths = canonicalSubtaskPaths(want)]]
       /\ UNCHANGED <<failed, ledger, catalog, spent>> /\ Keep

\* Mutant: what was checked before the lock is trusted.
MayAdmitUnchecked(c) == storage = "ok" /\ live /\ c \notin Admitted(mem)

\* The admission itself, in one event of the log.
MayAdmit(c) ==
    /\ storage = "ok" /\ live
    /\ Cardinality(Admitted(mem)) < maxDelegatedTasks
    /\ c \notin Admitted(mem)
    /\ spec.delegation = "auto" => \A d \in Admitted(mem) : ~pathsIntersect(mem.subs[d].paths, sub[c].paths)

Admit(c) ==
    /\ sub[c].pc = "admit"
    /\ \/ /\ MayAdmit(c)
          /\ Record([mem EXCEPT !.subs[c] =
                        [paths |-> sub[c].paths, models |-> 0, tools |-> 0, status |-> "admitted"]])
          /\ IF storage' = "ok" THEN Go(c, "queued") ELSE Quit(c)
       \/ /\ ~MayAdmit(c)
          /\ Quit(c) /\ UNCHANGED ledger
    /\ UNCHANGED <<failed, catalog, spent>> /\ Keep

\* subSlots.
Running == {c \in Working : sub[c].pc \notin {"call", "check", "admit", "queued"}}

Enter(c) ==
    /\ sub[c].pc = "queued"
    /\ \/ Cardinality(Running) < 2 /\ Go(c, "turn")
       \/ ~live /\ Go(c, "finish")
    /\ UNCHANGED <<failed, ledger, catalog, spent>> /\ Keep

\* converse of the sub-agent asks the model. Whatever stops it (a share or a
\* budget that is spent, an error of the model, ctx) ends in failedSubreport.
SubAsks(c) ==
    /\ sub[c].pc = "turn"
    /\ \/ /\ Reserve(c, "model")
          /\ IF storage' = "ok" THEN Go(c, "reply") ELSE Go(c, "finish")
          /\ sent' = [sent EXCEPT ![c] = @ + IF storage' = "ok" THEN 1 ELSE 0]
       \/ /\ ~MayReserve(c, "model")
          /\ Go(c, "stopped") /\ UNCHANGED <<ledger, sent>>
    /\ UNCHANGED <<failed, catalog, used>> /\ Keep

ModelFails(c) ==
    /\ sub[c].pc = "reply" /\ Go(c, "stopped")
    /\ UNCHANGED <<failed, ledger, catalog, spent>> /\ Keep

\* A call of its batch. Files outside its paths are refused, at the same price.
SubReads(c, f) ==
    /\ sub[c].pc \in {"reply", "batch"}
    /\ \/ /\ Reserve(c, "tool")
          /\ IF storage' = "ok" THEN Go(c, "batch") ELSE Go(c, "finish")
          /\ used' = [used EXCEPT ![c] = @ + IF storage' = "ok" THEN 1 ELSE 0]
          /\ receipts' = IF storage' = "ok" /\ f \in sub[c].paths
                         THEN receipts \union {<<c, f, version[f]>>} ELSE receipts
       \/ /\ ~MayReserve(c, "tool")
          /\ Go(c, "stopped") /\ UNCHANGED <<ledger, used, receipts>>
    /\ UNCHANGED <<failed, reports, sent>> /\ Keep

EndBatch(c) ==
    /\ sub[c].pc = "batch" /\ Go(c, "turn")
    /\ UNCHANGED <<failed, ledger, catalog, spent>> /\ Keep

\* A text in the format of decodeIndexedSubreport.
Report(c, claims) ==
    /\ sub[c].pc = "reply"
    /\ sub' = [sub EXCEPT ![c].pc = "verify", ![c].items = [i \in DOMAIN claims |->
                      [file |-> claims[i].file, version |-> claims[i].version,
                       whole |-> claims[i].whole, on |-> claims[i].on, status |-> "claimed"]]]
    /\ UNCHANGED <<failed, ledger, catalog, spent>> /\ Keep

\* checkHandoffFinding: the sub-agent itself has read the cited content, which
\* the file still has; a finding about the whole range needs all of it read.
Holds(c, it) ==
    /\ it.file \in sub[c].paths
    /\ it.version = version[it.file] /\ <<c, it.file, it.version>> \in receipts
    /\ it.whole => \A f \in sub[c].paths : <<c, f, version[f]>> \in receipts

Verified(c, it) ==
    [it EXCEPT !.status = IF Holds(c, it) THEN "position_valid" ELSE "unverified"]

\* One finding after the other.
Verify(c) ==
    /\ sub[c].pc = "verify"
    /\ \E i \in DOMAIN sub[c].items :
          /\ sub[c].items[i].status = "claimed"
          /\ \A j \in 1..(i - 1) : sub[c].items[j].status # "claimed"
          /\ sub' = [sub EXCEPT ![c].items =
                        [sub[c].items EXCEPT ![i] = Verified(c, sub[c].items[i])]]
    /\ UNCHANGED <<failed, ledger, catalog, spent>> /\ Keep

\* finalizeHandoff: the report is an artifact before anybody can ask for it.
Deliver(c, items) ==
    \/ storage = "ok" /\ reports' = [reports EXCEPT ![c] = items] /\ UNCHANGED storage
    \/ storage' = (IF storage = "ok" THEN "artifact" ELSE storage) /\ UNCHANGED reports

Save(c) ==
    /\ sub[c].pc = "verify" /\ \A i \in DOMAIN sub[c].items : sub[c].items[i].status # "claimed"
    /\ Deliver(c, checkHandoffDependencies(sub[c].items)) /\ Go(c, "finish")
    /\ UNCHANGED <<failed, mem, durable, receipts, spent>> /\ Keep

\* failedSubreport: its reads are material, its words are no findings.
SaveFailed(c) ==
    /\ sub[c].pc = "stopped"
    /\ Deliver(c, <<>>) /\ Go(c, "finish")
    /\ UNCHANGED <<failed, mem, durable, receipts, spent>> /\ Keep

\* finishSubtask; the result of the spawn_subagent call is recorded with it.
Finish(c) ==
    /\ sub[c].pc = "finish"
    /\ Record([mem EXCEPT !.subs[c].status = "finished"])
    /\ sub' = [sub EXCEPT ![c] = Finished]
    /\ UNCHANGED <<failed, catalog, spent>> /\ Keep

-----------------------------------------------------------------------------

Cancel ==
    /\ ~Idle /\ live /\ live' = FALSE
    /\ UNCHANGED <<spec, ledger, talk, catalog, sub, version, runs, spent>>

Crash == ~Idle /\ Gone

\* Somebody edits a file.
Edit(f) ==
    /\ \A g \in File : version[g] < MaxEdits
    /\ version' = [version EXCEPT ![f] = @ + 1]
    /\ UNCHANGED <<spec, ledger, live, talk, catalog, sub, runs, spent>>

RootStep ==
    \/ Begin \/ Look \/ Refresh \/ Ask \/ End \/ Discover \/ Return
    \/ \E f \in File : RootReads(f)
    \/ \E C \in SUBSET Child : Cardinality(C) \in 1..2 /\ \E want \in [C -> Wants] : Spawn(C, want)

SubStep(c) ==
    \/ Call(c) \/ Check(c) \/ Admit(c) \/ Enter(c) \/ SubAsks(c) \/ ModelFails(c)
    \/ EndBatch(c) \/ Verify(c) \/ Save(c) \/ SaveFailed(c) \/ Finish(c)
    \/ \E f \in File : SubReads(c, f)
    \/ \E claims \in Claims : Report(c, claims)

Next ==
    \/ RootStep
    \/ \E c \in Child : SubStep(c)
    \/ Cancel \/ Crash
    \/ \E f \in File : Edit(f)

Spec == Init /\ [][Next]_vars

-----------------------------------------------------------------------------
(* Properties.                                                             *)

\* Over all runs of the task at most two sub-agents ever come to work, an
\* automatic delegation gives no file to both, and a restart knows each that
\* did (docs/readonly-efficiency-v2.md:23-27, maxDelegatedTasks).
DelegatesTwice ==
    LET worked == {c \in Child : sent[c] + used[c] > 0} IN
    /\ Cardinality(worked) <= maxDelegatedTasks
    /\ worked \subseteq Admitted(durable)
    /\ spec.delegation = "off" => worked = {}
    /\ spec.delegation = "auto" => \A c, d \in worked :
           c # d => durable.subs[c].paths \cap durable.subs[d].paths = {}

\* No sub-agent sends or tries more than its share, through all interleavings
\* of the two; and what it sent and tried is charged to it and to the task in
\* the log, whatever failed or died.
ShareIsCharged ==
    /\ \A c \in Child : sent[c] + used[c] > 0 =>
          /\ sent[c] <= durable.subs[c].models /\ durable.subs[c].models <= ModelLimit
          /\ used[c] <= durable.subs[c].tools /\ durable.subs[c].tools <= ToolLimit
    /\ \A c \in Child : c \in Admitted(durable) =>
          /\ durable.subs[c].models <= durable.models /\ durable.models <= spec.models
          /\ durable.subs[c].tools <= durable.tools /\ durable.tools <= spec.tools

\* The i-th finding is shown to the model as standing.
Stands(i) == view.items[i].status = "position_valid"

\* Whatever stands in a request rests on content its sub-agent read and the
\* file still had when the request was prepared, and so do the findings it
\* depends on: revoking one revokes what was inferred from it, and only that.
StandingIsCurrent ==
    root = "reply" => \A i \in DOMAIN view.items : Stands(i) =>
        LET it == view.items[i] IN
        /\ <<view.of, it.file, it.version>> \in receipts
        /\ it.version \in view.since[it.file]..version[it.file]
        /\ it.on \subseteq DOMAIN view.items \ {i}
        /\ \A j \in it.on : Stands(j)

=============================================================================
