-------------------------------- MODULE Analysis --------------------------------
(***************************************************************************)
(* A task in analysis mode: internal/engine/analysis_runtime.go and        *)
(* analysis_context.go within loop.go (generateRequest, converse,          *)
(* executeBatch) and subagent.go. An agent reads files, keeps notes of     *)
(* what they say, and asks on with the notes in the place of the text. A   *)
(* note counts where module AnalysisReport finds it sound, and only for    *)
(* reads that the model has had before it.                                 *)
(*                                                                         *)
(* The task's agent may start subagents, each once; they run beside its    *)
(* other calls and their reads may be cited by it, not by one another.     *)
(* Edits, a failing append and the death of the process come in between    *)
(* any two steps. Plans, closings and cancellation are in modules TaskRun  *)
(* and Conversation, the admission of subagents in Delegation.             *)
(***************************************************************************)
EXTENDS AnalysisReport, TLC

CONSTANTS
    Root, Subs,          \* the task's agent, and subagents it may start
    File, Contents,      \* files, and the bytes of their versions
    Tasks,               \* tasks explored: the calls and notes of the model, limits, faults
    MaxSource            \* bytes of sources a request holds (MaxContextBytes)

Agent == {Root} \union Subs

Call == [tool : {"read"}, file : File, q : Request] \union [tool : {"spawn"}, agent : Subs]

ASSUME TasksAssumption ==
    \A t \in Tasks : /\ t.menu \subseteq Call /\ t.notes \subseteq Noting
                     /\ {t.models, t.tools, t.runs, t.edits} \subseteq Nat
                     /\ t.faults \subseteq {"log", "model", "crash"}
ASSUME ContentsAssumption ==
    \A f \in File :
        /\ Contents[f] \in Seq(Seq(Byte)) \ {<<>>}
        /\ \A k \in DOMAIN Contents[f] : ValidText(Contents[f][k])
ASSUME SourceAssumption == MaxSource \in Nat /\ Root \notin Subs

VARIABLES
    task,
    mem,       \* r.state: usage, and the evidence recorded
    durable,   \* the state the task's log yields
    storage,   \* "ok", or "broken" once an append has failed
    runs,      \* runs so far: the number of this one
    \* r.analysisRuntime and r.readReuse, gone with the run
    sources,   \* reads of the run, recorded or not
    next,      \* number of the last of them
    delivered, accepted, exposed,
    \* of each agent
    pc, session, request, batch,
    version, edits,      \* contents of the files
    \* history
    seen,      \* reads that stood whole in a request that was answered
    judged     \* versions of the files when an agent's report was accepted

ledger  == <<mem, durable, storage>>
runtime == <<sources, next, delivered, accepted, exposed>>
talk    == <<pc, session, request, batch>>
world   == <<version, edits>>
past    == <<seen, judged>>
vars    == <<task, ledger, runs, runtime, talk, world, past>>

Content(f) == Contents[f][version[f] + 1]

\* A message is what the user or the task says, an answer with its note, or
\* the result of a call; "ev" is the read it carries (0: none).
Message(kind, note, calls, ev, form) ==
    [kind |-> kind, note |-> note, calls |-> calls, ev |-> ev, form |-> form]
Goal == Message("user", NoNote, 0, 0, "whole")

NoRequest == [messages |-> <<>>, notes |-> {}, summaries |-> {}, delivered |-> {}]

\* What the state holds of an agent: agents of a new run have names of their
\* own, and those of older ones are looked at no more.
NoNotes == [report |-> NoReport, noted |-> FALSE, processed |-> {}, summaries |-> {}]

Init ==
    /\ task \in Tasks
    /\ mem = [models |-> 0, tools |-> 0, evidence |-> <<>>, of |-> [a \in Agent |-> NoNotes]]
    /\ durable = mem /\ storage = "ok" /\ runs = 0
    /\ sources = {} /\ next = 0
    /\ delivered = [a \in Agent |-> {}] /\ accepted = delivered /\ exposed = delivered
    /\ pc = [a \in Agent |-> "off"] /\ session = [a \in Agent |-> <<>>]
    /\ request = [a \in Agent |-> NoRequest] /\ batch = session
    /\ version = [f \in File |-> 0] /\ edits = 0
    /\ seen = {} /\ judged = [a \in Agent |-> version]

-----------------------------------------------------------------------------
(* The ledger and the run's frame.                                         *)

\* runState.record: applied in memory first; when the append fails, the log
\* may or may not hold the event, and takes no other.
Record(s) ==
    /\ mem' = s
    /\ \/ storage = "ok" /\ durable' = s /\ UNCHANGED storage
       \/ /\ storage = "ok" /\ "log" \in task.faults
          /\ storage' = "broken" /\ durable' \in {durable, s}
       \/ storage = "broken" /\ UNCHANGED <<durable, storage>>

MayReserve(what) ==
    /\ storage = "ok" /\ mem.tools < task.tools
    /\ what = "model" => mem.models < task.models
Charged(what) == [mem EXCEPT !.models = @ + (IF what = "model" THEN 1 ELSE 0),
                             !.tools = @ + (IF what = "tool" THEN 1 ELSE 0)]

\* A run begins with nothing at hand of the older ones.
Open ==
    /\ pc[Root] = "off" /\ runs < task.runs
    /\ runs' = runs + 1 /\ storage' = "ok"
    /\ mem' = [durable EXCEPT !.of = [a \in Agent |-> NoNotes]] /\ durable' = mem'
    /\ sources' = {} /\ next' = 0
    /\ delivered' = [a \in Agent |-> {}] /\ accepted' = delivered' /\ exposed' = delivered'
    /\ pc' = [a \in Agent |-> IF a = Root THEN "turn" ELSE "off"]
    /\ session' = [a \in Agent |-> IF a = Root THEN <<Goal>> ELSE <<>>]
    /\ request' = [a \in Agent |-> NoRequest] /\ batch' = [a \in Agent |-> <<>>]
    /\ seen' = {} /\ judged' = [a \in Agent |-> version]
    /\ UNCHANGED <<task, world>>

Goto(a, where) == pc' = [pc EXCEPT ![a] = where]

\* The agent's conversation is over: the run's result, or the subagent's.
End(a) == Goto(a, IF a = Root THEN "over" ELSE "back")

-----------------------------------------------------------------------------
(* What a request is made of.                                              *)

\* Mutant: a read counts before the model has had it.
UsableUnseen(a, needed) ==
    {e \in sources : e.version = version[e.file] /\ (e.agent = a \/ a = Root)}

\* analysisLookup: the reads of this run that a note of the agent may rest on.
\* Their versions are looked at again; if "needed", the agent that read them
\* must have had them in a request that was answered.
Usable(a, needed) ==
    {e \in sources : /\ e.version = version[e.file]
                     /\ e.agent = a \/ a = Root
                     /\ needed => e.id \in delivered[e.agent]}

\* The notes the agent is shown: its own and those of agents it has started.
Shown(a) == {b \in Agent : mem.of[b].noted /\ (b = a \/ a = Root)}

\* An answer whose note was accepted is cut down to its calls.
compactAnalysisAssistant(a, m) ==
    IF m.kind = "answer" /\ m.note \in accepted[a] THEN "short" ELSE m.form

\* prepareAnalysisRequest: of the turns before the last one with calls, an
\* answer whose note was accepted loses its text, and a read is folded if the
\* model has said it is done with it and a note that holds now speaks of it.
prepareAnalysisRequest(a) ==
    LET valid  == {e.id : e \in Usable(a, FALSE)}
        notes  == {ValidateAnalysisReport(mem.of[b].report, Usable(a, TRUE)) : b \in Shown(a)}
        told   == mem.of[a].summaries \intersect valid
        cited  == UNION {UNION {{c.ev : c \in n.findings[k].cites} : k \in DOMAIN n.findings} : n \in notes}
        ms     == session[a]
        latest == Max({0} \union {i \in DOMAIN ms : ms[i].calls > 0})
        form(i) == IF i >= latest THEN ms[i].form
                   ELSE IF /\ ms[i].ev \in valid \intersect mem.of[a].processed
                           /\ ms[i].ev \in told \union cited THEN "folded"
                   ELSE compactAnalysisAssistant(a, ms[i])
        made   == [i \in DOMAIN ms |-> [ms[i] EXCEPT !.form = form(i)]]
    IN [messages |-> made, notes |-> notes, summaries |-> told,
        delivered |-> {made[i].ev : i \in {j \in DOMAIN made : made[j].form = "whole"}} \intersect valid]

\* Reads whose text stands in the request.
Whole(req) == {req.messages[i].ev : i \in {j \in DOMAIN req.messages : req.messages[j].form = "whole"}} \ {0}

\* CompactAnalysisWithin: nothing is dropped to make a request fit.
CompactAnalysisWithin(req) ==
    MapThenSumSet(LAMBDA e : IF e.id \in Whole(req) THEN Len(e.source) ELSE 0, sources) <= MaxSource

\* generateRequest up to the provider.
Ask(a) ==
    LET req == prepareAnalysisRequest(a) IN
    /\ pc[a] = "turn"
    /\ \/ /\ ~CompactAnalysisWithin(req) \/ ~MayReserve("model")
          /\ End(a) /\ UNCHANGED <<ledger, request>>
       \/ /\ CompactAnalysisWithin(req) /\ MayReserve("model")
          /\ Record(Charged("model"))
          /\ request' = [request EXCEPT ![a] = req]
          /\ IF storage' = "ok" THEN Goto(a, "asked") ELSE End(a)
    /\ UNCHANGED <<task, runs, runtime, session, batch, world, past>>

\* The provider fails: nothing has been delivered.
Fail(a) ==
    /\ pc[a] = "asked" /\ "model" \in task.faults /\ End(a)
    /\ UNCHANGED <<task, ledger, runs, runtime, session, request, batch, world, past>>

NewCall(c) == [call |-> c, step |-> "wait", ev |-> 0]

\* A subagent is started once; it starts none.
Batches(a) ==
    LET open == {c \in task.menu : c.tool = "spawn" => a = Root /\ pc[c.agent] = "off"}
    IN {<<c>> : c \in open} \union {<<c, d>> : c, d \in open} \union {<<>>}

\* The model answers with a note, calls, or both: what the request held whole
\* counts as delivered.
Answer(a) ==
    /\ pc[a] = "asked"
    /\ delivered' = [delivered EXCEPT ![a] = @ \union request[a].delivered]
    /\ exposed' = [exposed EXCEPT ![a] = Whole(request[a])]
    /\ seen' = seen \union Whole(request[a])
    /\ \E note \in task.notes \union {NoNote}, calls \in Batches(a) :
          /\ note = NoNote => calls # <<>>
          /\ \A i, j \in DOMAIN calls : i # j /\ calls[i].tool = "spawn" => calls[i] # calls[j]
          /\ batch' = [batch EXCEPT ![a] = [i \in DOMAIN calls |-> NewCall(calls[i])]]
          /\ session' = [session EXCEPT ![a] = Append(@, Message("answer", note, Len(calls), 0, "whole"))]
    /\ Goto(a, "note")
    /\ UNCHANGED <<task, ledger, runs, sources, next, accepted, request, world, judged>>

-----------------------------------------------------------------------------
(* The note of an answer.                                                  *)

\* coverageForPaths of one file: its present version is read to the end, by
\* this agent or, for the task's, by any.
Covered(a, f) ==
    LET mine == {e \in sources : /\ e.file = f /\ e.version = version[f] /\ (e.agent = a \/ a = Root)
                                 /\ e.id \in DOMAIN mem.evidence /\ mem.evidence[e.id] = e}
    IN mine # {} /\ Gaps({[from |-> e.read.from, to |-> e.read.to] : e \in mine}, Len(Content(f))).gaps = <<>>

FilesOf(f) == {(CHOOSE e \in sources : e.id = c.ev).file : c \in f.cites}

\* A finding about a whole file is left to be verified unless each file it
\* cites has been read to the end.
InScope(a, f) == f.scope = "file" => f.cites # {} /\ \A x \in FilesOf(f) : Covered(a, x)

\* A validated report without the findings that are out of scope.
Narrowed(a, first) ==
    LET out   == {k \in DOMAIN first.findings : ~InScope(a, first.findings[k])}
        moved == [Listed(first, IdsAt(first, out), FALSE)
                     EXCEPT !.findings = Chosen(@, DOMAIN first.findings \ out)]
    IN IF out = {} THEN first ELSE ValidateAnalysisReport(moved, Usable(a, TRUE))

\* The report that is kept.
Checked(a, report) == Narrowed(a, ValidateAnalysisReport(report, Usable(a, TRUE)))

\* What acceptAnalysis records: a read counts as processed from now on if the
\* agent has had it and a finding or a summary speaks of it.
Recorded(a, r) ==
    LET told == mem.of[a].summaries \union (r.summaries \intersect delivered[a])
        cited == UNION {{c.ev : c \in r.findings[k].cites} : k \in DOMAIN r.findings}
        done  == r.processed \intersect delivered[a] \intersect (told \union cited)
    IN [mem EXCEPT !.of[a] = [report |-> r, noted |-> TRUE, summaries |-> told,
                              processed |-> mem.of[a].processed \union done]]

\* acceptAnalysis. A note beside calls is merged with the report so far; one
\* that does not fit leaves it as it is, and its text stays in the requests.
\* The last answer is the report itself, and must hold a finding.
Accept(a) ==
    LET answer == Last(session[a])
        note   == answer.note
        final  == answer.calls = 0
        old    == mem.of[a]
        report == IF old.noted /\ ~final THEN mergeAnalysisReports(old.report, note.report) ELSE note.report
        fits   == ParseAnalysisReport(note) /\ checkAnalysisStructure(report)
        r      == Checked(a, report)
    IN /\ pc[a] = "note"
       /\ \/ /\ ~fits
             /\ IF final THEN End(a) ELSE Goto(a, "batch")
             /\ UNCHANGED <<ledger, accepted, judged>>
          \/ /\ fits
             /\ Record(Recorded(a, r))
             /\ judged' = [judged EXCEPT ![a] = version]
             /\ accepted' = IF storage' = "ok" /\ (final => HasCore(r))
                            THEN [accepted EXCEPT ![a] = @ \union {note}] ELSE accepted
             /\ IF final /\ storage' = "ok" /\ HasCore(r) /\ a = Root THEN Goto(a, "answered")
                ELSE IF final \/ storage' # "ok" THEN End(a) ELSE Goto(a, "batch")
       /\ UNCHANGED <<task, runs, sources, next, delivered, exposed, session, request, batch, world, seen>>

-----------------------------------------------------------------------------
(* The calls of an answer, side by side.                                   *)

Recorded1(e) == e.id \in DOMAIN mem.evidence /\ mem.evidence[e.id] = e
Key(q) == [q EXCEPT !.numbered = FALSE]

\* rejectDuplicateRead: the agent has the text before it, or has processed it.
IsRepeated(a, c) ==
    LET owned == {e \in sources : e.agent = a /\ Recorded1(e)} IN
    \E e \in owned :
        /\ e.id \in exposed[a] \union mem.of[a].processed
        /\ e.file = c.file /\ e.version = version[c.file]
        /\ \/ Key(e.q) = Key(c.q)
           \/ \E x \in owned :
                 /\ x.file = c.file /\ x.version = version[c.file]
                 /\ LET known == knownReadInterval(c.q, x.read, x.source)
                    IN known.known /\ known.from = e.read.from /\ known.to = e.read.to

Step(a, i, x) == batch' = [batch EXCEPT ![a][i] = x]

\* execute up to the tool.
Try(a, i) ==
    LET x == batch[a][i] IN
    /\ pc[a] = "batch" /\ i \in DOMAIN batch[a] /\ x.step = "wait"
    /\ IF MayReserve("tool")
       THEN /\ Record(Charged("tool"))
            /\ Step(a, i, [x EXCEPT !.step = IF storage' # "ok" THEN "lost"
                                             ELSE IF x.call.tool = "read" /\ IsRepeated(a, x.call)
                                             THEN "repeated" ELSE "go"])
       ELSE Step(a, i, [x EXCEPT !.step = "lost"]) /\ UNCHANGED ledger
    /\ UNCHANGED <<task, runs, runtime, pc, session, request, world, past>>

\* captureAnalysisRead: the source is saved and gets the next number; the first
\* one of a run goes on from the evidence recorded.
Capture(a, i) ==
    LET x == batch[a][i]
        c == x.call
        r == executeReadSource(Content(c.file), c.q)
        n == (IF next = 0 THEN Cardinality(DOMAIN mem.evidence) ELSE next) + 1
    IN /\ pc[a] = "batch" /\ i \in DOMAIN batch[a] /\ x.step = "go" /\ c.tool = "read"
       /\ \/ /\ ~r.ok /\ Step(a, i, [x EXCEPT !.step = "done"]) /\ UNCHANGED <<sources, next, storage>>
          \/ /\ r.ok /\ next' = n /\ UNCHANGED storage
             /\ sources' = sources \union
                  {[id |-> n, agent |-> a, file |-> c.file, version |-> version[c.file], q |-> c.q,
                    read |-> r, source |-> Slice(Content(c.file), r.from, r.to), run |-> runs]}
             /\ Step(a, i, [x EXCEPT !.step = "captured", !.ev = n])
          \/ /\ r.ok /\ "log" \in task.faults /\ storage' = "broken"
             /\ Step(a, i, [x EXCEPT !.step = "lost"]) /\ UNCHANGED <<sources, next>>
       /\ UNCHANGED <<task, mem, durable, runs, delivered, accepted, exposed, pc, session, request, world, past>>

\* rememberAnalysisReadLocked.
Kept(id, e) ==
    [mem EXCEPT !.evidence = [n \in DOMAIN @ \union {id} |-> IF n = id THEN e ELSE @[n]]]

\* The event of the result; parallel calls come to it in any order.
Keep(a, i) ==
    LET x == batch[a][i]
        e == CHOOSE e \in sources : e.id = x.ev
    IN /\ pc[a] = "batch" /\ i \in DOMAIN batch[a] /\ x.step \in {"captured", "repeated"}
       /\ \/ /\ storage = "ok"
             /\ Record(IF x.step = "captured" THEN Kept(x.ev, e) ELSE mem)
             /\ Step(a, i, [x EXCEPT !.step = IF storage' = "ok" THEN "done" ELSE "lost"])
          \/ /\ storage # "ok" /\ Step(a, i, [x EXCEPT !.step = "lost"]) /\ UNCHANGED ledger
       /\ UNCHANGED <<task, runs, runtime, pc, session, request, world, past>>

\* RunSub, and its return with what it has found.
Spawn(i) ==
    LET x == batch[Root][i] IN
    /\ pc[Root] = "batch" /\ i \in DOMAIN batch[Root] /\ x.step = "go" /\ x.call.tool = "spawn"
    /\ Goto(x.call.agent, "turn") /\ session' = [session EXCEPT ![x.call.agent] = <<Goal>>]
    /\ Step(Root, i, [x EXCEPT !.step = "running"])
    /\ UNCHANGED <<task, ledger, runs, runtime, request, world, past>>

Return(i) ==
    LET x == batch[Root][i] IN
    /\ pc[Root] = "batch" /\ i \in DOMAIN batch[Root] /\ x.step = "running"
    /\ pc[x.call.agent] = "back"
    /\ \/ storage = "ok" /\ Record(mem)
       \/ storage # "ok" /\ UNCHANGED ledger
    /\ Step(Root, i, [x EXCEPT !.step = IF storage' = "ok" THEN "done" ELSE "lost"])
    /\ UNCHANGED <<task, runs, runtime, pc, session, request, world, past>>

\* All calls have returned: their results go into the session.
EndBatch(a) ==
    LET b == batch[a] IN
    /\ pc[a] = "batch" /\ \A i \in DOMAIN b : b[i].step \in {"done", "lost"}
    /\ session' = [session EXCEPT ![a] =
                      @ \o [i \in DOMAIN b |-> Message("result", NoNote, 0, b[i].ev, "whole")]]
    /\ batch' = [batch EXCEPT ![a] = <<>>]
    /\ IF storage # "ok" \/ \E i \in DOMAIN b : b[i].step = "lost" THEN End(a) ELSE Goto(a, "turn")
    /\ UNCHANGED <<task, ledger, runs, runtime, request, world, past>>

-----------------------------------------------------------------------------
(* What comes in between.                                                  *)

\* The run has ended, and may be resumed; or the process dies.
Leave ==
    /\ \/ pc[Root] = "over"
       \/ pc[Root] # "off" /\ "crash" \in task.faults
    /\ pc' = [a \in Agent |-> "off"]
    /\ UNCHANGED <<task, ledger, runs, runtime, session, request, batch, world, past>>

Edit ==
    /\ edits < task.edits /\ edits' = edits + 1
    /\ \E c \in task.menu : /\ c.tool = "read" /\ version[c.file] + 1 < Len(Contents[c.file])
                            /\ version' = [version EXCEPT ![c.file] = @ + 1]
    /\ UNCHANGED <<task, ledger, runs, runtime, talk, past>>

Next ==
    \/ Open \/ Leave \/ Edit
    \/ \E a \in Agent : \/ Ask(a) \/ Fail(a) \/ Answer(a) \/ Accept(a) \/ EndBatch(a)
                        \/ \E i \in DOMAIN batch[a] : Try(a, i) \/ Capture(a, i) \/ Keep(a, i)
    \/ \E i \in DOMAIN batch[Root] : Spawn(i) \/ Return(i)

Spec == Init /\ [][Next]_vars

-----------------------------------------------------------------------------
(* Properties.                                                             *)

\* Does the quotation stand in the file, within what was read, at these lines?
StandsAt(c, e) ==
    LET s == Contents[e.file][e.version + 1] IN
    \E i \in e.read.from..(e.read.to - Len(c.quote)) :
        /\ Slice(s, i, i + Len(c.quote)) = c.quote
        /\ c.first = 1 + Newlines(Slice(s, 0, i))
        /\ c.last = 1 + Newlines(Slice(s, 0, i + Len(c.quote) - 1))

\* Every finding of a report that was accepted rests on this run: what it
\* quotes stands, at the lines it names, in a read that its reader - the agent
\* or, for the task's, a subagent - had whole in a request that was answered,
\* of the version the file had when the report was accepted; what it depends
\* on is in the report; and if it speaks of a whole file, every byte of it was
\* read (analysisLookup, ValidateAnalysisCitation, acceptAnalysis).
CitedIsSeen ==
    \A a \in Agent : LET r == mem.of[a].report IN
        \A k \in DOMAIN r.findings : LET f == r.findings[k] IN
            /\ ToSet(f.deps) \subseteq IdsOf(r)
            /\ \A c \in f.cites : \E e \in sources :
                  /\ e.id = c.ev /\ (e.agent = a \/ a = Root) /\ e.id \in seen
                  /\ e.version = judged[a][e.file] /\ StandsAt(c, e)
                  /\ f.scope = "file" =>
                        \A b \in 0..(Len(Contents[e.file][e.version + 1]) - 1) :
                            \E x \in sources : /\ x.file = e.file /\ x.version = e.version
                                               /\ b \in x.read.from..(x.read.to - 1)

\* What a request leaves out it still speaks of. A folded read stood whole in
\* a request that was answered, the agent has said that it is done with it, and
\* a finding or a summary in the request speaks of it; of an answer without its
\* text every finding is in the notes, as one that holds or to be verified. And
\* a read refused as repeated is in the last request, whole or folded
\* (prepareAnalysisRequest, mergeAnalysisReports, readReusableLocked).
LeftOutIsNoted ==
    \A a \in Agent :
        LET req   == request[a]
            holds == UNION {ToSet(n.findings) : n \in req.notes}
            said  == {m.note.report : m \in ToSet(session[a])}
        IN /\ pc[a] = "asked" => \A i \in DOMAIN req.messages : LET m == req.messages[i] IN
                /\ m.form = "folded" =>
                      /\ m.ev \in seen /\ \E r \in said : m.ev \in r.processed
                      /\ m.ev \in req.summaries \/ \E f \in holds : \E c \in f.cites : c.ev = m.ev
                /\ m.form = "short" =>
                      \A id \in IdsOf(m.note.report) : \E n \in req.notes :
                          id \in IdsOf(n) \/ id \in ToSet(n.unverified) \/ n.dropped > 0
           /\ \A i \in DOMAIN batch[a] : batch[a][i].step = "repeated" =>
                \E j \in DOMAIN req.messages : \E e \in sources :
                    LET q == batch[a][i].call.q
                        r == executeReadSource(Contents[e.file][e.version + 1], q)
                    IN /\ e.id = req.messages[j].ev /\ e.file = batch[a][i].call.file
                       /\ Key(e.q) = Key(q) \/ (r.ok /\ e.read.from <= r.from /\ r.to <= e.read.to)
=============================================================================
