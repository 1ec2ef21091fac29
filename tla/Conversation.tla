----------------------------- MODULE Conversation -----------------------------
(***************************************************************************)
(* The conversation of a readonly question: internal/engine/loop.go        *)
(* (generateRequest, converse, executeBatch) with what it keeps of the     *)
(* files it reads (read_reuse.go, read_catalog.go, reading_coverage.go)    *)
(* and of the paths it lists in vain (readonly_closing.go). Every request  *)
(* to the model is prepared by internal/context (module Context); what a   *)
(* read returns is module ReadFile.                                        *)
(*                                                                         *)
(* The model asks for calls of the task's menu, one or two at a time, and  *)
(* these run in parallel; edits of the files, a cancellation, a failing    *)
(* append and the death of the process come in between any two steps. The  *)
(* thinking request, plan steps, writing tools and budgets other than      *)
(* those of requests and calls are in module TaskRun.                      *)
(***************************************************************************)
EXTENDS ReadFile, Context

CONSTANTS
    File, Contents,      \* files to read, and the bytes of their versions
    Path,                \* paths to list
    Kinds,               \* what each may be: "dir", "file", "missing", "link"
    Tasks,               \* tasks explored: the menu, the size of the system's message,
                         \* the limits; the faults, runs and edits explored
    FindLimit,           \* maxFindMatches
    Header               \* size of the head of a result

\* "review" is the action a repeated read names as its target (0: none).
Call == [tool : {"read"}, file : File, q : Request, review : Nat]
        \union [tool : {"find"}] \union [tool : {"list"}, path : Path]

ASSUME TasksAssumption ==
    \A t \in Tasks :
        /\ t.menu \subseteq Call
        /\ t.faults \subseteq {"log", "cancel"}
        /\ {t.system, t.models, t.tools, t.runs, t.edits} \subseteq Nat
ASSUME ContentsAssumption ==
    \A f \in File :
        /\ Contents[f] \in Seq(Seq(Byte)) \ {<<>>}
        /\ \A k \in DOMAIN Contents[f] : ValidText(Contents[f][k])
ASSUME KindsAssumption == Kinds \in [Path -> SUBSET {"dir", "file", "missing", "link"}]
ASSUME SizesAssumption == {FindLimit, Header} \subseteq Nat \ {0}

Repeats == 3     \* refusals that stop the exploration

VARIABLES
    task,
    mem,        \* r.state: usage, failure boundaries, closings
    durable,    \* the state the task's log yields
    storage,    \* "ok", or "broken" once an append has failed
    live,       \* ctx.Err() = nil
    pc, stop,   \* where the run is, and what it ends with
    history,    \* the session
    request,    \* the messages of the request in flight, or answered last
    batch, at,  \* the calls of the answer with their results; the result noted next
    failures,   \* calls that failed, as often as they did in a row
    records, exposed,    \* r.readReuse: reads of this run; those the model has before it
    receipts, manifest,  \* r.reads and the primary discovery
    cover,      \* the report readingCoverage is making
    version, kind,       \* contents of the files, and what the paths are
    \* history
    runs, edits, acts, refusals, closed, ids

ledger == <<mem, durable, storage>>
talk   == <<history, request, failures>>
reuse  == <<records, exposed, receipts, manifest>>
world  == <<version, kind, edits>>
past   == <<runs, acts, refusals, closed, ids>>
vars   == <<task, ledger, live, pc, stop, talk, batch, at, reuse, cover, world, past>>

NoBoundary == [id |-> 0, count |-> 0, stopped |-> FALSE, resolved |-> FALSE]
NoManifest == [known |-> FALSE, truncated |-> FALSE]
NoCover    == [left |-> {}, complete |-> {}, recorded |-> FALSE, since |-> [f \in File |-> 0]]
Never      == [c \in {} |-> 0]

Put(f, k, v) == [x \in DOMAIN f \union {k} |-> IF x = k THEN v ELSE f[x]]

Content(f) == Contents[f][version[f] + 1]

Init ==
    /\ task \in Tasks
    /\ mem = [models |-> 0, tools |-> 0, bounds |-> [p \in Path |-> NoBoundary],
              stopId |-> 0, closings |-> Never]
    /\ durable = mem /\ storage = "ok" /\ live = TRUE
    /\ pc = "idle" /\ stop = "" /\ history = <<>> /\ request = <<>>
    /\ batch = <<>> /\ at = 1 /\ failures = Never
    /\ records = {} /\ exposed = {} /\ receipts = {} /\ manifest = NoManifest
    /\ cover = NoCover
    /\ version = [f \in File |-> 0] /\ kind = [p \in Path |-> "file"] /\ edits = 0
    /\ runs = 0 /\ acts = 0 /\ refusals = [p \in Path |-> 0] /\ closed = Never /\ ids = 0

-----------------------------------------------------------------------------
(* The ledger and the run's frame.                                         *)

\* runState.record: applied in memory first; when the append fails, the log
\* may or may not hold the event, and takes no other.
Record(s) ==
    /\ mem' = s
    /\ \/ storage = "ok" /\ durable' = s /\ UNCHANGED storage
       \/ /\ storage = "ok" /\ "log" \in task.faults
          /\ storage' = "broken" /\ durable' \in {durable, s}
       \/ storage = "broken" /\ UNCHANGED <<durable, storage>>

\* reserve, for a request ("model") or a call ("tool").
MayReserve(what) ==
    /\ storage = "ok" /\ live
    /\ mem.tools < task.tools
    /\ what = "model" => mem.models < task.models
Charged(what) == [mem EXCEPT !.models = @ + (IF what = "model" THEN 1 ELSE 0),
                             !.tools = @ + (IF what = "tool" THEN 1 ELSE 0)]
Reserve(what) == MayReserve(what) /\ Record(Charged(what))

\* What a refused reservation ends the run with.
Refusal == IF storage # "ok" THEN "failed" ELSE IF ~live THEN "cancelled" ELSE "limit"

GoTo(where) == pc' = where
EndWith(reason) == pc' = "end" /\ stop' = reason
Next1(where) == IF storage' = "ok" THEN pc' = where /\ UNCHANGED stop ELSE EndWith("failed")

Calm == UNCHANGED <<task, live, world>>

\* What a run kept in memory only.
Forget ==
    /\ request' = <<>> /\ batch' = <<>> /\ at' = 1 /\ failures' = Never /\ stop' = ""
    /\ records' = {} /\ exposed' = {} /\ receipts' = {} /\ manifest' = NoManifest
    /\ cover' = NoCover

\* Run: the log is read; a session that outlived the last run is taken up.
Open ==
    /\ pc = "idle" /\ runs < task.runs
    /\ runs' = runs + 1 /\ mem' = durable /\ storage' = "ok" /\ live' = TRUE
    /\ \E h \in {<<>>, history} : history' = Append(h, Text("user", 1))
    /\ GoTo(IF runs > 0 THEN "resume" ELSE "turn")
    /\ UNCHANGED <<task, durable, stop, request, failures, batch, at, reuse, cover, world>>
    /\ UNCHANGED <<acts, refusals, closed, ids>>

\* The boundary with this identity, if it still stands.
Standing(id) == {p \in Path : mem.bounds[p].id = id /\ id # 0
                              /\ mem.bounds[p].stopped /\ ~mem.bounds[p].resolved}

\* Mutant: the run stays stopped at a boundary that is gone.
ResolvedStops(s, p) == [s EXCEPT !.bounds[p].resolved = TRUE]

Resolved(s, p) ==
    [s EXCEPT !.bounds[p].resolved = TRUE,
              !.stopId = IF @ = s.bounds[p].id THEN 0 ELSE @]

\* What list_dir and PathIsDirectory find at a path: a link is not followed.
PathIsDirectory(p) ==
    CASE kind[p] = "dir" -> "listed" [] kind[p] = "file" -> "notdir" [] OTHER -> "bad"

\* resumedReadonlyStop: only the type of the path the last run stopped at is
\* looked at again, which a run that was cancelled cannot.
Resume ==
    /\ pc = "resume"
    /\ \/ Standing(mem.stopId) = {} /\ GoTo("turn") /\ UNCHANGED <<stop, ledger>>
       \/ Standing(mem.stopId) # {} /\ ~live /\ EndWith("cancelled") /\ UNCHANGED ledger
       \/ live /\ \E p \in Standing(mem.stopId) :
             \/ /\ PathIsDirectory(p) = "listed" \/ kind[p] = "missing"
                /\ Record(Resolved(mem, p)) /\ Next1("turn")
             \/ /\ PathIsDirectory(p) = "notdir"
                /\ Record(mem) /\ EndWith(IF storage' = "ok" THEN "repeat" ELSE "failed")
             \/ kind[p] = "link" /\ EndWith("blocked") /\ UNCHANGED ledger
    /\ UNCHANGED <<talk, batch, at, reuse, cover, past>> /\ Calm

-----------------------------------------------------------------------------
(* A request and its answer.                                               *)

\* readContext drops the receipts of versions that are gone.
Current == {r \in receipts : r.version = version[r.file]}

Prepared == CompactWithin(<<Text("system", task.system)>> \o GetWorkingMemory(history))

\* The top of converse's loop and generateRequest up to the provider.
Ask ==
    LET ms == Prepared IN
    /\ pc = "turn"
    /\ \/ /\ mem.tools >= task.tools \/ ~live
          /\ EndWith(Refusal) /\ UNCHANGED <<ledger, request, receipts>>
       \/ /\ mem.tools < task.tools /\ live
          /\ receipts' = Current /\ request' = ms
          /\ \/ ms = <<>> /\ EndWith("blocked") /\ UNCHANGED ledger
             \/ ms # <<>> /\ Reserve("model") /\ Next1("asked")
             \/ ms # <<>> /\ ~MayReserve("model") /\ EndWith(Refusal) /\ UNCHANGED ledger
    /\ UNCHANGED <<history, failures, batch, at, records, exposed, manifest, cover, past>> /\ Calm

\* Mutant: what was once before the model counts as still there.
markReadExposureKept(ms) ==
    exposed \union {r.act : r \in {x \in records : \E i \in DOMAIN ms :
        ms[i].of # 0 /\ ms[i].act = x.act /\ ms[i].form = "whole"}}

\* Reads whose result is whole in the request.
markReadExposure(ms) ==
    {r.act : r \in {x \in records : \E i \in DOMAIN ms :
        ms[i].of # 0 /\ ms[i].act = x.act /\ ms[i].form = "whole"}}

NewCall(c) == [call |-> c, step |-> "wait", result |-> "none", act |-> 0, bytes |-> 0,
               kept |-> FALSE, error |-> FALSE, seen |-> 0, bound |-> 0]

Batches == {<<c>> : c \in task.menu} \union {<<c, d>> : c, d \in task.menu}

\* The model asks for calls.
Answer ==
    /\ pc = "asked"
    /\ exposed' = markReadExposure(request)
    /\ \E calls \in Batches :
          /\ batch' = [i \in DOMAIN calls |-> NewCall(calls[i])]
          /\ history' = Append(history, [Text("assistant", 1) EXCEPT !.calls = DOMAIN calls])
    /\ GoTo("batch")
    /\ UNCHANGED <<stop, ledger, request, failures, at, records, receipts, manifest, cover, past>>
    /\ Calm

\* It delivers a text, or fails.
Deliver ==
    /\ pc = "asked"
    /\ \/ /\ EndWith("answered")
          /\ exposed' = markReadExposure(request)
          /\ history' = Append(history, Text("assistant", 1))
       \/ /\ EndWith(IF live THEN "failed" ELSE "cancelled")
          /\ UNCHANGED <<exposed, history>>
    /\ UNCHANGED <<ledger, request, failures, batch, at, records, receipts, manifest, cover, past>>
    /\ Calm

-----------------------------------------------------------------------------
(* The calls of the answer, side by side.                                  *)

Key(q) == [q EXCEPT !.numbered = FALSE]

\* rejectDuplicateRead without a review: an action whose result the model has
\* before it, at the version the file has now, was the same request, or holds
\* the very interval that any read of that version shows the request to be.
IsShown(c) ==
    \E r \in records :
        /\ r.act \in exposed /\ r.file = c.file /\ r.version = version[c.file]
        /\ \/ Key(r.q) = Key(c.q)
           \/ \E x \in records :
                 /\ x.file = r.file /\ x.version = version[c.file]
                 /\ LET known == knownReadInterval(c.q, x.read, x.source)
                    IN known.known /\ known.from = r.read.from /\ known.to = r.read.to

\* With one: the target must be a read of this file at its present version.
ReviewFits(c) == \E r \in records : r.act = c.review /\ r.file = c.file /\ r.version = version[c.file]

Step(i, x) == batch' = [batch EXCEPT ![i] = x]

\* execute up to the tool: the attempt is charged, a repeated read refused.
Try(i) ==
    LET c == batch[i].call IN
    /\ pc = "batch" /\ i \in DOMAIN batch /\ batch[i].step = "wait"
    /\ \/ /\ Reserve("tool")
          /\ LET go == IF c.tool # "read" THEN "go"
                       ELSE IF c.review # 0 THEN IF ReviewFits(c) THEN "go" ELSE "bad"
                       ELSE IF IsShown(c) THEN "shown" ELSE "go"
             IN Step(i, IF storage' # "ok" THEN [batch[i] EXCEPT !.step = "done", !.error = TRUE]
                        ELSE [batch[i] EXCEPT !.step = go,
                                 !.seen = IF c.tool = "read" THEN version[c.file] ELSE 0])
       \/ /\ ~MayReserve("tool")
          /\ Step(i, [batch[i] EXCEPT !.step = "done", !.error = TRUE])
          /\ UNCHANGED ledger
    /\ UNCHANGED <<pc, stop, talk, at, reuse, cover, past>> /\ Calm

\* The result; one whose event fails is handed to the model all the same.
Done(i, result, act, bytes) ==
    Step(i, [batch[i] EXCEPT !.step = "done", !.result = result, !.act = act, !.bytes = bytes,
                             !.kept = (storage = "ok"), !.error = storage' # "ok" \/ ~live])

\* The tool, and the event of its result; an earlier failure of the log comes
\* before the event.
Refuse(i) ==
    /\ batch[i].step \in {"shown", "bad"}
    /\ IF storage = "ok" THEN Record(mem) ELSE UNCHANGED ledger
    /\ Done(i, batch[i].step, 0, 0)
    /\ UNCHANGED <<reuse, acts, refusals>>

Read(i) ==
    LET c == batch[i].call
        r == executeReadSource(Content(c.file), c.q)
        a == acts + 1
    IN /\ batch[i].step = "go" /\ c.tool = "read"
       /\ IF storage = "ok" THEN Record(mem) ELSE UNCHANGED ledger
       /\ IF r.ok THEN Done(i, "read", a, r.to - r.from) ELSE Done(i, "bad", 0, 0)
       /\ acts' = IF r.ok THEN a ELSE acts
       /\ IF r.ok /\ storage = "ok"
          THEN /\ records' = records \union
                    {[act |-> a, file |-> c.file, q |-> c.q, version |-> version[c.file],
                      read |-> r, source |-> Slice(Content(c.file), r.from, r.to)]}
               /\ receipts' = receipts \union
                    {[file |-> c.file, version |-> version[c.file], from |-> r.from, to |-> r.to]}
          ELSE UNCHANGED <<records, receipts>>
       /\ UNCHANGED <<exposed, manifest, refusals>>

\* walkFindFiles of the whole workspace: at its limit it stops.
walkFindFiles == [known |-> TRUE, truncated |-> Cardinality(File) >= FindLimit]

Find(i) ==
    /\ batch[i].step = "go" /\ batch[i].call.tool = "find"
    /\ IF storage = "ok" THEN Record(mem) ELSE UNCHANGED ledger
    /\ manifest' = IF storage # "ok" THEN manifest
                   ELSE walkFindFiles
    /\ Done(i, "read", 0, 1)
    /\ UNCHANGED <<records, exposed, receipts, acts, refusals>>

\* list_dir refuses what is no directory; a link it refuses otherwise.
List(i) ==
    LET p == batch[i].call.path IN
    /\ batch[i].step = "go" /\ batch[i].call.tool = "list"
    /\ IF storage = "ok" THEN Record(mem) ELSE UNCHANGED ledger
    /\ Done(i, PathIsDirectory(p), 0, 0)
    /\ refusals' = IF PathIsDirectory(p) = "notdir" THEN [refusals EXCEPT ![p] = @ + 1] ELSE refusals
    /\ UNCHANGED <<reuse, acts>>

Perform(i) ==
    /\ pc = "batch" /\ i \in DOMAIN batch
    /\ Refuse(i) \/ Read(i) \/ Find(i) \/ List(i)
    /\ UNCHANGED <<pc, stop, talk, at, cover, runs, closed, ids>> /\ Calm

\* All calls have returned.
EndBatch ==
    /\ pc = "batch" /\ \A i \in DOMAIN batch : batch[i].step = "done"
    /\ GoTo("note") /\ at' = 1
    /\ UNCHANGED <<stop, ledger, talk, batch, reuse, cover, past>> /\ Calm

-----------------------------------------------------------------------------
(* The results are noted, in the order of the calls.                       *)

\* A refusal at a path whose boundary is resolved opens a new one.
Counted(p, id) ==
    LET old == mem.bounds[p]
        n   == IF old.id = 0 \/ old.resolved THEN 1 ELSE old.count + 1
    IN [id |-> IF n = 1 THEN id ELSE old.id, count |-> n, stopped |-> n >= Repeats, resolved |-> FALSE]

\* noteReadonlyResult; "tracked" is whether it has counted the refusal.
Tracks(x) == x.call.tool = "list" /\ x.result = "notdir" /\ x.kept /\ storage = "ok"

noteReadonlyResult(x) ==
    IF Tracks(x)
    THEN LET b == Counted(x.call.path, ids + 1) IN
         /\ Record([mem EXCEPT !.bounds[x.call.path] = b])
         /\ ids' = IF b.id > ids THEN b.id ELSE ids
         /\ Step(at, [x EXCEPT !.bound = IF b.stopped /\ storage' = "ok" THEN b.id ELSE 0])
    ELSE /\ IF x.call.tool = "list" /\ x.result = "listed"
               /\ mem.bounds[x.call.path].id # 0 /\ ~mem.bounds[x.call.path].resolved
            THEN Record(Resolved(mem, x.call.path)) ELSE UNCHANGED ledger
         /\ UNCHANGED <<ids, batch>>

Failed(x) == x.result \notin {"read", "listed"}
Times(c) == IF c \in DOMAIN failures THEN failures[c] ELSE 0

\* One result: the third failure of the same call in a row ends the run,
\* unless it is counted as a refusal of its path.
Note ==
    LET x == batch[at] IN
    /\ pc = "note" /\ at \in DOMAIN batch
    /\ noteReadonlyResult(x)
    /\ failures' = IF Failed(x) THEN Put(failures, x.call, Times(x.call) + 1)
                   ELSE [c \in DOMAIN failures \ {x.call} |-> failures[c]]
    /\ stop' = IF /\ stop = "" /\ Failed(x) /\ Times(x.call) + 1 >= 3
                  /\ ~(Tracks(x) /\ storage' = "ok")
               THEN "blocked" ELSE stop
    /\ at' = at + 1
    /\ UNCHANGED <<pc, history, request, reuse, cover, runs, acts, refusals, closed>> /\ Calm

Observation(i) ==
    [Text("user", Header + batch[i].bytes) EXCEPT !.of = i, !.act = batch[i].act]

\* The results go into the session, the run goes on or ends. Of the paths
\* that were refused too often, one that still stands is what it stops at.
Close ==
    LET errors == {i \in DOMAIN batch : batch[i].error}
        still  == {i \in DOMAIN batch : Standing(batch[i].bound) # {}}
    IN /\ pc = "note" /\ at \notin DOMAIN batch
       /\ history' = history \o [i \in DOMAIN batch |-> Observation(i)]
       /\ batch' = <<>> /\ at' = 1
       /\ \/ /\ errors # {} \/ storage # "ok"
             /\ EndWith(Refusal) /\ UNCHANGED ledger
          \/ /\ errors = {} /\ storage = "ok" /\ stop # ""
             /\ EndWith(stop) /\ UNCHANGED ledger
          \/ /\ errors = {} /\ storage = "ok" /\ stop = "" /\ still # {}
             /\ Record([mem EXCEPT !.stopId = batch[Min(still)].bound])
             /\ EndWith(IF storage' = "ok" THEN "repeat" ELSE "failed")
          \/ /\ errors = {} /\ storage = "ok" /\ stop = "" /\ still = {}
             /\ GoTo("turn") /\ UNCHANGED <<stop, ledger>>
       /\ UNCHANGED <<request, failures, reuse, cover, past>> /\ Calm

-----------------------------------------------------------------------------
(* The end of the run: what was read, what is left to say.                 *)

\* readingCoverage: the files of the discovery, or those that were read.
Survey ==
    /\ pc = "end"
    /\ cover' = [left |-> IF manifest.known THEN File ELSE {r.file : r \in receipts},
                 complete |-> {}, recorded |-> FALSE, since |-> version]
    /\ GoTo("cover")
    /\ UNCHANGED <<stop, ledger, talk, batch, at, reuse, past>> /\ Calm

\* Mutant: receipts of any version count.
coverageFromManifestAny(f) ==
    LET mine == {[from |-> r.from, to |-> r.to] : r \in {x \in receipts : x.file = f}}
    IN mine # {} /\ live /\ Gaps(mine, Len(Content(f))).gaps = <<>>

\* coverageFromManifest, one file: are the bytes of its present version read?
\* Once ctx is over nothing is looked at.
coverageFromManifest(f) ==
    LET mine == {[from |-> r.from, to |-> r.to] :
                    r \in {x \in receipts : x.file = f /\ x.version = version[f]}}
    IN mine # {} /\ live /\ Gaps(mine, Len(Content(f))).gaps = <<>>

Check(f) ==
    /\ pc = "cover" /\ f \in cover.left
    /\ cover' = [cover EXCEPT !.left = @ \ {f}, !.recorded = @ \/ ~live,
                    !.complete = IF coverageFromManifest(f) THEN @ \union {f} ELSE @]
    /\ UNCHANGED <<pc, stop, ledger, talk, batch, at, reuse, past>> /\ Calm

Status == IF ~manifest.known \/ manifest.truncated \/ cover.recorded THEN "unknown"
          ELSE IF cover.complete = File THEN "complete" ELSE "partial"

\* Mutant: an interrupted closing is asked for again.
MayCloseAgain(id) ==
    /\ storage = "ok" /\ live /\ mem.models < task.models
    /\ Standing(id) # {} /\ (id \in DOMAIN mem.closings => mem.closings[id] # "completed")

\* readonlyBoundaryForStop and reserveReadonlyClosing.
MayClose(id) ==
    /\ storage = "ok" /\ live /\ mem.models < task.models
    /\ Standing(id) # {} /\ id \notin DOMAIN mem.closings

\* partialForStop: a run stopped at a path asks, once for its boundary, for
\* what is known so far, without tools; every other one says what it recorded.
Partial ==
    LET ms == Prepared
        id == mem.stopId
        asks == stop = "repeat" /\ MayClose(id) /\ ms # <<>>
    IN /\ pc = "cover" /\ cover.left = {}
       /\ \/ ~asks /\ GoTo("finish") /\ UNCHANGED <<stop, ledger, request, closed>>
          \/ /\ asks
             /\ Record([mem EXCEPT !.models = @ + 1, !.closings = Put(@, id, "started")])
             /\ request' = ms
             /\ IF storage' = "ok"
                THEN /\ GoTo("closing") /\ UNCHANGED stop
                     /\ closed' = Put(closed, id, 1 + (IF id \in DOMAIN closed THEN closed[id] ELSE 0))
                ELSE GoTo("finish") /\ stop' = "failed" /\ UNCHANGED closed
       /\ UNCHANGED <<history, failures, batch, at, reuse, cover, runs, acts, refusals, ids>> /\ Calm

\* The answer counts if it is a text and asks for no call.
Closed ==
    /\ pc = "closing"
    /\ \E answer \in {"completed", "failed"} :
          Record([mem EXCEPT !.closings[mem.stopId] = answer])
    /\ GoTo("finish") /\ stop' = IF storage' = "ok" THEN stop ELSE "failed"
    /\ UNCHANGED <<talk, batch, at, reuse, cover, past>> /\ Calm

\* "finished": a run that answered is not resumed.
Finish ==
    /\ pc = "finish"
    /\ Record(mem)
    /\ GoTo(IF stop = "answered" /\ storage' = "ok" THEN "answered" ELSE "idle")
    /\ Forget
    /\ UNCHANGED <<history, past>> /\ Calm

-----------------------------------------------------------------------------
(* What comes in between.                                                  *)

Running == pc \notin {"idle", "answered"}

Cancel ==
    /\ Running /\ live /\ live' = FALSE /\ "cancel" \in task.faults
    /\ UNCHANGED <<task, pc, stop, ledger, talk, batch, at, reuse, cover, world, past>>

\* The process dies: its session is gone.
Crash ==
    /\ Running /\ GoTo("idle") /\ history' = <<>>
    /\ Forget
    /\ UNCHANGED <<ledger, past>> /\ Calm

\* Only what the menu names is edited: nothing else is looked at.
Edit ==
    /\ edits < task.edits /\ edits' = edits + 1
    /\ \E c \in task.menu :
          \/ /\ c.tool = "read" /\ version[c.file] + 1 < Len(Contents[c.file])
             /\ version' = [version EXCEPT ![c.file] = @ + 1] /\ UNCHANGED kind
          \/ /\ c.tool = "list" /\ UNCHANGED version
             /\ \E k \in Kinds[c.path] \ {kind[c.path]} : kind' = [kind EXCEPT ![c.path] = k]
    /\ UNCHANGED <<task, live, pc, stop, ledger, talk, batch, at, reuse, cover, past>>

Next ==
    \/ Open \/ Resume \/ Ask \/ Answer \/ Deliver
    \/ \E i \in DOMAIN batch : Try(i) \/ Perform(i)
    \/ EndBatch \/ Note \/ Close
    \/ Survey \/ (\E f \in File : Check(f)) \/ Partial \/ Closed \/ Finish
    \/ Cancel \/ Crash \/ Edit

Spec == Init /\ [][Next]_vars

-----------------------------------------------------------------------------
(* Properties.                                                             *)

\* A read is refused as repeated only if an action whose result stands whole in
\* the very request the model has just answered was the same request, or holds
\* every byte the read would return, of the version the file had when it was
\* compared (rejectDuplicateRead, markReadExposure).
RefusedMeansShown ==
    \A i \in DOMAIN batch : "shown" \in {batch[i].step, batch[i].result} =>
        LET c == batch[i].call
            r == executeReadSource(Contents[c.file][batch[i].seen + 1], c.q)
        IN \E x \in records, k \in DOMAIN request :
              /\ request[k].of # 0 /\ request[k].act = x.act /\ request[k].form = "whole"
              /\ x.file = c.file /\ x.version = batch[i].seen
              /\ \/ Key(x.q) = Key(c.q)
                 \/ r.ok /\ x.read.from <= r.from /\ r.to <= x.read.to

\* "complete" is said of the workspace only if of every file each byte of a
\* version it had while the report was made has been returned by a read of
\* this run (coverageFromManifest).
CompleteIsRead ==
    pc = "cover" /\ cover.left = {} /\ Status = "complete" =>
        \A f \in File : \E v \in cover.since[f]..version[f] :
            \A b \in 0..(Len(Contents[f][v + 1]) - 1) :
                \E x \in records : x.file = f /\ x.version = v /\ b \in x.read.from..(x.read.to - 1)

\* A request opens with the system's message and one of the user, answers every
\* call at once, holds a message of the user if the window does, and keeps the
\* limit (GetWorkingMemory, CompactWithin).
RequestIsLegal ==
    pc \in {"asked", "closing"} =>
        LET Users(ms) == {i \in DOMAIN ms : Plain(ms[i]) /\ ms[i].form # "notice"} IN
        /\ Len(request) > 1 /\ request[1].role = "system" /\ Plain(request[2]) /\ Paired(request)
        /\ Users(GetWorkingMemory(history)) # {} => Users(request) # {}
        /\ Size(request) <= MaxSize

\* Over all runs of the task the model is asked once for a closing of the same
\* boundary, and a boundary counts no refusal twice (reserveReadonlyClosing,
\* noteReadonlyResult, resumedReadonlyStop).
ClosesOnce ==
    /\ \A id \in DOMAIN closed : closed[id] = 1
    /\ \A p \in Path : mem.bounds[p].count <= refusals[p] /\ durable.bounds[p].count <= refusals[p]

\* The log never yields a state that validateReadonlyState refuses to open.
StateStaysValid ==
    LET b == durable.bounds
        known == {p \in Path : b[p].id # 0}
    IN /\ \A p, q \in known : b[p].id = b[q].id => p = q
       /\ \A p \in known : b[p].count >= 1 /\ b[p].stopped = (b[p].count >= Repeats)
       /\ durable.stopId # 0 =>
             \E p \in known : b[p].id = durable.stopId /\ b[p].stopped /\ ~b[p].resolved

=============================================================================
