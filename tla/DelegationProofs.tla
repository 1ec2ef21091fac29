---------------------------- MODULE DelegationProofs ----------------------------
(***************************************************************************)
(* What delegation promises for any number of sub-agents, files, runs and  *)
(* edits and any limits. The three invariants of Delegation follow from    *)
(* one that relates what the log and the memory say of every sub-agent to  *)
(* what it has really sent and tried (LedgerTrue), where a sub-agent       *)
(* stands to its admission (SubsAdmitted), and every finding on its way    *)
(* from a sub-agent to a request to the reads it rests on (ReportsTrue, *)
(* ViewTrue).                                                              *)
(***************************************************************************)
EXTENDS Delegation, FiniteSetTheorems, SequenceTheorems, TLAPS

SubPcs == {"none", "call", "check", "admit", "queued", "turn", "reply", "batch",
           "verify", "stopped", "finish", "done"}

\* Where a sub-agent stands once it has been admitted.
AtWork == {"queued", "turn", "reply", "batch", "verify", "stopped", "finish"}

Admission == [paths : SUBSET File, models : Nat, tools : Nat,
              status : {"none", "admitted", "finished"}]
State == [subs : [Child -> Admission], models : Nat, tools : Nat]

ViewType == [of : Child \union {Root}, items : Seq(Finding), at : Nat, since : [File -> Nat]]
SubType == [pc : SubPcs, paths : SUBSET File, items : Seq(Finding)]

LocalTypes ==
    /\ spec \in Specs
    /\ root \in {"idle", "ask", "look", "reply", "wait"}
    /\ receipts \subseteq (Child \union {Root}) \X File \X Nat
    /\ reports \in [Child -> Seq(Finding)]
    /\ view \in ViewType
    /\ sub \in [Child -> SubType]
    /\ version \in [File -> Versions]
    /\ sent \in [Child -> Nat] /\ used \in [Child -> Nat]

TypeOK ==
    /\ LocalTypes
    /\ mem \in State /\ durable \in State
    /\ storage \in {"ok", "artifact", "broken"}

\* The admissions of a state of the task are within the rules, and its
\* accounts hold at least what was sent and tried.
Admissible(s) ==
    /\ \A c \in Child : s.subs[c].status = "none" => s.subs[c] = NoAdmission
    /\ IsFiniteSet(Admitted(s)) /\ Cardinality(Admitted(s)) <= maxDelegatedTasks
    /\ spec.delegation = "off" => Admitted(s) = {}
    /\ spec.delegation = "auto" =>
           \A c, d \in Admitted(s) : c # d => s.subs[c].paths \cap s.subs[d].paths = {}

Accounted(s, n, u) ==
    \A c \in Child :
        /\ n[c] <= s.subs[c].models /\ u[c] <= s.subs[c].tools
        /\ s.subs[c].models <= ModelLimit /\ s.subs[c].tools <= ToolLimit
        /\ s.subs[c].models <= s.models /\ s.subs[c].tools <= s.tools
        /\ s.models <= spec.models /\ s.tools <= spec.tools

LedgerTrue ==
    /\ Admissible(mem) /\ Admissible(durable)
    /\ Accounted(mem, sent, used) /\ Accounted(durable, sent, used)
    /\ storage # "broken" => mem = durable

\* Nobody works without an admission, and nobody waits for one where
\* delegation is switched off.
SubsAdmitted ==
    \A c \in Child :
        /\ sub[c].pc \in AtWork => c \in Admitted(mem)
        /\ sub[c].pc = "admit" => spec.delegation # "off"
        /\ root = "idle" => sub[c].pc \in {"none", "done"}

\* Findings whose status says that agent a has read what they cite.
Backed(read, a, items) ==
    \A i \in DOMAIN items : items[i].status = "position_valid" =>
        <<a, items[i].file, items[i].version>> \in read

Checked(items) == \A i \in DOMAIN items : items[i].status # "claimed"

\* A finding of the view is of a content the file had since the view was made.
Current(i) ==
    LET it == view.items[i] IN
    it.status = "position_valid" => it.version \in view.since[it.file]..version[it.file]

\* Every report is backed by reads of its sub-agent.
ReportsTrue ==
    \A c \in Child : /\ Backed(receipts, c, sub[c].items)
                     /\ Backed(receipts, c, reports[c]) /\ Checked(reports[c])

ViewTrue ==
    /\ Backed(receipts, view.of, view.items) /\ Checked(view.items)
    /\ view.at = 0 => view.items = <<>>
    /\ \A f \in File : view.since[f] <= version[f]
    /\ root = "look" => \A i \in DOMAIN view.items : i < view.at => Current(i)

IInv == TypeOK /\ LedgerTrue /\ SubsAdmitted /\ ReportsTrue /\ ViewTrue /\ StandingIsCurrent

-----------------------------------------------------------------------------
(* The ledger.                                                             *)

LEMMA PaidShape ==
    ASSUME NEW kind \in {"model", "tool"}
    PROVE  /\ \A x \in Admission :
                LET y == Paid(x, kind) IN
                /\ y \in Admission /\ y.paths = x.paths /\ y.status = x.status
                /\ y.models = x.models + (IF kind = "model" THEN 1 ELSE 0)
                /\ y.tools = x.tools + (IF kind = "model" THEN 0 ELSE 1)
           /\ \A x \in State :
                LET y == Paid(x, kind) IN
                /\ y \in State /\ y.subs = x.subs
                /\ y.models = x.models + (IF kind = "model" THEN 1 ELSE 0)
                /\ y.tools = x.tools + (IF kind = "model" THEN 0 ELSE 1)
<1>1. CASE kind = "model"
  BY <1>1 DEF Paid, Admission, State
<1>2. CASE kind = "tool"
  BY <1>2 DEF Paid, Admission, State
<1>3. QED
  BY <1>1, <1>2

\* The accounts of a state, charged for one model request or one tool call.
LEMMA ChargedShape ==
    ASSUME mem \in State, NEW a \in Child \union {Root}, NEW kind \in {"model", "tool"}
    PROVE  LET t == Charged(a, kind)
               m == IF kind = "model" THEN 1 ELSE 0
               n == IF kind = "model" THEN 0 ELSE 1
           IN /\ t \in State
              /\ t.models = mem.models + m /\ t.tools = mem.tools + n
              /\ \A c \in Child :
                    /\ t.subs[c].paths = mem.subs[c].paths
                    /\ t.subs[c].status = mem.subs[c].status
                    /\ c = a /\ c \in Admitted(mem) =>
                          /\ t.subs[c].models = mem.subs[c].models + m
                          /\ t.subs[c].tools = mem.subs[c].tools + n
                    /\ ~(c = a /\ c \in Admitted(mem)) => t.subs[c] = mem.subs[c]
<1>. DEFINE g == [c \in Child |-> IF c = a /\ c \in Admitted(mem)
                                  THEN Paid(mem.subs[c], kind) ELSE mem.subs[c]]
            s == [mem EXCEPT !.subs = g]
<1>1. \A c \in Child : mem.subs[c] \in Admission
  BY DEF State
<1>2. g \in [Child -> Admission]
  BY <1>1, PaidShape
<1>3. s \in State /\ s.subs = g /\ s.models = mem.models /\ s.tools = mem.tools
  BY <1>2 DEF State
<1>4. Charged(a, kind) = Paid(s, kind)
  BY DEF Charged
<1>. HIDE DEF g, s
<1>5. QED
  BY <1>1, <1>3, <1>4, PaidShape DEF g

\* Two states that agree on what was admitted, when, and over which paths.
LEMMA SameAdmissions ==
    ASSUME NEW s \in State, NEW t \in State, Admissible(s),
           \A c \in Child : /\ t.subs[c].paths = s.subs[c].paths
                            /\ t.subs[c].status = "none" <=> s.subs[c].status = "none"
                            /\ s.subs[c].status = "none" => t.subs[c] = s.subs[c]
    PROVE  Admitted(t) = Admitted(s) /\ Admissible(t)
<1>1. \A c \in Child : s.subs[c] = NoAdmission <=> s.subs[c].status = "none"
  BY DEF Admissible, NoAdmission
<1>2. \A c \in Child : t.subs[c] = NoAdmission <=> t.subs[c].status = "none"
  BY <1>1 DEF NoAdmission
<1>3. Admitted(t) = Admitted(s)
  BY <1>1, <1>2 DEF Admitted
<1>4. \A c \in Child : t.subs[c].status = "none" => t.subs[c] = NoAdmission
  BY <1>2
<1>5. QED
  BY <1>3, <1>4 DEF Admissible, Admitted

\* A charge keeps the ledger's promises, and pays for one request or one
\* call of the sub-agent it is for.
LEMMA ChargedKeeps ==
    ASSUME TypeOK, LedgerTrue, NEW a \in Child \union {Root},
           NEW kind \in {"model", "tool"}, MayReserve(a, kind),
           a \in Child => a \in Admitted(mem)
    PROVE  LET t == Charged(a, kind)
               n == IF kind = "model" /\ a \in Child THEN [sent EXCEPT ![a] = @ + 1] ELSE sent
               u == IF kind = "tool" /\ a \in Child THEN [used EXCEPT ![a] = @ + 1] ELSE used
           IN /\ t \in State /\ Admitted(t) = Admitted(mem) /\ Admissible(t)
              /\ Accounted(t, sent, used) /\ Accounted(t, n, u)
<1>. DEFINE t == Charged(a, kind)
            n == IF kind = "model" /\ a \in Child THEN [sent EXCEPT ![a] = @ + 1] ELSE sent
            u == IF kind = "tool" /\ a \in Child THEN [used EXCEPT ![a] = @ + 1] ELSE used
<1>1. mem \in State /\ sent \in [Child -> Nat] /\ used \in [Child -> Nat] /\ spec \in Specs
  BY DEF TypeOK, LocalTypes
<1>2. /\ t \in State
      /\ t.models = mem.models + (IF kind = "model" THEN 1 ELSE 0)
      /\ t.tools = mem.tools + (IF kind = "model" THEN 0 ELSE 1)
      /\ \A c \in Child :
            /\ t.subs[c].paths = mem.subs[c].paths
            /\ t.subs[c].status = mem.subs[c].status
            /\ c = a /\ c \in Admitted(mem) =>
                  /\ t.subs[c].models = mem.subs[c].models + (IF kind = "model" THEN 1 ELSE 0)
                  /\ t.subs[c].tools = mem.subs[c].tools + (IF kind = "model" THEN 0 ELSE 1)
            /\ ~(c = a /\ c \in Admitted(mem)) => t.subs[c] = mem.subs[c]
  BY <1>1, ChargedShape
<1>. HIDE DEF t
<1>3. Admitted(t) = Admitted(mem) /\ Admissible(t)
  <2>1. \A c \in Child : mem.subs[c].status = "none" => c \notin Admitted(mem)
    BY DEF LedgerTrue, Admissible, Admitted
  <2>2. QED
    BY <1>1, <1>2, <2>1, SameAdmissions DEF LedgerTrue
<1>4. /\ mem.models \in Nat /\ mem.tools \in Nat
      /\ \A c \in Child : mem.subs[c].models \in Nat /\ mem.subs[c].tools \in Nat
  BY <1>1 DEF State, Admission
<1>5. /\ spec.models \in Nat /\ spec.tools \in Nat /\ ModelLimit \in Nat /\ ToolLimit \in Nat
  BY <1>1, SpecsAssumption, LimitsAssumption
<1>6. /\ mem.tools < spec.tools
      /\ kind = "model" => mem.models < spec.models
      /\ a \in Child => /\ mem.subs[a].tools < ToolLimit
                        /\ kind = "model" => mem.subs[a].models < ModelLimit
  BY <1>4, <1>5 DEF MayReserve, SubBlocks, TaskBlocks
<1>7. Accounted(mem, sent, used)
  BY DEF LedgerTrue
<1>8. SUFFICES ASSUME NEW c \in Child
               PROVE  /\ n[c] <= t.subs[c].models /\ u[c] <= t.subs[c].tools
                      /\ sent[c] <= t.subs[c].models /\ used[c] <= t.subs[c].tools
                      /\ t.subs[c].models <= ModelLimit /\ t.subs[c].tools <= ToolLimit
                      /\ t.subs[c].models <= t.models /\ t.subs[c].tools <= t.tools
                      /\ t.models <= spec.models /\ t.tools <= spec.tools
  BY <1>2, <1>3 DEF Accounted, t
<1>9. /\ sent[c] \in Nat /\ used[c] \in Nat
      /\ sent[c] <= mem.subs[c].models /\ used[c] <= mem.subs[c].tools
      /\ mem.subs[c].models <= ModelLimit /\ mem.subs[c].tools <= ToolLimit
      /\ mem.subs[c].models <= mem.models /\ mem.subs[c].tools <= mem.tools
      /\ mem.models <= spec.models /\ mem.tools <= spec.tools
  BY <1>1, <1>7 DEF Accounted
<1>10. /\ n[c] = sent[c] + (IF kind = "model" /\ c = a THEN 1 ELSE 0)
       /\ u[c] = used[c] + (IF kind = "tool" /\ c = a THEN 1 ELSE 0)
  BY <1>1, <1>9
<1>11. /\ t.subs[c].models = mem.subs[c].models + (IF kind = "model" /\ c = a THEN 1 ELSE 0)
       /\ t.subs[c].tools = mem.subs[c].tools + (IF kind = "tool" /\ c = a THEN 1 ELSE 0)
  <2>1. CASE c = a
    BY <1>2, <2>1
  <2>2. CASE c # a
    BY <1>2, <1>4, <2>2
  <2>3. QED
    BY <2>1, <2>2
<1>. HIDE DEF n, u
<1>12. /\ t.models = mem.models + (IF kind = "model" THEN 1 ELSE 0)
       /\ t.tools = mem.tools + (IF kind = "model" THEN 0 ELSE 1)
       /\ mem.subs[c].models \in Nat /\ mem.subs[c].tools \in Nat
  BY <1>2, <1>4
<1>13. c = a => /\ mem.subs[c].tools < ToolLimit
                /\ kind = "model" => mem.subs[c].models < ModelLimit
  BY <1>6
<1>14. n[c] <= t.subs[c].models
  BY <1>4, <1>9, <1>10, <1>11
<1>15. u[c] <= t.subs[c].tools
  BY <1>4, <1>9, <1>10, <1>11
<1>16. sent[c] <= t.subs[c].models /\ used[c] <= t.subs[c].tools
  BY <1>4, <1>9, <1>11
<1>17. t.subs[c].models <= ModelLimit /\ t.subs[c].tools <= ToolLimit
  BY <1>5, <1>9, <1>11, <1>12, <1>13
<1>18. t.subs[c].models <= t.models /\ t.subs[c].tools <= t.tools
  BY <1>4, <1>9, <1>11, <1>12
<1>19. t.models <= spec.models /\ t.tools <= spec.tools
  BY <1>4, <1>5, <1>6, <1>9, <1>12
<1>20. QED
  BY <1>14, <1>15, <1>16, <1>17, <1>18, <1>19

\* What the ledger is after a step; only a new run may forget an admission
\* that its log does not have.
LedgerKept ==
    /\ mem' \in State /\ durable' \in State /\ storage' \in {"ok", "artifact", "broken"}
    /\ LedgerTrue'
    /\ root # "idle" => Admitted(mem) \subseteq Admitted(mem')

LEMMA LedgerSame ==
    ASSUME TypeOK, LedgerTrue, UNCHANGED <<spec, mem, durable, sent, used>>,
           \/ UNCHANGED storage
           \/ storage = "ok" /\ storage' = "artifact"
    PROVE  LedgerKept
<1>1. UNCHANGED <<Admitted(mem), Admitted(durable)>>
  BY DEF Admitted
<1>2. UNCHANGED <<Admissible(mem), Admissible(durable)>>
  BY <1>1 DEF Admissible
<1>3. UNCHANGED <<Accounted(mem, sent, used), Accounted(durable, sent, used)>>
  BY DEF Accounted
<1>4. storage' # "broken" => storage # "broken"
  OBVIOUS
<1>5. QED
  BY <1>1, <1>2, <1>3, <1>4 DEF LedgerKept, LedgerTrue, TypeOK, LocalTypes

LEMMA RecordKeeps ==
    ASSUME TypeOK, LedgerTrue, NEW s \in State, Admissible(s), Accounted(s, sent, used),
           Admitted(mem) \subseteq Admitted(s), Record(s), UNCHANGED <<spec, sent, used>>
    PROVE  LedgerKept /\ mem' = s
<1>1. /\ mem' = s /\ durable' \in {durable, s}
      /\ storage' # "broken" => durable' = s
      /\ storage' \in {"ok", "artifact", "broken"}
  BY DEF Record, TypeOK, LocalTypes
<1>2. Admissible(mem)' /\ Accounted(mem, sent, used)'
  BY <1>1 DEF Admissible, Accounted, Admitted
<1>3. Admissible(durable)' /\ Accounted(durable, sent, used)'
  BY <1>1, ZenonT(40) DEF Admissible, Accounted, Admitted, LedgerTrue
<1>4. (storage # "broken" => mem = durable)'
  BY <1>1
<1>5. Admitted(mem') = Admitted(s)
  BY <1>1
<1>6. QED
  BY <1>1, <1>2, <1>3, <1>4, <1>5 DEF LedgerKept, LedgerTrue, TypeOK, LocalTypes

LEMMA ReserveKeeps ==
    ASSUME TypeOK, LedgerTrue, NEW a \in Child \union {Root}, NEW kind \in {"model", "tool"},
           a \in Child => a \in Admitted(mem), Reserve(a, kind), UNCHANGED <<spec, sent, used>>
    PROVE  LedgerKept
<1>. DEFINE t == Charged(a, kind)
<1>1. MayReserve(a, kind) /\ Record(t)
  BY DEF Reserve
<1>2. t \in State /\ Admitted(t) = Admitted(mem) /\ Admissible(t) /\ Accounted(t, sent, used)
  BY <1>1, ChargedKeeps
<1>. HIDE DEF t
<1>3. QED
  BY <1>1, <1>2, RecordKeeps

\* What is charged and known to be on disk may be used.
LEMMA UseKeeps ==
    ASSUME TypeOK, LedgerTrue, NEW c \in Admitted(mem), NEW kind \in {"model", "tool"},
           Reserve(c, kind), UNCHANGED spec,
           sent' = [sent EXCEPT ![c] = @ + IF kind = "model" /\ storage' = "ok" THEN 1 ELSE 0],
           used' = [used EXCEPT ![c] = @ + IF kind = "tool" /\ storage' = "ok" THEN 1 ELSE 0]
    PROVE  LedgerKept
<1>1. c \in Child /\ sent \in [Child -> Nat] /\ used \in [Child -> Nat]
  BY DEF Admitted, TypeOK, LocalTypes
<1>2. CASE storage' # "ok"
  BY <1>1, <1>2, ReserveKeeps
<1>3. CASE storage' = "ok"
  <2>. DEFINE t == Charged(c, kind)
              n == IF kind = "model" /\ c \in Child THEN [sent EXCEPT ![c] = @ + 1] ELSE sent
              u == IF kind = "tool" /\ c \in Child THEN [used EXCEPT ![c] = @ + 1] ELSE used
  <2>1. MayReserve(c, kind) /\ Record(t)
    BY DEF Reserve
  <2>2. t \in State /\ Admitted(t) = Admitted(mem) /\ Admissible(t) /\ Accounted(t, n, u)
    BY <1>1, <2>1, ChargedKeeps
  <2>3. sent' = n /\ used' = u
    <3>1. [sent EXCEPT ![c] = @ + 0] = sent /\ [used EXCEPT ![c] = @ + 0] = used
      BY <1>1
    <3>2. CASE kind = "model"
      BY <1>1, <1>3, <3>1, <3>2
    <3>3. CASE kind = "tool"
      BY <1>1, <1>3, <3>1, <3>3
    <3>4. QED
      BY <3>2, <3>3
  <2>4. mem' = t /\ durable' = t /\ storage' = "ok"
    BY <1>3, <2>1 DEF Record
  <2>. HIDE DEF t, n, u
  <2>5. Admissible(mem)' /\ Admissible(durable)'
    BY <2>2, <2>4 DEF Admissible, Admitted
  <2>6. Accounted(mem, sent, used)' /\ Accounted(durable, sent, used)'
    BY <2>2, <2>3, <2>4 DEF Accounted, Admitted
  <2>7. QED
    BY <2>2, <2>4, <2>5, <2>6 DEF LedgerKept, LedgerTrue
<1>4. QED
  BY <1>2, <1>3

\* An admission keeps the number of sub-agents and, where the model delegates
\* by itself, their paths apart.
LEMMA AdmitKeeps ==
    ASSUME TypeOK, LedgerTrue, SubsAdmitted, NEW c \in Child, Admit(c)
    PROVE  LedgerKept
<1>. DEFINE t == [mem EXCEPT !.subs[c] = [paths |-> sub[c].paths, models |-> 0, tools |-> 0,
                                         status |-> "admitted"]]
<1>1. CASE MayAdmit(c) /\ Record(t) /\ UNCHANGED <<spec, sent, used>>
  <2>1. mem \in State /\ sub[c].paths \subseteq File /\ spec \in Specs
    BY DEF TypeOK, LocalTypes, SubType
  <2>2. /\ t \in State /\ t.models = mem.models /\ t.tools = mem.tools
        /\ t.subs[c] = [paths |-> sub[c].paths, models |-> 0, tools |-> 0, status |-> "admitted"]
        /\ \A d \in Child : d # c => t.subs[d] = mem.subs[d]
    BY <2>1 DEF State, Admission
  <2>. HIDE DEF t
  <2>3. c \notin Admitted(mem) /\ Cardinality(Admitted(mem)) < 2
    BY <1>1 DEF MayAdmit, maxDelegatedTasks
  <2>4. Admitted(t) = Admitted(mem) \union {c}
    BY <2>2 DEF Admitted, NoAdmission
  <2>5. /\ IsFiniteSet(Admitted(t))
        /\ Cardinality(Admitted(t)) <= maxDelegatedTasks
    <3>1. IsFiniteSet(Admitted(mem))
      BY DEF LedgerTrue, Admissible
    <3>2. Cardinality(Admitted(mem)) \in Nat
      BY <3>1, FS_CardinalityType
    <3>3. /\ IsFiniteSet(Admitted(mem) \union {c})
          /\ Cardinality(Admitted(mem) \union {c}) = Cardinality(Admitted(mem)) + 1
      BY <2>3, <3>1, FS_AddElement
    <3>4. QED
      BY <2>3, <2>4, <3>2, <3>3 DEF maxDelegatedTasks
  <2>6. spec.delegation # "off"
    BY DEF Admit, SubsAdmitted
  <2>7. spec.delegation = "auto" =>
           \A d, e \in Admitted(t) : d # e => t.subs[d].paths \cap t.subs[e].paths = {}
    <3>1. SUFFICES ASSUME spec.delegation = "auto", NEW d \in Admitted(t), NEW e \in Admitted(t), d # e
                   PROVE  t.subs[d].paths \cap t.subs[e].paths = {}
      OBVIOUS
    <3>2. d \in Child /\ e \in Child
      BY DEF Admitted
    <3>3. \A g \in Admitted(mem) : mem.subs[g].paths \cap sub[c].paths = {}
      BY <1>1, <3>1 DEF MayAdmit, pathsIntersect
    <3>4. CASE d = c
      BY <2>2, <2>4, <3>1, <3>2, <3>3, <3>4
    <3>5. CASE e = c
      BY <2>2, <2>4, <3>1, <3>2, <3>3, <3>5
    <3>6. CASE d # c /\ e # c
      BY <2>2, <2>4, <3>1, <3>2, <3>6 DEF LedgerTrue, Admissible
    <3>7. QED
      BY <3>4, <3>5, <3>6
  <2>8. Admissible(t)
    <3>1. \A d \in Child : t.subs[d].status = "none" => t.subs[d] = NoAdmission
      BY <2>2 DEF LedgerTrue, Admissible
    <3>2. QED
      BY <2>5, <2>6, <2>7, <3>1 DEF Admissible
  <2>9. Accounted(t, sent, used)
    <3>1. mem.subs[c] = NoAdmission
      BY <2>3 DEF Admitted
    <3>2. mem.subs[c].models = 0 /\ mem.subs[c].tools = 0
      BY <3>1 DEF NoAdmission
    <3>3. QED
      BY <2>2, <3>2 DEF LedgerTrue, Accounted
  <2>10. QED
    BY <1>1, <2>2, <2>4, <2>8, <2>9, RecordKeeps
<1>2. CASE UNCHANGED <<ledger, spec, sent, used>>
  BY <1>2, LedgerSame DEF ledger
<1>3. QED
  BY <1>1, <1>2 DEF Admit, Keep, spent

LEMMA FinishKeeps ==
    ASSUME TypeOK, LedgerTrue, SubsAdmitted, NEW c \in Child, Finish(c)
    PROVE  LedgerKept
<1>. DEFINE t == [mem EXCEPT !.subs[c].status = "finished"]
<1>1. mem \in State /\ mem.subs[c] \in Admission /\ c \in Admitted(mem)
  BY DEF TypeOK, LocalTypes, State, Finish, SubsAdmitted, AtWork
<1>2. mem.subs[c].status # "none"
  BY <1>1 DEF LedgerTrue, Admissible, Admitted
<1>3. /\ t \in State /\ t.models = mem.models /\ t.tools = mem.tools
      /\ t.subs[c] = [mem.subs[c] EXCEPT !.status = "finished"]
      /\ \A d \in Child : d # c => t.subs[d] = mem.subs[d]
  BY <1>1 DEF State, Admission
<1>. HIDE DEF t
<1>4. \A d \in Child : /\ t.subs[d].paths = mem.subs[d].paths
                       /\ t.subs[d].models = mem.subs[d].models
                       /\ t.subs[d].tools = mem.subs[d].tools
                       /\ t.subs[d].status = "none" <=> mem.subs[d].status = "none"
                       /\ mem.subs[d].status = "none" => t.subs[d] = mem.subs[d]
  BY <1>1, <1>2, <1>3 DEF Admission
<1>5. Admitted(t) = Admitted(mem) /\ Admissible(t)
  BY <1>1, <1>3, <1>4, SameAdmissions DEF LedgerTrue
<1>6. Accounted(t, sent, used)
  BY <1>3, <1>4 DEF LedgerTrue, Accounted
<1>7. Record(t) /\ UNCHANGED <<spec, sent, used>>
  BY DEF Finish, Keep, spent, t
<1>8. QED
  BY <1>3, <1>5, <1>6, <1>7, RecordKeeps

LEMMA LedgerStep ==
    ASSUME TypeOK, LedgerTrue, SubsAdmitted, [Next]_vars
    PROVE  LedgerKept
<1>. USE DEF ledger, talk, catalog, spent, vars, Calm, Keep
<1>1. CASE Begin
  <2>1. mem' = durable /\ durable' = durable /\ storage' = "ok" /\ root = "idle"
        /\ UNCHANGED <<spec, sent, used>>
    BY <1>1 DEF Begin, Idle
  <2>2. Admissible(mem)' /\ Admissible(durable)'
    BY <2>1 DEF LedgerTrue, Admissible, Admitted
  <2>3. Accounted(mem, sent, used)' /\ Accounted(durable, sent, used)'
    BY <2>1 DEF LedgerTrue, Accounted
  <2>4. QED
    BY <2>1, <2>2, <2>3 DEF LedgerKept, LedgerTrue, TypeOK, LocalTypes
<1>2. CASE Look \/ Refresh \/ Return \/ End \/ Cancel \/ Crash \/ \E f \in File : Edit(f)
  BY <1>2, LedgerSame DEF Look, Refresh, Return, End, Gone, Cancel, Crash, Edit
<1>3. CASE Ask \/ Discover \/ \E f \in File : RootReads(f)
  BY <1>3, NamesAssumption, ReserveKeeps DEF Ask, Discover, RootReads
<1>4. CASE \E C \in SUBSET Child : \E want \in [C -> Wants] : Spawn(C, want)
  BY <1>4, LedgerSame DEF Spawn
<1>5. ASSUME NEW c \in Child, SubStep(c)
      PROVE  LedgerKept
  <2>1. CASE Call(c)
    BY <2>1, NamesAssumption, ReserveKeeps, LedgerSame DEF Call
  <2>2. CASE Check(c) \/ Enter(c) \/ ModelFails(c) \/ EndBatch(c) \/ Verify(c)
    BY <2>2, LedgerSame DEF Check, Enter, ModelFails, EndBatch, Verify
  <2>3. CASE Admit(c)
    BY <2>3, AdmitKeeps
  <2>4. CASE SubAsks(c)
    <3>1. c \in Admitted(mem) /\ used \in [Child -> Nat]
      BY <2>4 DEF SubAsks, SubsAdmitted, AtWork, TypeOK, LocalTypes
    <3>2. CASE Reserve(c, "model")
      <4>1. used' = [used EXCEPT ![c] = @ + 0]
        BY <2>4, <3>1 DEF SubAsks
      <4>2. sent' = [sent EXCEPT ![c] = @ + IF storage' = "ok" THEN 1 ELSE 0]
        BY <2>4, <3>2 DEF SubAsks, Reserve
      <4>3. QED
        BY <2>4, <3>1, <3>2, <4>1, <4>2, UseKeeps DEF SubAsks
    <3>3. CASE ~Reserve(c, "model")
      BY <2>4, <3>3, LedgerSame DEF SubAsks
    <3>4. QED
      BY <3>2, <3>3
  <2>5. CASE \E f \in File : SubReads(c, f)
    <3>1. c \in Admitted(mem) /\ sent \in [Child -> Nat]
      BY <2>5 DEF SubReads, SubsAdmitted, AtWork, TypeOK, LocalTypes
    <3>2. CASE Reserve(c, "tool")
      <4>1. sent' = [sent EXCEPT ![c] = @ + 0]
        BY <2>5, <3>1 DEF SubReads
      <4>2. used' = [used EXCEPT ![c] = @ + IF storage' = "ok" THEN 1 ELSE 0]
        BY <2>5, <3>2 DEF SubReads, Reserve
      <4>3. QED
        BY <2>5, <3>1, <3>2, <4>1, <4>2, UseKeeps DEF SubReads
    <3>3. CASE ~Reserve(c, "tool")
      BY <2>5, <3>3, LedgerSame DEF SubReads
    <3>4. QED
      BY <3>2, <3>3
  <2>6. CASE \E claims \in Claims : Report(c, claims)
    BY <2>6, LedgerSame DEF Report
  <2>7. CASE Save(c) \/ SaveFailed(c)
    BY <2>7, LedgerSame DEF Save, SaveFailed, Deliver
  <2>8. CASE Finish(c)
    BY <2>8, FinishKeeps
  <2>9. QED
    BY <1>5, <2>1, <2>2, <2>3, <2>4, <2>5, <2>6, <2>7, <2>8 DEF SubStep
<1>6. CASE UNCHANGED vars
  BY <1>6, LedgerSame
<1>7. QED
  BY <1>1, <1>2, <1>3, <1>4, <1>5, <1>6 DEF Next, RootStep

-----------------------------------------------------------------------------
(* Types.                                                                  *)

\* A finding takes another status, and the rest of a report is left alone.
LEMMA Replaced ==
    ASSUME NEW items \in Seq(Finding), NEW i \in DOMAIN items, NEW x \in Finding
    PROVE  LET new == [items EXCEPT ![i] = x] IN
           /\ new \in Seq(Finding) /\ DOMAIN new = DOMAIN items
           /\ new[i] = x /\ \A j \in DOMAIN items : j # i => new[j] = items[j]
<1>1. items \in [1..Len(items) -> Finding] /\ i \in 1..Len(items)
  BY LenProperties
<1>2. QED
  BY <1>1, ExceptSeq

LEMMA FindingTypes ==
    ASSUME TypeOK, NEW x \in Finding
    PROVE  /\ Revised(x) \in Finding
           /\ \A c \in Child : Verified(c, x) \in Finding
BY DEF Finding, Revised, Verified

\* What the variables start from and return to.
LEMMA ValuesTyped ==
    /\ <<>> \in Seq(Finding) /\ NoView \in ViewType
    /\ NewSub \in SubType /\ Finished \in SubType
    /\ \A paths \in SUBSET File : [NewSub EXCEPT !.pc = "call", !.paths = paths] \in SubType
<1>1. <<>> \in Seq(Finding)
  BY EmptySeq
<1>2. NewSub \in SubType
  BY <1>1 DEF NewSub, SubPcs, SubType
<1>3. Finished \in SubType
  BY <1>1 DEF NewSub, SubPcs, Finished, SubType
<1>4. ASSUME NEW paths \in SUBSET File
      PROVE  [NewSub EXCEPT !.pc = "call", !.paths = paths] \in SubType
  BY <1>1 DEF NewSub, SubPcs, SubType
<1>5. QED
  BY <1>1, <1>2, <1>3, <1>4 DEF NoView, ViewType

\* Findings are revoked by their dependencies, one by one.
LEMMA DependenciesTyped ==
    ASSUME NEW items \in Seq(Finding)
    PROVE  LET new == checkHandoffDependencies(items) IN
           /\ new \in Seq(Finding) /\ DOMAIN new = DOMAIN items
           /\ \A i \in DOMAIN items :
                 \/ new[i] = items[i]
                 \/ new[i] = [items[i] EXCEPT !.status = "unverified"]
<1>. DEFINE new == checkHandoffDependencies(items)
<1>1. Len(items) \in Nat /\ items \in [1..Len(items) -> Finding]
  BY LenProperties
<1>2. \A x \in Finding : [x EXCEPT !.status = "unverified"] \in Finding
  BY DEF Finding
<1>3. new \in [1..Len(items) -> Finding]
  BY <1>1, <1>2 DEF checkHandoffDependencies
<1>4. new \in Seq(Finding)
  BY <1>1, <1>3, SeqDef
<1>5. QED
  BY <1>1, <1>3, <1>4 DEF checkHandoffDependencies

LEMMA RootTypes ==
    ASSUME TypeOK, RootStep
    PROVE  LocalTypes'
<1>. USE DEF ledger, talk, catalog, spent, Calm
<1>0. LocalTypes
  BY DEF TypeOK
<1>1. CASE Begin \/ Discover \/ Return
  BY <1>0, <1>1, ValuesTyped DEF Begin, Discover, Return, LocalTypes
<1>2. CASE Ask
  <2>1. checkHandoffDependencies(view.items) \in Seq(Finding)
    BY <1>0, DependenciesTyped DEF LocalTypes, ViewType
  <2>2. view' \in ViewType
    BY <1>0, <1>2, <2>1 DEF Ask, LocalTypes, ViewType
  <2>3. QED
    BY <1>0, <1>2, <2>2 DEF Ask, LocalTypes
<1>3. CASE Look
  <2>1. version \in [File -> Nat]
    BY <1>0, LimitsAssumption DEF Versions, LocalTypes
  <2>2. \A c \in Child : [of |-> c, items |-> reports[c], at |-> 1, since |-> version] \in ViewType
    BY <1>0, <2>1 DEF LocalTypes, ViewType
  <2>3. QED
    BY <1>0, <1>3, <2>2, ValuesTyped DEF Look, LocalTypes
<1>4. CASE Refresh
  <2>. DEFINE i == view.at
              new == [view.items EXCEPT ![i] = Revised(view.items[i])]
  <2>1. view.items \in Seq(Finding) /\ i \in DOMAIN view.items
    BY <1>0, <1>4 DEF Refresh, LocalTypes, ViewType
  <2>2. Revised(view.items[i]) \in Finding
    BY <2>1, LenProperties, FindingTypes
  <2>3. new \in Seq(Finding)
    BY <2>1, <2>2, Replaced
  <2>4. /\ view' = [view EXCEPT !.at = view.at + 1, !.items = new]
        /\ UNCHANGED <<spec, root, catalog, sub, version, spent>>
    BY <1>4 DEF Refresh
  <2>. HIDE DEF new
  <2>5. view' = [of |-> view.of, items |-> new, at |-> view.at + 1, since |-> view.since]
    BY <1>0, <2>4 DEF LocalTypes, ViewType
  <2>6. view' \in ViewType
    BY <1>0, <2>3, <2>5 DEF LocalTypes, ViewType
  <2>7. QED
    BY <1>0, <2>4, <2>6 DEF LocalTypes
<1>5. CASE End
  BY <1>0, <1>5, ValuesTyped DEF End, Gone, LocalTypes
<1>6. CASE \E f \in File : RootReads(f)
  <2>1. \A f \in File : version[f] \in Nat
    BY <1>0, LimitsAssumption DEF Versions, LocalTypes
  <2>2. receipts' \subseteq (Child \union {Root}) \X File \X Nat
    BY <1>0, <1>6, <2>1 DEF RootReads, LocalTypes
  <2>3. root' \in {"ask", "wait"} /\ view' = NoView /\ UNCHANGED <<spec, reports, sub, version, spent>>
    BY <1>6 DEF RootReads
  <2>4. QED
    BY <1>0, <2>2, <2>3, ValuesTyped DEF LocalTypes
<1>7. CASE \E C \in SUBSET Child : \E want \in [C -> Wants] : Spawn(C, want)
  <2>1. PICK C \in SUBSET Child : \E want \in [C -> Wants] : Spawn(C, want)
    BY <1>7
  <2>2. PICK want \in [C -> Wants] : Spawn(C, want)
    BY <2>1
  <2>3. \A c \in C : want[c] \in SUBSET File
    BY WantsAssumption
  <2>4. sub' \in [Child -> SubType]
    BY <1>0, <2>2, <2>3, ValuesTyped DEF Spawn, LocalTypes
  <2>5. QED
    BY <1>0, <2>2, <2>4, ValuesTyped DEF Spawn, LocalTypes
<1>8. QED
  BY <1>1, <1>2, <1>3, <1>4, <1>5, <1>6, <1>7 DEF RootStep

LEMMA SubTypes ==
    ASSUME TypeOK, NEW c \in Child, SubStep(c)
    PROVE  LocalTypes'
<1>. USE DEF ledger, talk, catalog, spent, Keep, Go, Quit
<1>0. LocalTypes
  BY DEF TypeOK
<1>1. \A pc \in SubPcs : [sub EXCEPT ![c].pc = pc] \in [Child -> SubType]
  BY <1>0 DEF LocalTypes, SubType
<1>2. [sub EXCEPT ![c] = Finished] \in [Child -> SubType]
  BY <1>0, ValuesTyped DEF LocalTypes
<1>3. {"check", "admit", "queued", "turn", "reply", "batch", "verify", "stopped", "finish"}
         \subseteq SubPcs
  BY DEF SubPcs
<1>4. CASE Call(c) \/ Admit(c) \/ Enter(c) \/ ModelFails(c) \/ EndBatch(c) \/ Finish(c)
  <2>1. sub' \in [Child -> SubType]
    BY <1>1, <1>2, <1>3, <1>4 DEF Call, Admit, Enter, ModelFails, EndBatch, Finish
  <2>2. UNCHANGED <<spec, root, catalog, view, version, spent>>
    BY <1>4 DEF Call, Admit, Enter, ModelFails, EndBatch, Finish
  <2>3. QED
    BY <1>0, <2>1, <2>2 DEF LocalTypes
<1>5. CASE Check(c)
  <2>1. canonicalSubtaskPaths(sub[c].paths) \subseteq File
    BY <1>0 DEF canonicalSubtaskPaths, LocalTypes, SubType
  <2>2. [sub[c] EXCEPT !.pc = "admit", !.paths = canonicalSubtaskPaths(sub[c].paths)] \in SubType
    BY <1>0, <1>3, <2>1 DEF LocalTypes, SubType
  <2>3. QED
    BY <1>0, <1>5, <2>2, ValuesTyped DEF Check, LocalTypes
<1>6. CASE SubAsks(c)
  <2>1. sent \in [Child -> Nat]
    BY <1>0 DEF LocalTypes
  <2>2. /\ sent' = [sent EXCEPT ![c] = @ + 1] \/ sent' = [sent EXCEPT ![c] = @ + 0] \/ sent' = sent
        /\ \E pc \in SubPcs : sub' = [sub EXCEPT ![c].pc = pc]
        /\ UNCHANGED <<spec, root, catalog, view, version, used>>
    BY <1>3, <1>6 DEF SubAsks
  <2>3. sent' \in [Child -> Nat]
    BY <2>1, <2>2
  <2>4. QED
    BY <1>0, <1>1, <2>2, <2>3 DEF LocalTypes
<1>7. CASE \E f \in File : SubReads(c, f)
  <2>1. used \in [Child -> Nat]
    BY <1>0 DEF LocalTypes
  <2>2. /\ used' = [used EXCEPT ![c] = @ + 1] \/ used' = [used EXCEPT ![c] = @ + 0] \/ used' = used
        /\ \E pc \in SubPcs : sub' = [sub EXCEPT ![c].pc = pc]
        /\ receipts' = receipts \/ \E f \in File : receipts' = receipts \union {<<c, f, version[f]>>}
        /\ UNCHANGED <<spec, root, reports, view, version, sent>>
    BY <1>3, <1>7 DEF SubReads
  <2>3. used' \in [Child -> Nat]
    BY <2>1, <2>2
  <2>4. receipts' \subseteq (Child \union {Root}) \X File \X Nat
    BY <1>0, <2>2, LimitsAssumption DEF Versions, LocalTypes
  <2>5. QED
    BY <1>0, <1>1, <2>2, <2>3, <2>4 DEF LocalTypes
<1>8. CASE \E claims \in Claims : Report(c, claims)
  <2>1. PICK claims \in Claims : Report(c, claims)
    BY <1>8
  <2>. DEFINE items == [i \in DOMAIN claims |->
                          [file |-> claims[i].file, version |-> claims[i].version,
                           whole |-> claims[i].whole, on |-> claims[i].on, status |-> "claimed"]]
  <2>2. claims \in [1..Len(claims) -> Claim] /\ Len(claims) \in Nat
    BY ClaimsAssumption, LenProperties
  <2>3. items \in [1..Len(claims) -> Finding]
    BY <2>2 DEF Claim, Finding
  <2>4. items \in Seq(Finding)
    BY <2>2, <2>3, SeqDef
  <2>5. /\ sub' = [sub EXCEPT ![c].pc = "verify", ![c].items = items]
        /\ UNCHANGED <<spec, root, catalog, view, version, spent>>
    BY <2>1 DEF Report
  <2>. HIDE DEF items
  <2>6. sub' \in [Child -> SubType]
    BY <1>0, <1>3, <2>4, <2>5 DEF LocalTypes, SubType
  <2>7. QED
    BY <1>0, <2>5, <2>6 DEF LocalTypes
<1>9. CASE Verify(c)
  <2>1. PICK i \in DOMAIN sub[c].items :
           sub' = [sub EXCEPT ![c].items = [sub[c].items EXCEPT ![i] = Verified(c, sub[c].items[i])]]
    BY <1>9 DEF Verify
  <2>2. sub[c].items \in Seq(Finding)
    BY <1>0 DEF LocalTypes, SubType
  <2>3. Verified(c, sub[c].items[i]) \in Finding
    BY <2>2, LenProperties, FindingTypes
  <2>. DEFINE items == [sub[c].items EXCEPT ![i] = Verified(c, sub[c].items[i])]
  <2>4. items \in Seq(Finding)
    BY <2>2, <2>3, Replaced
  <2>5. sub' = [sub EXCEPT ![c].items = items] /\ UNCHANGED <<spec, root, catalog, view, version, spent>>
    BY <1>9, <2>1 DEF Verify
  <2>. HIDE DEF items
  <2>6. sub' \in [Child -> SubType]
    BY <1>0, <2>4, <2>5 DEF LocalTypes, SubType
  <2>7. QED
    BY <1>0, <2>5, <2>6 DEF LocalTypes
<1>10. CASE Save(c) \/ SaveFailed(c)
  <2>1. checkHandoffDependencies(sub[c].items) \in Seq(Finding)
    BY <1>0, DependenciesTyped DEF LocalTypes, SubType
  <2>2. reports' \in [Child -> Seq(Finding)]
    BY <1>0, <1>10, <2>1, ValuesTyped DEF Save, SaveFailed, Deliver, LocalTypes
  <2>3. sub' \in [Child -> SubType] /\ UNCHANGED <<spec, root, receipts, view, version, spent>>
    BY <1>1, <1>3, <1>10 DEF Save, SaveFailed
  <2>4. QED
    BY <1>0, <2>2, <2>3 DEF LocalTypes
<1>11. QED
  BY <1>4, <1>5, <1>6, <1>7, <1>8, <1>9, <1>10 DEF SubStep

LEMMA TypeStep ==
    ASSUME TypeOK, LedgerTrue, SubsAdmitted, [Next]_vars
    PROVE  TypeOK'
<1>. USE DEF ledger, talk, catalog, spent, vars
<1>1. (mem \in State /\ durable \in State /\ storage \in {"ok", "artifact", "broken"})'
  BY LedgerStep DEF LedgerKept
<1>2. CASE RootStep
  BY <1>2, RootTypes, <1>1 DEF TypeOK
<1>3. CASE \E c \in Child : SubStep(c)
  BY <1>3, SubTypes, <1>1 DEF TypeOK
<1>4. CASE Cancel \/ UNCHANGED vars
  BY <1>1, <1>4 DEF Cancel, TypeOK, LocalTypes
<1>5. CASE Crash
  BY <1>1, <1>5, ValuesTyped DEF Crash, Gone, TypeOK, LocalTypes
<1>6. CASE \E f \in File : Edit(f)
  <2>1. MaxEdits \in Nat
    BY LimitsAssumption
  <2>2. version' \in [File -> Versions]
    BY <1>6, <2>1 DEF Edit, TypeOK, LocalTypes, Versions
  <2>3. QED
    BY <1>1, <1>6, <2>2 DEF Edit, TypeOK, LocalTypes
<1>7. QED
  BY <1>2, <1>3, <1>4, <1>5, <1>6 DEF Next

-----------------------------------------------------------------------------
(* Sub-agents work with an admission.                                      *)

LEMMA SubsStep ==
    ASSUME TypeOK, LedgerTrue, SubsAdmitted, [Next]_vars
    PROVE  SubsAdmitted'
<1>. USE DEF ledger, talk, catalog, spent, vars, Calm, Keep
<1>1. root # "idle" => Admitted(mem) \subseteq Admitted(mem')
  BY LedgerStep DEF LedgerKept
<1>2. sub \in [Child -> SubType]
  BY DEF TypeOK, LocalTypes
<1>3. CASE Begin
  <2>1. \A c \in Child : sub[c].pc \in {"none", "done"}
    BY <1>3 DEF Begin, Idle, SubsAdmitted
  <2>2. QED
    BY <1>3, <2>1 DEF Begin, SubsAdmitted, AtWork
<1>4. CASE Look \/ Refresh \/ Ask \/ Discover \/ Return \/ \E f \in File : RootReads(f)
  <2>1. root # "idle" /\ root' # "idle" /\ UNCHANGED <<sub, spec>>
    BY <1>4 DEF Look, Refresh, Ask, Discover, Return, RootReads
  <2>2. Admitted(mem)' = Admitted(mem')
    BY DEF Admitted
  <2>3. QED
    BY <1>1, <2>1, <2>2 DEF SubsAdmitted
<1>5. CASE End \/ Crash
  <2>1. \A c \in Child : sub'[c].pc \in {"none", "done"}
    BY <1>2, <1>5 DEF End, Crash, Gone, NewSub, Finished
  <2>2. QED
    BY <2>1 DEF SubsAdmitted, AtWork
<1>6. CASE \E C \in SUBSET Child : \E want \in [C -> Wants] : Spawn(C, want)
  <2>1. /\ root' = "wait" /\ UNCHANGED <<mem, spec>>
        /\ \A c \in Child : sub'[c].pc = "call" \/ sub'[c] = sub[c]
    BY <1>6 DEF Spawn, NewSub
  <2>2. Admitted(mem)' = Admitted(mem)
    BY <2>1 DEF Admitted
  <2>3. QED
    BY <2>1, <2>2 DEF SubsAdmitted, AtWork
<1>7. ASSUME NEW c \in Child, SubStep(c)
      PROVE  SubsAdmitted'
  <2>1. sub[c].pc \notin {"none", "done"}
    BY <1>7 DEF SubStep, Call, Check, Admit, Enter, SubAsks, ModelFails, EndBatch, Verify,
                Save, SaveFailed, Finish, SubReads, Report
  <2>2. root # "idle"
    BY <2>1 DEF SubsAdmitted
  <2>3. UNCHANGED <<root, spec>> /\ \A d \in Child \ {c} : sub'[d] = sub[d]
    BY <1>2, <1>7 DEF SubStep, Call, Check, Admit, Enter, SubAsks, ModelFails, EndBatch, Verify,
                Save, SaveFailed, Finish, SubReads, Report, Go, Quit
  <2>4. Admitted(mem)' = Admitted(mem')
    BY DEF Admitted
  <2>5. /\ sub'[c].pc \in AtWork => c \in Admitted(mem')
        /\ sub'[c].pc = "admit" => spec.delegation # "off"
    <3>1. CASE Call(c)
      BY <1>2, <3>1 DEF Call, Go, Quit, Finished, NewSub, AtWork, SubType
    <3>2. CASE Check(c)
      <4>1. sub'[c] = Finished \/ (sub'[c].pc = "admit" /\ Visible)
        BY <1>2, <3>2 DEF Check, SubType
      <4>2. QED
        BY <4>1 DEF Visible, Finished, NewSub, AtWork
    <3>3. CASE Admit(c)
      <4>1. CASE sub'[c] = Finished
        BY <4>1 DEF Finished, NewSub, AtWork
      <4>2. CASE sub'[c] # Finished
        <5>1. /\ sub' = [sub EXCEPT ![c].pc = "queued"]
              /\ mem' = [mem EXCEPT !.subs[c] = [paths |-> sub[c].paths, models |-> 0,
                                                 tools |-> 0, status |-> "admitted"]]
          BY <1>2, <3>3, <4>2 DEF Admit, Go, Quit, Record
        <5>2. mem'.subs[c].status = "admitted"
          BY <5>1 DEF TypeOK, State, Admission
        <5>3. c \in Admitted(mem')
          BY <5>2 DEF Admitted, NoAdmission
        <5>4. QED
          BY <1>2, <5>1, <5>3 DEF SubType
      <4>3. QED
        BY <4>1, <4>2
    <3>4. CASE ~(Call(c) \/ Check(c) \/ Admit(c))
      <4>1. sub[c].pc \in AtWork /\ sub'[c].pc # "admit"
        BY <1>2, <1>7, <3>4 DEF SubStep, Enter, SubAsks, ModelFails, EndBatch, Verify, Save,
                SaveFailed, Finish, SubReads, Report, Go, Quit, AtWork, Finished, NewSub, SubType
      <4>2. QED
        BY <1>1, <2>2, <4>1 DEF SubsAdmitted
    <3>5. QED
      BY <3>1, <3>2, <3>3, <3>4
  <2>6. QED
    BY <1>1, <2>2, <2>3, <2>4, <2>5 DEF SubsAdmitted
<1>8. CASE Cancel \/ (\E f \in File : Edit(f)) \/ UNCHANGED vars
  <2>1. UNCHANGED <<root, spec, sub, mem>>
    BY <1>8 DEF Cancel, Edit
  <2>2. QED
    BY <2>1 DEF SubsAdmitted, Admitted
<1>9. QED
  BY <1>3, <1>4, <1>5, <1>6, <1>7, <1>8 DEF Next, RootStep

-----------------------------------------------------------------------------
(* Findings.                                                               *)

\* A finding stands on findings of its report that stand, never on itself:
\* without it the smallest closed set would still be closed.
LEMMA GroundedStands ==
    ASSUME NEW items, NEW i \in Grounded(items)
    PROVE  i \in DOMAIN items /\ Sound(items[i]) /\ items[i].on \subseteq Grounded(items) \ {i}
<1>. DEFINE G == Grounded(items)
<1>1. i \in DOMAIN items /\ G \subseteq DOMAIN items
  BY DEF Grounded
<1>2. \A S \in SUBSET DOMAIN items : Closed(items, S) => G \subseteq S
  BY DEF Grounded
<1>3. Closed(items, G)
  <2>1. SUFFICES ASSUME NEW k \in DOMAIN items, Sound(items[k]), items[k].on \subseteq G
                 PROVE  k \in G
    BY DEF Closed
  <2>2. \A S \in SUBSET DOMAIN items : Closed(items, S) => k \in S
    BY <1>2, <2>1 DEF Closed
  <2>3. QED
    BY <2>2 DEF Grounded
<1>. HIDE DEF G
<1>4. SUFFICES ASSUME ~(Sound(items[i]) /\ items[i].on \subseteq G \ {i})
               PROVE  FALSE
  BY <1>1 DEF G
<1>5. Closed(items, G \ {i})
  BY <1>3, <1>4 DEF Closed
<1>6. i \notin G
  BY <1>1, <1>2, <1>5
<1>7. QED
  BY <1>6 DEF G

\* What is left after dependencies are checked was there before.
LEMMA DependenciesKeep ==
    ASSUME NEW items \in Seq(Finding), NEW read, NEW a
    PROVE  LET new == checkHandoffDependencies(items) IN
           /\ Backed(read, a, items) => Backed(read, a, new)
           /\ Checked(items) => Checked(new)
<1>. DEFINE new == checkHandoffDependencies(items)
<1>1. /\ DOMAIN new = DOMAIN items
      /\ \A i \in DOMAIN items : \/ new[i] = items[i]
                                 \/ new[i] = [items[i] EXCEPT !.status = "unverified"]
  BY DependenciesTyped
<1>2. \A i \in DOMAIN items : items[i] \in Finding
  BY LenProperties
<1>. HIDE DEF new
<1>3. \A i \in DOMAIN items : new[i] = items[i] \/ new[i].status = "unverified"
  BY <1>1, <1>2 DEF Finding
<1>4. QED
  BY <1>1, <1>3 DEF Backed, Checked, new

LEMMA NothingFound ==
    /\ \A read, a : Backed(read, a, <<>>)
    /\ Checked(<<>>) /\ NewSub.items = <<>> /\ Finished.items = <<>>
BY DEF Backed, Checked, NewSub, Finished

LEMMA ReportsStep ==
    ASSUME TypeOK, SubsAdmitted, ReportsTrue, [Next]_vars
    PROVE  ReportsTrue'
<1>. USE DEF ledger, talk, catalog, spent, vars, Calm, Keep
<1>0. sub \in [Child -> SubType] /\ reports \in [Child -> Seq(Finding)]
  BY DEF TypeOK, LocalTypes
<1>1. CASE Begin \/ Look \/ Refresh \/ Ask \/ Discover \/ Return \/ Cancel
           \/ (\E f \in File : Edit(f)) \/ UNCHANGED vars
  <2>1. UNCHANGED <<receipts, reports, sub>>
    BY <1>1 DEF Begin, Look, Refresh, Ask, Discover, Return, Cancel, Edit
  <2>2. QED
    BY <2>1 DEF ReportsTrue, Backed, Checked
<1>2. CASE \E f \in File : RootReads(f)
  <2>1. receipts \subseteq receipts' /\ UNCHANGED <<reports, sub>>
    BY <1>2 DEF RootReads
  <2>2. QED
    BY <2>1 DEF ReportsTrue, Backed, Checked
<1>3. CASE End \/ Crash
  <2>1. \A c \in Child : sub'[c] \in {NewSub, Finished} /\ reports'[c] = <<>>
    BY <1>0, <1>3 DEF End, Crash, Gone
  <2>2. QED
    BY <2>1, NothingFound DEF ReportsTrue
<1>4. CASE \E C \in SUBSET Child : \E want \in [C -> Wants] : Spawn(C, want)
  <2>1. /\ UNCHANGED <<receipts, reports>>
        /\ \A c \in Child : sub'[c].items = <<>> \/ sub'[c] = sub[c]
    BY <1>4 DEF Spawn, NewSub
  <2>2. \A c \in Child : Backed(receipts, c, sub'[c].items)
    BY <2>1, NothingFound DEF ReportsTrue
  <2>3. QED
    BY <2>1, <2>2 DEF ReportsTrue
<1>5. ASSUME NEW c \in Child, SubStep(c)
      PROVE  ReportsTrue'
  <2>1. CASE Call(c) \/ Check(c) \/ Admit(c) \/ Enter(c) \/ SubAsks(c) \/ ModelFails(c)
             \/ EndBatch(c) \/ Finish(c) \/ \E f \in File : SubReads(c, f)
    <3>1. receipts \subseteq receipts' /\ UNCHANGED reports
      BY <2>1 DEF Call, Check, Admit, Enter, SubAsks, ModelFails, EndBatch, Finish, SubReads
    <3>2. \A d \in Child : sub'[d].items \in {sub[d].items, <<>>}
      <4>1. \/ sub' = [sub EXCEPT ![c] = Finished]
            \/ \E pc \in SubPcs : sub' = [sub EXCEPT ![c].pc = pc]
            \/ \E pc \in SubPcs : \E paths \in SUBSET File :
                  sub' = [sub EXCEPT ![c] = [sub[c] EXCEPT !.pc = pc, !.paths = paths]]
        <5>1. {"check", "admit", "queued", "turn", "reply", "batch", "stopped", "finish"} \subseteq SubPcs
          BY DEF SubPcs
        <5>2. canonicalSubtaskPaths(sub[c].paths) \in SUBSET File
          BY <1>0 DEF canonicalSubtaskPaths, SubType
        <5>3. CASE Check(c)
          BY <5>1, <5>2, <5>3 DEF Check
        <5>4. CASE ~Check(c)
          BY <2>1, <5>1, <5>4
             DEF Call, Admit, Enter, SubAsks, ModelFails, EndBatch, Finish, SubReads, Go, Quit
        <5>5. QED
          BY <5>3, <5>4
      <4>2. sub[c] \in SubType
        BY <1>0
      <4>3. sub'[c].items \in {sub[c].items, <<>>}
        BY <1>0, <4>1, <4>2, NothingFound DEF SubType
      <4>4. \A d \in Child \ {c} : sub'[d] = sub[d]
        BY <1>0, <4>1
      <4>5. QED
        BY <4>3, <4>4
    <3>3. \A d \in Child : Backed(receipts, d, sub'[d].items)
      BY <3>2, NothingFound DEF ReportsTrue
    <3>4. QED
      BY <3>1, <3>3 DEF ReportsTrue, Backed
  <2>2. CASE \E claims \in Claims : Report(c, claims)
    <3>1. /\ UNCHANGED <<receipts, reports>> /\ \A d \in Child \ {c} : sub'[d] = sub[d]
          /\ \A i \in DOMAIN sub'[c].items : sub'[c].items[i].status = "claimed"
      BY <1>0, <2>2 DEF Report, SubType
    <3>2. Backed(receipts, c, sub'[c].items)
      BY <3>1 DEF Backed
    <3>3. QED
      BY <3>1, <3>2 DEF ReportsTrue
  <2>3. CASE Verify(c)
    <3>1. PICK i \in DOMAIN sub[c].items :
             sub' = [sub EXCEPT ![c].items = [sub[c].items EXCEPT ![i] = Verified(c, sub[c].items[i])]]
      BY <2>3 DEF Verify
    <3>. DEFINE x == Verified(c, sub[c].items[i])
                items == [sub[c].items EXCEPT ![i] = x]
    <3>2. sub[c].items \in Seq(Finding) /\ sub[c].items[i] \in Finding
      BY <1>0, LenProperties DEF SubType
    <3>3. x \in Finding
      BY <3>2, FindingTypes
    <3>4. x.status = "position_valid" => <<c, x.file, x.version>> \in receipts
      BY <3>2 DEF Verified, Holds, Finding
    <3>. HIDE DEF x
    <3>5. /\ DOMAIN items = DOMAIN sub[c].items /\ items[i] = x
          /\ \A j \in DOMAIN sub[c].items : j # i => items[j] = sub[c].items[j]
      BY <3>2, <3>3, Replaced
    <3>6. sub' = [sub EXCEPT ![c].items = items]
      BY <3>1 DEF x
    <3>. HIDE DEF items
    <3>7. Backed(receipts, c, items)
      BY <3>4, <3>5 DEF Backed, ReportsTrue
    <3>8. sub'[c].items = items /\ \A d \in Child \ {c} : sub'[d] = sub[d]
      BY <1>0, <3>6 DEF SubType
    <3>9. UNCHANGED <<receipts, reports>>
      BY <2>3 DEF Verify
    <3>10. QED
      BY <3>7, <3>8, <3>9 DEF ReportsTrue
  <2>4. CASE Save(c) \/ SaveFailed(c)
    <3>. DEFINE items == checkHandoffDependencies(sub[c].items)
    <3>1. UNCHANGED receipts /\ \A d \in Child : sub'[d].items = sub[d].items
      <4>1. UNCHANGED receipts /\ sub' = [sub EXCEPT ![c].pc = "finish"]
        BY <2>4 DEF Save, SaveFailed, Go
      <4>2. QED
        BY <1>0, <4>1 DEF SubType
    <3>2. Save(c) => Backed(receipts, c, items) /\ Checked(items)
      <4>1. sub[c].items \in Seq(Finding) /\ Backed(receipts, c, sub[c].items)
        BY <1>0 DEF SubType, ReportsTrue
      <4>2. Save(c) => Checked(sub[c].items)
        BY DEF Save, Checked
      <4>3. QED
        BY <4>1, <4>2, DependenciesKeep
    <3>3. /\ \A d \in Child \ {c} : reports'[d] = reports[d]
          /\ \/ reports'[c] = reports[c] \/ reports'[c] = <<>>
             \/ Save(c) /\ reports'[c] = items
      BY <1>0, <2>4 DEF Save, SaveFailed, Deliver
    <3>. HIDE DEF items
    <3>4. \A d \in Child : Backed(receipts, d, reports'[d]) /\ Checked(reports'[d])
      BY <3>2, <3>3, NothingFound DEF ReportsTrue
    <3>5. QED
      BY <3>1, <3>4 DEF ReportsTrue
  <2>5. QED
    BY <1>5, <2>1, <2>2, <2>3, <2>4 DEF SubStep
<1>6. QED
  BY <1>1, <1>2, <1>3, <1>4, <1>5 DEF Next, RootStep

\* What is shown of a report is re-examined finding by finding, against the
\* files as they are then.
LEMMA RefreshKeeps ==
    ASSUME TypeOK, ViewTrue, Refresh
    PROVE  ViewTrue'
<1>. DEFINE i == view.at
            x == Revised(view.items[i])
            new == [view.items EXCEPT ![i] = x]
<1>0. LocalTypes
  BY DEF TypeOK
<1>1. view.items \in Seq(Finding) /\ i \in DOMAIN view.items /\ view.items[i] \in Finding
  BY <1>0, LenProperties DEF LocalTypes, ViewType, Refresh
<1>2. /\ x \in Finding /\ x.file = view.items[i].file /\ x.version = view.items[i].version
      /\ x.status # "claimed" \/ view.items[i].status = "claimed"
      /\ x.status = "position_valid" =>
            view.items[i].status = "position_valid" /\ version[x.file] = x.version
  BY <1>0, <1>1, FindingTypes DEF Revised, Finding
<1>. HIDE DEF x
<1>3. /\ DOMAIN new = DOMAIN view.items /\ new[i] = x
      /\ \A j \in DOMAIN view.items : j # i => new[j] = view.items[j]
  BY <1>1, <1>2, Replaced
<1>4. view' = [view EXCEPT !.at = view.at + 1, !.items = new] /\ root = "look"
      /\ UNCHANGED <<root, receipts, version>>
  BY DEF Refresh, x, Calm, catalog
<1>. HIDE DEF new
<1>5. view' = [of |-> view.of, items |-> new, at |-> view.at + 1, since |-> view.since]
  BY <1>0, <1>4 DEF LocalTypes, ViewType
<1>6. Backed(receipts, view.of, new) /\ Checked(new)
  BY <1>1, <1>2, <1>3 DEF ViewTrue, Backed, Checked
<1>7. view.at \in Nat /\ view'.at # 0
  BY <1>0, <1>5 DEF LocalTypes, ViewType
<1>8. ASSUME NEW j \in DOMAIN new, j < view.at + 1, new[j].status = "position_valid"
      PROVE  new[j].version \in view.since[new[j].file]..version[new[j].file]
  <2>1. CASE j = i
    <3>1. x.file \in File /\ x.version \in Nat
      BY <1>2, LimitsAssumption DEF Finding, Versions
    <3>2. view.since[x.file] \in Nat /\ view.since[x.file] <= version[x.file]
      BY <1>0, <3>1 DEF ViewTrue, LocalTypes, ViewType
    <3>3. QED
      BY <1>2, <1>3, <1>8, <2>1, <3>1, <3>2
  <2>2. CASE j # i
    <3>1. j \in DOMAIN view.items /\ j < view.at /\ new[j] = view.items[j]
      BY <1>1, <1>3, <1>7, <1>8, <2>2, LenProperties
    <3>2. Current(j)
      BY <1>4, <3>1 DEF ViewTrue
    <3>3. QED
      BY <1>8, <3>1, <3>2 DEF Current
  <2>3. QED
    BY <2>1, <2>2
<1>9. QED
  BY <1>4, <1>5, <1>6, <1>7, <1>8 DEF ViewTrue, Current

LEMMA ViewStep ==
    ASSUME TypeOK, ReportsTrue, ViewTrue, [Next]_vars
    PROVE  ViewTrue'
<1>. USE DEF ledger, talk, catalog, spent, vars, Calm, Keep
<1>0. LocalTypes
  BY DEF TypeOK
<1>1. /\ \A f \in File : version[f] \in Nat
      /\ version \in [File -> Nat]
  BY <1>0, LimitsAssumption DEF LocalTypes, Versions
<1>3. CASE Begin \/ Return
  <2>1. root' # "look" /\ UNCHANGED <<receipts, version, view>>
    BY <1>3 DEF Begin, Return
  <2>2. QED
    BY <2>1 DEF ViewTrue, Backed, Checked
<1>4. CASE Discover \/ End \/ Crash \/ (\E f \in File : RootReads(f))
           \/ \E C \in SUBSET Child : \E want \in [C -> Wants] : Spawn(C, want)
  <2>1. view' = NoView /\ root' # "look" /\ UNCHANGED version
    BY <1>4 DEF Discover, End, Crash, Gone, RootReads, Spawn
  <2>2. /\ view'.items = <<>> /\ \A f \in File : view'.since[f] = 0
    BY <2>1 DEF NoView
  <2>3. QED
    BY <1>1, <2>1, <2>2, NothingFound DEF ViewTrue
<1>5. CASE Look
  <2>1. UNCHANGED <<version, receipts>>
    BY <1>5 DEF Look
  <2>2. CASE view' = NoView
    <3>1. /\ view'.items = <<>> /\ \A f \in File : view'.since[f] = 0
      BY <2>2 DEF NoView
    <3>2. QED
      BY <1>1, <2>1, <3>1, NothingFound DEF ViewTrue
  <2>3. CASE view' # NoView
    <3>1. PICK c \in Child :
             view' = [of |-> c, items |-> reports[c], at |-> 1, since |-> version]
      BY <1>5, <2>3 DEF Look
    <3>2. Backed(receipts, c, reports[c]) /\ Checked(reports[c]) /\ reports[c] \in Seq(Finding)
      BY <1>0 DEF ReportsTrue, LocalTypes
    <3>3. \A i \in DOMAIN reports[c] : ~(i < 1)
      BY <3>2, LenProperties
    <3>4. QED
      BY <1>1, <2>1, <3>1, <3>2, <3>3 DEF ViewTrue
  <2>4. QED
    BY <2>2, <2>3
<1>6. CASE Refresh
  BY <1>6, RefreshKeeps
<1>7. CASE Ask
  <2>. DEFINE new == checkHandoffDependencies(view.items)
  <2>1. /\ view' = [view EXCEPT !.items = new] /\ root' # "look"
        /\ UNCHANGED <<version, receipts>>
    BY <1>7 DEF Ask
  <2>2. Backed(receipts, view.of, new) /\ Checked(new)
    BY <1>0, DependenciesKeep DEF ViewTrue, LocalTypes, ViewType
  <2>3. view.items = <<>> => new = <<>>
    BY DEF checkHandoffDependencies
  <2>. HIDE DEF new
  <2>4. /\ view'.items = new /\ view'.of = view.of /\ view'.at = view.at /\ view'.since = view.since
    BY <1>0, <2>1 DEF LocalTypes, ViewType
  <2>5. QED
    BY <2>1, <2>2, <2>3, <2>4 DEF ViewTrue
<1>8. ASSUME NEW c \in Child, SubStep(c)
      PROVE  ViewTrue'
  <2>1. receipts \subseteq receipts' /\ UNCHANGED <<view, root, version>>
    BY <1>8 DEF SubStep, Call, Check, Admit, Enter, SubAsks, ModelFails, EndBatch, Verify,
                Save, SaveFailed, Finish, SubReads, Report
  <2>2. QED
    BY <2>1 DEF ViewTrue, Backed, Checked, Current
<1>9. CASE Cancel \/ UNCHANGED vars
  BY <1>9 DEF Cancel, ViewTrue, Backed, Checked, Current
<1>10. CASE \E f \in File : Edit(f)
  <2>1. UNCHANGED <<view, root, receipts>> /\ \A f \in File : version[f] <= version'[f]
                                          /\ version'[f] \in Nat
    BY <1>1, <1>10 DEF Edit
  <2>2. view \in ViewType
    BY <1>0 DEF LocalTypes
  <2>3. \A i \in DOMAIN view.items : view.items[i].file \in File /\ view.items[i].version \in Nat
    <3>1. \A i \in DOMAIN view.items : view.items[i] \in Finding
      BY <2>2, LenProperties DEF ViewType
    <3>2. QED
      BY <3>1, LimitsAssumption DEF Finding, Versions
  <2>4. \A f \in File : view.since[f] \in Nat
    BY <2>2 DEF ViewType
  <2>5. \A i \in DOMAIN view.items : Current(i) => Current(i)'
    BY <1>1, <2>1, <2>3, <2>4 DEF Current
  <2>6. \A f \in File : view.since[f] <= version'[f]
    BY <1>1, <2>1, <2>4 DEF ViewTrue
  <2>7. QED
    BY <2>1, <2>5, <2>6 DEF ViewTrue, Backed, Checked
<1>11. QED
  BY <1>3, <1>4, <1>5, <1>6, <1>7, <1>8, <1>9, <1>10 DEF Next, RootStep

\* The request is made when the last finding has been compared with its file.
LEMMA AskStands ==
    ASSUME TypeOK, ViewTrue, Ask
    PROVE  StandingIsCurrent'
<1>. DEFINE items == view.items
            new == checkHandoffDependencies(items)
<1>0. LocalTypes
  BY DEF TypeOK
<1>1. items \in Seq(Finding) /\ view.at \in Nat /\ view.at \notin DOMAIN items /\ root = "look"
  BY <1>0 DEF Ask, LocalTypes, ViewType
<1>2. \A i \in DOMAIN items : Current(i)
  <2>1. Len(items) \in Nat /\ DOMAIN items = 1..Len(items)
    BY <1>1, LenProperties
  <2>2. CASE view.at = 0
    <3>1. Len(items) = 0
      BY <2>2, EmptySeq DEF ViewTrue
    <3>2. QED
      BY <2>1, <3>1
  <2>3. CASE view.at # 0
    <3>1. view.at > Len(items)
      BY <1>1, <2>1, <2>3
    <3>2. \A i \in DOMAIN items : i < view.at
      BY <1>1, <2>1, <3>1
    <3>3. QED
      BY <1>1, <3>2 DEF ViewTrue
  <2>4. QED
    BY <2>2, <2>3
<1>3. \A i \in DOMAIN items : items[i] \in Finding
  BY <1>1, LenProperties
<1>4. DOMAIN new = DOMAIN items
  BY DEF checkHandoffDependencies
<1>5. \A i \in Grounded(items) : new[i] = items[i] /\ i \in DOMAIN items
  BY DEF checkHandoffDependencies, Grounded
<1>6. \A i \in DOMAIN items : new[i].status = "position_valid" => i \in Grounded(items)
  BY <1>3 DEF checkHandoffDependencies, Sound, Finding
<1>7. \A i \in Grounded(items) : items[i].status = "position_valid"
  BY <1>3, <1>5, GroundedStands DEF ViewTrue, Checked, Sound, Finding
<1>8. /\ view' = [view EXCEPT !.items = new]
      /\ UNCHANGED <<receipts, version>>
  BY DEF Ask, Calm, catalog
<1>. HIDE DEF new
<1>9. view'.items = new /\ view'.of = view.of /\ view'.since = view.since
  BY <1>0, <1>8 DEF LocalTypes, ViewType
<1>10. SUFFICES ASSUME NEW i \in DOMAIN new, new[i].status = "position_valid"
                PROVE  /\ <<view.of, new[i].file, new[i].version>> \in receipts
                       /\ new[i].version \in view.since[new[i].file]..version[new[i].file]
                       /\ new[i].on \subseteq DOMAIN new \ {i}
                       /\ \A j \in new[i].on : new[j].status = "position_valid"
  BY <1>8, <1>9 DEF StandingIsCurrent, Stands
<1>11. i \in Grounded(items) /\ new[i] = items[i] /\ items[i].status = "position_valid"
  BY <1>4, <1>5, <1>6, <1>7, <1>10
<1>12. <<view.of, items[i].file, items[i].version>> \in receipts
  BY <1>4, <1>11 DEF ViewTrue, Backed
<1>13. items[i].version \in view.since[items[i].file]..version[items[i].file]
  BY <1>2, <1>4, <1>11 DEF Current
<1>14. items[i].on \subseteq Grounded(items) \ {i}
  BY <1>11, GroundedStands
<1>15. QED
  BY <1>4, <1>5, <1>7, <1>11, <1>12, <1>13, <1>14

LEMMA StandingStep ==
    ASSUME TypeOK, ViewTrue, StandingIsCurrent, [Next]_vars
    PROVE  StandingIsCurrent'
<1>. USE DEF ledger, talk, catalog, spent, vars, Calm, Keep
<1>0. LocalTypes
  BY DEF TypeOK
<1>1. CASE Begin \/ Look \/ Refresh \/ Return \/ End \/ Crash \/ Discover
           \/ (\E f \in File : RootReads(f))
           \/ \E C \in SUBSET Child : \E want \in [C -> Wants] : Spawn(C, want)
  <2>1. root' # "reply"
    BY <1>1 DEF Begin, Look, Refresh, Return, End, Crash, Gone, Discover, RootReads, Spawn
  <2>2. QED
    BY <2>1 DEF StandingIsCurrent
<1>2. CASE Ask
  BY <1>2, AskStands
<1>3. ASSUME NEW c \in Child, SubStep(c)
      PROVE  StandingIsCurrent'
  <2>1. receipts \subseteq receipts' /\ UNCHANGED <<view, root, version>>
    BY <1>3 DEF SubStep, Call, Check, Admit, Enter, SubAsks, ModelFails, EndBatch, Verify,
                Save, SaveFailed, Finish, SubReads, Report
  <2>2. QED
    BY <2>1 DEF StandingIsCurrent, Stands
<1>4. CASE Cancel \/ UNCHANGED vars
  BY <1>4 DEF Cancel, StandingIsCurrent, Stands
<1>5. CASE \E f \in File : Edit(f)
  <2>1. \A f \in File : version[f] \in Nat
    BY <1>0, LimitsAssumption DEF LocalTypes, Versions
  <2>2. UNCHANGED <<view, root, receipts>> /\ \A f \in File : version[f] <= version'[f]
                                          /\ version'[f] \in Nat
    BY <1>0, <1>5, <2>1 DEF Edit, LocalTypes
  <2>3. \A i \in DOMAIN view.items : view.items[i].file \in File /\ view.items[i].version \in Nat
    <3>1. \A i \in DOMAIN view.items : view.items[i] \in Finding
      BY <1>0, LenProperties DEF LocalTypes, ViewType
    <3>2. QED
      BY <3>1, LimitsAssumption DEF Finding, Versions
  <2>4. \A f \in File : view.since[f] \in Nat
    BY <1>0 DEF LocalTypes, ViewType
  <2>5. \A i \in DOMAIN view.items :
           view.items[i].version \in view.since[view.items[i].file]..version[view.items[i].file]
           => view.items[i].version \in view.since[view.items[i].file]..version'[view.items[i].file]
    BY <2>1, <2>2, <2>3, <2>4
  <2>6. QED
    BY <2>2, <2>5 DEF StandingIsCurrent, Stands
<1>6. QED
  BY <1>1, <1>2, <1>3, <1>4, <1>5 DEF Next, RootStep

-----------------------------------------------------------------------------
(* The theorems.                                                           *)

LEMMA InitIInv == Init => IInv
<1>. SUFFICES ASSUME Init PROVE IInv
  OBVIOUS
<1>1. NoAdmission \in Admission
  BY DEF NoAdmission, Admission
<1>2. mem \in State /\ durable = mem /\ \A c \in Child : mem.subs[c] = NoAdmission
  BY <1>1 DEF State, Init
<1>3. 0 \in Versions
  BY LimitsAssumption DEF Versions
<1>4. LocalTypes
  BY <1>3, ValuesTyped DEF LocalTypes, Init
<1>5. TypeOK
  BY <1>2, <1>4 DEF TypeOK, Init
<1>6. LedgerTrue
  <2>1. Admitted(mem) = {}
    BY <1>2 DEF Admitted
  <2>2. IsFiniteSet(Admitted(mem)) /\ Cardinality(Admitted(mem)) <= maxDelegatedTasks
    BY <2>1, FS_EmptySet DEF maxDelegatedTasks
  <2>3. Admissible(mem)
    BY <1>2, <2>1, <2>2 DEF Admissible
  <2>4. Accounted(mem, sent, used)
    <3>1. spec.models \in Nat /\ spec.tools \in Nat /\ ModelLimit \in Nat /\ ToolLimit \in Nat
      BY SpecsAssumption, LimitsAssumption DEF Init
    <3>2. \A c \in Child : /\ mem.subs[c].models = 0 /\ mem.subs[c].tools = 0
                           /\ sent[c] = 0 /\ used[c] = 0
      BY <1>2 DEF NoAdmission, Init
    <3>3. mem.models = 0 /\ mem.tools = 0
      BY DEF Init
    <3>4. QED
      BY <3>1, <3>2, <3>3 DEF Accounted
  <2>5. QED
    BY <1>2, <2>3, <2>4 DEF LedgerTrue
<1>7. SubsAdmitted
  BY DEF SubsAdmitted, NewSub, AtWork, Init
<1>8. ReportsTrue
  BY NothingFound DEF ReportsTrue, Init
<1>9. ViewTrue
  BY NothingFound DEF ViewTrue, NoView, Init
<1>10. StandingIsCurrent
  BY DEF StandingIsCurrent, Init
<1>11. QED
  BY <1>5, <1>6, <1>7, <1>8, <1>9, <1>10 DEF IInv

\* The inductive invariant of delegation.
THEOREM Invariance == Spec => []IInv
<1>1. IInv /\ [Next]_vars => IInv'
  BY TypeStep, LedgerStep, SubsStep, ReportsStep, ViewStep, StandingStep DEF IInv, LedgerKept
<1>2. QED
  BY InitIInv, <1>1, PTL DEF Spec

\* Every variable keeps its type, however many sub-agents and runs there are.
THEOREM DelegationTypes == Spec => []TypeOK
<1>1. IInv => TypeOK
  BY DEF IInv
<1>2. QED
  BY Invariance, <1>1, PTL

\* At most two sub-agents ever work for a task, over all its runs and through
\* every crash, all of them with an admission in the log, and no file is given
\* to two of them where the model delegates by itself.
THEOREM TwoDelegations == Spec => []DelegatesTwice
<1>1. IInv => DelegatesTwice
  <2>1. SUFFICES ASSUME IInv PROVE DelegatesTwice
    OBVIOUS
  <2>. DEFINE worked == {c \in Child : sent[c] + used[c] > 0}
  <2>2. LocalTypes /\ durable \in State /\ Admissible(durable) /\ Accounted(durable, sent, used)
    BY <2>1 DEF IInv, TypeOK, LedgerTrue
  <2>3. worked \subseteq Admitted(durable)
    <3>1. SUFFICES ASSUME NEW c \in Child, sent[c] + used[c] > 0
                   PROVE  durable.subs[c] # NoAdmission
      BY DEF Admitted
    <3>2. sent[c] \in Nat /\ used[c] \in Nat
      BY <2>2 DEF LocalTypes
    <3>3. durable.subs[c].models \in Nat /\ durable.subs[c].tools \in Nat
      BY <2>2 DEF State, Admission
    <3>4. sent[c] <= durable.subs[c].models /\ used[c] <= durable.subs[c].tools
      BY <2>2 DEF Accounted
    <3>5. durable.subs[c].models > 0 \/ durable.subs[c].tools > 0
      BY <3>1, <3>2, <3>3, <3>4
    <3>6. QED
      BY <3>5 DEF NoAdmission
  <2>4. IsFiniteSet(Admitted(durable)) /\ Cardinality(Admitted(durable)) <= maxDelegatedTasks
    BY <2>2 DEF Admissible
  <2>5. IsFiniteSet(worked) /\ Cardinality(worked) <= Cardinality(Admitted(durable))
    BY <2>3, <2>4, FS_Subset
  <2>6. Cardinality(worked) <= maxDelegatedTasks
    BY <2>4, <2>5, FS_CardinalityType DEF maxDelegatedTasks
  <2>7. QED
    BY <2>2, <2>3, <2>6 DEF Admissible, DelegatesTwice
<1>2. QED
  BY Invariance, <1>1, PTL

\* Each sub-agent stays within its share and the task within its budget, and
\* the log knows of all that was sent and tried.
THEOREM SharesAreCharged == Spec => []ShareIsCharged
<1>1. IInv => ShareIsCharged
  BY DEF IInv, LedgerTrue, Accounted, ShareIsCharged
<1>2. QED
  BY Invariance, <1>1, PTL

\* What a request shows as standing was read by the sub-agent that reported it
\* and was still so when the request was prepared, and rests on findings that
\* stand in the same request.
THEOREM StandingFindings == Spec => []StandingIsCurrent
<1>1. IInv => StandingIsCurrent
  BY DEF IInv
<1>2. QED
  BY Invariance, <1>1, PTL
=============================================================================
