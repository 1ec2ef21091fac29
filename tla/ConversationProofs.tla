--------------------------- MODULE ConversationProofs ---------------------------
(***************************************************************************)
(* What the conversation of a readonly question promises for any files,    *)
(* paths, menus, limits and sizes of a page. Three arguments meet here;    *)
(* what they need of the reading of files is in module ReadFileProofs. The *)
(* first is the invariant IInv of the conversation: the state in memory    *)
(* and the log's are both good (Ledger), a boundary counts no refusal      *)
(* before its result is noted (Owed), what is kept of a read is what it    *)
(* returned (Reads), and while calls run what counts as shown is whole in  *)
(* the request answered last (Exposed). The second is of the report:       *)
(* intervals without a gap hold every byte (GapsCover), and a receipt is   *)
(* of a read of the run (Covered). The last is about module Context:       *)
(* dropping whole groups and putting the notice in leaves every call       *)
(* answered (DroppedPaired, PrefixFair), and the session opens with the    *)
(* question (Heard).                                                       *)
(***************************************************************************)
EXTENDS Conversation, ReadFileProofs, FiniteSetTheorems, SequenceTheorems, WellFoundedInduction,
        TLAPS

-----------------------------------------------------------------------------
(* The invariant.                                                          *)

Boundaries == [id : Nat, count : Nat, stopped : BOOLEAN, resolved : BOOLEAN]

State(s) ==
  /\ s = [models |-> s.models, tools |-> s.tools, bounds |-> s.bounds,
          stopId |-> s.stopId, closings |-> s.closings]
  /\ s.bounds \in [Path -> Boundaries] /\ s.stopId \in Nat

\* A state whose boundaries were numbered up to n, that counts no more than the
\* refusals r, and that knows the closings c.
GoodAt(s, n, r, c) ==
  /\ State(s)
  /\ \A p \in Path : s.bounds[p].id <= n /\ s.bounds[p].count <= r[p]
  /\ \A p, q \in Path : s.bounds[p].id # 0 /\ s.bounds[p].id = s.bounds[q].id => p = q
  /\ \A p \in Path : s.bounds[p].id # 0 =>
        s.bounds[p].count >= 1 /\ s.bounds[p].stopped = (s.bounds[p].count >= Repeats)
  /\ s.stopId # 0 =>
        \E p \in Path : s.bounds[p].id = s.stopId /\ s.bounds[p].stopped /\ ~ s.bounds[p].resolved
  /\ DOMAIN c \subseteq DOMAIN s.closings
Good(s) == GoodAt(s, ids, refusals, closed)

\* The state in memory and the log's, which are one while appends succeed.
Ledger ==
  /\ ids \in Nat /\ refusals \in [Path -> Nat]
  /\ \A id \in DOMAIN closed : closed[id] = 1
  /\ Good(mem) /\ Good(durable)
  /\ storage \in {"ok", "broken"} /\ (storage = "ok" => mem = durable)

\* A refusal is counted for a path once its result is noted: those still to be
\* noted are not counted yet.
Owing(p) == {i \in DOMAIN batch : /\ at <= i /\ batch[i].call.tool = "list"
                                  /\ batch[i].call.path = p /\ batch[i].result = "notdir"}
Owed == \A p \in Path : mem.bounds[p].count + Cardinality(Owing(p)) <= refusals[p]

\* The entry of a call, which has a result only when it is done.
Entries ==
  {e \in [call : Call, step : {"wait", "go", "bad", "shown", "done"},
          result : {"none", "read", "bad", "shown", "listed", "notdir"},
          act : Nat, bytes : Nat, kept : BOOLEAN, error : BOOLEAN, seen : Nat, bound : Nat] :
     e.step # "done" => e.result = "none"}

Calls ==
  /\ task \in Tasks /\ at \in Nat \ {0} /\ acts \in Nat
  /\ batch \in Seq(Entries)
  /\ pc \notin {"batch", "note"} => batch = <<>>
  /\ pc # "note" => at = 1

\* What is kept of a read is what it returned, of the version the file had.
Reads ==
  /\ version \in [File -> Nat]
  /\ \A f \in File : version[f] < Len(Contents[f])
  /\ \A x \in records :
        /\ x.file \in File /\ x.q \in Request /\ x.version \in 0 .. version[x.file]
        /\ x.read = executeReadSource(Contents[x.file][x.version + 1], x.q) /\ x.read.ok
        /\ x.source = Slice(Contents[x.file][x.version + 1], x.read.from, x.read.to)

\* While calls run, what counts as shown is whole in the request that was answered.
Exposed ==
  pc \in {"batch", "note"} =>
    \A a \in exposed : \E k \in DOMAIN request :
        request[k].of # 0 /\ request[k].act = a /\ request[k].form = "whole"

IInv == Ledger /\ Owed /\ Calls /\ Reads /\ Exposed /\ RefusedMeansShown

-----------------------------------------------------------------------------
(* The ledger.                                                             *)

LEMMA Monotone ==
  ASSUME NEW s, NEW n \in Nat, NEW m \in Nat, n <= m,
         NEW r \in [Path -> Nat], NEW u \in [Path -> Nat], \A p \in Path : r[p] <= u[p],
         NEW c, NEW d, DOMAIN d \subseteq DOMAIN c \/ DOMAIN d \subseteq DOMAIN s.closings,
         GoodAt(s, n, r, c)
  PROVE  GoodAt(s, m, u, d)
<1>1. \A p \in Path : /\ s.bounds[p].id \in Nat /\ s.bounds[p].count \in Nat
                      /\ s.bounds[p].id <= n /\ s.bounds[p].count <= r[p]
  BY DEF GoodAt, State, Boundaries
<1>2. \A p \in Path : s.bounds[p].id <= m /\ s.bounds[p].count <= u[p]
  BY <1>1
<1>3. DOMAIN d \subseteq DOMAIN s.closings
  BY DEF GoodAt
<1>4. QED
  BY <1>2, <1>3 DEF GoodAt

\* A state with the same boundaries is as good.
LEMMA SameBounds ==
  ASSUME NEW s, NEW n, NEW r, NEW c, GoodAt(s, n, r, c),
         NEW t, State(t), t.bounds = s.bounds, t.stopId = s.stopId,
         DOMAIN s.closings \subseteq DOMAIN t.closings
  PROVE  GoodAt(t, n, r, c)
BY DEF GoodAt

\* An append: the state that goes to the log was good.
LEMMA Recorded ==
  ASSUME Ledger, NEW s, Record(s),
         GoodAt(s, ids', refusals', closed'), GoodAt(durable, ids', refusals', closed'),
         ids' \in Nat, refusals' \in [Path -> Nat], \A id \in DOMAIN closed' : closed'[id] = 1
  PROVE  Ledger' /\ mem' = s
<1>1. mem' = s
  BY DEF Record
<1>2. durable' \in {durable, s} /\ storage' \in {"ok", "broken"} /\ (storage' = "ok" => durable' = s)
  BY DEF Record, Ledger
<1>3. GoodAt(mem', ids', refusals', closed') /\ GoodAt(durable', ids', refusals', closed')
  BY <1>1, <1>2
<1>4. QED
  BY <1>1, <1>2, <1>3 DEF Ledger, Good

LEMMA Kept ==
  ASSUME Ledger, ids' = ids, closed' = closed, NEW s, GoodAt(s, ids, refusals, closed),
         refusals' \in [Path -> Nat], \A p \in Path : refusals[p] <= refusals'[p]
  PROVE  GoodAt(s, ids', refusals', closed')
<1>1. ids \in Nat /\ ids <= ids /\ refusals \in [Path -> Nat] /\ DOMAIN closed \subseteq DOMAIN closed
  BY DEF Ledger
<1>2. GoodAt(s, ids, refusals', closed)
  BY ONLY <1>1, Monotone, GoodAt(s, ids, refusals, closed),
          refusals' \in [Path -> Nat], \A p \in Path : refusals[p] <= refusals'[p]
<1>3. QED
  BY <1>2

LEMMA SameLedger ==
  ASSUME Ledger, UNCHANGED <<ledger, ids, refusals, closed>>
  PROVE  Ledger'
BY DEF Ledger, Good, GoodAt, State, ledger

\* An append that changes no boundary, while nothing else is counted.
LEMMA RecordedSame ==
  ASSUME Ledger, NEW s, Record(s), State(s), s.bounds = mem.bounds, s.stopId = mem.stopId,
         DOMAIN s.closings = DOMAIN mem.closings, UNCHANGED <<ids, refusals, closed>>
  PROVE  Ledger' /\ mem' = s
<1>1. Good(mem) /\ Good(durable) /\ ids' = ids /\ refusals' = refusals /\ closed' = closed
  BY DEF Ledger
<1>2. GoodAt(s, ids, refusals, closed)
  BY <1>1, SameBounds DEF Good
<1>3. GoodAt(s, ids', refusals', closed') /\ GoodAt(durable, ids', refusals', closed')
  BY <1>1, <1>2 DEF Good
<1>4. ids' \in Nat /\ refusals' \in [Path -> Nat] /\ \A id \in DOMAIN closed' : closed'[id] = 1
  BY <1>1 DEF Ledger
<1>5. QED
  BY <1>3, <1>4, Recorded

LEMMA ReservedSame ==
  ASSUME Ledger, NEW what, Reserve(what), UNCHANGED <<ids, refusals, closed>>
  PROVE  Ledger' /\ mem'.bounds = mem.bounds
<1>1. State(mem)
  BY DEF Ledger, Good, GoodAt
<1>2. PICK s : s = Charged(what)
  OBVIOUS
<1>3. /\ s.bounds = mem.bounds /\ s.stopId = mem.stopId /\ s.closings = mem.closings /\ State(s)
  BY <1>1, <1>2 DEF State, Charged
<1>4. Record(s)
  BY <1>2 DEF Reserve
<1>5. QED
  BY <1>3, <1>4, RecordedSame

\* A boundary that is resolved is not what a run is stopped at.
LEMMA ResolvedGood ==
  ASSUME NEW s, NEW n, NEW r, NEW c, GoodAt(s, n, r, c), NEW p \in Path, s.bounds[p].id # 0
  PROVE  /\ GoodAt(Resolved(s, p), n, r, c)
         /\ \A q \in Path : Resolved(s, p).bounds[q].count = s.bounds[q].count
<1> DEFINE b == [s.bounds[p] EXCEPT !.resolved = TRUE]
           i == IF s.stopId = s.bounds[p].id THEN 0 ELSE s.stopId
           t == [models |-> s.models, tools |-> s.tools, bounds |-> [s.bounds EXCEPT ![p] = b],
                 stopId |-> i, closings |-> s.closings]
<1>1. State(s)
  BY DEF GoodAt
<1>2. Resolved(s, p) = t
  <2>1. PICK u, w : u = [s.bounds EXCEPT ![p] = b] /\ w = [s EXCEPT !.bounds = u]
    OBVIOUS
  <2>2. w = [models |-> s.models, tools |-> s.tools, bounds |-> u,
             stopId |-> s.stopId, closings |-> s.closings]
    BY <1>1, <2>1 DEF State
  <2>3. PICK j : j = i
    OBVIOUS
  <2>4. [w EXCEPT !.stopId = j] = [models |-> s.models, tools |-> s.tools, bounds |-> u,
                                   stopId |-> j, closings |-> s.closings]
    BY <2>2
  <2>5. Resolved(s, p) = [s EXCEPT !.bounds = u, !.stopId = j]
    BY <2>1, <2>3, Zenon DEF Resolved
  <2>6. [s EXCEPT !.bounds = u, !.stopId = j] = [w EXCEPT !.stopId = j]
    BY <2>1
  <2>7. QED
    BY <2>1, <2>3, <2>4, <2>5, <2>6
<1>3. /\ b \in Boundaries /\ b.id = s.bounds[p].id /\ b.count = s.bounds[p].count
      /\ b.stopped = s.bounds[p].stopped /\ b.resolved = TRUE
  BY <1>1 DEF State, Boundaries
<1> HIDE DEF b
<1>4. /\ t.bounds = [s.bounds EXCEPT ![p] = b] /\ t.stopId = i /\ t.closings = s.closings
      /\ t.models = s.models /\ t.tools = s.tools
  OBVIOUS
<1>5. /\ t.bounds \in [Path -> Boundaries] /\ t.bounds[p] = b
      /\ \A q \in Path : q # p => t.bounds[q] = s.bounds[q]
  BY <1>1, <1>3, <1>4 DEF State
<1>6. \A q \in Path : /\ t.bounds[q].id = s.bounds[q].id /\ t.bounds[q].count = s.bounds[q].count
                      /\ t.bounds[q].stopped = s.bounds[q].stopped
  BY <1>3, <1>5
<1>7. State(t)
  <2>1. t = [models |-> t.models, tools |-> t.tools, bounds |-> t.bounds,
             stopId |-> t.stopId, closings |-> t.closings]
    OBVIOUS
  <2>2. t.stopId \in Nat
    BY <1>1, <1>4 DEF State
  <2> HIDE DEF t
  <2>3. QED
    BY <2>1, <2>2, <1>5 DEF State
<1> HIDE DEF t
<1>8. ASSUME t.stopId # 0
      PROVE  \E q \in Path : t.bounds[q].id = t.stopId /\ t.bounds[q].stopped /\ ~ t.bounds[q].resolved
  <2>1. t.stopId = s.stopId /\ s.stopId # s.bounds[p].id /\ s.stopId # 0
    BY <1>4, <1>8
  <2>2. PICK q \in Path : s.bounds[q].id = s.stopId /\ s.bounds[q].stopped /\ ~ s.bounds[q].resolved
    BY <2>1 DEF GoodAt
  <2>3. q # p
    BY <2>1, <2>2
  <2>4. QED
    BY <2>1, <2>2, <2>3, <1>5
<1>9. GoodAt(t, n, r, c)
  BY <1>4, <1>6, <1>7, <1>8 DEF GoodAt
<1>10. QED
  BY <1>2, <1>6, <1>9

WithBound(s, p, b) == [s EXCEPT !.bounds[p] = b]

\* A boundary that counts one refusal more, or opens anew.
LEMMA CountedGood ==
  ASSUME NEW s, NEW n \in Nat, NEW r, NEW c, GoodAt(s, n, r, c), NEW p \in Path,
         s.bounds[p].count + 1 <= r[p], r[p] \in Nat,
         NEW k, k = (IF s.bounds[p].id = 0 \/ s.bounds[p].resolved THEN 1 ELSE s.bounds[p].count + 1),
         NEW b, b = [id |-> IF k = 1 THEN n + 1 ELSE s.bounds[p].id, count |-> k,
                     stopped |-> k >= Repeats, resolved |-> FALSE],
         r \in [Path -> Nat]
  PROVE  /\ GoodAt(WithBound(s, p, b), IF b.id > n THEN b.id ELSE n, r, c)
         /\ b.id \in Nat /\ b.count <= s.bounds[p].count + 1
         /\ \A q \in Path : WithBound(s, p, b).bounds[q] = (IF q = p THEN b ELSE s.bounds[q])
<1> DEFINE m == IF b.id > n THEN b.id ELSE n
           t == [models |-> s.models, tools |-> s.tools, bounds |-> [s.bounds EXCEPT ![p] = b],
                 stopId |-> s.stopId, closings |-> s.closings]
<1>1. State(s) /\ s.bounds \in [Path -> Boundaries] /\ s.stopId \in Nat
  BY DEF GoodAt, State
<1>2. [s EXCEPT !.bounds[p] = b] = t
  <2>1. PICK u : u = [s.bounds EXCEPT ![p] = b]
    OBVIOUS
  <2>2. [s EXCEPT !.bounds = u] = [models |-> s.models, tools |-> s.tools, bounds |-> u,
                                   stopId |-> s.stopId, closings |-> s.closings]
    BY <1>1 DEF State
  <2>3. [s EXCEPT !.bounds[p] = b] = [s EXCEPT !.bounds = u]
    BY <2>1
  <2>4. QED
    BY <2>1, <2>2, <2>3
<1>3. \A q \in Path : /\ s.bounds[q].id \in Nat /\ s.bounds[q].count \in Nat
                      /\ s.bounds[q].stopped \in BOOLEAN /\ s.bounds[q].resolved \in BOOLEAN
                      /\ s.bounds[q].id <= n /\ s.bounds[q].count <= r[q]
  BY <1>1 DEF GoodAt, Boundaries
<1>4. k \in Nat /\ k >= 1 /\ k <= s.bounds[p].count + 1 /\ k <= r[p]
  BY <1>3
<1>5. /\ b.id = (IF k = 1 THEN n + 1 ELSE s.bounds[p].id) /\ b.count = k
      /\ b.stopped = (k >= Repeats) /\ b.resolved = FALSE
  OBVIOUS
<1>6. b.id \in Nat /\ b.id # 0 /\ b \in Boundaries
      /\ (b.id # n + 1 => b.id = s.bounds[p].id /\ ~ s.bounds[p].resolved
                          /\ k = s.bounds[p].count + 1)
  <2>1. b.id \in Nat /\ b.id # 0 /\ (b.id # n + 1 => b.id = s.bounds[p].id /\ ~ s.bounds[p].resolved
                          /\ k = s.bounds[p].count + 1)
    BY <1>3, <1>4, <1>5
  <2>2. (k >= Repeats) \in BOOLEAN
    OBVIOUS
  <2>3. b \in Boundaries
    BY <2>1, <2>2, <1>4, <1>5 DEF Boundaries
  <2>4. QED
    BY <2>1, <2>3
<1>7. m \in Nat /\ n <= m /\ b.id <= m
  BY <1>6
<1> HIDE DEF m
<1>8. /\ t.bounds = [s.bounds EXCEPT ![p] = b] /\ t.stopId = s.stopId /\ t.closings = s.closings
      /\ t.models = s.models /\ t.tools = s.tools
  OBVIOUS
<1>9. /\ t.bounds \in [Path -> Boundaries] /\ t.bounds[p] = b
      /\ \A q \in Path : q # p => t.bounds[q] = s.bounds[q]
  BY <1>1, <1>6, <1>8
<1>10. State(t)
  <2>1. t = [models |-> t.models, tools |-> t.tools, bounds |-> t.bounds,
             stopId |-> t.stopId, closings |-> t.closings]
    OBVIOUS
  <2>2. t.stopId \in Nat
    BY <1>1, <1>8
  <2> HIDE DEF t
  <2>3. QED
    BY <2>1, <2>2, <1>9 DEF State
<1> HIDE DEF t
<1>11. \A q \in Path : t.bounds[q].id <= m /\ t.bounds[q].count <= r[q]
  BY <1>3, <1>4, <1>5, <1>7, <1>9
<1>12. \A q \in Path : q # p => s.bounds[q].id # b.id
  <2>1. ASSUME NEW q \in Path, q # p, s.bounds[q].id = b.id PROVE FALSE
    <3>1. b.id # n + 1
      BY <2>1, <1>3
    <3>2. QED
      BY <2>1, <3>1, <1>6 DEF GoodAt
  <2>2. QED
    BY <2>1
<1>13. \A q, o \in Path : t.bounds[q].id # 0 /\ t.bounds[q].id = t.bounds[o].id => q = o
  <2>1. ASSUME NEW q \in Path, NEW o \in Path, t.bounds[q].id # 0, t.bounds[q].id = t.bounds[o].id, q # o
        PROVE  FALSE
    <3>1. CASE q = p
      BY <2>1, <3>1, <1>9, <1>12
    <3>2. CASE o = p
      BY <2>1, <3>2, <1>9, <1>12
    <3>3. CASE q # p /\ o # p
      BY <2>1, <3>3, <1>9 DEF GoodAt
    <3>4. QED
      BY <3>1, <3>2, <3>3
  <2>2. QED
    BY <2>1
<1>14. \A q \in Path : t.bounds[q].id # 0 =>
           t.bounds[q].count >= 1 /\ t.bounds[q].stopped = (t.bounds[q].count >= Repeats)
  <2>1. ASSUME NEW q \in Path, t.bounds[q].id # 0
        PROVE  t.bounds[q].count >= 1 /\ t.bounds[q].stopped = (t.bounds[q].count >= Repeats)
    <3>1. CASE q = p
      BY <3>1, <1>4, <1>5, <1>9
    <3>2. CASE q # p
      BY <2>1, <3>2, <1>9 DEF GoodAt
    <3>3. QED
      BY <3>1, <3>2
  <2>2. QED
    BY <2>1
<1>15. ASSUME t.stopId # 0
       PROVE  \E q \in Path : t.bounds[q].id = t.stopId /\ t.bounds[q].stopped /\ ~ t.bounds[q].resolved
  <2>1. PICK q \in Path : s.bounds[q].id = s.stopId /\ s.bounds[q].stopped /\ ~ s.bounds[q].resolved
    BY <1>8, <1>15 DEF GoodAt
  <2>2. CASE q # p
    BY <2>1, <2>2, <1>8, <1>9
  <2>3. CASE q = p
    <3>1. s.bounds[p].id # 0 /\ s.bounds[p].stopped = (s.bounds[p].count >= Repeats)
          /\ s.bounds[p].count >= 1
      BY <2>1, <2>3, <1>8, <1>15 DEF GoodAt
    <3>2. k = s.bounds[p].count + 1 /\ k # 1
      BY <2>1, <2>3, <3>1, <1>3
    <3>3. b.id = s.stopId /\ k >= Repeats
      BY <3>1, <3>2, <2>1, <2>3, <1>3, <1>5 DEF Repeats
    <3>4. QED
      BY <3>3, <1>5, <1>8, <1>9
  <2>4. QED
    BY <2>2, <2>3
<1>16. DOMAIN c \subseteq DOMAIN t.closings
  BY <1>8 DEF GoodAt
<1>17. GoodAt(t, m, r, c)
  BY <1>10, <1>11, <1>13, <1>14, <1>15, <1>16 DEF GoodAt
<1>18. QED
  BY <1>2, <1>4, <1>5, <1>6, <1>9, <1>17 DEF m, WithBound

\* A run stops at a boundary that stands.
LEMMA StopGood ==
  ASSUME NEW s, NEW n, NEW r, NEW c, GoodAt(s, n, r, c), NEW id \in Nat,
         \E p \in Path : s.bounds[p].id = id /\ s.bounds[p].stopped /\ ~ s.bounds[p].resolved
  PROVE  GoodAt([s EXCEPT !.stopId = id], n, r, c) /\ [s EXCEPT !.stopId = id].bounds = s.bounds
<1> DEFINE t == [s EXCEPT !.stopId = id]
<1>1. State(s)
  BY DEF GoodAt
<1>2. t = [models |-> s.models, tools |-> s.tools, bounds |-> s.bounds,
           stopId |-> id, closings |-> s.closings]
  BY <1>1 DEF State
<1> HIDE DEF t
<1>3. t.bounds = s.bounds /\ t.stopId = id /\ t.closings = s.closings
  BY <1>2
<1>4. State(t)
  BY <1>1, <1>2 DEF State
<1>5. GoodAt(t, n, r, c)
  BY <1>3, <1>4 DEF GoodAt
<1>6. QED
  BY <1>3, <1>5 DEF t

-----------------------------------------------------------------------------
(* The calls of an answer.                                                 *)

LEMMA OwingIs ==
  ASSUME Calls, NEW p
  PROVE  /\ IsFiniteSet(Owing(p)) /\ Cardinality(Owing(p)) \in Nat
         /\ batch = <<>> => Cardinality(Owing(p)) = 0
<1>1. IsFiniteSet(1 .. Len(batch)) /\ DOMAIN batch = 1 .. Len(batch)
  BY FS_Interval, LenProperties DEF Calls
<1>2. Owing(p) \subseteq 1 .. Len(batch)
  BY <1>1 DEF Owing
<1>3. IsFiniteSet(Owing(p)) /\ Cardinality(Owing(p)) \in Nat
  BY <1>1, <1>2, FS_Subset, FS_CardinalityType
<1>4. batch = <<>> => Owing(p) = {}
  BY DEF Owing
<1>5. QED
  BY <1>3, <1>4, FS_EmptySet

\* While no call runs, nothing is owed, nothing refused.
LEMMA NoCalls ==
  ASSUME Ledger', Calls', batch' = <<>>, pc' \notin {"batch", "note"}
  PROVE  Owed' /\ Exposed' /\ RefusedMeansShown'
<1>1. ASSUME NEW p \in Path
      PROVE  (mem.bounds[p].count + Cardinality(Owing(p)) <= refusals[p])'
  <2>1. Owing(p)' = {} /\ Cardinality(Owing(p)') = 0
    BY FS_EmptySet DEF Owing
  <2>2. (mem.bounds[p].count \in Nat /\ mem.bounds[p].count <= refusals[p])'
    BY DEF Ledger, Good, GoodAt, State, Boundaries
  <2>3. QED
    BY <2>1, <2>2
<1>2. Owed'
  BY <1>1 DEF Owed
<1>3. QED
  BY <1>2 DEF Exposed, RefusedMeansShown

\* A call whose result is a refusal at the path.
Owes(y, p) == y.call.tool = "list" /\ y.call.path = p /\ y.result = "notdir"

\* One call goes on: at most one refusal more is owed.
LEMMA OwingGrows ==
  ASSUME Calls, Calls', NEW i \in DOMAIN batch, NEW y \in Entries, y.call = batch[i].call,
         batch' = [batch EXCEPT ![i] = y], at' = at, NEW p
  PROVE  /\ Cardinality(Owing(p)) \in Nat /\ Cardinality(Owing(p))' \in Nat
         /\ Cardinality(Owing(p))' <= Cardinality(Owing(p)) + 1
         /\ ~ Owes(y, p) => Cardinality(Owing(p))' <= Cardinality(Owing(p))
<1>1. /\ IsFiniteSet(Owing(p)) /\ Cardinality(Owing(p)) \in Nat
      /\ IsFiniteSet(Owing(p)') /\ Cardinality(Owing(p)') \in Nat
  <2>1. (IsFiniteSet(Owing(p)) /\ Cardinality(Owing(p)) \in Nat)'
    BY OwingIs, PTL
  <2>2. QED
    BY <2>1, OwingIs
<1>2. DOMAIN batch' = DOMAIN batch /\ batch'[i] = y
      /\ \A j \in DOMAIN batch : j # i => batch'[j] = batch[j]
  OBVIOUS
<1>3. Owing(p)' \subseteq Owing(p) \cup {i}
  BY <1>2 DEF Owing
<1>4. ~ Owes(y, p) => Owing(p)' \subseteq Owing(p)
  BY <1>2 DEF Owing, Owes
<1>5. IsFiniteSet(Owing(p) \cup {i}) /\ Cardinality(Owing(p) \cup {i}) <= Cardinality(Owing(p)) + 1
  <2> DEFINE S == Owing(p)
  <2>1. IsFiniteSet(S) /\ Cardinality(S) \in Nat
    BY <1>1
  <2> HIDE DEF S
  <2>2. IsFiniteSet(S \cup {i}) /\ Cardinality(S \cup {i}) <= Cardinality(S) + 1
    <3>1. /\ IsFiniteSet(S \cup {i})
          /\ Cardinality(S \cup {i}) = IF i \in S THEN Cardinality(S) ELSE Cardinality(S) + 1
      BY <2>1, FS_AddElement
    <3>2. CASE i \in S
      BY <2>1, <3>1, <3>2
    <3>3. CASE i \notin S
      BY <2>1, <3>1, <3>3
    <3>4. QED
      BY <3>2, <3>3
  <2>3. QED
    BY <2>2 DEF S
<1>6. Cardinality(Owing(p)') <= Cardinality(Owing(p) \cup {i})
      /\ Cardinality(Owing(p) \cup {i}) \in Nat
  BY <1>3, <1>5, FS_Subset, FS_CardinalityType
<1>7. Owing(p)' \subseteq Owing(p) => Cardinality(Owing(p)') <= Cardinality(Owing(p))
  BY <1>1, FS_Subset
<1>8. QED
  BY <1>1, <1>4, <1>5, <1>6, <1>7

LEMMA CallsStep ==
  ASSUME Calls, NEW i \in DOMAIN batch, NEW y \in Entries, batch' = [batch EXCEPT ![i] = y],
         at' = at, pc' = pc, task' = task, acts' \in Nat
  PROVE  Calls'
<1>1. batch' \in Seq(Entries)
  <2>1. batch \in Seq(Entries)
    BY DEF Calls
  <2>2. QED
    BY <2>1, ExceptSeq
<1>2. batch # <<>>
  OBVIOUS
<1>3. QED
  BY <1>1, <1>2 DEF Calls

-----------------------------------------------------------------------------
(* The steps.                                                              *)

LEMMA Begins == ASSUME Init PROVE IInv
<1>1. /\ mem = [models |-> 0, tools |-> 0, bounds |-> [p \in Path |-> NoBoundary],
                stopId |-> 0, closings |-> Never]
      /\ durable = mem /\ storage = "ok" /\ ids = 0 /\ refusals = [p \in Path |-> 0]
      /\ closed = Never
  BY DEF Init
<1>2. State(mem)
  <2>1. NoBoundary \in Boundaries
    BY DEF NoBoundary, Boundaries
  <2>2. mem.bounds = [p \in Path |-> NoBoundary] /\ mem.stopId = 0
    BY <1>1
  <2>3. mem.bounds \in [Path -> Boundaries]
    BY <2>1, <2>2
  <2>4. mem = [models |-> mem.models, tools |-> mem.tools, bounds |-> mem.bounds,
               stopId |-> mem.stopId, closings |-> mem.closings]
    BY <1>1
  <2>5. QED
    BY <2>2, <2>3, <2>4 DEF State
<1>3. /\ \A p \in Path : mem.bounds[p].id = 0 /\ mem.bounds[p].count = 0 /\ refusals[p] = 0
      /\ mem.stopId = 0 /\ mem.closings = Never
  BY <1>1 DEF NoBoundary
<1>4. GoodAt(mem, ids, refusals, closed)
  <2>1. \A p \in Path : mem.bounds[p].id <= ids /\ mem.bounds[p].count <= refusals[p]
    BY <1>1, <1>3
  <2>2. DOMAIN closed \subseteq DOMAIN mem.closings
    BY <1>1, <1>3
  <2>3. QED
    BY <1>2, <1>3, <2>1, <2>2 DEF GoodAt
<1>5. Ledger
  <2>1. ids \in Nat /\ refusals \in [Path -> Nat] /\ \A id \in DOMAIN closed : closed[id] = 1
    BY <1>1 DEF Never
  <2>2. QED
    BY <1>1, <1>4, <2>1 DEF Ledger, Good
<1>6. task \in Tasks /\ pc = "idle" /\ batch = <<>> /\ at = 1 /\ acts = 0 /\ records = {}
  BY DEF Init
<1>7. Calls
  <2>1. <<>> \in Seq(Entries)
    BY EmptySeq
  <2>2. QED
    BY <1>6, <2>1 DEF Calls
<1>8. Reads
  <2>1. ASSUME NEW f \in File PROVE 0 < Len(Contents[f])
    <3>1. Contents[f] \in Seq(Seq(Byte)) /\ Contents[f] # <<>>
      BY ContentsAssumption
    <3>2. QED
      BY <3>1, LenProperties, EmptySeq
  <2>2. version = [f \in File |-> 0]
    BY DEF Init
  <2>3. QED
    BY <1>6, <2>1, <2>2 DEF Reads
<1>9. Owed
  <2>1. ASSUME NEW p \in Path PROVE mem.bounds[p].count + Cardinality(Owing(p)) <= refusals[p]
    <3>1. Cardinality(Owing(p)) = 0
      BY <1>6, <1>7, OwingIs
    <3>2. QED
      BY <1>3, <3>1
  <2>2. QED
    BY <2>1 DEF Owed
<1>10. Exposed /\ RefusedMeansShown
  BY <1>6 DEF Exposed, RefusedMeansShown
<1>11. QED
  BY <1>5, <1>7, <1>8, <1>9, <1>10 DEF IInv

\* A step between the batches that leaves what was read alone.
LEMMA Between ==
  ASSUME IInv, Ledger', pc \notin {"batch", "note"}, pc' \notin {"batch", "note"},
         UNCHANGED <<batch, at, task, acts, version>>, records' = records
  PROVE  IInv'
<1>1. batch = <<>> /\ at = 1
  BY DEF IInv, Calls
<1>2. Calls' /\ batch' = <<>>
  BY <1>1 DEF IInv, Calls
<1>3. Reads'
  BY DEF IInv, Reads
<1>4. QED
  BY <1>2, <1>3, NoCalls DEF IInv

\* A step that forgets the run.
LEMMA Forgets ==
  ASSUME IInv, Ledger', pc' \notin {"batch", "note"}, Forget, UNCHANGED <<task, acts, version>>
  PROVE  IInv'
<1>1. Calls' /\ batch' = <<>>
  <2>1. <<>> \in Seq(Entries)
    BY EmptySeq
  <2>2. batch' = <<>> /\ at' = 1
    BY DEF Forget
  <2>3. task' \in Tasks /\ acts' \in Nat
    BY DEF IInv, Calls
  <2>4. QED
    BY <2>1, <2>2, <2>3 DEF Calls
<1>2. Reads'
  BY DEF IInv, Reads, Forget
<1>3. QED
  BY <1>1, <1>2, NoCalls DEF IInv

LEMMA OpenKeeps == ASSUME IInv, Open PROVE IInv'
<1>1. Good(durable) /\ UNCHANGED <<ids, refusals, closed, durable>> /\ mem' = durable /\ storage' = "ok"
  BY DEF IInv, Ledger, Open
<1>2. Ledger'
  BY <1>1 DEF IInv, Ledger, Good, GoodAt, State
<1>3. pc = "idle" /\ pc' \in {"resume", "turn"}
  BY DEF Open, GoTo
<1>4. QED
  BY <1>2, <1>3, Between DEF Open, reuse, world

LEMMA ResumeKeeps == ASSUME IInv, Resume PROVE IInv'
<1>1. Ledger
  BY DEF IInv
<1>2. UNCHANGED <<ids, refusals, closed>>
  BY DEF Resume, past
<1>3. Ledger'
  <2>1. CASE UNCHANGED ledger
    BY <1>1, <1>2, <2>1, SameLedger
  <2>2. CASE Record(mem)
    <3>1. State(mem)
      BY <1>1 DEF Ledger, Good, GoodAt
    <3>2. PICK s : s = mem
      OBVIOUS
    <3>3. QED
      BY <1>1, <1>2, <2>2, <3>1, <3>2, RecordedSame
  <2>3. ASSUME NEW p \in Standing(mem.stopId), Record(Resolved(mem, p))
        PROVE  Ledger'
    <3>1. p \in Path /\ mem.bounds[p].id # 0
      BY <2>3 DEF Standing
    <3>2. PICK s : s = Resolved(mem, p)
      OBVIOUS
    <3>3. GoodAt(s, ids, refusals, closed) /\ GoodAt(durable, ids, refusals, closed)
      BY <1>1, <3>1, <3>2, ResolvedGood DEF Ledger, Good
    <3>4. GoodAt(s, ids', refusals', closed') /\ GoodAt(durable, ids', refusals', closed')
      BY <3>3, <1>2
    <3>5. ids' \in Nat /\ refusals' \in [Path -> Nat] /\ \A id \in DOMAIN closed' : closed'[id] = 1
      BY <1>1, <1>2 DEF Ledger
    <3>6. Record(s)
      BY <2>3, <3>2
    <3>7. QED
      BY <1>1, <3>4, <3>5, <3>6, Recorded
  <2>4. QED
    BY <2>1, <2>2, <2>3 DEF Resume
<1>4. pc' \in {"turn", "end"}
  BY DEF Resume, GoTo, EndWith, Next1
<1>5. QED
  BY <1>3, <1>4, Between DEF Resume, Calm, past, reuse, world

LEMMA AskKeeps == ASSUME IInv, Ask PROVE IInv'
<1>1. Ledger /\ UNCHANGED <<ids, refusals, closed>>
  BY DEF IInv, Ask, past
<1>2. Ledger'
  <2>1. CASE UNCHANGED ledger
    BY <1>1, <2>1, SameLedger
  <2>2. CASE Reserve("model")
    BY <1>1, <2>2, ReservedSame
  <2>3. QED
    BY <2>1, <2>2 DEF Ask
<1>3. pc' \in {"asked", "end"}
  BY DEF Ask, EndWith, Next1
<1>4. QED
  BY <1>2, <1>3, Between DEF Ask, Calm, past, world

LEMMA DeliverKeeps == ASSUME IInv, Deliver PROVE IInv'
<1>1. Ledger'
  BY SameLedger DEF IInv, Deliver, past
<1>2. QED
  BY <1>1, Between DEF Deliver, Calm, past, world, EndWith

LEMMA SurveyKeeps == ASSUME IInv, Survey PROVE IInv'
<1>1. Ledger'
  BY SameLedger DEF IInv, Survey, past
<1>2. QED
  BY <1>1, Between DEF Survey, Calm, past, world, reuse, GoTo

LEMMA CheckKeeps == ASSUME IInv, NEW f \in File, Check(f) PROVE IInv'
<1>1. Ledger'
  BY SameLedger DEF IInv, Check, past
<1>2. QED
  BY <1>1, Between DEF Check, Calm, past, world, reuse

LEMMA ClosedKeeps == ASSUME IInv, Closed PROVE IInv'
<1>1. Ledger /\ UNCHANGED <<ids, refusals, closed>> /\ State(mem)
  BY DEF IInv, Closed, past, Ledger, Good, GoodAt
<1>2. PICK answer, s : s = [mem EXCEPT !.closings[mem.stopId] = answer] /\ Record(s)
  BY DEF Closed
<1>3. /\ State(s) /\ s.bounds = mem.bounds /\ s.stopId = mem.stopId
      /\ DOMAIN s.closings = DOMAIN mem.closings
  <2>1. PICK u : u = [mem.closings EXCEPT ![mem.stopId] = answer]
    OBVIOUS
  <2>2. [mem EXCEPT !.closings = u] = [models |-> mem.models, tools |-> mem.tools,
             bounds |-> mem.bounds, stopId |-> mem.stopId, closings |-> u]
    BY <1>1 DEF State
  <2>3. s = [mem EXCEPT !.closings = u]
    BY <1>2, <2>1
  <2>4. s = [models |-> mem.models, tools |-> mem.tools,
             bounds |-> mem.bounds, stopId |-> mem.stopId, closings |-> u]
    BY <2>2, <2>3
  <2>5. DOMAIN u = DOMAIN mem.closings
    BY <2>1
  <2>6. QED
    BY <1>1, <2>4, <2>5 DEF State
<1>4. Ledger'
  BY <1>1, <1>2, <1>3, RecordedSame
<1>5. QED
  BY <1>4, Between DEF Closed, Calm, past, world, reuse, GoTo

LEMMA FinishKeeps == ASSUME IInv, Finish PROVE IInv'
<1>1. Ledger /\ UNCHANGED <<ids, refusals, closed>> /\ State(mem)
  BY DEF IInv, Finish, past, Ledger, Good, GoodAt
<1>2. PICK s : s = mem
  OBVIOUS
<1>3. Record(s)
  BY <1>2 DEF Finish
<1>4. Ledger'
  BY <1>1, <1>2, <1>3, RecordedSame
<1>5. QED
  BY <1>4, Forgets DEF Finish, Calm, past, world, GoTo

LEMMA CrashKeeps == ASSUME IInv, Crash PROVE IInv'
<1>1. Ledger'
  BY SameLedger DEF IInv, Crash, past
<1>2. QED
  BY <1>1, Forgets DEF Crash, Calm, past, world, GoTo

LEMMA PartialKeeps == ASSUME IInv, Partial PROVE IInv'
<1>1. Ledger /\ ids' = ids /\ refusals' = refusals /\ State(mem)
  BY DEF IInv, Partial, Ledger, Good, GoodAt
<1>2. Ledger'
  <2>1. CASE UNCHANGED <<ledger, closed>>
    BY <1>1, <2>1, SameLedger
  <2>2. CASE /\ MayClose(mem.stopId)
             /\ Record([mem EXCEPT !.models = @ + 1, !.closings = Put(@, mem.stopId, "started")])
             /\ IF storage' = "ok"
                THEN closed' = Put(closed, mem.stopId,
                       1 + (IF mem.stopId \in DOMAIN closed THEN closed[mem.stopId] ELSE 0))
                ELSE UNCHANGED closed
    <3>1. PICK id, u, v : id = mem.stopId /\ u = mem.models + 1 /\ v = Put(mem.closings, id, "started")
      OBVIOUS
    <3>2. PICK s : s = [models |-> u, tools |-> mem.tools, bounds |-> mem.bounds,
                        stopId |-> mem.stopId, closings |-> v]
      OBVIOUS
    <3>3. [mem EXCEPT !.models = @ + 1, !.closings = Put(@, mem.stopId, "started")] = s
      <4>1. PICK w : w = [mem EXCEPT !.models = u]
        OBVIOUS
      <4>2. w = [models |-> u, tools |-> mem.tools, bounds |-> mem.bounds,
                 stopId |-> mem.stopId, closings |-> mem.closings]
        BY <1>1, <4>1 DEF State
      <4>3. [w EXCEPT !.closings = v] = s
        BY <3>2, <4>2
      <4>4. [mem EXCEPT !.models = u, !.closings = v] = [w EXCEPT !.closings = v]
        BY <4>1
      <4>5. [mem EXCEPT !.models = @ + 1, !.closings = Put(@, mem.stopId, "started")]
              = [mem EXCEPT !.models = u, !.closings = v]
        BY <3>1, Zenon
      <4>6. QED
        BY <4>3, <4>4, <4>5
    <3>4. Record(s)
      BY <2>2, <3>3
    <3>5. /\ s.bounds = mem.bounds /\ s.stopId = mem.stopId /\ State(s)
          /\ DOMAIN s.closings = DOMAIN mem.closings \cup {id}
      BY <1>1, <3>1, <3>2 DEF State, Put
    <3>6. GoodAt(s, ids, refusals, closed) /\ GoodAt(durable, ids, refusals, closed)
      BY <1>1, <3>5, SameBounds DEF Ledger, Good
    <3>7. CASE storage' # "ok"
      <4>1. closed' = closed
        BY <2>2, <3>7
      <4>2. GoodAt(s, ids', refusals', closed') /\ GoodAt(durable, ids', refusals', closed')
        BY <1>1, <3>6, <4>1
      <4>3. ids' \in Nat /\ refusals' \in [Path -> Nat] /\ \A x \in DOMAIN closed' : closed'[x] = 1
        BY <1>1, <4>1 DEF Ledger
      <4>4. QED
        BY <1>1, <3>4, <4>2, <4>3, Recorded
    <3>8. CASE storage' = "ok"
      <4>1. mem' = s /\ durable' = s
        BY <3>4, <3>8 DEF Record
      <4>2. DOMAIN closed \subseteq DOMAIN mem.closings /\ \A x \in DOMAIN closed : closed[x] = 1
        BY <1>1 DEF Ledger, Good, GoodAt
      <4>3. id \notin DOMAIN closed
        BY <2>2, <3>1, <4>2 DEF MayClose
      <4>4. closed' = Put(closed, id, 1 + 0)
        BY <2>2, <3>1, <3>8, <4>3
      <4>5. DOMAIN closed' = DOMAIN closed \cup {id} /\ \A x \in DOMAIN closed' : closed'[x] = 1
        BY <4>2, <4>4 DEF Put
      <4>6. DOMAIN closed' \subseteq DOMAIN s.closings
        BY <3>5, <4>2, <4>5
      <4>7. GoodAt(s, ids', refusals', closed')
        BY <1>1, <3>6, <4>6 DEF GoodAt
      <4>8. QED
        BY <1>1, <3>8, <4>1, <4>5, <4>7 DEF Ledger, Good
    <3>9. QED
      BY <3>7, <3>8
  <2>3. QED
    BY <2>1, <2>2 DEF Partial
<1>3. pc' \notin {"batch", "note"}
  BY DEF Partial, GoTo
<1>4. QED
  BY <1>2, <1>3, Between DEF Partial, Calm, world, reuse

\* A step that leaves the calls, the reads and the request as they are.
LEMMA CallsStay ==
  ASSUME IInv, Ledger', task' \in Tasks, pc' = pc \/ (pc = "batch" /\ pc' = "note"),
         mem' = mem, refusals' = refusals, batch' = batch, at' = at, acts' = acts,
         version' = version, records' = records, request' = request, exposed' = exposed
  PROVE  IInv'
<1>1. Owed'
  BY DEF IInv, Owed, Owing
<1>2. Calls'
  BY DEF IInv, Calls
<1>3. Reads'
  BY DEF IInv, Reads
<1>4. Exposed'
  BY DEF IInv, Exposed
<1>5. RefusedMeansShown'
  <2>1. /\ RefusedMeansShown
        /\ batch' = batch /\ records' = records /\ request' = request
    BY DEF IInv
  <2>2. QED
    BY ONLY <2>1 DEF RefusedMeansShown
<1>6. QED
  BY <1>1, <1>2, <1>3, <1>4, <1>5 DEF IInv

LEMMA CancelKeeps == ASSUME IInv, Cancel PROVE IInv'
<1>1. Ledger'
  BY SameLedger DEF IInv, Cancel, past
<1>2. QED
  BY <1>1, CallsStay DEF IInv, Calls, Cancel, past, ledger, talk, reuse, world

\* The entry of a call: what its steps change of it.
LEMMA EntryFails ==
  ASSUME NEW e \in Entries, NEW error
  PROVE  [e EXCEPT !.step = "done", !.error = error]
           = [call |-> e.call, step |-> "done", result |-> e.result, act |-> e.act,
              bytes |-> e.bytes, kept |-> e.kept, error |-> error, seen |-> e.seen,
              bound |-> e.bound]
<1>1. PICK u : u = [e EXCEPT !.step = "done"]
  OBVIOUS
<1>2. u = [call |-> e.call, step |-> "done", result |-> e.result, act |-> e.act,
           bytes |-> e.bytes, kept |-> e.kept, error |-> e.error, seen |-> e.seen,
           bound |-> e.bound]
  BY <1>1 DEF Entries
<1>3. [e EXCEPT !.step = "done", !.error = error] = [u EXCEPT !.error = error]
  BY <1>1
<1>4. [u EXCEPT !.error = error]
        = [call |-> e.call, step |-> "done", result |-> e.result, act |-> e.act,
           bytes |-> e.bytes, kept |-> e.kept, error |-> error, seen |-> e.seen,
           bound |-> e.bound]
  BY <1>2
<1>5. QED
  BY <1>3, <1>4

LEMMA EntryGoes ==
  ASSUME NEW e \in Entries, NEW step, NEW seen
  PROVE  [e EXCEPT !.step = step, !.seen = seen]
           = [call |-> e.call, step |-> step, result |-> e.result, act |-> e.act,
              bytes |-> e.bytes, kept |-> e.kept, error |-> e.error, seen |-> seen,
              bound |-> e.bound]
<1>1. PICK u : u = [e EXCEPT !.step = step]
  OBVIOUS
<1>2. u = [call |-> e.call, step |-> step, result |-> e.result, act |-> e.act,
           bytes |-> e.bytes, kept |-> e.kept, error |-> e.error, seen |-> e.seen,
           bound |-> e.bound]
  BY <1>1 DEF Entries
<1>3. [e EXCEPT !.step = step, !.seen = seen] = [u EXCEPT !.seen = seen]
  BY <1>1
<1>4. [u EXCEPT !.seen = seen]
        = [call |-> e.call, step |-> step, result |-> e.result, act |-> e.act,
           bytes |-> e.bytes, kept |-> e.kept, error |-> e.error, seen |-> seen,
           bound |-> e.bound]
  BY <1>2
<1>5. QED
  BY <1>3, <1>4

\* The model's answer: what stands whole in the request is shown.
LEMMA AnswerKeeps == ASSUME IInv, Answer PROVE IInv'
<1>1. Ledger'
  BY SameLedger DEF IInv, Answer, past
<1>2. /\ pc = "asked" /\ pc' = "batch" /\ at' = at /\ task' = task /\ acts' = acts
      /\ records' = records /\ version' = version /\ mem' = mem /\ refusals' = refusals
      /\ request' = request /\ exposed' = markReadExposure(request)
  BY DEF Answer, GoTo, Calm, past, world, ledger
<1>3. PICK calls \in Batches : batch' = [i \in DOMAIN calls |-> NewCall(calls[i])]
  BY DEF Answer
<1>4. /\ batch' \in Seq(Entries)
      /\ \A i \in DOMAIN batch' : batch'[i].result = "none" /\ batch'[i].step = "wait"
  <2>1. \A c \in task.menu : /\ NewCall(c) \in Entries
                             /\ NewCall(c).result = "none" /\ NewCall(c).step = "wait"
    BY TasksAssumption DEF IInv, Calls, NewCall, Entries
  <2>2. CASE calls \in {<<c>> : c \in task.menu}
    <3>1. PICK c \in task.menu : calls = <<c>>
      BY <2>2
    <3>2. batch' = [i \in 1 .. 1 |-> NewCall(calls[i])] /\ calls[1] = c
      BY <1>3, <3>1
    <3>3. QED
      BY <2>1, <3>2
  <2>3. CASE calls \in {<<c, d>> : c, d \in task.menu}
    <3>1. PICK c \in task.menu, d \in task.menu : calls = <<c, d>>
      BY <2>3
    <3>2. batch' = [i \in 1 .. 2 |-> NewCall(calls[i])] /\ calls[1] = c /\ calls[2] = d
      BY <1>3, <3>1
    <3>3. QED
      BY <2>1, <3>2
  <2>4. QED
    BY <2>2, <2>3 DEF Batches
<1>5. Calls'
  BY <1>2, <1>4 DEF IInv, Calls
<1>6. Reads'
  BY <1>2 DEF IInv, Reads
<1>7. Owed'
  <2>1. ASSUME NEW p \in Path
        PROVE  (mem.bounds[p].count + Cardinality(Owing(p)) <= refusals[p])'
    <3>1. Owing(p)' = {} /\ Cardinality(Owing(p)') = 0
      BY <1>4, FS_EmptySet DEF Owing
    <3>2. (mem.bounds[p].count \in Nat /\ mem.bounds[p].count <= refusals[p])'
      BY <1>1 DEF Ledger, Good, GoodAt, State, Boundaries
    <3>3. QED
      BY <3>1, <3>2
  <2>2. QED
    BY <2>1 DEF Owed
<1>8. Exposed' /\ RefusedMeansShown'
  BY <1>2, <1>4 DEF Exposed, RefusedMeansShown, markReadExposure
<1>9. QED
  BY <1>1, <1>5, <1>6, <1>7, <1>8 DEF IInv

LEMMA EndBatchKeeps == ASSUME IInv, EndBatch PROVE IInv'
<1>1. Ledger'
  BY SameLedger DEF IInv, EndBatch, past
<1>2. at' = at /\ pc = "batch" /\ pc' = "note"
  BY DEF IInv, Calls, EndBatch, GoTo
<1>3. QED
  BY <1>1, <1>2, CallsStay DEF IInv, Calls, EndBatch, past, ledger, talk, reuse, world, Calm

\* RefusedMeansShown, of one call.
Shows(y) ==
  LET c == y.call
      r == executeReadSource(Contents[c.file][y.seen + 1], c.q)
  IN \E x \in records, k \in DOMAIN request :
        /\ request[k].of # 0 /\ request[k].act = x.act /\ request[k].form = "whole"
        /\ x.file = c.file /\ x.version = y.seen
        /\ \/ Key(x.q) = Key(c.q)
           \/ r.ok /\ x.read.from <= r.from /\ r.to <= x.read.to

LEMMA ShowsIs == RefusedMeansShown <=>
  \A i \in DOMAIN batch : "shown" \in {batch[i].step, batch[i].result} => Shows(batch[i])
BY DEF RefusedMeansShown, Shows

\* A call goes on, and y is what becomes of its entry.
Goes(i, y) ==
  /\ pc = "batch" /\ y.call = batch[i].call /\ Step(i, y)
  /\ pc' = pc /\ at' = at /\ task' = task /\ request' = request /\ exposed' = exposed
  /\ acts' \in Nat /\ records \subseteq records' /\ Ledger' /\ Reads'
  /\ \A p \in Path : mem'.bounds[p].count = mem.bounds[p].count
  /\ \A p \in Path : refusals[p] <= refusals'[p]
  /\ \A p \in Path : Owes(y, p) => refusals[p] + 1 <= refusals'[p]
  /\ "shown" \in {y.step, y.result} => Shows(y)

LEMMA StepKeeps ==
  ASSUME IInv, NEW i \in DOMAIN batch, NEW y \in Entries, Goes(i, y)
  PROVE  IInv'
<1> USE DEF Goes
<1>0. batch' = [batch EXCEPT ![i] = y]
  BY DEF Step
<1>1. Calls'
  BY <1>0, CallsStep DEF IInv
<1>2. Owed'
  <2>1. ASSUME NEW p \in Path
        PROVE  (mem.bounds[p].count + Cardinality(Owing(p)) <= refusals[p])'
    <3>1. /\ Cardinality(Owing(p)) \in Nat /\ Cardinality(Owing(p))' \in Nat
          /\ Cardinality(Owing(p))' <= Cardinality(Owing(p)) + 1
          /\ ~ Owes(y, p) => Cardinality(Owing(p))' <= Cardinality(Owing(p))
      BY <1>0, <1>1, OwingGrows DEF IInv
    <3>2. mem.bounds[p].count \in Nat /\ refusals[p] \in Nat
      BY DEF IInv, Ledger, Good, GoodAt, State, Boundaries
    <3>3. refusals'[p] \in Nat
      BY DEF Ledger
    <3>4. mem.bounds[p].count + Cardinality(Owing(p)) <= refusals[p]
      BY DEF IInv, Owed
    <3>5. mem'.bounds[p].count = mem.bounds[p].count
      OBVIOUS
    <3>6. PICK n, m, c, a, b : /\ n = Cardinality(Owing(p)) /\ m = Cardinality(Owing(p))'
                               /\ c = mem.bounds[p].count /\ a = refusals[p] /\ b = refusals'[p]
      OBVIOUS
    <3>7. c + m <= b
      BY <3>1, <3>2, <3>3, <3>4, <3>6
    <3>8. QED
      BY <3>5, <3>6, <3>7
  <2>2. QED
    BY <2>1 DEF Owed
<1>3. Exposed'
  BY DEF IInv, Exposed
<1>4. RefusedMeansShown'
  <2>1. ASSUME NEW e, Shows(e) PROVE Shows(e)'
    BY <2>1 DEF Shows
  <2>2. ASSUME NEW j \in DOMAIN batch', "shown" \in {batch'[j].step, batch'[j].result}
        PROVE  Shows(batch[j])'
    <3>1. CASE j = i
      <4>1. batch'[j] = y
        BY <1>0, <3>1
      <4>2. Shows(y)'
        BY <2>1, <2>2, <4>1
      <4>3. QED
        BY <4>1, <4>2
    <3>2. CASE j # i
      <4>1. batch'[j] = batch[j] /\ j \in DOMAIN batch
        BY <1>0, <3>2
      <4>2. PICK e : e = batch[j]
        OBVIOUS
      <4>3. Shows(batch[j])
        BY <2>2, <4>1, ShowsIs DEF IInv
      <4>4. Shows(e)'
        BY <2>1, <4>2, <4>3
      <4>5. batch'[j] = e
        BY <4>1, <4>2
      <4>6. QED
        BY <4>4, <4>5
    <3>3. QED
      BY <3>1, <3>2
  <2>3. QED
    BY <2>2 DEF RefusedMeansShown, Shows
<1>5. QED
  BY <1>1, <1>2, <1>3, <1>4 DEF IInv

\* What rejectDuplicateRead takes for shown is shown: the interval another read
\* tells of the request is what it would return (KnownIsWhatIsRead), and an
\* action whose result the model has before it returned that very interval.
LEMMA ShownIsShown ==
  ASSUME IInv, pc = "batch", NEW c \in Call, c.tool = "read", IsShown(c),
         NEW y, y.call = c, y.seen = version[c.file]
  PROVE  Shows(y)
<1>1. c.file \in File /\ c.q \in Request
  BY DEF Call
<1>2. PICK n, f, s : /\ n = version[c.file] /\ f = c.file /\ s = Contents[f][n + 1]
                     /\ n \in Nat /\ f \in File
  BY <1>1 DEF IInv, Reads
<1>3. ValidText(s)
  <2>1. n < Len(Contents[f]) /\ Contents[f] \in Seq(Seq(Byte))
    BY <1>2, ContentsAssumption DEF IInv, Reads
  <2>2. n + 1 \in DOMAIN Contents[f]
    <3>1. n \in Nat /\ Len(Contents[f]) \in Nat /\ DOMAIN Contents[f] = 1 .. Len(Contents[f])
      BY <2>1, <1>2, LenProperties
    <3>2. QED
      BY <3>1, <2>1
  <2>3. QED
    BY <1>2, <2>2, ContentsAssumption
<1>4. PICK r \in records :
        /\ r.act \in exposed /\ r.file = c.file /\ r.version = version[c.file]
        /\ \/ Key(r.q) = Key(c.q)
           \/ \E x \in records :
                 /\ x.file = r.file /\ x.version = version[c.file]
                 /\ LET known == knownReadInterval(c.q, x.read, x.source)
                    IN known.known /\ known.from = r.read.from /\ known.to = r.read.to
  BY DEF IsShown
<1>5. PICK k \in DOMAIN request :
        request[k].of # 0 /\ request[k].act = r.act /\ request[k].form = "whole"
  BY <1>4 DEF IInv, Exposed
<1>6. CASE Key(r.q) = Key(c.q)
  BY <1>4, <1>5, <1>6 DEF Shows
<1>7. ASSUME NEW x \in records, x.file = r.file, x.version = version[c.file],
             NEW known, known = knownReadInterval(c.q, x.read, x.source),
             known.known, known.from = r.read.from, known.to = r.read.to
      PROVE  Shows(y)
  <2>1. /\ r.q \in Request /\ r.read = executeReadSource(s, r.q) /\ r.read.ok
        /\ x.q \in Request /\ x.read = executeReadSource(s, x.q) /\ x.read.ok
        /\ x.source = Slice(s, x.read.from, x.read.to)
    BY <1>2, <1>4, <1>7 DEF IInv, Reads
  <2>2. /\ r.read.from \in Nat /\ r.read.to \in Nat /\ r.read.from <= r.read.to
        /\ r.read.from = r.read.to => r.read.from = Len(s)
    <3>1. PICK q \in Request : q = r.q
      BY <2>1
    <3>2. executeReadSource(s, q).ok
      BY <2>1, <3>1
    <3>3. LET a == executeReadSource(s, q) IN
          /\ a.from \in Nat /\ a.to \in Nat /\ a.from <= a.to /\ (a.from = a.to => a.from = Len(s))
      BY <1>3, <3>2, ReadIs
    <3>4. QED
      BY <2>1, <3>1, <3>3
  <2>3. known.from < known.to \/ known.from = Len(s)
    BY <1>7, <2>2
  <2>4. PICK u : u = x.read
    OBVIOUS
  <2>10. PICK q \in Request : q = c.q
    BY <1>1
  <2>11. PICK p \in Request : p = x.q
    BY <2>1
  <2>5. u = executeReadSource(s, p) /\ u.ok /\ known = knownReadInterval(q, u, Slice(s, u.from, u.to))
    BY <1>7, <2>1, <2>4, <2>10, <2>11
  <2>6. LET then == executeReadSource(s, q)
        IN then.ok /\ then.from = known.from /\ then.to = known.to
    BY ONLY <1>3, <2>3, <2>5, KnownIsWhatIsRead, p \in Request, q \in Request, known.known
  <2>7. /\ executeReadSource(s, c.q).ok
        /\ r.read.from <= executeReadSource(s, c.q).from
        /\ executeReadSource(s, c.q).to <= r.read.to
    BY <1>7, <2>2, <2>6, <2>10
  <2>8. Contents[y.call.file][y.seen + 1] = s
    BY <1>2
  <2>9. QED
    BY <1>4, <1>5, <2>7, <2>8 DEF Shows
<1>8. QED
  BY <1>4, <1>6, <1>7

LEMMA TryKeeps == ASSUME IInv, NEW i \in DOMAIN batch, Try(i) PROVE IInv'
<1>1. /\ pc = "batch" /\ batch[i].step = "wait"
      /\ pc' = pc /\ at' = at /\ task' = task /\ request' = request /\ exposed' = exposed
      /\ acts' = acts /\ records' = records /\ version' = version
      /\ UNCHANGED <<ids, refusals, closed>>
  BY DEF Try, Calm, talk, reuse, past, world
<1>2. Ledger' /\ mem'.bounds = mem.bounds
  <2>1. CASE UNCHANGED ledger
    BY <1>1, <2>1, SameLedger DEF IInv, ledger
  <2>2. CASE Reserve("tool")
    BY <1>1, <2>2, ReservedSame DEF IInv
  <2>3. QED
    BY <2>1, <2>2 DEF Try
<1>3. PICK e \in Entries : e = batch[i]
  BY ElementOfSeq DEF IInv, Calls
<1>4. e.call \in Call /\ e.result \in {"none", "read", "bad", "shown", "listed", "notdir"}
  BY DEF Entries
<1>5. Reads'
  BY <1>1 DEF IInv, Reads
<1>6. ASSUME NEW y \in Entries, y.call = e.call, y.result = "none",
             Step(i, y), y.step = "shown" => Shows(y)
      PROVE  IInv'
  <2>1. Goes(i, y)
    BY <1>1, <1>2, <1>3, <1>5, <1>6 DEF IInv, Ledger, Owes, Calls, Goes
  <2>2. QED
    BY ONLY <2>1, StepKeeps, IInv, i \in DOMAIN batch, y \in Entries
<1>7. e.step = "wait" /\ e.result = "none"
  BY <1>1, <1>3 DEF Entries
<1>8. CASE Step(i, [batch[i] EXCEPT !.step = "done", !.error = TRUE])
  <2>1. PICK y : y = [e EXCEPT !.step = "done", !.error = TRUE]
    OBVIOUS
  <2>2. y = [call |-> e.call, step |-> "done", result |-> e.result, act |-> e.act,
             bytes |-> e.bytes, kept |-> e.kept, error |-> TRUE, seen |-> e.seen, bound |-> e.bound]
    BY <2>1, EntryFails, Zenon
  <2>3. y \in Entries /\ y.call = e.call /\ y.result = "none" /\ y.step = "done"
    BY <1>7, <2>2 DEF Entries
  <2>4. Step(i, y)
    BY <1>3, <1>8, <2>1
  <2>5. QED
    BY <1>6, <2>3, <2>4
<1>9. CASE \E go \in {"go", "bad", "shown"}, n \in Nat :
             /\ Step(i, [batch[i] EXCEPT !.step = go, !.seen = n])
             /\ go = "shown" => /\ batch[i].call.tool = "read" /\ IsShown(batch[i].call)
                               /\ n = version[batch[i].call.file]
  <2>1. PICK go \in {"go", "bad", "shown"}, n \in Nat :
             /\ Step(i, [batch[i] EXCEPT !.step = go, !.seen = n])
             /\ go = "shown" => /\ batch[i].call.tool = "read" /\ IsShown(batch[i].call)
                               /\ n = version[batch[i].call.file]
    BY <1>9
  <2>2. PICK y : y = [e EXCEPT !.step = go, !.seen = n]
    OBVIOUS
  <2>3. y = [call |-> e.call, step |-> go, result |-> e.result, act |-> e.act,
             bytes |-> e.bytes, kept |-> e.kept, error |-> e.error, seen |-> n, bound |-> e.bound]
    BY <2>2, EntryGoes, Zenon
  <2>4. y \in Entries /\ y.call = e.call /\ y.result = "none" /\ y.step = go /\ y.seen = n
    BY <1>7, <2>3 DEF Entries
  <2>5. Step(i, y)
    BY <1>3, <2>1, <2>2
  <2>6. ASSUME go = "shown" PROVE Shows(y)
    <3>1. PICK c \in Call : c = batch[i].call
      BY <1>3, <1>4
    <3>2. c.tool = "read" /\ IsShown(c) /\ y.call = c /\ y.seen = version[c.file]
      BY <1>3, <2>1, <2>4, <2>6, <3>1
    <3>3. QED
      BY ONLY <1>1, <3>2, ShownIsShown, IInv, c \in Call
  <2>7. QED
    BY <1>6, <2>4, <2>5, <2>6
<1>10. batch[i].call.tool = "read" => version[batch[i].call.file] \in Nat
  BY <1>3, <1>4 DEF Call, IInv, Reads
<1>11. QED
  BY <1>8, <1>9, <1>10 DEF Try

-----------------------------------------------------------------------------
(* The tools.                                                              *)

\* A result: of the entry only the call and what was seen stay.
LEMMA DoneIs ==
  ASSUME IInv, NEW i \in DOMAIN batch,
         NEW result \in {"read", "bad", "shown", "listed", "notdir"}, NEW act \in Nat,
         NEW bytes \in Nat, Done(i, result, act, bytes)
  PROVE  \E y \in Entries : /\ Step(i, y)
                           /\ y.call = batch[i].call /\ y.seen = batch[i].seen
                           /\ y.step = "done" /\ y.result = result
<1>1. PICK e \in Entries : e = batch[i]
  BY ElementOfSeq DEF IInv, Calls
<1>2. PICK kept \in BOOLEAN, error \in BOOLEAN : 
        kept = (storage = "ok") /\ error = (storage' # "ok" \/ ~ live)
  OBVIOUS
<1>3. PICK y : y = [e EXCEPT !.step = "done", !.result = result, !.act = act, !.bytes = bytes,
                             !.kept = kept, !.error = error]
  OBVIOUS
<1>4. y = [call |-> e.call, step |-> "done", result |-> result, act |-> act, bytes |-> bytes,
           kept |-> kept, error |-> error, seen |-> e.seen, bound |-> e.bound]
  <2>1. PICK u : u = [e EXCEPT !.step = "done"]
    OBVIOUS
  <2>2. PICK v : v = [u EXCEPT !.result = result]
    OBVIOUS
  <2>3. PICK w : w = [v EXCEPT !.act = act]
    OBVIOUS
  <2>4. PICK x : x = [w EXCEPT !.bytes = bytes]
    OBVIOUS
  <2>5. PICK z : z = [x EXCEPT !.kept = kept]
    OBVIOUS
  <2>6. [e EXCEPT !.step = "done", !.result = result, !.act = act, !.bytes = bytes,
                  !.kept = kept, !.error = error] = [z EXCEPT !.error = error]
    BY <2>1, <2>2, <2>3, <2>4, <2>5
  <2>7. u = [call |-> e.call, step |-> "done", result |-> e.result, act |-> e.act,
             bytes |-> e.bytes, kept |-> e.kept, error |-> e.error, seen |-> e.seen,
             bound |-> e.bound]
    BY <2>1 DEF Entries
  <2>8. v = [call |-> e.call, step |-> "done", result |-> result, act |-> e.act,
             bytes |-> e.bytes, kept |-> e.kept, error |-> e.error, seen |-> e.seen,
             bound |-> e.bound]
    BY <2>2, <2>7
  <2>9. w = [call |-> e.call, step |-> "done", result |-> result, act |-> act,
             bytes |-> e.bytes, kept |-> e.kept, error |-> e.error, seen |-> e.seen,
             bound |-> e.bound]
    BY <2>3, <2>8
  <2>10. x = [call |-> e.call, step |-> "done", result |-> result, act |-> act,
              bytes |-> bytes, kept |-> e.kept, error |-> e.error, seen |-> e.seen,
              bound |-> e.bound]
    BY <2>4, <2>9
  <2>11. z = [call |-> e.call, step |-> "done", result |-> result, act |-> act, bytes |-> bytes,
              kept |-> kept, error |-> e.error, seen |-> e.seen, bound |-> e.bound]
    BY <2>5, <2>10
  <2>12. [z EXCEPT !.error = error]
           = [call |-> e.call, step |-> "done", result |-> result, act |-> act, bytes |-> bytes,
              kept |-> kept, error |-> error, seen |-> e.seen, bound |-> e.bound]
    BY <2>11
  <2>13. QED
    BY <1>3, <2>6, <2>12
<1>5. y \in Entries /\ y.call = e.call /\ y.seen = e.seen /\ y.step = "done" /\ y.result = result
  BY <1>4 DEF Entries
<1>6. Step(i, y)
  BY <1>1, <1>2, <1>3, Zenon DEF Done
<1>7. QED
  BY <1>1, <1>5, <1>6

\* The event of a result: no boundary changes, the refusals may be more.
LEMMA LoggedSame ==
  ASSUME Ledger, IF storage = "ok" THEN Record(mem) ELSE UNCHANGED ledger,
         ids' = ids, closed' = closed, refusals' \in [Path -> Nat],
         \A p \in Path : refusals[p] <= refusals'[p]
  PROVE  Ledger' /\ mem' = mem
<1>1. /\ Good(mem) /\ Good(durable) /\ ids' \in Nat /\ refusals' \in [Path -> Nat]
      /\ \A id \in DOMAIN closed' : closed'[id] = 1
  BY DEF Ledger
<1>2. GoodAt(mem, ids', refusals', closed') /\ GoodAt(durable, ids', refusals', closed')
  <2>1. PICK s, t : s = mem /\ t = durable
    OBVIOUS
  <2>2. GoodAt(s, ids', refusals', closed')
    BY <1>1, <2>1, Kept DEF Good
  <2>3. GoodAt(t, ids', refusals', closed')
    BY <1>1, <2>1, Kept DEF Good
  <2>4. QED
    BY <2>1, <2>2, <2>3
<1>3. CASE Record(mem)
  <2>1. PICK s : s = mem
    OBVIOUS
  <2>2. GoodAt(s, ids', refusals', closed') /\ Record(s)
    BY <1>2, <1>3, <2>1
  <2>3. QED
    BY <1>1, <1>2, <2>1, <2>2, Recorded
<1>4. CASE storage # "ok" /\ UNCHANGED ledger
  BY <1>1, <1>2, <1>4 DEF Ledger, Good, ledger
<1>5. QED
  BY <1>3, <1>4

LEMMA RefuseKeeps == ASSUME IInv, NEW i \in DOMAIN batch, Perform(i), Refuse(i) PROVE IInv'
<1>1. /\ pc = "batch" /\ pc' = pc /\ at' = at /\ task' = task /\ request' = request
      /\ exposed' = exposed /\ acts' = acts /\ records' = records /\ version' = version
      /\ ids' = ids /\ closed' = closed /\ refusals' = refusals
  BY DEF Perform, Refuse, Calm, talk, reuse, world
<1>2. Ledger' /\ mem' = mem
  <2>1. refusals' \in [Path -> Nat] /\ \A p \in Path : refusals[p] <= refusals'[p]
    BY <1>1 DEF IInv, Ledger
  <2>2. QED
    BY <1>1, <2>1, LoggedSame DEF IInv, Refuse
<1>3. PICK step \in {"shown", "bad"} : step = batch[i].step /\ Done(i, step, 0, 0)
  BY DEF Refuse
<1>4. PICK y \in Entries : /\ Step(i, y) /\ y.call = batch[i].call /\ y.seen = batch[i].seen
                           /\ y.step = "done" /\ y.result = step
  BY <1>3, DoneIs
<1>5. ASSUME step = "shown" PROVE Shows(y)
  <2>1. Shows(batch[i])
    BY <1>3, <1>5, ShowsIs DEF IInv
  <2>2. QED
    BY <1>4, <2>1 DEF Shows
<1>6. Reads'
  BY <1>1 DEF IInv, Reads
<1>7. Goes(i, y)
  BY <1>1, <1>2, <1>4, <1>5, <1>6 DEF IInv, Ledger, Owes, Calls, Goes
<1>8. QED
  BY <1>7, StepKeeps

LEMMA ReadKeeps == ASSUME IInv, NEW i \in DOMAIN batch, Perform(i), Read(i) PROVE IInv'
<1>1. /\ pc = "batch" /\ pc' = pc /\ at' = at /\ task' = task /\ request' = request
      /\ exposed' = exposed /\ version' = version
      /\ ids' = ids /\ closed' = closed /\ refusals' = refusals
  BY DEF Perform, Read, Calm, talk, world
<1>2. Ledger' /\ mem' = mem
  <2>1. refusals' \in [Path -> Nat] /\ \A p \in Path : refusals[p] <= refusals'[p]
    BY <1>1 DEF IInv, Ledger
  <2>2. QED
    BY <1>1, <2>1, LoggedSame DEF IInv, Read
<1>3. PICK c \in Call : c = batch[i].call
  <2>1. PICK e \in Entries : e = batch[i]
    BY ElementOfSeq DEF IInv, Calls
  <2>2. QED
    BY <2>1 DEF Entries
<1>4. c.tool = "read" /\ c.file \in File /\ c.q \in Request
  BY <1>3 DEF Read, Call
<1>5. PICK f \in File, q \in Request : f = c.file /\ q = c.q
  BY <1>4
<1>6. PICK n, s : n = version[f] /\ s = Contents[f][n + 1] /\ n \in Nat
  BY DEF IInv, Reads
<1>7. ValidText(s)
  <2>1. n < Len(Contents[f]) /\ Contents[f] \in Seq(Seq(Byte))
    BY <1>6, ContentsAssumption DEF IInv, Reads
  <2>2. n + 1 \in DOMAIN Contents[f]
    <3>1. n \in Nat /\ Len(Contents[f]) \in Nat /\ DOMAIN Contents[f] = 1 .. Len(Contents[f])
      BY <2>1, <1>6, LenProperties
    <3>2. QED
      BY <3>1, <2>1
  <2>3. QED
    BY <1>6, <2>2, ContentsAssumption
<1>8. PICK r : r = executeReadSource(s, q)
  OBVIOUS
<1>9. r = executeReadSource(Content(c.file), c.q)
  BY <1>5, <1>6, <1>8 DEF Content
<1>10. /\ IF r.ok THEN Done(i, "read", acts + 1, r.to - r.from) ELSE Done(i, "bad", 0, 0)
       /\ acts' = IF r.ok THEN acts + 1 ELSE acts
       /\ IF r.ok /\ storage = "ok"
          THEN records' = records \union
                    {[act |-> acts + 1, file |-> f, q |-> q, version |-> n,
                      read |-> r, source |-> Slice(s, r.from, r.to)]}
          ELSE records' = records
  <2>1. version[c.file] = n /\ Content(c.file) = s
    BY <1>5, <1>6 DEF Content
  <2>2. QED
    BY <1>3, <1>5, <1>9, <2>1 DEF Read
<1>11. PICK result \in {"read", "bad", "shown", "listed", "notdir"}, act \in Nat, bytes \in Nat :
         result # "notdir" /\ result # "shown" /\ Done(i, result, act, bytes)
  <2>1. r.ok => r.to - r.from \in Nat
    BY <1>7, <1>8, ReadIs
  <2>2. acts + 1 \in Nat
    BY DEF IInv, Calls
  <2>3. QED
    BY <1>10, <2>1, <2>2
<1>12. PICK y \in Entries : /\ Step(i, y) /\ y.call = batch[i].call /\ y.seen = batch[i].seen
                            /\ y.step = "done" /\ y.result = result
  BY <1>11, DoneIs
<1>13. Reads'
  <2>1. version' \in [File -> Nat] /\ \A g \in File : version'[g] < Len(Contents[g])
    BY <1>1 DEF IInv, Reads
  <2>2. ASSUME NEW x \in records'
        PROVE  /\ x.file \in File /\ x.q \in Request /\ x.version \in 0 .. version'[x.file]
               /\ x.read = executeReadSource(Contents[x.file][x.version + 1], x.q) /\ x.read.ok
               /\ x.source = Slice(Contents[x.file][x.version + 1], x.read.from, x.read.to)
    <3>1. CASE x \in records
      BY <1>1, <3>1 DEF IInv, Reads
    <3>2. CASE x \notin records
      <4>1. r.ok /\ x = [act |-> acts + 1, file |-> f, q |-> q, version |-> n,
                         read |-> r, source |-> Slice(s, r.from, r.to)]
        BY <1>10, <2>2, <3>2
      <4>2. /\ x.file = f /\ x.q = q /\ x.version = n /\ x.read = r
            /\ x.source = Slice(s, r.from, r.to)
        BY <4>1
      <4>3. QED
        BY <1>1, <1>6, <1>8, <4>1, <4>2
    <3>3. QED
      BY <3>1, <3>2
  <2>3. QED
    BY <2>1, <2>2 DEF Reads
<1>14. acts' \in Nat /\ records \subseteq records'
  BY <1>10 DEF IInv, Calls
<1>15. Goes(i, y)
  BY <1>1, <1>2, <1>11, <1>12, <1>13, <1>14 DEF IInv, Ledger, Owes, Goes
<1>16. QED
  BY <1>15, StepKeeps

LEMMA FindKeeps == ASSUME IInv, NEW i \in DOMAIN batch, Perform(i), Find(i) PROVE IInv'
<1>1. /\ pc = "batch" /\ pc' = pc /\ at' = at /\ task' = task /\ request' = request
      /\ exposed' = exposed /\ acts' = acts /\ records' = records /\ version' = version
      /\ ids' = ids /\ closed' = closed /\ refusals' = refusals
  BY DEF Perform, Find, Calm, talk, world
<1>2. Ledger' /\ mem' = mem
  <2>1. refusals' \in [Path -> Nat] /\ \A p \in Path : refusals[p] <= refusals'[p]
    BY <1>1 DEF IInv, Ledger
  <2>2. QED
    BY <1>1, <2>1, LoggedSame DEF IInv, Find
<1>3. PICK y \in Entries : /\ Step(i, y) /\ y.call = batch[i].call /\ y.seen = batch[i].seen
                           /\ y.step = "done" /\ y.result = "read"
  BY DoneIs DEF Find
<1>4. Reads'
  BY <1>1 DEF IInv, Reads
<1>5. Goes(i, y)
  BY <1>1, <1>2, <1>3, <1>4 DEF IInv, Ledger, Owes, Calls, Goes
<1>6. QED
  BY <1>5, StepKeeps

LEMMA ListKeeps == ASSUME IInv, NEW i \in DOMAIN batch, Perform(i), List(i) PROVE IInv'
<1>1. /\ pc = "batch" /\ pc' = pc /\ at' = at /\ task' = task /\ request' = request
      /\ exposed' = exposed /\ acts' = acts /\ records' = records /\ version' = version
      /\ ids' = ids /\ closed' = closed
  BY DEF Perform, List, Calm, talk, reuse, world
<1>2. PICK p : /\ p = batch[i].call.path
               /\ refusals' = IF PathIsDirectory(p) = "notdir" THEN [refusals EXCEPT ![p] = @ + 1]
                              ELSE refusals
  BY DEF List
<1>3. /\ refusals' \in [Path -> Nat] /\ \A o \in Path : refusals[o] <= refusals'[o]
      /\ PathIsDirectory(p) = "notdir" /\ p \in Path => refusals[p] + 1 <= refusals'[p]
  <2>1. refusals \in [Path -> Nat]
    BY DEF IInv, Ledger
  <2>2. CASE refusals' = [refusals EXCEPT ![p] = @ + 1] /\ p \in Path
    <3>1. PICK n \in Nat : n = refusals[p]
      BY <2>1, <2>2
    <3>2. refusals' = [refusals EXCEPT ![p] = n + 1]
      BY <2>2, <3>1
    <3>3. /\ refusals'[p] = n + 1 /\ \A o \in Path : o # p => refusals'[o] = refusals[o]
          /\ refusals' \in [Path -> Nat]
      BY <2>1, <2>2, <3>2
    <3>4. QED
      BY <2>1, <3>1, <3>3
  <2>3. CASE refusals' = refusals /\ (PathIsDirectory(p) # "notdir" \/ p \notin Path)
    BY <2>1, <2>3
  <2>4. p \notin Path => [refusals EXCEPT ![p] = @ + 1] = refusals
    BY <2>1
  <2>5. QED
    BY <1>2, <2>2, <2>3, <2>4
<1>4. Ledger' /\ mem' = mem
  BY <1>1, <1>3, LoggedSame DEF IInv, List
<1>5. PICK result \in {"listed", "notdir", "bad"} :
        result = PathIsDirectory(p) /\ Done(i, result, 0, 0)
  BY <1>2 DEF List, PathIsDirectory
<1>6. PICK y \in Entries : /\ Step(i, y) /\ y.call = batch[i].call /\ y.seen = batch[i].seen
                           /\ y.step = "done" /\ y.result = result
  BY <1>5, DoneIs
<1>7. Reads'
  BY <1>1 DEF IInv, Reads
<1>8. \A o \in Path : Owes(y, o) => refusals[o] + 1 <= refusals'[o]
  BY <1>2, <1>3, <1>5, <1>6 DEF Owes
<1>9. Goes(i, y)
  BY <1>1, <1>3, <1>4, <1>5, <1>6, <1>7, <1>8 DEF IInv, Calls, Goes
<1>10. QED
  BY <1>9, StepKeeps

LEMMA PerformKeeps == ASSUME IInv, NEW i \in DOMAIN batch, Perform(i) PROVE IInv'
BY RefuseKeeps, ReadKeeps, FindKeeps, ListKeeps DEF Perform

\* A file has no fewer versions than before.
LEMMA VersionsGrow ==
  ASSUME IInv, Edit
  PROVE  /\ version' \in [File -> Nat] /\ \A f \in File : version'[f] < Len(Contents[f])
         /\ \A f \in File : version[f] <= version'[f]
<1>1. version \in [File -> Nat] /\ \A f \in File : version[f] < Len(Contents[f])
  BY DEF IInv, Reads
<1>2. CASE version' = version
  BY <1>1, <1>2
<1>3. ASSUME NEW c \in task.menu, c.tool = "read", version[c.file] + 1 < Len(Contents[c.file]),
             version' = [version EXCEPT ![c.file] = @ + 1]
      PROVE  /\ version' \in [File -> Nat] /\ \A f \in File : version'[f] < Len(Contents[f])
             /\ \A f \in File : version[f] <= version'[f]
  <2>1. c \in Call
    BY TasksAssumption DEF IInv, Calls
  <2>2. PICK g \in File : g = c.file
    BY <1>3, <2>1 DEF Call
  <2>3. PICK n \in Nat : n = version[g]
    BY <1>1
  <2>4. version' = [version EXCEPT ![g] = n + 1] /\ n + 1 < Len(Contents[g])
    BY <1>3, <2>2, <2>3
  <2>5. QED
    BY <1>1, <2>3, <2>4
<1>4. QED
  BY <1>2, <1>3 DEF Edit

\* Files change under the run: what was read stays what it was.
LEMMA EditKeeps == ASSUME IInv, Edit PROVE IInv'
<1>1. UNCHANGED <<task, pc, ledger, talk, batch, at, records, exposed, refusals, closed, ids, acts>>
  BY DEF Edit, reuse, past
<1>2. Ledger'
  BY <1>1, SameLedger DEF IInv
<1>3. /\ version' \in [File -> Nat] /\ \A f \in File : version'[f] < Len(Contents[f])
      /\ \A f \in File : version[f] <= version'[f]
  BY VersionsGrow
<1>4. Reads'
  <2>1. ASSUME NEW x \in records PROVE x.version \in 0 .. version'[x.file]
    <3>1. x.file \in File /\ x.version \in 0 .. version[x.file] /\ version \in [File -> Nat]
      BY DEF IInv, Reads
    <3>2. PICK f \in File : f = x.file
      BY <3>1
    <3>3. QED
      BY <1>3, <3>1, <3>2
  <2>2. QED
    BY <1>1, <1>3, <2>1 DEF IInv, Reads
<1>5. Owed' /\ Calls' /\ Exposed' /\ RefusedMeansShown'
  BY <1>1, SMTT(30) DEF IInv, ledger, talk, Owed, Owing, Calls, Exposed, RefusedMeansShown
<1>6. QED
  BY <1>2, <1>4, <1>5 DEF IInv

-----------------------------------------------------------------------------
(* The results are noted.                                                  *)

\* A result is noted, and y is what becomes of its entry: only a refusal that
\* was owed is counted.
Notes(y) ==
  /\ pc = "note" /\ at \in DOMAIN batch /\ at' = at + 1 /\ Step(at, y)
  /\ y.call = batch[at].call /\ y.step = batch[at].step
  /\ y.result = batch[at].result /\ y.seen = batch[at].seen
  /\ pc' = pc /\ task' = task /\ request' = request /\ exposed' = exposed
  /\ acts' = acts /\ records' = records /\ version' = version /\ refusals' = refusals
  /\ Ledger'
  /\ \A p \in Path :
        \/ mem'.bounds[p].count <= mem.bounds[p].count
        \/ Owes(batch[at], p) /\ mem'.bounds[p].count <= mem.bounds[p].count + 1

LEMMA NoteStep ==
  ASSUME IInv, NEW y \in Entries, Notes(y)
  PROVE  IInv'
<1> USE DEF Notes
<1>1. batch' = [batch EXCEPT ![at] = y] /\ batch \in Seq(Entries) /\ at \in Nat \ {0}
  BY DEF Step, IInv, Calls
<1>2. Calls'
  <2>1. batch' \in Seq(Entries)
    BY <1>1, ExceptSeq
  <2>2. QED
    BY <1>1, <2>1 DEF IInv, Calls
<1>3. /\ DOMAIN batch' = DOMAIN batch
      /\ \A j \in DOMAIN batch : /\ batch'[j].call = batch[j].call
                                 /\ batch'[j].step = batch[j].step
                                 /\ batch'[j].result = batch[j].result
                                 /\ batch'[j].seen = batch[j].seen
  BY <1>1
<1>4. Owed'
  <2>1. ASSUME NEW p \in Path
        PROVE  (mem.bounds[p].count + Cardinality(Owing(p)) <= refusals[p])'
    <3>1. IsFiniteSet(Owing(p)) /\ Cardinality(Owing(p)) \in Nat
      BY OwingIs DEF IInv
    <3>2. Owing(p)' = Owing(p) \ {at}
      BY <1>1, <1>3 DEF Owing, IInv, Calls
    <3>3. Owes(batch[at], p) => at \in Owing(p)
      BY <1>1 DEF Owes, Owing
    <3>4. mem.bounds[p].count \in Nat /\ refusals[p] \in Nat
      BY DEF IInv, Ledger, Good, GoodAt, State, Boundaries
    <3>5. mem'.bounds[p].count \in Nat
      BY DEF Ledger, Good, GoodAt, State, Boundaries
    <3>6. mem.bounds[p].count + Cardinality(Owing(p)) <= refusals[p]
      BY DEF IInv, Owed
    <3>7. PICK S : S = Owing(p)
      OBVIOUS
    <3>8. PICK c \in Nat, d \in Nat, r \in Nat :
            c = mem.bounds[p].count /\ d = mem'.bounds[p].count /\ r = refusals[p]
      BY <3>4, <3>5
    <3>9. d <= c \/ (at \in S /\ d <= c + 1)
      BY <3>3, <3>7, <3>8
    <3>10. IsFiniteSet(S) /\ Cardinality(S) \in Nat /\ c + Cardinality(S) <= r
      BY <3>1, <3>6, <3>7, <3>8
    <3>11. /\ IsFiniteSet(S \ {at})
           /\ Cardinality(S \ {at}) = IF at \in S THEN Cardinality(S) - 1 ELSE Cardinality(S)
      BY <3>10, FS_RemoveElement
    <3>12. Cardinality(S \ {at}) \in Nat
      BY <3>11, FS_CardinalityType
    <3>13. d + Cardinality(S \ {at}) <= r
      <4>1. CASE at \in S
        BY <3>9, <3>10, <3>11, <3>12, <4>1
      <4>2. CASE at \notin S
        BY <3>9, <3>10, <3>11, <3>12, <4>2
      <4>3. QED
        BY <4>1, <4>2
    <3>14. QED
      BY <3>2, <3>7, <3>8, <3>13
  <2>2. QED
    BY <2>1 DEF Owed
<1>5. Reads' /\ Exposed'
  BY DEF IInv, Reads, Exposed
<1>6. RefusedMeansShown'
  <2>1. request' = request /\ records' = records /\ RefusedMeansShown
    BY DEF IInv
  <2>2. QED
    BY ONLY <1>3, <2>1 DEF RefusedMeansShown
<1>7. QED
  BY <1>2, <1>4, <1>5, <1>6 DEF IInv

LEMMA NoteKeeps == ASSUME IInv, Note PROVE IInv'
<1>1. /\ pc = "note" /\ at \in DOMAIN batch /\ at' = at + 1 /\ noteReadonlyResult(batch[at])
      /\ pc' = pc /\ task' = task /\ request' = request /\ exposed' = exposed
      /\ acts' = acts /\ records' = records /\ version' = version
      /\ refusals' = refusals /\ closed' = closed
  BY DEF Note, Calm, reuse, world
<1>2. /\ Good(mem) /\ Good(durable) /\ ids \in Nat /\ refusals \in [Path -> Nat]
      /\ \A id \in DOMAIN closed' : closed'[id] = 1
      /\ \A p \in Path : mem.bounds[p].count \in Nat
  BY <1>1 DEF IInv, Ledger, Good, GoodAt, State, Boundaries
<1>3. PICK e \in Entries : e = batch[at]
  BY <1>1, ElementOfSeq DEF IInv, Calls
<1>4. CASE Tracks(e)
  <2>1. /\ e.call.tool = "list" /\ e.result = "notdir" /\ storage = "ok" /\ e.call \in Call
    BY <1>4 DEF Tracks, Entries
  <2>2. PICK p \in Path : p = e.call.path
    BY <2>1 DEF Call
  <2>3. PICK b : b = Counted(p, ids + 1)
    OBVIOUS
  <2>4. PICK k : k = IF mem.bounds[p].id = 0 \/ mem.bounds[p].resolved THEN 1
                     ELSE mem.bounds[p].count + 1
    OBVIOUS
  <2>5. b = [id |-> IF k = 1 THEN ids + 1 ELSE mem.bounds[p].id, count |-> k,
             stopped |-> k >= Repeats, resolved |-> FALSE]
    BY <2>3, <2>4 DEF Counted
  <2>6. PICK s : s = [mem EXCEPT !.bounds[p] = b]
    OBVIOUS
  <2>7. /\ Record(s) /\ ids' = IF b.id > ids THEN b.id ELSE ids
        /\ Step(at, [e EXCEPT !.bound = IF b.stopped /\ storage' = "ok" THEN b.id ELSE 0])
    BY <1>1, <1>3, <1>4, <2>2, <2>3, <2>6, Zenon DEF noteReadonlyResult
  <2>8. mem.bounds[p].count + 1 <= refusals[p]
    <3>1. at \in Owing(p)
      BY <1>1, <1>3, <2>1, <2>2 DEF Owing, IInv, Calls
    <3>2. IsFiniteSet(Owing(p)) /\ Cardinality(Owing(p)) \in Nat
      BY OwingIs DEF IInv
    <3>3. Cardinality(Owing(p)) # 0
      BY <3>1, <3>2, FS_EmptySet
    <3>4. mem.bounds[p].count + Cardinality(Owing(p)) <= refusals[p]
      BY DEF IInv, Owed
    <3>5. PICK n \in Nat, c \in Nat, r \in Nat :
            n = Cardinality(Owing(p)) /\ c = mem.bounds[p].count /\ r = refusals[p]
      BY <1>2, <3>2
    <3>6. n # 0 /\ c + n <= r
      BY <3>3, <3>4, <3>5
    <3>7. c + 1 <= r
      BY <3>6
    <3>8. QED
      BY <3>5, <3>7
  <2>9. /\ GoodAt(s, ids', refusals', closed') /\ b.id \in Nat
        /\ b.count <= mem.bounds[p].count + 1
        /\ \A q \in Path : s.bounds[q] = (IF q = p THEN b ELSE mem.bounds[q])
    <3>8. PICK t, c : t = mem /\ c = closed
      OBVIOUS
    <3>9. PICK n \in Nat : n = ids
      BY <1>2
    <3>10. PICK r \in [Path -> Nat] : r = refusals
      BY <1>2
    <3>1. t = mem /\ n = ids /\ r = refusals /\ c = closed
      BY <3>8, <3>9, <3>10
    <3>2. GoodAt(t, n, r, c) /\ t.bounds[p].count + 1 <= r[p] /\ r[p] \in Nat
      BY <1>2, <2>8, <3>1 DEF Good
    <3>3. /\ k = (IF t.bounds[p].id = 0 \/ t.bounds[p].resolved THEN 1 ELSE t.bounds[p].count + 1)
          /\ b = [id |-> IF k = 1 THEN n + 1 ELSE t.bounds[p].id, count |-> k,
                  stopped |-> k >= Repeats, resolved |-> FALSE]
      BY <2>4, <2>5, <3>1
    <3>4. /\ GoodAt(WithBound(t, p, b), IF b.id > n THEN b.id ELSE n, r, c)
          /\ b.id \in Nat /\ b.count <= t.bounds[p].count + 1
          /\ \A q \in Path : WithBound(t, p, b).bounds[q] = (IF q = p THEN b ELSE t.bounds[q])
      BY ONLY <3>2, <3>3, CountedGood, n \in Nat, r \in [Path -> Nat], p \in Path, SMTT(30)
    <3>5. s = WithBound(t, p, b)
      BY <2>6, <3>1, Zenon DEF WithBound
    <3>6. ids' = (IF b.id > n THEN b.id ELSE n) /\ refusals' = r /\ closed' = c
      BY <1>1, <2>7, <3>1
    <3>7. QED
      BY <3>1, <3>4, <3>5, <3>6
  <2>10. ids' \in Nat /\ ids <= ids'
    BY <1>2, <2>7, <2>9
  <2>11. GoodAt(durable, ids', refusals', closed')
    <3>5. PICK t, c : t = durable /\ c = closed
      OBVIOUS
    <3>6. PICK n \in Nat, m \in Nat : n = ids /\ m = ids'
      BY <1>2, <2>10
    <3>7. PICK r \in [Path -> Nat] : r = refusals
      BY <1>2
    <3>1. t = durable /\ n = ids /\ m = ids' /\ r = refusals /\ c = closed
      BY <3>5, <3>6, <3>7
    <3>2. GoodAt(t, n, r, c) /\ n <= m /\ \A q \in Path : r[q] <= r[q]
      BY <1>2, <2>10, <3>1 DEF Good
    <3>3. GoodAt(t, m, r, c)
      BY ONLY <3>2, Monotone, n \in Nat, m \in Nat, r \in [Path -> Nat], DOMAIN c \subseteq DOMAIN c
    <3>4. QED
      BY <1>1, <3>1, <3>3
  <2>12. Ledger' /\ mem' = s
    BY <1>1, <1>2, <2>7, <2>9, <2>10, <2>11, Recorded DEF IInv
  <2>13. PICK bound \in Nat : bound = IF b.stopped /\ storage' = "ok" THEN b.id ELSE 0
    BY <2>9
  <2>14. PICK y : y = [e EXCEPT !.bound = bound]
    OBVIOUS
  <2>15. y = [call |-> e.call, step |-> e.step, result |-> e.result, act |-> e.act,
              bytes |-> e.bytes, kept |-> e.kept, error |-> e.error, seen |-> e.seen, bound |-> bound]
    BY <2>14 DEF Entries
  <2>16. /\ y \in Entries /\ y.call = e.call /\ y.step = e.step /\ y.result = e.result
         /\ y.seen = e.seen
    BY <2>15 DEF Entries
  <2>17. Step(at, y)
    BY <2>7, <2>13, <2>14
  <2>18. ASSUME NEW q \in Path
         PROVE  \/ mem'.bounds[q].count <= mem.bounds[q].count
                \/ Owes(batch[at], q) /\ mem'.bounds[q].count <= mem.bounds[q].count + 1
    <3>1. CASE q = p
      BY <1>3, <2>1, <2>2, <2>9, <2>12, <3>1 DEF Owes
    <3>2. CASE q # p
      BY <1>2, <2>9, <2>12, <3>2
    <3>3. QED
      BY <3>1, <3>2
  <2>19. Notes(y)
    BY <1>1, <1>3, <2>12, <2>16, <2>17, <2>18 DEF Notes
  <2>20. QED
    BY <2>16, <2>19, NoteStep
<1>5. CASE ~ Tracks(e)
  <2>1. /\ ids' = ids /\ batch' = batch
        /\ IF /\ e.call.tool = "list" /\ e.result = "listed"
              /\ mem.bounds[e.call.path].id # 0 /\ ~ mem.bounds[e.call.path].resolved
           THEN Record(Resolved(mem, e.call.path)) ELSE UNCHANGED ledger
    BY <1>1, <1>3, <1>5 DEF noteReadonlyResult
  <2>2. Ledger' /\ \A p \in Path : mem'.bounds[p].count = mem.bounds[p].count
    <3>1. CASE UNCHANGED ledger
      BY <1>1, <2>1, <3>1, SameLedger DEF IInv, ledger
    <3>2. CASE /\ e.call.tool = "list" /\ mem.bounds[e.call.path].id # 0
               /\ Record(Resolved(mem, e.call.path))
      <4>1. PICK p \in Path : p = e.call.path
        BY <3>2 DEF Entries, Call
      <4>2. PICK s : s = Resolved(mem, p)
        OBVIOUS
      <4>3. PICK t : t = mem
        OBVIOUS
      <4>4. GoodAt(t, ids, refusals, closed) /\ t.bounds[p].id # 0
        BY <1>2, <3>2, <4>1, <4>3 DEF Good
      <4>5. /\ GoodAt(Resolved(t, p), ids, refusals, closed)
            /\ \A q \in Path : Resolved(t, p).bounds[q].count = t.bounds[q].count
        BY ONLY <4>4, ResolvedGood, p \in Path
      <4>6. /\ GoodAt(s, ids', refusals', closed') /\ GoodAt(durable, ids', refusals', closed')
            /\ Record(s)
        BY <1>1, <1>2, <2>1, <3>2, <4>1, <4>2, <4>3, <4>5 DEF Good
      <4>7. Ledger' /\ mem' = s
        BY <1>1, <1>2, <2>1, <4>6, Recorded DEF IInv
      <4>8. QED
        BY <4>2, <4>3, <4>5, <4>7
    <3>3. QED
      BY <2>1, <3>1, <3>2
  <2>3. Step(at, e)
    <3>1. batch \in Seq(Entries)
      BY DEF IInv, Calls
    <3>2. batch = [batch EXCEPT ![at] = e]
      BY <1>1, <1>3, <3>1
    <3>3. QED
      BY <2>1, <3>2 DEF Step
  <2>4. \A p \in Path : mem'.bounds[p].count <= mem.bounds[p].count
    BY <1>2, <2>2
  <2>5. Notes(e)
    BY <1>1, <1>3, <2>2, <2>3, <2>4 DEF Notes
  <2>6. QED
    BY <2>5, NoteStep
<1>6. QED
  BY <1>4, <1>5

\* The run stops at the first of the boundaries of its batch that still stand.
LEMMA CloseKeeps == ASSUME IInv, Close PROVE IInv'
<1> DEFINE still == {i \in DOMAIN batch : Standing(batch[i].bound) # {}}
<1>1. /\ pc = "note" /\ batch' = <<>> /\ at' = 1 /\ task' = task /\ acts' = acts
      /\ records' = records /\ version' = version
      /\ ids' = ids /\ refusals' = refusals /\ closed' = closed
  BY DEF Close, Calm, reuse, past, world
<1>2. pc' \in {"end", "turn"}
  BY DEF Close, EndWith, GoTo
<1>3. Ledger'
  <2>1. CASE UNCHANGED ledger
    BY <1>1, <2>1, SameLedger DEF IInv
  <2>2. CASE still # {} /\ Record([mem EXCEPT !.stopId = batch[Min(still)].bound])
    <3>1. Min(still) \in still
      <4>1. still \subseteq Nat
        BY DEF IInv, Calls
      <4>2. QED
        BY <2>2, <4>1, MinOfNat
    <3>2. PICK i \in DOMAIN batch : i = Min(still) /\ Standing(batch[i].bound) # {}
      BY <3>1
    <3>3. PICK p \in Path : /\ mem.bounds[p].id = batch[i].bound
                            /\ mem.bounds[p].stopped /\ ~ mem.bounds[p].resolved
      BY <3>2 DEF Standing
    <3>4. PICK id \in Nat : id = batch[i].bound
      <4>1. PICK e \in Entries : e = batch[i]
        BY ElementOfSeq DEF IInv, Calls
      <4>2. QED
        BY <4>1 DEF Entries
    <3>5. PICK t : t = mem
      OBVIOUS
    <3>6. GoodAt(t, ids, refusals, closed) /\ GoodAt(durable, ids, refusals, closed)
      BY <3>5 DEF IInv, Ledger, Good
    <3>7. GoodAt([t EXCEPT !.stopId = id], ids, refusals, closed)
      BY <3>3, <3>4, <3>5, <3>6, StopGood
    <3>8. PICK s : s = [t EXCEPT !.stopId = id]
      OBVIOUS
    <3>9. Record(s)
      BY <2>2, <3>2, <3>4, <3>5, <3>8, Zenon
    <3>10. /\ GoodAt(s, ids', refusals', closed') /\ GoodAt(durable, ids', refusals', closed')
           /\ ids' \in Nat /\ refusals' \in [Path -> Nat]
           /\ \A x \in DOMAIN closed' : closed'[x] = 1
      BY <1>1, <3>6, <3>7, <3>8 DEF IInv, Ledger
    <3>11. QED
      BY <3>9, <3>10, Recorded DEF IInv
  <2>3. QED
    BY <2>1, <2>2 DEF Close
<1>4. Calls'
  <2>1. <<>> \in Seq(Entries)
    BY EmptySeq
  <2>2. QED
    BY <1>1, <2>1 DEF IInv, Calls
<1>5. Reads'
  BY <1>1 DEF IInv, Reads
<1>6. QED
  BY <1>1, <1>2, <1>3, <1>4, <1>5, NoCalls DEF IInv

-----------------------------------------------------------------------------
(* The theorems.                                                           *)

LEMMA NextKeeps == ASSUME IInv, [Next]_vars PROVE IInv'
<1>1. CASE Next
  BY <1>1, OpenKeeps, ResumeKeeps, AskKeeps, AnswerKeeps, DeliverKeeps, TryKeeps, PerformKeeps,
     EndBatchKeeps, NoteKeeps, CloseKeeps, SurveyKeeps, CheckKeeps, PartialKeeps, ClosedKeeps,
     FinishKeeps, CancelKeeps, CrashKeeps, EditKeeps DEF Next
<1>2. CASE UNCHANGED vars
  <2>1. Ledger'
    BY <1>2, SameLedger DEF IInv, vars, past
  <2>2. QED
    BY <1>2, <2>1, CallsStay DEF IInv, Calls, vars, past, ledger, talk, reuse, world
<1>3. QED
  BY <1>1, <1>2

\* The invariant holds in every state of the conversation.
THEOREM ConversationKept == Spec => []IInv
<1>1. Init => IInv
  BY Begins
<1>2. IInv /\ [Next]_vars => IInv'
  BY NextKeeps
<1>3. QED
  BY <1>1, <1>2, PTL DEF Spec

\* A closing is asked for once for its boundary over all runs, and no refusal
\* is counted twice (reserveReadonlyClosing, noteReadonlyResult).
THEOREM AskedOnce == Spec => []ClosesOnce
<1>1. IInv => ClosesOnce
  BY DEF IInv, Ledger, Good, GoodAt, ClosesOnce
<1>2. QED
  BY <1>1, ConversationKept, PTL

\* The log never yields a state validateReadonlyState refuses, whatever
\* appends fail and whenever the process dies.
THEOREM LogOpens == Spec => []StateStaysValid
<1>1. ASSUME IInv PROVE StateStaysValid
  <2>1. GoodAt(durable, ids, refusals, closed)
    BY <1>1 DEF IInv, Ledger, Good
  <2>2. \A p \in Path : durable.bounds[p].id \in Nat
    BY <2>1 DEF GoodAt, State, Boundaries
  <2>3. QED
    BY <2>1, <2>2 DEF GoodAt, StateStaysValid
<1>2. QED
  BY <1>1, ConversationKept, PTL

\* A read is refused as repeated only if the same request, or every byte it
\* would return, was answered whole in the request the model has just seen
\* (rejectDuplicateRead, markReadExposure, knownReadInterval).
THEOREM OnlyShownIsRefused == Spec => []RefusedMeansShown
<1>1. IInv => RefusedMeansShown
  BY DEF IInv
<1>2. QED
  BY <1>1, ConversationKept, PTL
-----------------------------------------------------------------------------
(* What the report says was read.                                          *)

\* Every byte of this version of the file has been returned by a read of the run.
Whole(f, v) ==
  \A b \in 0 .. Len(Contents[f][v + 1]) - 1 :
     \E x \in records : x.file = f /\ x.version = v /\ b \in x.read.from .. x.read.to - 1

\* A receipt is of a read of this run; the report takes for complete what was read
\* whole in a version that the file has had since the report was begun.
Covered ==
  /\ IsFiniteSet(receipts)
  /\ \A r \in receipts : /\ r.from \in Nat /\ r.to \in Nat
                         /\ \E x \in records : /\ x.file = r.file /\ x.version = r.version
                                               /\ x.read.from = r.from /\ x.read.to = r.to
  /\ cover.since \in [File -> Nat] /\ \A f \in File : cover.since[f] <= version[f]
  /\ \A f \in cover.complete \cap File : \E v \in cover.since[f] .. version[f] : Whole(f, v)

\* A step that takes no read away, adds no receipt and leaves the report alone.
LEMMA CoveredStays ==
  ASSUME Covered, records \subseteq records', receipts' \subseteq receipts, cover' = cover,
         version \in [File -> Nat], version' \in [File -> Nat],
         \A f \in File : version[f] <= version'[f]
  PROVE  Covered'
<1>1. IsFiniteSet(receipts')
  BY FS_Subset DEF Covered
<1>2. ASSUME NEW r \in receipts'
      PROVE  /\ r.from \in Nat /\ r.to \in Nat
             /\ \E x \in records' : /\ x.file = r.file /\ x.version = r.version
                                    /\ x.read.from = r.from /\ x.read.to = r.to
  BY <1>2 DEF Covered
<1>3. \A f \in File : /\ cover.since[f] \in Nat /\ version[f] \in Nat /\ version'[f] \in Nat
                      /\ cover.since[f] <= version[f] /\ version[f] <= version'[f]
  BY DEF Covered
<1>4. cover'.since \in [File -> Nat] /\ \A f \in File : cover'.since[f] <= version'[f]
  BY <1>3 DEF Covered
<1>5. ASSUME NEW f \in cover'.complete \cap File
      PROVE  \E v \in cover'.since[f] .. version'[f] : Whole(f, v)'
  <2>1. PICK v \in cover.since[f] .. version[f] : Whole(f, v)
    BY <1>5 DEF Covered
  <2>2. v \in cover'.since[f] .. version'[f]
    BY <1>3, <1>5, <2>1
  <2>3. Whole(f, v)'
    BY <2>1 DEF Whole
  <2>4. QED
    BY <2>2, <2>3
<1>6. QED
  BY <1>1, <1>2, <1>4, <1>5 DEF Covered

LEMMA CoveredForgotten ==
  ASSUME Forget, version' \in [File -> Nat] PROVE Covered'
<1>1. /\ receipts' = {} /\ cover'.complete = {} /\ cover'.since = [f \in File |-> 0]
  BY DEF Forget, NoCover
<1>2. \A f \in File : version'[f] \in Nat /\ 0 <= version'[f]
  OBVIOUS
<1>3. IsFiniteSet(receipts')
  BY <1>1, FS_EmptySet
<1>4. cover'.since \in [File -> Nat] /\ \A f \in File : cover'.since[f] <= version'[f]
  BY <1>1, <1>2
<1>5. QED
  BY <1>1, <1>3, <1>4 DEF Covered

\* A read adds what it returned to the records, and its receipt with it.
LEMMA CoveredRead ==
  ASSUME IInv, Covered, NEW i \in DOMAIN batch, Perform(i), Read(i)
  PROVE  Covered'
<1>1. cover' = cover /\ version' = version /\ version \in [File -> Nat]
  BY DEF Perform, Calm, world, IInv, Reads
<1>2. CASE UNCHANGED <<records, receipts>>
  <2>1. \A f \in File : version[f] <= version'[f]
    BY <1>1
  <2>2. QED
    BY <1>1, <1>2, <2>1, CoveredStays
<1>3. CASE ~ UNCHANGED <<records, receipts>>
  <2>. DEFINE f == batch[i].call.file
              r == executeReadSource(Content(f), batch[i].call.q)
              y == [act |-> acts + 1, file |-> f, q |-> batch[i].call.q, version |-> version[f],
                    read |-> r, source |-> Slice(Content(f), r.from, r.to)]
              z == [file |-> f, version |-> version[f], from |-> r.from, to |-> r.to]
  <2>1. records' = records \union {y} /\ receipts' = receipts \union {z} /\ r.ok
    BY <1>3 DEF Read
  <2>2. y \in records' /\ y.file = f /\ y.version = version[f] /\ y.read = r
    BY <2>1
  <2>3. y.read.ok /\ y.q \in Request /\ y.file \in File /\ y.version \in Nat
        /\ y.version < Len(Contents[y.file])
        /\ y.read = executeReadSource(Contents[y.file][y.version + 1], y.q)
    <3>1. Reads'
      BY ReadKeeps DEF IInv
    <3>2. y.file \in File /\ y.q \in Request /\ y.version \in 0 .. version'[y.file] /\ y.read.ok
          /\ y.read = executeReadSource(Contents[y.file][y.version + 1], y.q)
          /\ version'[y.file] \in Nat /\ version'[y.file] < Len(Contents[y.file])
      <4>. HIDE DEF y
      <4>1. QED
        BY <2>2, <3>1 DEF Reads
    <3>. HIDE DEF y
    <3>3. y.version \in Nat /\ y.version < Len(Contents[y.file])
      <4>1. Contents[y.file] \in Seq(Seq(Byte))
        BY <3>2, ContentsAssumption
      <4>2. Len(Contents[y.file]) \in Nat
        BY <4>1, LenProperties
      <4>3. QED
        BY <3>2, <4>2
    <3>4. QED
      BY <3>2, <3>3
  <2>. HIDE DEF y
  <2>4. y.read.from \in Nat /\ y.read.to \in Nat
    <3>. DEFINE s == Contents[y.file][y.version + 1]
    <3>1. ValidText(s)
      <4>1. Contents[y.file] \in Seq(Seq(Byte))
        BY <2>3, ContentsAssumption
      <4>2. y.version + 1 \in DOMAIN Contents[y.file]
        BY <2>3, <4>1, LenProperties
      <4>3. QED
        BY <2>3, <4>2, ContentsAssumption
    <3>. HIDE DEF s
    <3>2. y.read = executeReadSource(s, y.q)
      BY <2>3 DEF s
    <3>3. QED
      BY <2>3, <3>1, <3>2, ReadIs
  <2>5. z.from = y.read.from /\ z.to = y.read.to /\ z.file = y.file /\ z.version = y.version
    BY <2>2
  <2>. HIDE DEF z, r
  <2>6. IsFiniteSet(receipts')
    BY <2>1, FS_AddElement DEF Covered
  <2>7. ASSUME NEW x \in receipts'
        PROVE  /\ x.from \in Nat /\ x.to \in Nat
               /\ \E k \in records' : /\ k.file = x.file /\ k.version = x.version
                                      /\ k.read.from = x.from /\ k.read.to = x.to
    <3>1. CASE x \in receipts
      BY <2>1, <3>1 DEF Covered
    <3>2. CASE x = z
      BY <2>2, <2>4, <2>5, <3>2
    <3>3. QED
      BY <2>1, <3>1, <3>2
  <2>8. \A g \in cover'.complete \cap File : \E v \in cover'.since[g] .. version'[g] : Whole(g, v)'
    <3>1. ASSUME NEW g \in cover.complete \cap File, NEW v, Whole(g, v)
          PROVE  Whole(g, v)'
      BY <2>1, <3>1 DEF Whole
    <3>2. QED
      BY <1>1, <3>1 DEF Covered
  <2>9. QED
    BY <1>1, <2>6, <2>7, <2>8 DEF Covered
<1>4. QED
  BY <1>2, <1>3

LEMMA CoveredCheck ==
  ASSUME IInv, Covered, NEW f \in File, Check(f)
  PROVE  Covered'
<1>1. UNCHANGED <<records, receipts, version>> /\ version \in [File -> Nat]
  BY DEF Check, Calm, reuse, world, IInv, Reads
<1>2. cover'.since = cover.since
      /\ cover'.complete = IF coverageFromManifest(f) THEN cover.complete \union {f} ELSE cover.complete
  BY DEF Check
<1>3. ASSUME coverageFromManifest(f) PROVE Whole(f, version[f])
  <2>. DEFINE R == {x \in receipts : x.file = f /\ x.version = version[f]}
              I == {[from |-> r.from, to |-> r.to] : r \in R}
              n == Len(Content(f))
  <2>1. I \in SUBSET Spans
    BY DEF Covered, Spans
  <2>2. IsFiniteSet(I)
    <3>1. IsFiniteSet(R)
      BY FS_Subset DEF Covered
    <3>. DEFINE h == [r \in R |-> [from |-> r.from, to |-> r.to]]
    <3>2. h \in Surjection(R, I)
      <4>. HIDE DEF R
      <4>1. QED
        BY DEF Surjection
    <3>. HIDE DEF R, I, h
    <3>3. QED
      BY <3>1, <3>2, FS_Surjection
  <2>3. n \in Nat
    <3>1. PICK m \in Nat : m = version[f] /\ m < Len(Contents[f])
      BY DEF IInv, Reads
    <3>2. Contents[f] \in Seq(Seq(Byte))
      BY ContentsAssumption
    <3>3. m + 1 \in 1 .. Len(Contents[f])
      BY <3>1, <3>2, LenProperties
    <3>4. Contents[f][m + 1] \in Seq(Byte)
      BY <3>2, <3>3, ElementOfSeq
    <3>5. QED
      BY <3>1, <3>4, LenProperties DEF Content
  <2>4. Gaps(I, n).gaps = <<>>
    BY <1>3 DEF coverageFromManifest
  <2>5. \A b \in 0 .. n - 1 : \E x \in I : b \in Within(x)
    <3>. HIDE DEF I, n
    <3>1. QED
      BY <2>1, <2>2, <2>3, <2>4, GapsCover
  <2>6. ASSUME NEW b \in 0 .. Len(Contents[f][version[f] + 1]) - 1
        PROVE  \E x \in records : x.file = f /\ x.version = version[f] /\ b \in x.read.from .. x.read.to - 1
    <3>1. b \in 0 .. n - 1
      BY DEF Content
    <3>2. PICK r \in R : b \in r.from .. r.to - 1
      BY <2>5, <3>1 DEF Within
    <3>3. PICK x \in records : /\ x.file = r.file /\ x.version = r.version
                               /\ x.read.from = r.from /\ x.read.to = r.to
      BY DEF Covered
    <3>4. QED
      BY <3>2, <3>3
  <2>7. QED
    BY <2>6 DEF Whole
<1>4. \A g \in File : cover.since[g] \in Nat /\ version[g] \in Nat /\ cover.since[g] <= version[g]
  BY <1>1 DEF Covered
<1>5. ASSUME NEW g \in cover'.complete \cap File
      PROVE  \E v \in cover'.since[g] .. version'[g] : Whole(g, v)'
  <2>1. \A v : Whole(g, v) => Whole(g, v)'
    BY <1>1 DEF Whole
  <2>2. CASE g \in cover.complete
    BY <1>1, <1>2, <2>1, <2>2 DEF Covered
  <2>3. CASE g \notin cover.complete
    <3>1. g = f /\ coverageFromManifest(f)
      BY <1>2, <2>3
    <3>2. version[f] \in cover'.since[f] .. version'[f]
      BY <1>1, <1>2, <1>4
    <3>3. QED
      BY <1>3, <2>1, <3>1, <3>2
  <2>4. QED
    BY <2>2, <2>3
<1>6. QED
  BY <1>1, <1>2, <1>5 DEF Covered

LEMMA CoveredKeeps == ASSUME IInv, Covered, [Next]_vars PROVE Covered'
<1>1. version \in [File -> Nat]
  BY DEF IInv, Reads
<1>2. ASSUME UNCHANGED <<records, cover, version>>, receipts' \subseteq receipts PROVE Covered'
  <2>1. \A f \in File : version[f] <= version'[f]
    BY <1>1, <1>2
  <2>2. QED
    BY <1>1, <1>2, <2>1, CoveredStays
<1>3. CASE UNCHANGED vars
  BY <1>2, <1>3 DEF vars, reuse, world
<1>4. CASE Open
  BY <1>2, <1>4 DEF Open, reuse, world
<1>5. CASE Resume
  BY <1>2, <1>5 DEF Resume, Calm, reuse, world
<1>6. CASE Ask
  BY <1>2, <1>6 DEF Ask, Current, Calm, world
<1>7. CASE Answer \/ Deliver \/ EndBatch \/ Note \/ Close \/ Partial \/ Closed
  BY <1>2, <1>7 DEF Answer, Deliver, EndBatch, Note, Close, Partial, Closed, Calm, reuse, world
<1>8. ASSUME NEW i \in DOMAIN batch, Try(i) PROVE Covered'
  BY <1>2, <1>8 DEF Try, Calm, reuse, world
<1>9. ASSUME NEW i \in DOMAIN batch, Perform(i) PROVE Covered'
  <2>1. CASE Read(i)
    BY <1>9, <2>1, CoveredRead
  <2>2. CASE Refuse(i) \/ Find(i) \/ List(i)
    BY <1>2, <1>9, <2>2 DEF Perform, Refuse, Find, List, Calm, reuse, world
  <2>3. QED
    BY <1>9, <2>1, <2>2 DEF Perform
<1>10. CASE Survey
  <2>1. UNCHANGED <<records, receipts, version>> /\ cover'.complete = {} /\ cover'.since = version
    BY <1>10 DEF Survey, Calm, reuse, world
  <2>2. \A f \in File : cover'.since[f] <= version'[f]
    BY <1>1, <2>1
  <2>3. QED
    BY <1>1, <2>1, <2>2 DEF Covered
<1>11. ASSUME NEW f \in File, Check(f) PROVE Covered'
  BY <1>11, CoveredCheck
<1>12. CASE Finish \/ Crash
  BY <1>1, <1>12, CoveredForgotten DEF Finish, Crash, Calm, world
<1>13. CASE Cancel
  BY <1>2, <1>13 DEF Cancel, reuse, world
<1>14. CASE Edit
  <2>1. UNCHANGED <<records, receipts, cover>>
    BY <1>14 DEF Edit, reuse
  <2>2. QED
    BY <1>1, <1>14, <2>1, VersionsGrow, CoveredStays
<1>15. QED
  BY <1>3, <1>4, <1>5, <1>6, <1>7, <1>8, <1>9, <1>10, <1>11, <1>12, <1>13, <1>14 DEF Next

LEMMA CoveredBegins == ASSUME Init PROVE Covered
<1>1. receipts = {} /\ cover.complete = {} /\ cover.since = [f \in File |-> 0]
      /\ version = [f \in File |-> 0]
  BY DEF Init, NoCover
<1>2. QED
  BY <1>1, FS_EmptySet DEF Covered

\* "complete" is said of the workspace only if every byte of each file, in a
\* version it had while the report was made, was returned by a read of this run
\* (coverageFromManifest, readingCoverage).
THEOREM CompleteMeansRead == Spec => []CompleteIsRead
<1>1. Init => Covered
  BY CoveredBegins
<1>2. IInv /\ Covered /\ [Next]_vars => Covered'
  BY CoveredKeeps
<1>3. Covered => CompleteIsRead
  BY DEF Covered, CompleteIsRead, Status, Whole
<1>4. QED
  BY <1>1, <1>2, <1>3, ConversationKept, PTL DEF Spec
-----------------------------------------------------------------------------
(* Places in a set of numbers.                                             *)

LEMMA PlaceIs ==
  ASSUME NEW S \in SUBSET Nat, IsFiniteSet(S)
  PROVE  /\ \A i \in Nat : Place(S, i) \in Nat
         /\ \A i \in S : Place(S, i) \in 1 .. Cardinality(S)
         /\ \A i, j \in S : i < j => Place(S, i) < Place(S, j)
<1>. DEFINE Upto(i) == {j \in S : j <= i}
<1>1. ASSUME NEW i \in Nat
      PROVE  IsFiniteSet(Upto(i)) /\ Cardinality(Upto(i)) \in Nat /\ Cardinality(Upto(i)) <= Cardinality(S)
  <2>1. Upto(i) \subseteq S
    OBVIOUS
  <2>. HIDE DEF Upto
  <2>2. QED
    BY <2>1, FS_Subset, FS_CardinalityType
<1>2. \A i \in Nat : Place(S, i) = Cardinality(Upto(i))
  BY DEF Place
<1>3. ASSUME NEW i \in S PROVE Cardinality(Upto(i)) >= 1
  <2>1. i \in Upto(i) /\ i \in Nat
    OBVIOUS
  <2>2. IsFiniteSet(Upto(i)) /\ Cardinality(Upto(i)) \in Nat
    BY <1>1, <2>1
  <2>. HIDE DEF Upto
  <2>3. Cardinality(Upto(i)) # 0
    BY <2>1, <2>2, FS_EmptySet
  <2>4. QED
    BY <2>2, <2>3
<1>4. ASSUME NEW i \in S, NEW j \in S, i < j PROVE Cardinality(Upto(i)) < Cardinality(Upto(j))
  <2>1. Upto(i) \subseteq Upto(j) /\ j \in Upto(j) /\ j \notin Upto(i)
    <3>1. i \in Nat /\ j \in Nat /\ \A k \in S : k \in Nat
      OBVIOUS
    <3>2. \A k \in S : k <= i => k <= j
      BY <1>4, <3>1
    <3>3. j <= j /\ ~ (j <= i) /\ j \in S
      BY <1>4, <3>1
    <3>4. QED
      BY <3>2, <3>3, Zenon
  <2>2. IsFiniteSet(Upto(j)) /\ Cardinality(Upto(j)) \in Nat /\ Cardinality(Upto(i)) \in Nat
    BY <1>1
  <2>. HIDE DEF Upto
  <2>3. Cardinality(Upto(i)) <= Cardinality(Upto(j)) /\ Cardinality(Upto(i)) # Cardinality(Upto(j))
    BY <2>1, <2>2, FS_Subset
  <2>4. QED
    BY <2>2, <2>3
<1>. HIDE DEF Upto
<1>5. Cardinality(S) \in Nat
  BY FS_CardinalityType
<1>6. QED
  BY <1>1, <1>2, <1>3, <1>4, <1>5

\* Each place is taken, by one element.
LEMMA NthIs ==
  ASSUME NEW S \in SUBSET Nat, IsFiniteSet(S)
  PROVE  /\ Cardinality(S) \in Nat
         /\ \A k \in 1 .. Cardinality(S) : Nth(S, k) \in S /\ Place(S, Nth(S, k)) = k
         /\ \A i \in S : Nth(S, Place(S, i)) = i
<1>. DEFINE N == Cardinality(S)
            f == [i \in S |-> Place(S, i)]
<1>1. N \in Nat /\ IsFiniteSet(1 .. N) /\ Cardinality(1 .. N) = N
  <2>1. N \in Nat
    BY FS_CardinalityType
  <2>. HIDE DEF N
  <2>2. QED
    BY <2>1, FS_Interval
<1>2. \A i, j \in S : Place(S, i) = Place(S, j) => i = j
  <2>1. \A i \in S : Place(S, i) \in Nat /\ i \in Nat
    BY PlaceIs
  <2>2. \A i, j \in S : i < j => Place(S, i) < Place(S, j)
    BY PlaceIs
  <2>3. QED
    BY <2>1, <2>2
<1>3. f \in Injection(S, 1 .. N)
  <2>1. f \in [S -> 1 .. N]
    BY PlaceIs
  <2>2. QED
    BY <1>2, <2>1 DEF Injection, IsInjective
<1>4. f \in Surjection(S, 1 .. N)
  <2>. HIDE DEF f
  <2>1. Cardinality(S) = Cardinality(1 .. N)
    BY <1>1
  <2>2. QED
    BY <1>1, <1>3, <2>1, FS_Injection
<1>5. \A k \in 1 .. N : \E i \in S : Place(S, i) = k
  BY <1>4 DEF Surjection
<1>6. \A k \in 1 .. N : Nth(S, k) \in S /\ Place(S, Nth(S, k)) = k
  BY <1>5 DEF Nth
<1>7. \A i \in S : Nth(S, Place(S, i)) = i
  <2>1. ASSUME NEW i \in S PROVE Nth(S, Place(S, i)) = i
    <3>1. Place(S, i) \in 1 .. N
      BY PlaceIs
    <3>2. QED
      BY <1>2, <1>6, <3>1
  <2>2. QED
    BY <2>1
<1>8. QED
  BY <1>1, <1>6, <1>7

LEMMA RunSize ==
  ASSUME NEW i \in Nat, NEW t \in Nat
  PROVE  IsFiniteSet(i + 1 .. i + t) /\ Cardinality(i + 1 .. i + t) = t
<1>1. i + 1 \in Int /\ i + t \in Int /\ i + t - (i + 1) + 1 = t /\ (i + 1 > i + t => t = 0)
  OBVIOUS
<1>2. QED
  BY <1>1, FS_Interval

\* Neighbours stay neighbours.
LEMMA PlaceRun ==
  ASSUME NEW S \in SUBSET Nat, IsFiniteSet(S), NEW i \in Nat, NEW t \in Nat, i + 1 .. i + t \subseteq S
  PROVE  Place(S, i + t) = Place(S, i) + t
<1>. DEFINE A == {j \in S : j <= i}
            B == {j \in S : j <= i + t}
            T == i + 1 .. i + t
<1>1. B = A \union T /\ A \cap T = {}
  <2>1. \A j \in S : j \in Nat
    OBVIOUS
  <2>2. \A j \in S : j <= i + t <=> j <= i \/ j \in T
    BY <2>1
  <2>3. T \subseteq B /\ \A j \in T : ~ (j <= i)
    OBVIOUS
  <2>4. \A j : j \in B <=> j \in A \/ j \in T
    <3>. HIDE DEF T
    <3>1. QED
      BY <2>2, <2>3
  <2>. HIDE DEF T, B
  <2>5. QED
    BY <2>3, <2>4
<1>2. IsFiniteSet(A)
  BY FS_Subset
<1>3. IsFiniteSet(T) /\ Cardinality(T) = t
  BY RunSize
<1>4. Cardinality(A) \in Nat
  BY <1>2, FS_CardinalityType
<1>5. Cardinality(B) = Cardinality(A) + t
  <2>. HIDE DEF A, B, T
  <2>1. Cardinality(A \cap T) = 0
    BY <1>1, FS_EmptySet
  <2>2. Cardinality(A \union T) = Cardinality(A) + Cardinality(T) - Cardinality(A \cap T)
    BY <1>2, <1>3, FS_Union
  <2>3. QED
    BY <1>1, <1>3, <1>4, <2>1, <2>2
<1>6. QED
  BY <1>5 DEF Place

-----------------------------------------------------------------------------
(* Messages, their calls and the results that answer them.                 *)

\* The messages of a conversation: a result makes no calls, and no call is named 0.
Sent == {m \in Message : IsFiniteSet(m.calls) /\ 0 \notin m.calls /\ (m.of # 0 => m.calls = {})}
Calling(m) == Cardinality(m.calls)

\* In a conversation where all is answered, the answers follow their message.
LEMMA AnsweredIs ==
  ASSUME NEW ms \in Seq(Sent), Paired(ms), NEW i \in DOMAIN ms
  PROVE  /\ Calling(ms[i]) \in Nat /\ i + Calling(ms[i]) <= Len(ms)
         /\ Answered(ms, i) = i + 1 .. i + Calling(ms[i])
         /\ \A j \in i + 1 .. i + Calling(ms[i]) : ms[j].of \in ms[i].calls /\ ms[j].of # 0
<1>. DEFINE n == Calling(ms[i])
            T == i + 1 .. i + n
            A == Answered(ms, i)
            C == ms[i].calls
            f == [j \in A |-> ms[j].of]
<1>1. DOMAIN ms = 1 .. Len(ms) /\ Len(ms) \in Nat /\ ms[i] \in Sent /\ i \in Nat /\ i <= Len(ms)
  BY LenProperties, ElementOfSeq
<1>2. IsFiniteSet(C) /\ n \in Nat /\ n = Cardinality(C) /\ 0 \notin C
  BY <1>1, FS_CardinalityType DEF Sent, Calling
<1>3. A \subseteq T /\ A \subseteq DOMAIN ms
  BY DEF Answered, Calling
<1>4. C = {ms[j].of : j \in A}
  BY DEF Paired
<1>5. IsFiniteSet(T) /\ Cardinality(T) = n
  <2>. HIDE DEF n
  <2>1. QED
    BY <1>1, <1>2, RunSize
<1>6. f \in Surjection(A, C)
  <2>. HIDE DEF A, C
  <2>1. QED
    BY <1>4 DEF Surjection
<1>7. A = T
  <2>. HIDE DEF A, C, T, f, n
  <2>1. IsFiniteSet(A) /\ Cardinality(A) <= n
    BY <1>3, <1>5, FS_Subset
  <2>2. n <= Cardinality(A)
    BY <1>2, <1>6, <2>1, FS_Surjection
  <2>3. Cardinality(A) \in Nat
    BY <2>1, FS_CardinalityType
  <2>4. Cardinality(T) = Cardinality(A)
    BY <1>2, <1>5, <2>1, <2>2, <2>3
  <2>5. QED
    BY <1>3, <1>5, <2>4, FS_Subset
<1>8. \A j \in T : ms[j].of \in C /\ ms[j].of # 0
  <2>. HIDE DEF A, T, C
  <2>1. QED
    BY <1>2, <1>4, <1>7
<1>9. i + n <= Len(ms)
  <2>1. CASE n = 0
    BY <1>1, <2>1
  <2>2. CASE n # 0
    <3>. HIDE DEF n
    <3>1. i + n \in i + 1 .. i + n
      BY <1>1, <1>2, <2>2
    <3>2. i + n \in 1 .. Len(ms)
      <4>. HIDE DEF A
      <4>1. QED
        BY <1>1, <1>3, <1>7, <3>1
    <3>3. QED
      BY <3>2
  <2>3. QED
    BY <2>1, <2>2
<1>10. QED
  BY <1>2, <1>7, <1>8, <1>9

\* A message is in one group.
LEMMA GroupIs ==
  ASSUME NEW ms \in Seq(Sent), Paired(ms), NEW j \in DOMAIN ms
  PROVE  /\ ms[j].of = 0 => Group(ms, j) = j
         /\ \A i \in DOMAIN ms : j \in Answered(ms, i) => Group(ms, j) = i /\ ms[i].of = 0 /\ ms[j].of # 0
         /\ ms[j].of # 0 => Group(ms, j) \in DOMAIN ms /\ j \in Answered(ms, Group(ms, j))
<1>1. DOMAIN ms = 1 .. Len(ms) /\ Len(ms) \in Nat /\ \A i \in DOMAIN ms : ms[i] \in Sent
  BY LenProperties, ElementOfSeq
<1>2. ASSUME NEW i \in DOMAIN ms, j \in Answered(ms, i)
      PROVE  /\ j \in i + 1 .. i + Calling(ms[i]) /\ Calling(ms[i]) \in Nat
             /\ \A k \in i + 1 .. i + Calling(ms[i]) : ms[k].of # 0
             /\ ms[i].calls # {} /\ ms[i].of = 0
  <2>1. /\ j \in i + 1 .. i + Calling(ms[i]) /\ Calling(ms[i]) \in Nat
        /\ \A k \in i + 1 .. i + Calling(ms[i]) : ms[k].of \in ms[i].calls /\ ms[k].of # 0
    BY <1>2, AnsweredIs
  <2>2. ms[i].calls # {} /\ ms[i].of = 0
    BY <1>1, <2>1 DEF Sent
  <2>3. QED
    BY <2>1, <2>2
<1>3. ASSUME NEW i \in DOMAIN ms, NEW k \in DOMAIN ms, j \in Answered(ms, i), j \in Answered(ms, k)
      PROVE  ~ (i < k)
  <2>1. SUFFICES ASSUME i < k PROVE FALSE
    OBVIOUS
  <2>2. /\ j \in i + 1 .. i + Calling(ms[i]) /\ Calling(ms[i]) \in Nat
        /\ \A x \in i + 1 .. i + Calling(ms[i]) : ms[x].of # 0
    BY <1>2, <1>3
  <2>3. j \in k + 1 .. k + Calling(ms[k]) /\ Calling(ms[k]) \in Nat /\ ms[k].of = 0
    BY <1>2, <1>3
  <2>4. k \in i + 1 .. i + Calling(ms[i])
    BY <1>1, <2>1, <2>2, <2>3
  <2>5. QED
    BY <2>2, <2>3, <2>4
<1>4. \A i, k \in DOMAIN ms : j \in Answered(ms, i) /\ j \in Answered(ms, k) => i = k
  BY <1>1, <1>3
<1>5. \A i \in DOMAIN ms : j \in Answered(ms, i) => ms[i].of = 0 /\ ms[j].of # 0
  BY <1>2
<1>6. ms[j].of # 0 => \E i \in DOMAIN ms : j \in Answered(ms, i)
  BY DEF Paired
<1>7. ms[j].of # 0 => Group(ms, j) \in DOMAIN ms /\ j \in Answered(ms, Group(ms, j))
  BY <1>6 DEF Group
<1>8. QED
  BY <1>4, <1>5, <1>7 DEF Group

\* Where the messages are that are left once n groups are gone.
Remain(ms, n) ==
  {i \in DOMAIN ms : Group(ms, i) \notin {k \in Droppable(ms) : Place(Droppable(ms), k) <= n}}

LEMMA DroppedIs ==
  ASSUME NEW ms \in Seq(Sent), Paired(ms), NEW n \in Nat
  PROVE  LET d == Dropped(ms, n)
             K == Remain(ms, n)
         IN /\ d \in Seq(Sent) /\ Len(d) = Cardinality(K) /\ K \in SUBSET Nat /\ IsFiniteSet(K)
            /\ \A k \in 1 .. Len(d) : Nth(K, k) \in K /\ Place(K, Nth(K, k)) = k /\ d[k] = ms[Nth(K, k)]
            /\ \A i \in K : Place(K, i) \in 1 .. Len(d) /\ d[Place(K, i)] = ms[i] /\ Nth(K, Place(K, i)) = i
<1>. DEFINE d == Dropped(ms, n)
            K == Remain(ms, n)
            N == Cardinality(K)
<1>1. DOMAIN ms = 1 .. Len(ms) /\ Len(ms) \in Nat /\ \A i \in DOMAIN ms : ms[i] \in Sent
  BY LenProperties, ElementOfSeq
<1>2. K \in SUBSET (1 .. Len(ms)) /\ K \in SUBSET Nat
  BY <1>1 DEF Remain
<1>3. IsFiniteSet(K)
  <2>1. IsFiniteSet(1 .. Len(ms))
    BY <1>1, FS_Interval
  <2>. HIDE DEF K
  <2>2. QED
    BY <1>2, <2>1, FS_Subset
<1>4. d = [k \in 1 .. N |-> ms[Nth(K, k)]]
  BY DEF Dropped, Remain
<1>. HIDE DEF d, K
<1>5. /\ N \in Nat
      /\ \A k \in 1 .. N : Nth(K, k) \in K /\ Place(K, Nth(K, k)) = k
      /\ \A i \in K : Nth(K, Place(K, i)) = i
  BY <1>2, <1>3, NthIs
<1>6. \A i \in K : Place(K, i) \in 1 .. N
  BY <1>2, <1>3, PlaceIs
<1>. HIDE DEF N
<1>7. d \in Seq(Sent) /\ Len(d) = N
  <2>1. \A k \in 1 .. N : ms[Nth(K, k)] \in Sent
    BY <1>1, <1>2, <1>5
  <2>2. d \in [1 .. N -> Sent]
    BY <1>4, <2>1
  <2>3. QED
    BY <1>5, <2>2, SeqDef, LenProperties
<1>8. \A k \in 1 .. N : d[k] = ms[Nth(K, k)]
  BY <1>4
<1>9. \A i \in K : d[Place(K, i)] = ms[i]
  BY <1>5, <1>6, <1>8
<1>10. QED
  BY <1>2, <1>3, <1>5, <1>6, <1>7, <1>8, <1>9 DEF d, K, N

\* A group stays whole.
LEMMA RemainIs ==
  ASSUME NEW ms \in Seq(Sent), Paired(ms), NEW n \in Nat, NEW i \in DOMAIN ms, NEW j \in Answered(ms, i)
  PROVE  i \in Remain(ms, n) <=> j \in Remain(ms, n)
<1>1. j \in DOMAIN ms
  BY DEF Answered
<1>2. Group(ms, j) = i /\ ms[i].of = 0
  BY <1>1, GroupIs
<1>3. Group(ms, i) = i
  BY <1>2, GroupIs
<1>4. QED
  BY <1>1, <1>2, <1>3 DEF Remain

\* What is left is still paired.
LEMMA DroppedPaired ==
  ASSUME NEW ms \in Seq(Sent), Paired(ms), NEW n \in Nat
  PROVE  Paired(Dropped(ms, n))
<1>. DEFINE d == Dropped(ms, n)
            K == Remain(ms, n)
<1>1. DOMAIN ms = 1 .. Len(ms) /\ Len(ms) \in Nat /\ K \subseteq DOMAIN ms
  BY LenProperties DEF Remain
<1>2. /\ d \in Seq(Sent) /\ K \in SUBSET Nat /\ IsFiniteSet(K)
      /\ \A k \in 1 .. Len(d) : Nth(K, k) \in K /\ Place(K, Nth(K, k)) = k /\ d[k] = ms[Nth(K, k)]
      /\ \A i \in K : Place(K, i) \in 1 .. Len(d) /\ d[Place(K, i)] = ms[i] /\ Nth(K, Place(K, i)) = i
  BY DroppedIs
<1>3. DOMAIN d = 1 .. Len(d) /\ Len(d) \in Nat
  BY <1>2, LenProperties
<1>4. ASSUME NEW i \in K
      PROVE  /\ Calling(ms[i]) \in Nat /\ Answered(ms, i) = i + 1 .. i + Calling(ms[i])
             /\ \A t \in 0 .. Calling(ms[i]) : i + t \in K /\ Place(K, i + t) = Place(K, i) + t
             /\ \A j \in i + 1 .. i + Calling(ms[i]) : ms[j].of \in ms[i].calls
  <2>1. /\ Calling(ms[i]) \in Nat /\ i + Calling(ms[i]) <= Len(ms)
        /\ Answered(ms, i) = i + 1 .. i + Calling(ms[i])
        /\ \A j \in i + 1 .. i + Calling(ms[i]) : ms[j].of \in ms[i].calls
    BY <1>1, AnsweredIs
  <2>2. i + 1 .. i + Calling(ms[i]) \subseteq K
    <3>1. i \in DOMAIN ms
      BY <1>1
    <3>2. \A j \in Answered(ms, i) : j \in K
      <4>. HIDE DEF K
      <4>1. \A j \in Answered(ms, i) : i \in Remain(ms, n) <=> j \in Remain(ms, n)
        BY <3>1, RemainIs
      <4>2. QED
        BY <4>1 DEF K
    <3>3. QED
      BY <2>1, <3>2
  <2>. HIDE DEF K
  <2>3. ASSUME NEW t \in 0 .. Calling(ms[i])
        PROVE  i + t \in K /\ Place(K, i + t) = Place(K, i) + t
    <3>1. t \in Nat /\ i \in Nat /\ i + 1 .. i + t \subseteq i + 1 .. i + Calling(ms[i])
      BY <1>2, <2>1
    <3>2. Place(K, i + t) = Place(K, i) + t
      BY <1>2, <2>2, <3>1, PlaceRun
    <3>3. i + t \in K
      BY <2>1, <2>2, <3>1
    <3>4. QED
      BY <3>2, <3>3
  <2>4. QED
    BY <2>1, <2>3
<1>. HIDE DEF K, d
<1>5. ASSUME NEW a \in DOMAIN d
      PROVE  /\ Nth(K, a) \in K /\ d[a] = ms[Nth(K, a)] /\ Nth(K, a) \in Nat /\ a \in Nat
             /\ \A t \in 1 .. Calling(d[a]) : Nth(K, a) + t \in K /\ a + t \in DOMAIN d
                                              /\ d[a + t] = ms[Nth(K, a) + t] /\ d[a + t].of \in d[a].calls
             /\ Answered(d, a) = a + 1 .. a + Calling(d[a])
             /\ Answered(ms, Nth(K, a)) = Nth(K, a) + 1 .. Nth(K, a) + Calling(d[a])
             /\ Calling(d[a]) \in Nat
  <2>. DEFINE i == Nth(K, a)
  <2>1. i \in K /\ Place(K, i) = a /\ d[a] = ms[i] /\ i \in Nat /\ a \in Nat
    <3>1. a \in 1 .. Len(d) /\ a \in Nat
      BY <1>3
    <3>2. Nth(K, a) \in K /\ Place(K, Nth(K, a)) = a /\ d[a] = ms[Nth(K, a)]
      BY <1>2, <3>1
    <3>3. Nth(K, a) \in Nat
      BY <1>2, <3>2
    <3>4. QED
      BY <3>1, <3>2, <3>3
  <2>. HIDE DEF i
  <2>2. /\ Calling(ms[i]) \in Nat /\ Answered(ms, i) = i + 1 .. i + Calling(ms[i])
        /\ \A t \in 0 .. Calling(ms[i]) : i + t \in K /\ Place(K, i + t) = Place(K, i) + t
        /\ \A j \in i + 1 .. i + Calling(ms[i]) : ms[j].of \in ms[i].calls
    BY <1>4, <2>1
  <2>3. ASSUME NEW t \in 1 .. Calling(d[a])
        PROVE  /\ i + t \in K /\ a + t \in DOMAIN d
               /\ d[a + t] = ms[i + t] /\ d[a + t].of \in d[a].calls
    <3>1. t \in 0 .. Calling(ms[i]) /\ i + t \in i + 1 .. i + Calling(ms[i])
      BY <2>1, <2>2
    <3>2. i + t \in K /\ Place(K, i + t) = a + t /\ ms[i + t].of \in ms[i].calls
      BY <2>1, <2>2, <3>1
    <3>3. QED
      BY <1>2, <1>3, <2>1, <3>2
  <2>4. Answered(d, a) = a + 1 .. a + Calling(d[a])
    <3>1. ASSUME NEW j \in a + 1 .. a + Calling(d[a]) PROVE j \in DOMAIN d /\ d[j].of \in d[a].calls
      <4>1. j - a \in 1 .. Calling(d[a]) /\ a + (j - a) = j
        BY <2>1, <2>2
      <4>2. QED
        BY <2>3, <4>1
    <3>2. QED
      BY <3>1 DEF Answered, Calling
  <2>5. QED
    BY <2>1, <2>2, <2>3, <2>4 DEF i
<1>6. ASSUME NEW a \in DOMAIN d
      PROVE  {d[j].of : j \in Answered(d, a)} = d[a].calls
  <2>. DEFINE i == Nth(K, a)
              c == Calling(d[a])
  <2>1. /\ i \in K /\ d[a] = ms[i] /\ i \in Nat /\ a \in Nat /\ c \in Nat
        /\ \A t \in 1 .. c : d[a + t] = ms[i + t]
        /\ Answered(d, a) = a + 1 .. a + c
        /\ Answered(ms, i) = i + 1 .. i + c
    BY <1>5
  <2>2. {ms[j].of : j \in Answered(ms, i)} = ms[i].calls
    BY <1>1, <2>1 DEF Paired
  <2>. HIDE DEF i, c
  <2>3. ASSUME NEW j \in Answered(d, a) PROVE d[j].of \in d[a].calls
    <3>1. j - a \in 1 .. c /\ a + (j - a) = j /\ i + (j - a) \in i + 1 .. i + c
      BY <2>1
    <3>2. d[j] = ms[i + (j - a)]
      BY <2>1, <3>1
    <3>3. ms[i + (j - a)].of \in ms[i].calls
      BY <2>1, <2>2, <3>1
    <3>4. QED
      BY <2>1, <3>2, <3>3
  <2>4. ASSUME NEW x \in d[a].calls PROVE \E j \in Answered(d, a) : d[j].of = x
    <3>1. PICK j \in i + 1 .. i + c : ms[j].of = x
      BY <2>1, <2>2
    <3>2. j - i \in 1 .. c /\ i + (j - i) = j /\ a + (j - i) \in a + 1 .. a + c
      BY <2>1
    <3>3. d[a + (j - i)] = ms[j]
      BY <2>1, <3>2
    <3>4. QED
      BY <2>1, <3>1, <3>2, <3>3
  <2>5. QED
    BY <2>3, <2>4
<1>7. ASSUME NEW b \in DOMAIN d, d[b].of # 0
      PROVE  \E a \in DOMAIN d : b \in Answered(d, a)
  <2>. DEFINE j == Nth(K, b)
  <2>1. j \in K /\ d[b] = ms[j] /\ Place(K, j) = b /\ j \in DOMAIN ms
    BY <1>1, <1>2, <1>3
  <2>. HIDE DEF j
  <2>2. PICK i \in DOMAIN ms : j \in Answered(ms, i)
    BY <1>7, <2>1 DEF Paired
  <2>3. i \in K
    BY <2>1, <2>2, RemainIs DEF K
  <2>. DEFINE a == Place(K, i)
  <2>4. a \in DOMAIN d /\ Nth(K, a) = i
    BY <1>2, <1>3, <2>3
  <2>5. /\ Calling(ms[i]) \in Nat /\ Answered(ms, i) = i + 1 .. i + Calling(ms[i])
        /\ \A t \in 0 .. Calling(ms[i]) : i + t \in K /\ Place(K, i + t) = a + t
    BY <1>4, <2>3
  <2>. HIDE DEF a
  <2>6. Answered(d, a) = a + 1 .. a + Calling(ms[i]) /\ a \in Nat
    BY <1>5, <2>4
  <2>7. i \in Nat /\ j - i \in 1 .. Calling(ms[i]) /\ i + (j - i) = j
    BY <1>1, <2>1, <2>2, <2>5
  <2>8. b = a + (j - i)
    BY <2>1, <2>5, <2>7
  <2>9. b \in Answered(d, a)
    BY <2>5, <2>6, <2>7, <2>8
  <2>10. QED
    BY <2>4, <2>9
<1>8. Paired(d)
  BY <1>6, <1>7 DEF Paired
<1>9. QED
  BY <1>8 DEF d

-----------------------------------------------------------------------------
(* A request.                                                              *)

\* The system's message, and others that are not.
Opened(ms) ==
  /\ ms \in Seq(Sent) /\ Len(ms) > 1
  /\ ms[1].role = "system" /\ ms[1].of = 0 /\ ms[1].calls = {}
  /\ \A i \in 2 .. Len(ms) : ms[i].role # "system"
\* A message of the user is among them.
HasUser(ms) == \E i \in DOMAIN ms : Plain(ms[i]) /\ ms[i].form # "notice"

LEMMA NoticeIs ==
  /\ syntheticContextNotice \in Sent /\ Plain(syntheticContextNotice)
  /\ syntheticContextNotice.role # "system" /\ syntheticContextNotice.calls = {}
  /\ syntheticContextNotice.of = 0
<1>1. syntheticContextNotice = [role |-> "user", calls |-> {}, of |-> 0, size |-> 1, act |-> 0, form |-> "notice"]
  BY DEF syntheticContextNotice, Text
<1>2. syntheticContextNotice \in Message
  BY <1>1 DEF Message
<1>3. QED
  BY <1>1, <1>2, FS_EmptySet DEF Sent, Plain

\* The notice goes between the system's message and one that is not the user's.
LEMMA PrefixIs ==
  ASSUME NEW ms, Opened(ms)
  PROVE  LET p == withPrefix(ms) IN
         \/ p = ms /\ Plain(ms[2])
         \/ /\ p \in Seq(Sent) /\ Len(p) = Len(ms) + 1 /\ p[1] = ms[1] /\ p[2] = syntheticContextNotice
            /\ \A k \in 3 .. Len(p) : p[k] = ms[k - 1]
<1>. DEFINE S == {i \in DOMAIN ms : ms[i].role # "system"} \union {Len(ms) + 1}
<1>1. ms \in Seq(Sent) /\ Len(ms) \in Nat /\ DOMAIN ms = 1 .. Len(ms) /\ Len(ms) > 1
  BY LenProperties DEF Opened
<1>2. Min(S) = 2
  <2>1. S \in SUBSET Nat /\ 2 \in S /\ \A y \in S : 2 <= y
    BY <1>1 DEF Opened
  <2>. HIDE DEF S
  <2>2. QED
    BY <2>1, MinIs
<1>3. withPrefix(ms) = IF Plain(ms[2]) THEN ms
                       ELSE SubSeq(ms, 1, 1) \o <<syntheticContextNotice>> \o SubSeq(ms, 2, Len(ms))
  BY <1>1, <1>2 DEF withPrefix
<1>. DEFINE a == SubSeq(ms, 1, 1)
            b == <<syntheticContextNotice>>
            c == SubSeq(ms, 2, Len(ms))
<1>4. a \in Seq(Sent) /\ Len(a) = 1 /\ a[1] = ms[1]
  <2>1. \A i \in 1 .. 1 : ms[i] \in Sent
    BY <1>1, ElementOfSeq
  <2>2. QED
    BY <2>1, SubSeqProperties
<1>5. b \in Seq(Sent) /\ Len(b) = 1 /\ b[1] = syntheticContextNotice
  BY NoticeIs
<1>6. c \in Seq(Sent) /\ Len(c) = Len(ms) - 1 /\ \A k \in 1 .. Len(ms) - 1 : c[k] = ms[k + 1]
  <2>1. \A i \in 2 .. Len(ms) : ms[i] \in Sent
    BY <1>1, ElementOfSeq
  <2>2. /\ c \in Seq(Sent) /\ Len(c) = IF 2 <= Len(ms) THEN Len(ms) - 2 + 1 ELSE 0
        /\ \A i \in 1 .. Len(ms) - 2 + 1 : c[i] = ms[2 + i - 1]
    BY <1>1, <2>1, SubSeqProperties
  <2>3. QED
    BY <1>1, <2>2
<1>. HIDE DEF a, b, c
<1>7. a \o b \in Seq(Sent) /\ Len(a \o b) = 2 /\ (a \o b)[1] = ms[1] /\ (a \o b)[2] = syntheticContextNotice
  <2>1. /\ a \o b \in Seq(Sent) /\ Len(a \o b) = Len(a) + Len(b)
        /\ \A i \in 1 .. Len(a) + Len(b) : (a \o b)[i] = IF i <= Len(a) THEN a[i] ELSE b[i - Len(a)]
    BY <1>4, <1>5, ConcatProperties
  <2>2. QED
    BY <1>4, <1>5, <2>1
<1>8. /\ a \o b \o c \in Seq(Sent) /\ Len(a \o b \o c) = Len(ms) + 1
      /\ (a \o b \o c)[1] = ms[1] /\ (a \o b \o c)[2] = syntheticContextNotice
      /\ \A k \in 3 .. Len(ms) + 1 : (a \o b \o c)[k] = ms[k - 1]
  <2>. DEFINE ab == a \o b
  <2>1. ab \in Seq(Sent) /\ Len(ab) = 2 /\ ab[1] = ms[1] /\ ab[2] = syntheticContextNotice
    BY <1>7
  <2>. HIDE DEF ab
  <2>2. /\ ab \o c \in Seq(Sent) /\ Len(ab \o c) = Len(ab) + Len(c)
        /\ \A i \in 1 .. Len(ab) + Len(c) : (ab \o c)[i] = IF i <= Len(ab) THEN ab[i] ELSE c[i - Len(ab)]
    BY <1>6, <2>1, ConcatProperties
  <2>3. Len(ab \o c) = Len(ms) + 1 /\ (ab \o c)[1] = ms[1] /\ (ab \o c)[2] = syntheticContextNotice
    BY <1>1, <1>6, <2>1, <2>2
  <2>4. ASSUME NEW k \in 3 .. Len(ms) + 1 PROVE (ab \o c)[k] = ms[k - 1]
    <3>1. (ab \o c)[k] = c[k - 2] /\ k - 2 \in 1 .. Len(ms) - 1 /\ (k - 2) + 1 = k - 1
      BY <1>1, <1>6, <2>1, <2>2
    <3>2. c[k - 2] = ms[(k - 2) + 1]
      BY <1>6, <3>1
    <3>3. QED
      BY <3>1, <3>2
  <2>5. QED
    BY <2>2, <2>3, <2>4 DEF ab
<1>9. QED
  BY <1>1, <1>3, <1>8 DEF a, b, c

\* What a request is.
Fair(p) == Opened(p) /\ Plain(p[2]) /\ Paired(p)

LEMMA PrefixFair ==
  ASSUME NEW ms, Opened(ms), Paired(ms)
  PROVE  Fair(withPrefix(ms)) /\ (HasUser(ms) => HasUser(withPrefix(ms)))
<1>. DEFINE p == withPrefix(ms)
<1>1. ms \in Seq(Sent) /\ Len(ms) \in Nat /\ DOMAIN ms = 1 .. Len(ms) /\ Len(ms) > 1
      /\ \A i \in 1 .. Len(ms) : ms[i] \in Sent
  BY LenProperties, ElementOfSeq DEF Opened
<1>2. CASE p = ms /\ Plain(ms[2])
  BY <1>2 DEF Fair
<1>3. CASE /\ p \in Seq(Sent) /\ Len(p) = Len(ms) + 1 /\ p[1] = ms[1] /\ p[2] = syntheticContextNotice
           /\ \A k \in 3 .. Len(p) : p[k] = ms[k - 1]
  <2>. HIDE DEF p
  <2>1. DOMAIN p = 1 .. Len(ms) + 1
    BY <1>1, <1>3, LenProperties
  <2>2. Opened(p)
    <3>1. \A k \in 3 .. Len(p) : k - 1 \in 2 .. Len(ms)
      BY <1>1, <1>3
    <3>2. \A k \in 3 .. Len(p) : p[k].role # "system"
      BY <1>3, <3>1 DEF Opened
    <3>3. p[2].role # "system"
      BY <1>3, NoticeIs
    <3>4. \A k \in 2 .. Len(p) : k = 2 \/ k \in 3 .. Len(p)
      BY <1>1, <1>3
    <3>5. Len(p) > 1
      BY <1>1, <1>3
    <3>6. QED
      BY <1>3, <3>2, <3>3, <3>4, <3>5 DEF Opened
  <2>3. \A k \in 2 .. Len(ms) : p[k + 1] = ms[k]
    <3>1. \A k \in 2 .. Len(ms) : k + 1 \in 3 .. Len(p) /\ (k + 1) - 1 = k
      BY <1>1, <1>3
    <3>2. QED
      BY <1>3, <3>1
  <2>4. ASSUME NEW i \in 2 .. Len(ms)
        PROVE  /\ Answered(ms, i) = i + 1 .. i + Calling(ms[i]) /\ Calling(ms[i]) \in Nat
               /\ Answered(p, i + 1) = (i + 1) + 1 .. (i + 1) + Calling(ms[i])
               /\ i + Calling(ms[i]) <= Len(ms)
               /\ {p[j].of : j \in Answered(p, i + 1)} = p[i + 1].calls
    <3>1. i \in DOMAIN ms
      BY <1>1
    <3>2. /\ Calling(ms[i]) \in Nat /\ i + Calling(ms[i]) <= Len(ms)
          /\ Answered(ms, i) = i + 1 .. i + Calling(ms[i])
          /\ \A j \in i + 1 .. i + Calling(ms[i]) : ms[j].of \in ms[i].calls
      BY <1>1, <3>1, AnsweredIs
    <3>3. {ms[j].of : j \in Answered(ms, i)} = ms[i].calls
      BY <3>1 DEF Paired
    <3>4. p[i + 1] = ms[i]
      BY <2>3
    <3>. DEFINE c == Calling(ms[i])
    <3>5. \A j \in (i + 1) + 1 .. (i + 1) + c : j - 1 \in i + 1 .. i + c /\ j \in DOMAIN p /\ p[j] = ms[j - 1]
      <4>. HIDE DEF c
      <4>1. c \in Nat /\ i + c <= Len(ms)
        BY <3>2 DEF c
      <4>2. \A j \in (i + 1) + 1 .. (i + 1) + c : j - 1 \in i + 1 .. i + c /\ j \in 3 .. Len(ms) + 1
        BY <1>1, <4>1
      <4>3. QED
        BY <1>3, <2>1, <4>2, <1>1
    <3>6. \A j \in i + 1 .. i + c : j + 1 \in (i + 1) + 1 .. (i + 1) + c /\ p[j + 1] = ms[j]
      <4>. HIDE DEF c
      <4>1. c \in Nat /\ i + c <= Len(ms)
        BY <3>2 DEF c
      <4>2. \A j \in i + 1 .. i + c : j + 1 \in (i + 1) + 1 .. (i + 1) + c /\ j \in 2 .. Len(ms)
        BY <1>1, <4>1
      <4>3. QED
        BY <2>3, <4>2
    <3>7. Answered(p, i + 1) = (i + 1) + 1 .. (i + 1) + c
      <4>1. \A j \in (i + 1) + 1 .. (i + 1) + c : j \in DOMAIN p /\ p[j].of \in p[i + 1].calls
        <5>. HIDE DEF c
        <5>1. QED
          BY <3>2, <3>4, <3>5 DEF c
      <4>2. Cardinality(p[i + 1].calls) = c
        BY <3>4 DEF Calling
      <4>. HIDE DEF c
      <4>3. QED
        BY <4>1, <4>2 DEF Answered
    <3>8. {p[j].of : j \in Answered(p, i + 1)} = p[i + 1].calls
      <4>. HIDE DEF c
      <4>1. Answered(ms, i) = i + 1 .. i + c
        BY <3>2 DEF c
      <4>2. ASSUME NEW j \in Answered(p, i + 1) PROVE p[j].of \in p[i + 1].calls
        <5>1. j - 1 \in Answered(ms, i) /\ p[j] = ms[j - 1]
          BY <3>5, <3>7, <4>1
        <5>2. QED
          BY <3>3, <3>4, <5>1
      <4>3. ASSUME NEW x \in p[i + 1].calls PROVE \E j \in Answered(p, i + 1) : p[j].of = x
        <5>1. PICK j \in Answered(ms, i) : ms[j].of = x
          BY <3>3, <3>4
        <5>2. j + 1 \in Answered(p, i + 1) /\ p[j + 1] = ms[j]
          BY <3>6, <3>7, <4>1
        <5>3. QED
          BY <5>1, <5>2
      <4>4. QED
        BY <4>2, <4>3
    <3>9. QED
      BY <3>2, <3>7, <3>8
  <2>5. ASSUME NEW i \in DOMAIN p
        PROVE  {p[j].of : j \in Answered(p, i)} = p[i].calls
    <3>1. CASE i \in 1 .. 2
      <4>1. p[i].calls = {}
        BY <1>3, <3>1, NoticeIs DEF Opened
      <4>2. Cardinality(p[i].calls) = 0
        BY <4>1, FS_EmptySet
      <4>3. i + 1 .. i + 0 = {}
        BY <3>1
      <4>4. Answered(p, i) = {}
        BY <4>2, <4>3 DEF Answered
      <4>5. QED
        BY <4>1, <4>4
    <3>2. CASE i \in 3 .. Len(ms) + 1
      <4>1. i - 1 \in 2 .. Len(ms) /\ (i - 1) + 1 = i
        BY <1>1, <3>2
      <4>2. QED
        BY <2>4, <4>1
    <3>3. QED
      BY <1>1, <2>1, <3>1, <3>2
  <2>6. ASSUME NEW j \in DOMAIN p, p[j].of # 0 PROVE \E i \in DOMAIN p : j \in Answered(p, i)
    <3>1. j \in 3 .. Len(ms) + 1
      <4>1. j # 1 /\ j # 2
        BY <1>3, <2>6, NoticeIs DEF Opened
      <4>2. QED
        BY <1>1, <2>1, <4>1
    <3>2. j - 1 \in DOMAIN ms /\ ms[j - 1].of # 0
      BY <1>1, <1>3, <2>6, <3>1
    <3>3. PICK i \in DOMAIN ms : j - 1 \in Answered(ms, i)
      BY <3>2 DEF Paired
    <3>4. i # 1
      <4>1. ASSUME i = 1 PROVE FALSE
        <5>1. Cardinality(ms[1].calls) = 0
          BY FS_EmptySet DEF Opened
        <5>2. QED
          BY <3>3, <4>1, <5>1 DEF Answered
      <4>2. QED
        BY <4>1
    <3>5. i \in 2 .. Len(ms)
      BY <1>1, <3>4
    <3>6. /\ Answered(ms, i) = i + 1 .. i + Calling(ms[i]) /\ Calling(ms[i]) \in Nat
          /\ Answered(p, i + 1) = (i + 1) + 1 .. (i + 1) + Calling(ms[i])
      BY <2>4, <3>5
    <3>7. j \in Answered(p, i + 1) /\ i + 1 \in DOMAIN p
      BY <1>1, <2>1, <3>1, <3>3, <3>5, <3>6
    <3>8. QED
      BY <3>7
  <2>7. Paired(p)
    BY <2>5, <2>6 DEF Paired
  <2>8. ASSUME HasUser(ms) PROVE HasUser(p)
    <3>1. PICK i \in DOMAIN ms : Plain(ms[i]) /\ ms[i].form # "notice"
      BY <2>8 DEF HasUser
    <3>2. i # 1
      BY <3>1 DEF Opened, Plain
    <3>3. i \in 2 .. Len(ms) /\ i + 1 \in DOMAIN p
      BY <1>1, <2>1, <3>2
    <3>4. QED
      BY <2>3, <3>1, <3>3 DEF HasUser
  <2>9. Plain(p[2])
    BY <1>3, NoticeIs
  <2>10. QED
    BY <2>2, <2>7, <2>8, <2>9 DEF Fair, p
<1>4. QED
  BY <1>2, <1>3, PrefixIs

\* Folding and cutting leave the messages of the user as they are, and no call
\* without its results.
LEMMA MaskIs ==
  ASSUME NEW ms \in Seq(Sent)
  PROVE  /\ mask(ms) \in Seq(Sent) /\ Len(mask(ms)) = Len(ms)
         /\ \A i \in DOMAIN ms :
               /\ mask(ms)[i].role = ms[i].role /\ mask(ms)[i].of = ms[i].of
               /\ mask(ms)[i].calls = ms[i].calls
               /\ Plain(ms[i]) => mask(ms)[i] = ms[i]
<1>1. DOMAIN ms = 1 .. Len(ms) /\ Len(ms) \in Nat /\ \A i \in 1 .. Len(ms) : ms[i] \in Sent
  BY LenProperties, ElementOfSeq
<1>2. DOMAIN mask(ms) = DOMAIN ms
  BY DEF mask
<1>3. ASSUME NEW i \in DOMAIN ms
      PROVE  /\ mask(ms)[i] \in Sent
             /\ mask(ms)[i].role = ms[i].role /\ mask(ms)[i].of = ms[i].of
             /\ mask(ms)[i].calls = ms[i].calls
             /\ Plain(ms[i]) => mask(ms)[i] = ms[i]
  <2>1. PICK m \in Sent : m = ms[i]
    BY <1>1
  <2>. DEFINE f == [m EXCEPT !.size = Folded, !.form = "folded"]
              c == [m EXCEPT !.size = Cut, !.form = "cut"]
  <2>2. f \in Sent /\ f.role = m.role /\ f.of = m.of /\ f.calls = m.calls
    BY ContextAssumption DEF Sent, Message
  <2>3. c \in Sent /\ c.role = m.role /\ c.of = m.of /\ c.calls = m.calls
    BY ContextAssumption DEF Sent, Message
  <2>. HIDE DEF f, c
  <2>4. \/ mask(ms)[i] = f /\ (m.of # 0 \/ m.role = "assistant")
        \/ mask(ms)[i] = c /\ m.of # 0
        \/ mask(ms)[i] = m
    BY <2>1 DEF mask, f, c
  <2>5. QED
    BY <2>1, <2>2, <2>3, <2>4 DEF Plain
<1>4. mask(ms) \in [1 .. Len(ms) -> Sent]
  <2>1. mask(ms) = [i \in DOMAIN ms |-> mask(ms)[i]]
    BY DEF mask
  <2>2. QED
    BY <1>1, <1>3, <2>1
<1>5. mask(ms) \in Seq(Sent) /\ Len(mask(ms)) = Len(ms)
  BY <1>1, <1>4, SeqDef, LenProperties
<1>6. QED
  BY <1>3, <1>5

LEMMA MaskPaired ==
  ASSUME NEW ms \in Seq(Sent), Paired(ms)
  PROVE  Paired(mask(ms))
<1>1. /\ DOMAIN mask(ms) = DOMAIN ms
      /\ \A i \in DOMAIN ms : mask(ms)[i].of = ms[i].of /\ mask(ms)[i].calls = ms[i].calls
  BY MaskIs DEF mask
<1>2. \A i \in DOMAIN ms : Answered(mask(ms), i) = Answered(ms, i)
  BY <1>1 DEF Answered
<1>3. \A i \in DOMAIN ms : Answered(ms, i) \subseteq DOMAIN ms
  BY DEF Answered
<1>4. ASSUME NEW i \in DOMAIN ms
      PROVE  {mask(ms)[j].of : j \in Answered(mask(ms), i)} = mask(ms)[i].calls
  <2>1. {mask(ms)[j].of : j \in Answered(mask(ms), i)} = {ms[j].of : j \in Answered(ms, i)}
    BY <1>1, <1>2, <1>3
  <2>2. QED
    BY <1>1, <2>1 DEF Paired
<1>5. QED
  BY <1>1, <1>2, <1>4 DEF Paired

\* The newest message of the user is never dropped.
LEMMA DroppedOpened ==
  ASSUME NEW ms, Opened(ms), Paired(ms), NEW i \in DOMAIN ms, Plain(ms[i]),
         \A j \in DOMAIN ms : Plain(ms[j]) => j <= i, NEW n \in Nat
  PROVE  Opened(Dropped(ms, n)) /\ \E k \in DOMAIN Dropped(ms, n) : Dropped(ms, n)[k] = ms[i]
<1>. DEFINE d == Dropped(ms, n)
            K == Remain(ms, n)
            M == {0} \union {j \in {j \in DOMAIN ms : ms[j].of = 0} : Plain(ms[j])}
<1>1. /\ ms \in Seq(Sent) /\ DOMAIN ms = 1 .. Len(ms) /\ Len(ms) \in Nat /\ Len(ms) > 1
      /\ ms[1].role = "system" /\ ms[1].of = 0 /\ ms[1].calls = {}
      /\ \A j \in 2 .. Len(ms) : ms[j].role # "system"
  BY LenProperties DEF Opened
<1>2. Max(M) = i
  <2>1. M \in SUBSET Nat /\ i \in M /\ \A j \in M : j <= i
    BY <1>1 DEF Plain
  <2>. HIDE DEF M
  <2>2. QED
    BY <2>1, MaxIs
<1>3. i \notin Droppable(ms) /\ 1 \notin Droppable(ms)
  BY <1>1, <1>2 DEF Droppable
<1>4. i # 1 /\ i \in 2 .. Len(ms) /\ ms[i].of = 0
  BY <1>1 DEF Plain
<1>5. i \in K /\ 1 \in K
  BY <1>1, <1>3, <1>4 DEF Remain, Group
<1>6. /\ d \in Seq(Sent) /\ Len(d) = Cardinality(K) /\ K \in SUBSET Nat /\ IsFiniteSet(K)
      /\ \A k \in 1 .. Len(d) : Nth(K, k) \in K /\ Place(K, Nth(K, k)) = k /\ d[k] = ms[Nth(K, k)]
      /\ \A j \in K : Place(K, j) \in 1 .. Len(d) /\ d[Place(K, j)] = ms[j] /\ Nth(K, Place(K, j)) = j
  BY <1>1, DroppedIs
<1>7. K \subseteq 1 .. Len(ms)
  BY <1>1 DEF Remain
<1>. HIDE DEF K, d
<1>8. DOMAIN d = 1 .. Len(d) /\ Len(d) \in Nat
  BY <1>6, LenProperties
<1>9. \A j, k \in K : j < k => Place(K, j) < Place(K, k)
  BY <1>6, PlaceIs
<1>10. Place(K, 1) = 1
  <2>1. Place(K, 1) \in 1 .. Len(d) /\ 1 \in 1 .. Len(d)
    BY <1>5, <1>6, <1>8
  <2>2. Nth(K, 1) \in K /\ Place(K, Nth(K, 1)) = 1 /\ Nth(K, 1) \in 1 .. Len(ms)
    BY <1>6, <1>7, <2>1
  <2>3. ~ (1 < Nth(K, 1))
    BY <1>5, <1>9, <2>1, <2>2
  <2>4. QED
    BY <2>2, <2>3
<1>11. d[1] = ms[1]
  BY <1>5, <1>6, <1>10
<1>12. Place(K, i) \in 1 .. Len(d) /\ Place(K, i) > 1 /\ d[Place(K, i)] = ms[i]
  BY <1>4, <1>5, <1>6, <1>9, <1>10
<1>13. ASSUME NEW k \in 2 .. Len(d) PROVE d[k].role # "system"
  <2>1. k \in 1 .. Len(d)
    BY <1>8
  <2>2. Nth(K, k) \in 1 .. Len(ms) /\ Place(K, Nth(K, k)) = k /\ d[k] = ms[Nth(K, k)]
    BY <1>6, <1>7, <2>1
  <2>3. Nth(K, k) # 1
    BY <1>10, <2>2
  <2>4. QED
    BY <1>1, <2>2, <2>3
<1>14. Len(d) > 1
  BY <1>8, <1>12
<1>15. Opened(d)
  BY <1>1, <1>6, <1>11, <1>13, <1>14 DEF Opened
<1>16. QED
  BY <1>8, <1>12, <1>15 DEF d

\* A request made of a conversation: it has the shape, its size, and a message of
\* the user if the conversation does.
LEMMA CompactIs ==
  ASSUME NEW ms, Opened(ms), Plain(ms[2]), \A i \in 3 .. Len(ms) : ms[i].form = "whole",
         CompactWithin(ms) # <<>>
  PROVE  /\ Fair(CompactWithin(ms)) /\ InBudget(CompactWithin(ms))
         /\ HasUser(ms) => HasUser(CompactWithin(ms))
<1>. DEFINE mm == mask(ms)
            E == {n \in 0 .. Cardinality(Droppable(ms)) : InBudget(withPrefix(Dropped(mm, n)))}
<1>1. /\ ms \in Seq(Sent) /\ DOMAIN ms = 1 .. Len(ms) /\ Len(ms) \in Nat /\ Len(ms) > 1
      /\ ms[1].role = "system" /\ ms[1].of = 0 /\ ms[1].calls = {}
      /\ \A j \in 2 .. Len(ms) : ms[j].role # "system"
  BY LenProperties DEF Opened
<1>2. Paired(ms)
  BY DEF CompactWithin
<1>3. CASE InBudget(withPrefix(ms))
  <2>1. CompactWithin(ms) = withPrefix(ms)
    BY <1>2, <1>3 DEF CompactWithin
  <2>2. QED
    BY <1>2, <1>3, <2>1, PrefixFair
<1>4. CASE ~ InBudget(withPrefix(ms))
  <2>1. E # {} /\ CompactWithin(ms) = withPrefix(Dropped(mm, Min(E)))
    BY <1>2, <1>4 DEF CompactWithin
  <2>. DEFINE n == Min(E)
              d == Dropped(mm, n)
  <2>2. n \in Nat /\ InBudget(withPrefix(d))
    <3>1. E \in SUBSET Nat
      OBVIOUS
    <3>2. Min(E) \in E
      <4>. HIDE DEF E
      <4>1. QED
        BY <2>1, <3>1, MinOfNat
    <3>3. QED
      BY <3>1, <3>2
  <2>3. /\ mm \in Seq(Sent) /\ Len(mm) = Len(ms) /\ DOMAIN mm = DOMAIN ms
        /\ \A i \in DOMAIN ms :
               /\ mm[i].role = ms[i].role /\ mm[i].of = ms[i].of /\ mm[i].calls = ms[i].calls
               /\ Plain(ms[i]) => mm[i] = ms[i]
    BY <1>1, MaskIs DEF mask
  <2>4. Paired(mm)
    BY <1>1, <1>2, MaskPaired
  <2>. HIDE DEF mm, n
  <2>5. Opened(mm)
    <3>1. 1 \in DOMAIN ms /\ \A i \in 2 .. Len(ms) : i \in DOMAIN ms
      BY <1>1
    <3>2. QED
      BY <1>1, <2>3, <3>1 DEF Opened
  <2>6. \A i \in DOMAIN ms : Plain(mm[i]) <=> Plain(ms[i])
    BY <2>3 DEF Plain
  <2>7. PICK i \in DOMAIN ms : Plain(ms[i]) /\ \A j \in DOMAIN ms : Plain(ms[j]) => j <= i
    <3>. DEFINE U == {j \in DOMAIN ms : Plain(ms[j])}
    <3>1. U \in SUBSET Nat /\ 2 \in U /\ \A j \in U : j <= Len(ms)
      BY <1>1
    <3>2. Max(U) \in U /\ \A j \in U : j <= Max(U)
      <4>. HIDE DEF U
      <4>1. QED
        BY <1>1, <3>1, MaxOfNat
    <3>3. QED
      BY <3>2
  <2>8. Opened(d) /\ \E k \in DOMAIN d : d[k] = mm[i]
    BY <2>2, <2>3, <2>4, <2>5, <2>6, <2>7, DroppedOpened
  <2>9. Paired(d)
    BY <2>2, <2>3, <2>4, DroppedPaired
  <2>10. Fair(withPrefix(d)) /\ (HasUser(d) => HasUser(withPrefix(d)))
    <3>. HIDE DEF d
    <3>1. QED
      BY <2>8, <2>9, PrefixFair
  <2>11. ASSUME HasUser(ms) PROVE HasUser(d)
    <3>1. PICK j \in DOMAIN ms : Plain(ms[j]) /\ ms[j].form # "notice"
      BY <2>11 DEF HasUser
    <3>2. ms[i].form # "notice"
      <4>1. j # 1 /\ i # 1
        BY <1>1, <2>7, <3>1 DEF Plain
      <4>2. CASE i = 2
        <5>1. j = i
          BY <1>1, <2>7, <3>1, <4>1, <4>2
        <5>2. QED
          BY <3>1, <5>1
      <4>3. CASE i # 2
        <5>1. i \in 3 .. Len(ms)
          BY <1>1, <4>1, <4>3
        <5>2. QED
          BY <5>1
      <4>4. QED
        BY <4>2, <4>3
    <3>3. mm[i] = ms[i]
      BY <2>3, <2>7
    <3>. HIDE DEF d
    <3>4. QED
      BY <2>7, <2>8, <3>2, <3>3 DEF HasUser
  <2>12. QED
    BY <2>1, <2>2, <2>10, <2>11 DEF n, d
<1>5. QED
  BY <1>3, <1>4

-----------------------------------------------------------------------------
(* The session, and what is asked.                                         *)

Spoken == {m \in Sent : m.role # "system" /\ m.form = "whole"}

\* A part of a session.
LEMMA PartIs ==
  ASSUME NEW h \in Seq(Spoken), NEW a \in Nat \ {0}, a <= Len(h) + 1
  PROVE  LET w == SubSeq(h, a, Len(h)) IN
         /\ w \in Seq(Spoken) /\ Len(w) = Len(h) - a + 1
         /\ a <= Len(h) => w[1] = h[a] /\ Len(w) >= 1
<1>1. Len(h) \in Nat
  BY LenProperties
<1>2. \A i \in a .. Len(h) : h[i] \in Spoken
  BY <1>1, ElementOfSeq
<1>3. /\ SubSeq(h, a, Len(h)) \in Seq(Spoken)
      /\ Len(SubSeq(h, a, Len(h))) = IF a <= Len(h) THEN Len(h) - a + 1 ELSE 0
      /\ \A i \in 1 .. Len(h) - a + 1 : SubSeq(h, a, Len(h))[i] = h[a + i - 1]
  BY <1>1, <1>2, SubSeqProperties
<1>4. QED
  BY <1>1, <1>3

\* What is sent of a session opens with a message of the user, or the notice.
LEMMA WindowIs ==
  ASSUME NEW h \in Seq(Spoken), h # <<>>, Plain(h[1])
  PROVE  LET w == GetWorkingMemory(h) IN
         /\ w \in Seq(Sent) /\ Len(w) >= 1 /\ Plain(w[1])
         /\ \A i \in 1 .. Len(w) : w[i].role # "system"
         /\ \A i \in 2 .. Len(w) : w[i].form = "whole"
<1>. DEFINE start  == Len(h) - WindowLimit + 1
            S      == {1} \union {i \in 1 .. start : Plain(h[i])}
            T      == {i \in start .. Len(h) : h[i].of = 0} \union {Len(h) + 1}
            anchor == Max(S)
            head   == Min(T)
            rest   == SubSeq(h, head, Len(h))
            w      == GetWorkingMemory(h)
            Fit(v) == /\ v \in Seq(Sent) /\ Len(v) >= 1 /\ Plain(v[1])
                      /\ \A i \in 1 .. Len(v) : v[i].role # "system"
                      /\ \A i \in 2 .. Len(v) : v[i].form = "whole"
<1>0. SUFFICES Fit(w)
  OBVIOUS
<1>1. /\ Len(h) \in Nat /\ Len(h) >= 1 /\ DOMAIN h = 1 .. Len(h)
      /\ \A i \in 1 .. Len(h) : h[i] \in Spoken
  BY LenProperties, EmptySeq, ElementOfSeq
<1>2. WindowLimit \in Nat \ {0}
  BY ContextAssumption
<1>3. w = IF start <= 1 THEN h
          ELSE IF start - anchor <= MaxBacktrack THEN SubSeq(h, anchor, Len(h))
          ELSE IF rest # <<>> /\ Plain(rest[1]) THEN rest
          ELSE <<syntheticContextNotice>> \o rest
  BY DEF GetWorkingMemory
<1>4. Seq(Spoken) \subseteq Seq(Sent)
  BY SeqMonotonic DEF Spoken
<1>5. ASSUME NEW v \in Seq(Spoken), Len(v) >= 1, Plain(v[1])
      PROVE  Fit(v)
  <2>1. \A i \in 1 .. Len(v) : v[i] \in Spoken
    BY ElementOfSeq
  <2>2. Len(v) \in Nat
    BY LenProperties
  <2>3. QED
    BY <1>4, <1>5, <2>1, <2>2 DEF Spoken
<1>. HIDE DEF Fit
<1>6. CASE start <= 1
  BY <1>1, <1>3, <1>5, <1>6
<1>7. CASE start > 1
  <2>1. start \in Nat /\ start <= Len(h)
    BY <1>1, <1>2, <1>7
  <2>. HIDE DEF start
  <2>2. anchor \in 1 .. Len(h) /\ Plain(h[anchor])
    <3>1. S \in SUBSET Nat /\ S # {} /\ \A y \in S : y <= start
      BY <1>7, <2>1
    <3>2. anchor \in S
      <4>. HIDE DEF S
      <4>1. QED
        BY <2>1, <3>1, MaxOfNat
    <3>3. QED
      BY <1>1, <2>1, <3>2
  <2>3. head \in Nat \ {0} /\ head <= Len(h) + 1
    <3>1. T \in SUBSET Nat /\ T # {} /\ \A y \in T : y <= Len(h) + 1 /\ y # 0
      BY <1>1, <1>7, <2>1
    <3>2. head \in T
      <4>. HIDE DEF T
      <4>1. QED
        BY <3>1, MinOfNat
    <3>3. QED
      BY <3>1, <3>2
  <2>. HIDE DEF anchor, head
  <2>4. rest \in Seq(Spoken)
    BY <1>1, <2>3, PartIs
  <2>5. CASE w = SubSeq(h, anchor, Len(h))
    <3>1. anchor \in Nat \ {0} /\ anchor <= Len(h) + 1 /\ anchor <= Len(h)
      BY <1>1, <2>2
    <3>2. w \in Seq(Spoken) /\ w[1] = h[anchor] /\ Len(w) >= 1
      BY <2>5, <3>1, PartIs
    <3>. HIDE DEF w
    <3>3. QED
      BY <1>5, <2>2, <3>2
  <2>6. CASE w = rest /\ rest # <<>> /\ Plain(rest[1])
    <3>1. Len(rest) >= 1
      <4>. HIDE DEF rest
      <4>1. QED
        BY <2>4, <2>6, EmptySeq
    <3>. HIDE DEF w, rest
    <3>2. QED
      BY <1>5, <2>4, <2>6, <3>1
  <2>7. CASE w = <<syntheticContextNotice>> \o rest
    <3>. DEFINE b == <<syntheticContextNotice>>
    <3>1. b \in Seq(Sent) /\ Len(b) = 1 /\ b[1] = syntheticContextNotice
      BY NoticeIs
    <3>2. rest \in Seq(Sent) /\ Len(rest) \in Nat /\ \A i \in 1 .. Len(rest) : rest[i] \in Spoken
      <4>. HIDE DEF rest
      <4>1. QED
        BY <1>4, <2>4, LenProperties, ElementOfSeq
    <3>. HIDE DEF b, rest
    <3>3. /\ b \o rest \in Seq(Sent) /\ Len(b \o rest) = Len(b) + Len(rest)
          /\ \A i \in 1 .. Len(b) + Len(rest) :
                (b \o rest)[i] = IF i <= Len(b) THEN b[i] ELSE rest[i - Len(b)]
      BY <3>1, <3>2, ConcatProperties
    <3>4. w = b \o rest
      BY <2>7 DEF b
    <3>. HIDE DEF w
    <3>5. w \in Seq(Sent) /\ Len(w) = Len(rest) + 1 /\ w[1] = syntheticContextNotice
      BY <3>1, <3>2, <3>3, <3>4
    <3>6. \A i \in 2 .. Len(w) : w[i] \in Spoken
      <4>1. \A i \in 2 .. Len(w) : i - 1 \in 1 .. Len(rest) /\ w[i] = rest[i - 1]
        BY <3>1, <3>2, <3>3, <3>4, <3>5
      <4>2. QED
        BY <3>2, <4>1
    <3>7. \A i \in 1 .. Len(w) : i = 1 \/ i \in 2 .. Len(w)
      BY <3>2, <3>5
    <3>8. \A i \in 2 .. Len(w) : w[i].role # "system" /\ w[i].form = "whole"
      BY <3>6 DEF Spoken
    <3>9. Plain(w[1]) /\ w[1].role # "system"
      BY <3>5, NoticeIs
    <3>10. Len(w) >= 1
      BY <3>2, <3>5
    <3>11. \A i \in 1 .. Len(w) : w[i].role # "system"
      BY <3>7, <3>8, <3>9
    <3>12. QED
      BY <3>5, <3>8, <3>9, <3>10, <3>11 DEF Fit
  <2>8. \/ w = SubSeq(h, anchor, Len(h))
        \/ w = rest /\ rest # <<>> /\ Plain(rest[1])
        \/ w = <<syntheticContextNotice>> \o rest
    <3>. HIDE DEF w, rest
    <3>1. ~ (start <= 1)
      BY <1>7, <2>1
    <3>2. QED
      BY <1>3, <3>1, Zenon
  <2>. HIDE DEF w, rest
  <2>9. QED
    BY <2>5, <2>6, <2>7, <2>8
<1>8. start \in Int
  BY <1>1, <1>2
<1>9. QED
  BY <1>6, <1>7, <1>8

\* The session opens with the question; while a request is answered, it is the
\* one made of the session.
Heard ==
  /\ history \in Seq(Spoken) /\ (history # <<>> => Plain(history[1]))
  /\ Running => history # <<>>
  /\ pc \in {"asked", "closing"} => request = Prepared /\ request # <<>>

LEMMA PreparedIs ==
  ASSUME IInv, Heard, Running
  PROVE  LET ms == <<Text("system", task.system)>> \o GetWorkingMemory(history) IN
         /\ Opened(ms) /\ Plain(ms[2]) /\ \A i \in 3 .. Len(ms) : ms[i].form = "whole"
         /\ HasUser(GetWorkingMemory(history)) => HasUser(ms)
<1>. DEFINE y == Text("system", task.system)
            a == <<y>>
            w == GetWorkingMemory(history)
            ms == a \o w
<1>1. y = [role |-> "system", calls |-> {}, of |-> 0, size |-> task.system, act |-> 0, form |-> "whole"]
  BY DEF Text
<1>2. y \in Sent
  <2>1. task.system \in Nat
    BY TasksAssumption DEF IInv, Calls
  <2>2. QED
    BY <1>1, <2>1, FS_EmptySet DEF Sent, Message
<1>3. /\ w \in Seq(Sent) /\ Len(w) >= 1 /\ Plain(w[1])
      /\ \A i \in 1 .. Len(w) : w[i].role # "system"
      /\ \A i \in 2 .. Len(w) : w[i].form = "whole"
  BY WindowIs DEF Heard
<1>4. y.role = "system" /\ y.of = 0 /\ y.calls = {}
  BY <1>1
<1>. HIDE DEF y, w
<1>5. Len(w) \in Nat /\ DOMAIN w = 1 .. Len(w)
  BY <1>3, LenProperties
<1>6. a \in Seq(Sent) /\ Len(a) = 1 /\ a[1] = y
  BY <1>2
<1>. HIDE DEF a
<1>7. /\ ms \in Seq(Sent) /\ Len(ms) = Len(a) + Len(w)
      /\ \A i \in 1 .. Len(a) + Len(w) : ms[i] = IF i <= Len(a) THEN a[i] ELSE w[i - Len(a)]
  BY <1>3, <1>6, ConcatProperties
<1>. HIDE DEF ms
<1>8. Len(ms) = Len(w) + 1 /\ ms[1] = y /\ DOMAIN ms = 1 .. Len(ms)
  BY <1>5, <1>6, <1>7, LenProperties
<1>9. \A i \in 2 .. Len(ms) : i - 1 \in 1 .. Len(w) /\ ms[i] = w[i - 1]
  BY <1>5, <1>6, <1>7, <1>8
<1>10. Opened(ms)
  BY <1>3, <1>4, <1>5, <1>7, <1>8, <1>9 DEF Opened
<1>11. Plain(ms[2])
  <2>1. 2 \in 2 .. Len(ms) /\ 2 - 1 = 1
    BY <1>3, <1>5, <1>8
  <2>2. ms[2] = w[1]
    BY <1>9, <2>1
  <2>3. QED
    BY <1>3, <2>2
<1>12. ASSUME NEW i \in 3 .. Len(ms) PROVE ms[i].form = "whole"
  <2>1. i - 1 \in 2 .. Len(w) /\ ms[i] = w[i - 1]
    BY <1>5, <1>8, <1>9
  <2>2. QED
    BY <1>3, <2>1
<1>13. ASSUME HasUser(w) PROVE HasUser(ms)
  <2>1. PICK i \in DOMAIN w : Plain(w[i]) /\ w[i].form # "notice"
    BY <1>13 DEF HasUser
  <2>2. i + 1 \in 2 .. Len(ms) /\ (i + 1) - 1 = i /\ i + 1 \in DOMAIN ms
    BY <1>5, <1>8, <2>1
  <2>3. ms[i + 1] = w[i]
    BY <1>9, <2>2
  <2>4. QED
    BY <2>1, <2>2, <2>3 DEF HasUser
<1>14. QED
  BY <1>10, <1>11, <1>12, <1>13 DEF ms, a, y, w

LEMMA LegalIs == ASSUME IInv, Heard PROVE RequestIsLegal
<1>1. SUFFICES ASSUME pc \in {"asked", "closing"}
               PROVE  /\ Len(request) > 1 /\ request[1].role = "system" /\ Plain(request[2]) /\ Paired(request)
                      /\ HasUser(GetWorkingMemory(history)) => HasUser(request)
                      /\ Size(request) <= MaxSize
  BY DEF RequestIsLegal, HasUser
<1>. DEFINE ms == <<Text("system", task.system)>> \o GetWorkingMemory(history)
<1>2. Running
  BY <1>1 DEF Running
<1>3. /\ Opened(ms) /\ Plain(ms[2]) /\ \A i \in 3 .. Len(ms) : ms[i].form = "whole"
      /\ HasUser(GetWorkingMemory(history)) => HasUser(ms)
  BY <1>2, PreparedIs
<1>4. request = CompactWithin(ms) /\ request # <<>>
  BY <1>1 DEF Heard, Prepared
<1>. HIDE DEF ms
<1>5. Fair(request) /\ InBudget(request) /\ (HasUser(ms) => HasUser(request))
  BY <1>3, <1>4, CompactIs
<1>6. QED
  BY <1>3, <1>5 DEF Fair, Opened, InBudget

\* A step that leaves the session alone; one that adds to it.
LEMMA HeardStays ==
  ASSUME Heard, history' = history, Running' => Running,
         pc' \in {"asked", "closing"} => pc' = pc /\ UNCHANGED <<request, task>>
  PROVE  Heard'
<1>1. Prepared' = Prepared \/ task' # task
  BY Zenon DEF Prepared
<1>2. QED
  BY <1>1 DEF Heard

LEMMA HeardMore ==
  ASSUME Heard, NEW h \in {<<>>, history}, NEW u \in Seq(Spoken), history' = h \o u, u # <<>>,
         h = <<>> => Plain(u[1]), pc' \notin {"asked", "closing"}
  PROVE  Heard'
<1>1. history \in Seq(Spoken) /\ (history # <<>> => Plain(history[1]))
  BY DEF Heard
<1>2. h \in Seq(Spoken) /\ (h # <<>> => Plain(h[1]))
  BY <1>1, EmptySeq
<1>3. Len(h) \in Nat /\ Len(u) \in Nat /\ Len(u) > 0 /\ (h # <<>> <=> Len(h) > 0)
  BY <1>2, EmptySeq, LenProperties
<1>4. /\ h \o u \in Seq(Spoken) /\ Len(h \o u) = Len(h) + Len(u)
      /\ \A i \in 1 .. Len(h) + Len(u) : (h \o u)[i] = IF i <= Len(h) THEN h[i] ELSE u[i - Len(h)]
  BY <1>2, ConcatProperties
<1>5. 1 \in 1 .. Len(h) + Len(u) /\ h \o u # <<>>
  <2>1. Len(h \o u) # 0
    BY <1>3, <1>4
  <2>2. QED
    BY <1>3, <1>4, <2>1, EmptySeq
<1>6. Plain((h \o u)[1])
  <2>1. CASE h = <<>>
    <3>1. Len(h) = 0
      BY <1>3, <2>1
    <3>2. (h \o u)[1] = u[1]
      BY <1>3, <1>4, <1>5, <3>1
    <3>3. QED
      BY <2>1, <3>2
  <2>2. CASE h # <<>>
    <3>1. (h \o u)[1] = h[1]
      BY <1>3, <1>4, <1>5, <2>2
    <3>2. QED
      BY <1>2, <2>2, <3>1
  <2>3. QED
    BY <2>1, <2>2
<1>7. QED
  BY <1>4, <1>5, <1>6 DEF Heard

LEMMA HeardOne ==
  ASSUME Heard, NEW h \in {<<>>, history}, NEW m \in Spoken, history' = Append(h, m),
         h = <<>> => Plain(m), pc' \notin {"asked", "closing"}
  PROVE  Heard'
<1>1. <<m>> \in Seq(Spoken) /\ <<m>> # <<>> /\ <<m>>[1] = m
  OBVIOUS
<1>2. h \in Seq(Spoken)
  BY EmptySeq DEF Heard
<1>3. Append(h, m) = h \o <<m>>
  BY <1>2
<1>. DEFINE u == <<m>>
<1>. HIDE DEF u
<1>4. u \in Seq(Spoken) /\ u # <<>> /\ u[1] = m /\ history' = h \o u
  BY <1>1, <1>3 DEF u
<1>5. QED
  BY <1>4, HeardMore

\* The messages the run adds.
LEMMA TextIs ==
  ASSUME NEW size \in Nat, NEW c, IsFiniteSet(c), c \subseteq Nat \ {0}
  PROVE  /\ Text("user", size) \in Spoken /\ Plain(Text("user", size))
         /\ [Text("assistant", size) EXCEPT !.calls = c] \in Spoken /\ Text("assistant", size) \in Spoken
         /\ \A i \in Nat, a \in Nat : [Text("user", size) EXCEPT !.of = i, !.act = a] \in Spoken
<1>1. Text("user", size) \in Spoken /\ Plain(Text("user", size))
  BY FS_EmptySet DEF Text, Spoken, Sent, Message, Plain
<1>2. Text("assistant", size) \in Spoken
  BY FS_EmptySet DEF Text, Spoken, Sent, Message
<1>3. [Text("assistant", size) EXCEPT !.calls = c] \in Spoken
  <2>1. c \in SUBSET Nat /\ 0 \notin c
    OBVIOUS
  <2>2. [Text("assistant", size) EXCEPT !.calls = c] =
           [role |-> "assistant", calls |-> c, of |-> 0, size |-> size, act |-> 0, form |-> "whole"]
    BY DEF Text
  <2>3. QED
    BY <2>1, <2>2 DEF Spoken, Sent, Message
<1>4. \A i \in Nat, a \in Nat : [Text("user", size) EXCEPT !.of = i, !.act = a] \in Spoken
  BY FS_EmptySet DEF Text, Spoken, Sent, Message
<1>5. QED
  BY <1>1, <1>2, <1>3, <1>4

LEMMA HeardClose == ASSUME IInv, Heard, Close PROVE Heard'
<1>. DEFINE u == [i \in DOMAIN batch |-> Observation(i)]
<1>1. batch \in Seq(Entries) /\ pc = "note" /\ history # <<>>
  BY DEF IInv, Calls, Heard, Close, Running
<1>2. DOMAIN batch = 1 .. Len(batch) /\ Len(batch) \in Nat
  BY <1>1, LenProperties
<1>3. ASSUME NEW i \in DOMAIN batch PROVE Observation(i) \in Spoken
  <2>1. batch[i] \in Entries
    BY <1>1, <1>2, ElementOfSeq
  <2>2. batch[i].bytes \in Nat /\ batch[i].act \in Nat
    BY <2>1 DEF Entries
  <2>. DEFINE n == Header + batch[i].bytes
  <2>3. n \in Nat /\ i \in Nat
    BY <1>2, <2>2, SizesAssumption
  <2>. HIDE DEF n
  <2>4. IsFiniteSet({})
    BY FS_EmptySet
  <2>5. \A j \in Nat, a \in Nat : [Text("user", n) EXCEPT !.of = j, !.act = a] \in Spoken
    BY <2>3, <2>4, TextIs
  <2>6. QED
    BY <2>2, <2>3, <2>5 DEF Observation, n
<1>4. u \in [1 .. Len(batch) -> Spoken]
  BY <1>2, <1>3
<1>5. u \in Seq(Spoken) /\ history' = history \o u
  <2>1. history' = history \o u
    BY DEF Close
  <2>. HIDE DEF u
  <2>2. u \in Seq(Spoken)
    BY <1>2, <1>4, SeqDef
  <2>3. QED
    BY <2>1, <2>2
<1>6. pc' \in {"end", "turn"}
  BY DEF Close, EndWith, GoTo
<1>. HIDE DEF u
<1>7. CASE u = <<>>
  <2>1. history' = history
    BY <1>5, <1>7, ConcatEmptySeq DEF Heard
  <2>2. QED
    BY <1>1, <1>6, <2>1, HeardStays DEF Running
<1>8. CASE u # <<>>
  BY <1>1, <1>5, <1>6, <1>8, HeardMore
<1>9. QED
  BY <1>7, <1>8

LEMMA HeardKeeps == ASSUME IInv, Heard, [Next]_vars PROVE Heard'
<1>1. CASE UNCHANGED vars
  BY <1>1, HeardStays DEF vars, talk, Running
<1>2. CASE Open
  <2>1. PICK h \in {<<>>, history} : history' = Append(h, Text("user", 1))
    BY <1>2 DEF Open
  <2>2. Text("user", 1) \in Spoken /\ Plain(Text("user", 1))
    <3>1. IsFiniteSet({})
      BY FS_EmptySet
    <3>2. QED
      BY <3>1, TextIs
  <2>3. pc' \notin {"asked", "closing"}
    BY <1>2 DEF Open, GoTo
  <2>4. QED
    BY <2>1, <2>2, <2>3, HeardOne
<1>3. CASE Resume
  <2>1. pc = "resume" /\ pc' \in {"turn", "end"} /\ history' = history
    BY <1>3 DEF Resume, GoTo, Next1, EndWith, talk
  <2>2. QED
    BY <2>1, HeardStays DEF Running
<1>4. CASE Ask
  <2>1. pc = "turn" /\ pc' \in {"asked", "end"} /\ history' = history /\ task' = task
    BY <1>4 DEF Ask, EndWith, Next1, GoTo, Calm
  <2>2. CASE pc' = "asked"
    <3>1. request' = Prepared /\ Prepared # <<>>
      BY <1>4, <2>2 DEF Ask, EndWith
    <3>2. Prepared' = Prepared
      BY <2>1, Zenon DEF Prepared
    <3>3. QED
      BY <2>1, <3>1, <3>2 DEF Heard, Running
  <2>3. CASE pc' # "asked"
    BY <2>1, <2>3, HeardStays DEF Running
  <2>4. QED
    BY <2>2, <2>3
<1>5. CASE Answer
  <2>1. PICK calls \in Batches : history' = Append(history, [Text("assistant", 1) EXCEPT !.calls = DOMAIN calls])
    BY <1>5 DEF Answer
  <2>2. IsFiniteSet(DOMAIN calls) /\ DOMAIN calls \subseteq Nat \ {0}
    <3>1. DOMAIN calls = 1 .. 1 \/ DOMAIN calls = 1 .. 2
      BY DEF Batches
    <3>2. IsFiniteSet(1 .. 1) /\ IsFiniteSet(1 .. 2)
      <4>1. \A n \in Nat : IsFiniteSet(1 .. n)
        BY FS_Interval
      <4>2. QED
        BY <4>1
    <3>3. 1 .. 1 \subseteq Nat \ {0} /\ 1 .. 2 \subseteq Nat \ {0}
      OBVIOUS
    <3>4. QED
      BY <3>1, <3>2, <3>3
  <2>. DEFINE c == DOMAIN calls
              m == [Text("assistant", 1) EXCEPT !.calls = c]
  <2>3. m \in Spoken
    <3>. HIDE DEF c
    <3>1. IsFiniteSet(c) /\ c \subseteq Nat \ {0}
      BY <2>2 DEF c
    <3>2. QED
      BY <3>1, TextIs
  <2>4. pc = "asked" /\ pc' = "batch" /\ history # <<>>
    BY <1>5 DEF Answer, GoTo, Heard, Running
  <2>. HIDE DEF m
  <2>5. history' = Append(history, m)
    BY <2>1 DEF m
  <2>6. QED
    BY <2>3, <2>4, <2>5, HeardOne
<1>6. CASE Deliver
  <2>1. pc = "asked" /\ pc' = "end" /\ history # <<>>
    BY <1>6 DEF Deliver, EndWith, Heard, Running
  <2>2. CASE history' = history
    BY <2>1, <2>2, HeardStays DEF Running
  <2>3. CASE history' = Append(history, Text("assistant", 1))
    <3>1. IsFiniteSet({})
      BY FS_EmptySet
    <3>2. Text("assistant", 1) \in Spoken
      BY <3>1, TextIs
    <3>3. QED
      BY <2>1, <2>3, <3>2, HeardOne
  <2>4. QED
    BY <1>6, <2>2, <2>3 DEF Deliver
<1>7. ASSUME NEW i \in DOMAIN batch, Try(i) \/ Perform(i) PROVE Heard'
  <2>1. pc = "batch" /\ pc' = pc /\ history' = history
    BY <1>7 DEF Try, Perform, talk
  <2>2. QED
    BY <2>1, HeardStays DEF Running
<1>8. CASE EndBatch \/ Note
  <2>1. pc \in {"batch", "note"} /\ pc' = "note" /\ history' = history
    BY <1>8 DEF EndBatch, Note, GoTo, talk
  <2>2. QED
    BY <2>1, HeardStays DEF Running
<1>9. CASE Close
  BY <1>9, HeardClose
<1>10. CASE Survey
  <2>1. pc = "end" /\ pc' = "cover" /\ history' = history
    BY <1>10 DEF Survey, GoTo, talk
  <2>2. QED
    BY <2>1, HeardStays DEF Running
<1>11. ASSUME NEW f \in File, Check(f) PROVE Heard'
  <2>1. pc = "cover" /\ pc' = pc /\ history' = history
    BY <1>11 DEF Check, talk
  <2>2. QED
    BY <2>1, HeardStays DEF Running
<1>12. CASE Partial
  <2>1. pc = "cover" /\ history' = history /\ task' = task /\ pc' \in {"finish", "closing"}
    BY <1>12 DEF Partial, GoTo, Calm
  <2>2. CASE pc' = "closing"
    <3>1. request' = Prepared /\ Prepared # <<>>
      BY <1>12, <2>2 DEF Partial, GoTo
    <3>2. Prepared' = Prepared
      BY <2>1, Zenon DEF Prepared
    <3>3. QED
      BY <2>1, <3>1, <3>2 DEF Heard, Running
  <2>3. CASE pc' # "closing"
    BY <2>1, <2>3, HeardStays DEF Running
  <2>4. QED
    BY <2>2, <2>3
<1>13. CASE Closed
  <2>1. pc = "closing" /\ pc' = "finish" /\ history' = history
    BY <1>13 DEF Closed, GoTo, talk
  <2>2. QED
    BY <2>1, HeardStays DEF Running
<1>14. CASE Finish
  <2>1. pc = "finish" /\ pc' \in {"answered", "idle"} /\ history' = history
    BY <1>14 DEF Finish, GoTo
  <2>2. QED
    BY <2>1, HeardStays DEF Running
<1>15. CASE Crash
  <2>1. pc' = "idle" /\ history' = <<>>
    BY <1>15 DEF Crash, GoTo
  <2>2. QED
    BY <2>1, EmptySeq DEF Heard, Running
<1>16. CASE Cancel \/ Edit
  <2>1. UNCHANGED <<pc, history, request, task>>
    BY <1>16 DEF Cancel, Edit, talk
  <2>2. QED
    BY <2>1, HeardStays DEF Running
<1>17. QED
  BY <1>1, <1>2, <1>3, <1>4, <1>5, <1>6, <1>7, <1>8, <1>9, <1>10, <1>11, <1>12, <1>13, <1>14,
     <1>15, <1>16 DEF Next

LEMMA HeardBegins == ASSUME Init PROVE Heard
BY EmptySeq DEF Init, Heard, Running

\* Every request to the model opens with the system's message and one of the user,
\* answers every call at once, keeps the limit, and holds a message of the user if
\* the window does (GetWorkingMemory, CompactWithin).
THEOREM OnlyLegalIsAsked == Spec => []RequestIsLegal
<1>1. Init => Heard
  BY HeardBegins
<1>2. IInv /\ Heard /\ [Next]_vars => Heard'
  BY HeardKeeps
<1>3. IInv /\ Heard => RequestIsLegal
  BY LegalIs
<1>4. QED
  BY <1>1, <1>2, <1>3, ConversationKept, PTL DEF Spec
=============================================================================
