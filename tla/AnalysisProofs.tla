----------------------------- MODULE AnalysisProofs -----------------------------
(***************************************************************************)
(* What a task in analysis mode promises, for any agents, files, tasks and *)
(* sizes of a page, a report and a request. First of all what the          *)
(* operators on reports do: a list of texts grows and forgets nothing      *)
(* (ListedIs), validation keeps findings whose quotations stand in a read  *)
(* and whose dependencies are kept, and tells of all others (ValidIs,      *)
(* CheckedIs), and merging tells of all that either report told of         *)
(* (MergeIs).                                                              *)
(*                                                                         *)
(* CitedIsSeen rests on the reads of the run: each has a number of its own *)
(* and is what the file held (Reads), and what counts as delivered stood   *)
(* whole in a request that was answered (Had). From the accepted report on *)
(* reads are only added, so what it says stays backed (Backed).            *)
(*                                                                         *)
(* LeftOutIsNoted rests on what is kept of each agent (Accounted): what it *)
(* is done with was delivered to it and it has said so (Spoken), its       *)
(* report tells of every accepted note (StillTold), and a call refused as  *)
(* repeated stays beside the request it was refused for (Idle, Refused).   *)
(* That a subagent begins with nothing, and each only once (Untouched,     *)
(* Starting), is what makes this inductive.                                *)
(***************************************************************************)
EXTENDS Analysis, ReadFileProofs, FiniteSetTheorems, SequenceTheorems, WellFoundedInduction, TLAPS

-----------------------------------------------------------------------------
(* Sequences taken apart and put together.                                 *)

\* c holds the elements of s at the places K up to n, in their order.
Picks(c, s, K, n) ==
    \E m \in [1 .. Len(c) -> {k \in 1 .. n : k \in K}] :
        /\ \A i, j \in 1 .. Len(c) : i < j => m[i] < m[j]
        /\ \A i \in 1 .. Len(c) : c[i] = s[m[i]]
        /\ \A k \in 1 .. n : k \in K => \E i \in 1 .. Len(c) : m[i] = k

LEMMA PicksMore ==
  ASSUME NEW T, NEW s \in Seq(T), NEW K, NEW n \in 1 .. Len(s),
         NEW c \in Seq(T), Picks(c, s, K, n - 1)
  PROVE  IF n \in K THEN Append(c, s[n]) \in Seq(T) /\ Picks(Append(c, s[n]), s, K, n)
                    ELSE Picks(c, s, K, n)
<1>. DEFINE P(x) == {k \in 1 .. x : k \in K}
<1>1. PICK m \in [1 .. Len(c) -> P(n - 1)] :
             /\ \A i, j \in 1 .. Len(c) : i < j => m[i] < m[j]
             /\ \A i \in 1 .. Len(c) : c[i] = s[m[i]]
             /\ \A k \in 1 .. n - 1 : k \in K => \E i \in 1 .. Len(c) : m[i] = k
  BY DEF Picks
<1>2. Len(c) \in Nat /\ Len(s) \in Nat
  OBVIOUS
<1>3. CASE n \notin K
  <2>1. P(n) = P(n - 1)
    BY <1>2, <1>3
  <2>2. \A k \in 1 .. n : k \in K => k \in 1 .. n - 1
    BY <1>2, <1>3
  <2>. HIDE DEF P
  <2>3. m \in [1 .. Len(c) -> P(n)] /\ \A k \in 1 .. n : k \in K => \E i \in 1 .. Len(c) : m[i] = k
    BY <1>1, <2>1, <2>2
  <2>4. Picks(c, s, K, n)
    BY <1>1, <2>3 DEF Picks, P
  <2>5. QED
    BY <1>3, <2>4
<1>4. CASE n \in K
  <2>. DEFINE d == Append(c, s[n])
              l == Len(c) + 1
              p == [i \in 1 .. l |-> IF i = l THEN n ELSE m[i]]
  <2>1. s[n] \in T
    BY <1>2
  <2>2. d \in Seq(T) /\ Len(d) = l /\ d[l] = s[n] /\ \A i \in 1 .. Len(c) : d[i] = c[i]
    BY <2>1, AppendProperties
  <2>. HIDE DEF d
  <2>3. \A i \in 1 .. Len(c) : m[i] \in 1 .. n - 1 /\ m[i] \in K /\ p[i] = m[i]
    BY <1>1, <1>2
  <2>4. p[l] = n
    BY <1>2
  <2>5. p \in [1 .. l -> P(n)]
    <3>1. \A i \in 1 .. l : (IF i = l THEN n ELSE m[i]) \in P(n)
      <4>1. n \in P(n)
        BY <1>2, <1>4
      <4>2. \A i \in 1 .. l : i # l => i \in 1 .. Len(c)
        BY <1>2
      <4>3. \A i \in 1 .. Len(c) : m[i] \in P(n)
        BY <1>2, <2>3
      <4>4. QED
        BY <4>1, <4>2, <4>3
    <3>. HIDE DEF P
    <3>2. QED
      BY <3>1
  <2>. HIDE DEF p
  <2>6. ASSUME NEW i \in 1 .. l, NEW j \in 1 .. l, i < j PROVE p[i] < p[j]
    <3>1. i \in 1 .. Len(c)
      BY <1>2, <2>6
    <3>2. CASE j = l
      BY <2>3, <2>4, <3>1, <3>2, <1>2
    <3>3. CASE j # l
      <4>1. j \in 1 .. Len(c)
        BY <1>2, <3>3
      <4>2. QED
        BY <1>1, <2>3, <2>6, <3>1, <4>1
    <3>4. QED
      BY <3>2, <3>3
  <2>7. ASSUME NEW i \in 1 .. l PROVE d[i] = s[p[i]]
    <3>1. CASE i = l
      BY <2>2, <2>4, <3>1
    <3>2. CASE i # l
      <4>1. i \in 1 .. Len(c)
        BY <1>2, <3>2
      <4>2. QED
        BY <1>1, <2>2, <2>3, <4>1
    <3>3. QED
      BY <3>1, <3>2
  <2>8. ASSUME NEW k \in 1 .. n, k \in K PROVE \E i \in 1 .. l : p[i] = k
    <3>1. CASE k = n
      <4>1. l \in 1 .. l
        BY <1>2
      <4>2. QED
        BY <2>4, <3>1, <4>1
    <3>2. CASE k # n
      <4>1. k \in 1 .. n - 1
        BY <3>2, <1>2
      <4>2. PICK i \in 1 .. Len(c) : m[i] = k
        BY <1>1, <2>8, <4>1
      <4>3. i \in 1 .. l
        BY <1>2
      <4>4. QED
        BY <2>3, <4>2, <4>3
    <3>3. QED
      BY <3>1, <3>2
  <2>9. Picks(d, s, K, n)
    <3>. HIDE DEF l
    <3>1. QED
      BY <2>2, <2>5, <2>6, <2>7, <2>8 DEF Picks
  <2>10. QED
    BY <1>4, <2>2, <2>9 DEF d
<1>5. QED
  BY <1>3, <1>4

\* Chosen leaves the elements at the places given, in their order.
LEMMA ChosenIs ==
  ASSUME NEW T, NEW s \in Seq(T), NEW K
  PROVE  Chosen(s, K) \in Seq(T) /\ Picks(Chosen(s, K), s, K, Len(s))
<1>. DEFINE N == Len(s)
            next1(k, c) == IF k \in K THEN Append(c, s[k]) ELSE c
            g == [k \in 1 .. N |-> [c \in Seq(T) |-> next1(k, c)]]
            Is(f) == f = [k \in 0 .. N |-> IF k = 0 THEN <<>>
                                           ELSE IF k \in K THEN Append(f[k - 1], s[k]) ELSE f[k - 1]]
            h == CHOOSE f : Is(f)
<1>1. N \in Nat /\ <<>> \in Seq(T)
  OBVIOUS
<1>2. g \in [1 .. N -> [Seq(T) -> Seq(T)]]
  <2>1. \A k \in 1 .. N : s[k] \in T
    OBVIOUS
  <2>2. \A k \in 1 .. N : \A c \in Seq(T) : next1(k, c) \in Seq(T)
    BY <2>1, AppendProperties
  <2>. HIDE DEF next1, N
  <2>3. QED
    BY <2>2
<1>3. PICK f \in [0 .. N -> Seq(T)] : f[0] = <<>> /\ \A k \in 1 .. N : f[k] = g[k][f[k - 1]]
  <2>. HIDE DEF g, N
  <2>1. \E f \in [0 .. N -> Seq(T)] : Steps(f, N, <<>>, g)
    BY <1>1, <1>2, Recursively
  <2>2. QED
    BY <2>1 DEF Steps
<1>4. ASSUME NEW k \in 1 .. N PROVE f[k] = next1(k, f[k - 1])
  <2>1. k \in 0 .. N /\ k - 1 \in 0 .. N
    BY <1>1
  <2>2. f[k - 1] \in Seq(T)
    BY <1>3, <2>1
  <2>. HIDE DEF next1, N
  <2>3. QED
    BY <1>3, <2>2
<1>5. Is(f)
  <2>1. \A k \in 0 .. N : f[k] = IF k = 0 THEN <<>>
                                 ELSE IF k \in K THEN Append(f[k - 1], s[k]) ELSE f[k - 1]
    <3>1. \A k \in 0 .. N : k # 0 => k \in 1 .. N
      BY <1>1
    <3>2. QED
      BY <1>3, <1>4, <3>1
  <2>. HIDE DEF N
  <2>2. QED
    BY <2>1
<1>6. Is(h)
  <2>. HIDE DEF Is
  <2>1. QED
    BY <1>5
<1>7. Chosen(s, K) = h[N]
  BY DEF Chosen
<1>. HIDE DEF h, g
<1>8. h[0] = <<>> /\ \A k \in 1 .. N : h[k] = IF k \in K THEN Append(h[k - 1], s[k]) ELSE h[k - 1]
  <2>1. \A k \in 0 .. N : h[k] = IF k = 0 THEN <<>>
                                 ELSE IF k \in K THEN Append(h[k - 1], s[k]) ELSE h[k - 1]
    <3>. HIDE DEF N
    <3>1. QED
      BY <1>6
  <2>2. \A k \in 1 .. N : k \in 0 .. N /\ k # 0
    BY <1>1
  <2>3. QED
    BY <1>1, <2>1, <2>2
<1>. DEFINE G == {k \in 0 .. N : h[k] \in Seq(T) /\ Picks(h[k], s, K, k)}
<1>9. 0 \in G
  <2>1. Picks(<<>>, s, K, 0)
    <3>. DEFINE m == [i \in {} |-> i]
    <3>1. m \in [1 .. 0 -> {k \in 1 .. 0 : k \in K}]
      OBVIOUS
    <3>2. Len(<<>>) = 0
      OBVIOUS
    <3>3. QED
      BY <3>1, <3>2 DEF Picks
  <2>2. h[0] = <<>> /\ 0 \in 0 .. N
    BY <1>1, <1>8
  <2>. HIDE DEF N
  <2>3. QED
    BY <1>1, <2>1, <2>2
<1>10. ASSUME NEW k \in 1 .. N, k - 1 \in G PROVE k \in G
  <2>1. h[k - 1] \in Seq(T) /\ Picks(h[k - 1], s, K, k - 1) /\ k \in 0 .. N
    BY <1>1, <1>10
  <2>2. IF k \in K THEN Append(h[k - 1], s[k]) \in Seq(T) /\ Picks(Append(h[k - 1], s[k]), s, K, k)
                   ELSE Picks(h[k - 1], s, K, k)
    BY <2>1, PicksMore
  <2>3. QED
    BY <1>8, <2>1, <2>2
<1>11. N \in G
  <2>. HIDE DEF G
  <2>1. \A k \in 0 .. N : k \in G
    BY ONLY <1>1, <1>9, <1>10, Induct
  <2>2. QED
    BY <1>1, <2>1
<1>12. QED
  BY <1>7, <1>11

\* x is r with more left to verify.
Longer(x, r) ==
    /\ x \in Report
    /\ x.findings = r.findings /\ x.overview = r.overview
    /\ x.processed = r.processed /\ x.summaries = r.summaries
    /\ ToSet(r.unverified) \subseteq ToSet(x.unverified) /\ x.dropped >= r.dropped

LEMMA AppendIs ==
  ASSUME NEW r \in Report, NEW t \in STRING
  PROVE  LET x == appendAnalysisUnverified(r, t)
         IN Longer(x, r) /\ (t \in ToSet(x.unverified) \/ x.dropped > r.dropped)
<1>. DEFINE x == appendAnalysisUnverified(r, t)
<1>1. r.unverified \in Seq(STRING) /\ r.dropped \in Nat /\ r.dropped + 1 \in Nat
  BY DEF Report
<1>2. CASE Len(r.unverified) >= MaxUnverified
  <2>1. x = [r EXCEPT !.dropped = @ + 1]
    BY <1>2 DEF appendAnalysisUnverified
  <2>2. /\ x \in Report /\ x.unverified = r.unverified /\ x.dropped = r.dropped + 1
        /\ x.findings = r.findings /\ x.overview = r.overview
        /\ x.processed = r.processed /\ x.summaries = r.summaries
    <3>. HIDE DEF x
    <3>1. QED
      BY <1>1, <2>1 DEF Report
  <2>. HIDE DEF x
  <2>3. QED
    BY <1>1, <2>2 DEF Longer, x
<1>3. CASE ~ (Len(r.unverified) >= MaxUnverified)
  <2>. DEFINE u == Append(r.unverified, t)
  <2>1. x = [r EXCEPT !.unverified = u]
    BY <1>3 DEF appendAnalysisUnverified
  <2>2. /\ u \in Seq(STRING) /\ Len(u) = Len(r.unverified) + 1 /\ u[Len(r.unverified) + 1] = t
        /\ \A i \in 1 .. Len(r.unverified) : u[i] = r.unverified[i]
    BY <1>1, AppendProperties
  <2>. HIDE DEF u
  <2>3. ToSet(r.unverified) \subseteq ToSet(u) /\ t \in ToSet(u)
    <3>1. DOMAIN u = 1 .. Len(r.unverified) + 1 /\ DOMAIN r.unverified = 1 .. Len(r.unverified)
          /\ Len(r.unverified) \in Nat
      BY <1>1, <2>2
    <3>2. ToSet(r.unverified) \subseteq ToSet(u)
      BY <2>2, <3>1 DEF ToSet
    <3>3. t \in ToSet(u)
      BY <2>2, <3>1 DEF ToSet
    <3>4. QED
      BY <3>2, <3>3
  <2>4. /\ x \in Report /\ x.unverified = u /\ x.dropped = r.dropped
        /\ x.findings = r.findings /\ x.overview = r.overview
        /\ x.processed = r.processed /\ x.summaries = r.summaries
    <3>. HIDE DEF x
    <3>1. QED
      BY <1>1, <2>1, <2>2 DEF Report
  <2>. HIDE DEF x
  <2>5. QED
    BY <1>1, <2>3, <2>4 DEF Longer, x
<1>4. QED
  BY <1>2, <1>3

LEMMA LongerStill ==
  ASSUME NEW r \in Report, NEW x, Longer(x, r), NEW y, Longer(y, x)
  PROVE  Longer(y, r)
<1>1. x \in Report /\ y \in Report
  BY DEF Longer
<1>2. x.dropped \in Nat /\ y.dropped \in Nat /\ r.dropped \in Nat
  BY <1>1 DEF Report
<1>3. QED
  BY <1>2 DEF Longer

\* The first n texts are in x, or x counts them.
Heeded(x, r, texts, n) ==
    \A j \in 1 .. n : texts[j] \in ToSet(x.unverified) \/ x.dropped > r.dropped

LEMMA ListedIs ==
  ASSUME NEW r \in Report, NEW texts \in Seq(STRING), NEW once \in BOOLEAN
  PROVE  /\ Longer(Listed(r, texts, once), r)
         /\ Heeded(Listed(r, texts, once), r, texts, Len(texts))
<1>. DEFINE N == Len(texts)
            on(k, x) == IF once /\ texts[k] \in ToSet(x.unverified) THEN x
                        ELSE appendAnalysisUnverified(x, texts[k])
            g == [k \in 1 .. N |-> [x \in Report |-> on(k, x)]]
            Is(f) == f = [k \in 0 .. N |->
                            IF k = 0 THEN r
                            ELSE IF once /\ texts[k] \in ToSet(f[k - 1].unverified) THEN f[k - 1]
                            ELSE appendAnalysisUnverified(f[k - 1], texts[k])]
            h == CHOOSE f : Is(f)
<1>1. N \in Nat /\ \A k \in 1 .. N : texts[k] \in STRING
  OBVIOUS
<1>2. ASSUME NEW k \in 1 .. N, NEW x \in Report
      PROVE  Longer(on(k, x), x) /\ (texts[k] \in ToSet(on(k, x).unverified) \/ on(k, x).dropped > x.dropped)
  <2>1. texts[k] \in STRING
    BY <1>1
  <2>2. CASE once /\ texts[k] \in ToSet(x.unverified)
    <3>1. on(k, x) = x
      BY <2>2
    <3>2. Longer(x, x)
      <4>1. x.dropped \in Nat
        BY DEF Report
      <4>2. QED
        BY <4>1 DEF Longer
    <3>. HIDE DEF on
    <3>3. QED
      BY <2>2, <3>1, <3>2
  <2>3. CASE ~ (once /\ texts[k] \in ToSet(x.unverified))
    <3>1. on(k, x) = appendAnalysisUnverified(x, texts[k])
      BY <2>3
    <3>. HIDE DEF on
    <3>2. QED
      BY <2>1, <3>1, AppendIs
  <2>4. QED
    BY <2>2, <2>3
<1>3. g \in [1 .. N -> [Report -> Report]]
  <2>1. \A k \in 1 .. N : \A x \in Report : on(k, x) \in Report
    BY <1>2 DEF Longer
  <2>. HIDE DEF on, N
  <2>2. QED
    BY <2>1
<1>4. PICK f \in [0 .. N -> Report] : f[0] = r /\ \A k \in 1 .. N : f[k] = g[k][f[k - 1]]
  <2>. HIDE DEF g, N
  <2>1. \E f \in [0 .. N -> Report] : Steps(f, N, r, g)
    BY <1>1, <1>3, Recursively
  <2>2. QED
    BY <2>1 DEF Steps
<1>5. ASSUME NEW k \in 1 .. N PROVE f[k] = on(k, f[k - 1])
  <2>1. k \in 0 .. N /\ k - 1 \in 0 .. N
    BY <1>1
  <2>2. f[k - 1] \in Report
    BY <1>4, <2>1
  <2>. HIDE DEF on, N
  <2>3. QED
    BY <1>4, <2>2
<1>6. Is(f)
  <2>1. \A k \in 0 .. N : f[k] = IF k = 0 THEN r
                                 ELSE IF once /\ texts[k] \in ToSet(f[k - 1].unverified) THEN f[k - 1]
                                 ELSE appendAnalysisUnverified(f[k - 1], texts[k])
    <3>1. \A k \in 0 .. N : k # 0 => k \in 1 .. N
      BY <1>1
    <3>2. QED
      BY <1>4, <1>5, <3>1
  <2>. HIDE DEF N
  <2>2. QED
    BY <2>1
<1>7. Is(h)
  <2>. HIDE DEF Is
  <2>1. QED
    BY <1>6
<1>8. Listed(r, texts, once) = h[N]
  BY DEF Listed
<1>. HIDE DEF h, g
<1>9. h[0] = r /\ \A k \in 1 .. N : h[k] = on(k, h[k - 1])
  <2>1. \A k \in 0 .. N : h[k] = IF k = 0 THEN r
                                 ELSE IF once /\ texts[k] \in ToSet(h[k - 1].unverified) THEN h[k - 1]
                                 ELSE appendAnalysisUnverified(h[k - 1], texts[k])
    <3>. HIDE DEF N
    <3>1. QED
      BY <1>7
  <2>2. \A k \in 1 .. N : k \in 0 .. N /\ k # 0
    BY <1>1
  <2>3. QED
    BY <1>1, <2>1, <2>2
<1>. DEFINE G == {k \in 0 .. N : Longer(h[k], r) /\ Heeded(h[k], r, texts, k)}
<1>10. 0 \in G
  <2>1. h[0] = r /\ 0 \in 0 .. N
    BY <1>1, <1>9
  <2>2. Longer(r, r)
    <3>1. r.dropped \in Nat
      BY DEF Report
    <3>2. QED
      BY <3>1 DEF Longer
  <2>3. Heeded(r, r, texts, 0)
    BY DEF Heeded
  <2>. HIDE DEF N
  <2>4. QED
    BY <2>1, <2>2, <2>3
<1>11. ASSUME NEW k \in 1 .. N, k - 1 \in G PROVE k \in G
  <2>. DEFINE x == h[k - 1]  y == h[k]
  <2>1. Longer(x, r) /\ Heeded(x, r, texts, k - 1) /\ k \in 0 .. N
    BY <1>1, <1>11
  <2>2. x \in Report
    BY <2>1 DEF Longer
  <2>3. y = on(k, x)
    BY <1>9
  <2>4. Longer(y, x) /\ (texts[k] \in ToSet(y.unverified) \/ y.dropped > x.dropped)
    <3>. HIDE DEF x, y, on
    <3>1. QED
      BY <1>2, <2>2, <2>3
  <2>. HIDE DEF x, y
  <2>5. Longer(y, r)
    BY <2>1, <2>4, LongerStill
  <2>6. Heeded(y, r, texts, k)
    <3>1. y \in Report /\ x.dropped \in Nat /\ y.dropped \in Nat /\ r.dropped \in Nat
      BY <2>2, <2>5 DEF Longer, Report
    <3>2. x.dropped >= r.dropped /\ y.dropped >= x.dropped /\ ToSet(x.unverified) \subseteq ToSet(y.unverified)
      BY <2>1, <2>4 DEF Longer
    <3>3. \A j \in 1 .. k : j = k \/ j \in 1 .. k - 1
      BY <1>1
    <3>4. QED
      BY <2>1, <2>4, <3>1, <3>2, <3>3 DEF Heeded
  <2>7. QED
    BY <2>1, <2>5, <2>6 DEF y
<1>12. N \in G
  <2>. HIDE DEF G
  <2>1. \A k \in 0 .. N : k \in G
    BY ONLY <1>1, <1>10, <1>11, Induct
  <2>2. QED
    BY <1>1, <2>1
<1>13. QED
  BY <1>8, <1>12
-----------------------------------------------------------------------------
(* Findings.                                                               *)

Unique(r) == \A j, k \in DOMAIN r.findings : r.findings[j].id = r.findings[k].id => j = k

LEMMA UniqueIs ==
  ASSUME NEW r \in Report, Cardinality(IdsOf(r)) = Len(r.findings)
  PROVE  Unique(r)
<1>. DEFINE D == DOMAIN r.findings
            f == [k \in D |-> r.findings[k].id]
            I == IdsOf(r)
<1>1. r.findings \in Seq(Finding)
  BY DEF Report
<1>2. D = 1 .. Len(r.findings) /\ Len(r.findings) \in Nat
  BY <1>1
<1>3. IsFiniteSet(D) /\ Cardinality(D) = Len(r.findings)
  BY <1>2, FS_Interval
<1>4. f \in Surjection(D, I)
  <2>1. f \in [D -> I] /\ \A y \in I : \E x \in D : f[x] = y
    BY DEF IdsOf
  <2>. HIDE DEF f, D, I
  <2>2. QED
    BY <2>1 DEF Surjection
<1>5. f \in Injection(D, I)
  <2>1. Cardinality(D) = Cardinality(I)
    BY <1>3
  <2>. HIDE DEF f, D, I
  <2>2. QED
    BY <1>3, <1>4, <2>1, FS_SurjSameCardinalityImpliesInj
<1>6. \A j, k \in D : f[j] = f[k] => j = k
  <2>. HIDE DEF f, D, I
  <2>1. QED
    BY <1>5 DEF Injection, IsInjective
<1>7. QED
  BY <1>6 DEF Unique

LEMMA FindingIs ==
  ASSUME NEW r \in Report, Unique(r), NEW k \in DOMAIN r.findings
  PROVE  FindingOf(r, r.findings[k].id) = r.findings[k]
BY DEF FindingOf, Unique

LEMMA HoldingIs ==
  ASSUME NEW r \in Report, NEW usable
  PROVE  LET good == Holding(r, usable) IN
         /\ good \subseteq IdsOf(r)
         /\ \A id \in good : /\ Sound(FindingOf(r, id), usable)
                             /\ ToSet(FindingOf(r, id).deps) \subseteq good
<1>. DEFINE N == Len(r.findings)
            ids == IdsOf(r)
            sound == {id \in ids : Sound(FindingOf(r, id), usable)}
            on(x) == {id \in sound : ToSet(FindingOf(r, id).deps) \subseteq x}
            g == [k \in 1 .. N |-> [x \in SUBSET sound |-> on(x)]]
            Is(f) == f = [k \in 0 .. N |->
                            IF k = 0 THEN {}
                            ELSE {id \in sound : ToSet(FindingOf(r, id).deps) \subseteq f[k - 1]}]
            h == CHOOSE f : Is(f)
<1>1. N \in Nat
  <2>1. r.findings \in Seq(Finding)
    BY DEF Report
  <2>2. QED
    BY <2>1
<1>. HIDE DEF N, sound
<1>2. PICK f \in [0 .. N -> SUBSET sound] : f[0] = {} /\ \A k \in 1 .. N : f[k] = g[k][f[k - 1]]
  <2>1. {} \in SUBSET sound
    OBVIOUS
  <2>2. g \in [1 .. N -> [SUBSET sound -> SUBSET sound]]
    OBVIOUS
  <2>. HIDE DEF g
  <2>3. \E f \in [0 .. N -> SUBSET sound] : Steps(f, N, {}, g)
    BY <1>1, <2>1, <2>2, Recursively
  <2>4. QED
    BY <2>3 DEF Steps
<1>3. ASSUME NEW k \in 1 .. N PROVE f[k] = on(f[k - 1])
  <2>1. k \in 0 .. N /\ k - 1 \in 0 .. N
    BY <1>1
  <2>2. f[k - 1] \in SUBSET sound
    BY <1>2, <2>1
  <2>. HIDE DEF on
  <2>3. QED
    BY <1>2, <2>2
<1>4. Is(f)
  <2>1. \A k \in 0 .. N : k # 0 => k \in 1 .. N
    BY <1>1
  <2>2. \A k \in 0 .. N : f[k] = IF k = 0 THEN {}
                                 ELSE {id \in sound : ToSet(FindingOf(r, id).deps) \subseteq f[k - 1]}
    BY <1>2, <1>3, <2>1
  <2>3. QED
    BY <2>2
<1>5. Is(h)
  <2>. HIDE DEF Is
  <2>1. QED
    BY <1>4
<1>6. Holding(r, usable) = h[N]
  BY DEF Holding, N, sound
<1>. HIDE DEF h, g
<1>7. h[0] = {} /\ \A k \in 1 .. N : h[k] = on(h[k - 1])
  <2>1. \A k \in 0 .. N : h[k] = IF k = 0 THEN {}
                                 ELSE {id \in sound : ToSet(FindingOf(r, id).deps) \subseteq h[k - 1]}
    BY <1>5
  <2>2. \A k \in 1 .. N : k \in 0 .. N /\ k # 0
    BY <1>1
  <2>3. h[0] = {}
    <3>1. 0 \in 0 .. N
      BY <1>1
    <3>2. h[0] = IF 0 = 0 THEN {} ELSE {id \in sound : ToSet(FindingOf(r, id).deps) \subseteq h[0 - 1]}
      BY <2>1, <3>1, Zenon
    <3>3. QED
      BY <3>2
  <2>4. ASSUME NEW k \in 1 .. N PROVE h[k] = on(h[k - 1])
    BY <2>1, <2>2
  <2>. HIDE DEF on
  <2>5. QED
    BY <2>3, <2>4
<1>. DEFINE G == {k \in 0 .. N : k # 0 => h[k - 1] \subseteq h[k]}
<1>8. 0 \in G
  BY <1>1
<1>9. ASSUME NEW k \in 1 .. N, k - 1 \in G PROVE k \in G
  <2>1. h[k] = on(h[k - 1]) /\ k \in 0 .. N /\ k \in Nat
    BY <1>1, <1>7
  <2>2. CASE k = 1
    BY <1>7, <2>1, <2>2
  <2>3. CASE k # 1
    <3>1. k - 1 \in 1 .. N /\ k - 1 # 0
      BY <1>1, <2>3
    <3>2. h[k - 1] = on(h[k - 1 - 1])
      BY <1>7, <3>1
    <3>3. h[k - 1 - 1] \subseteq h[k - 1]
      BY <1>9, <3>1
    <3>4. h[k - 1] \subseteq h[k]
      BY <2>1, <3>2, <3>3
    <3>5. QED
      BY <2>1, <3>4
  <2>4. QED
    BY <2>2, <2>3
<1>10. N \in G
  <2>. HIDE DEF G
  <2>1. \A k \in 0 .. N : k \in G
    BY ONLY <1>1, <1>8, <1>9, Induct
  <2>2. QED
    BY <1>1, <2>1
<1>11. ASSUME NEW id \in h[N]
       PROVE  id \in sound /\ ToSet(FindingOf(r, id).deps) \subseteq h[N]
  <2>1. N # 0
    BY <1>7
  <2>2. N \in 1 .. N
    BY <1>1, <2>1
  <2>3. h[N] = on(h[N - 1]) /\ h[N - 1] \subseteq h[N]
    BY <1>7, <1>10, <2>1, <2>2
  <2>4. QED
    BY <2>3
<1>12. QED
  BY <1>6, <1>11 DEF sound
-----------------------------------------------------------------------------
(* Quotations.                                                             *)

\* A read of one of the files.
IsRead(e) ==
    /\ e.agent \in Agent /\ e.file \in File /\ e.q \in Request /\ e.id \in Nat \ {0}
    /\ e.version \in Nat /\ e.version < Len(Contents[e.file])
    /\ e.read = executeReadSource(Contents[e.file][e.version + 1], e.q) /\ e.read.ok
    /\ e.source = Slice(Contents[e.file][e.version + 1], e.read.from, e.read.to)

LEMMA ReadHas ==
  ASSUME NEW e, IsRead(e)
  PROVE  LET s == Contents[e.file][e.version + 1] IN
         /\ ValidText(s) /\ s \in Seq(Byte)
         /\ e.read.from \in Nat /\ e.read.to \in Nat /\ e.read.from <= e.read.to /\ e.read.to <= Len(s)
         /\ e.read.from = e.read.to => e.read.from = Len(s)
         /\ e.read.from < e.read.to => e.read.first = LineAt(s, e.read.from)
<1>. DEFINE s == Contents[e.file][e.version + 1]
<1>1. e.file \in File /\ e.version \in Nat /\ e.version < Len(Contents[e.file])
  BY DEF IsRead
<1>2. Contents[e.file] \in Seq(Seq(Byte)) /\ \A k \in DOMAIN Contents[e.file] : ValidText(Contents[e.file][k])
  BY <1>1, ContentsAssumption
<1>3. e.version + 1 \in DOMAIN Contents[e.file]
  BY <1>1, <1>2
<1>4. ValidText(s) /\ s \in Seq(Byte)
  BY <1>2, <1>3 DEF ValidText
<1>5. e.q \in Request /\ e.read = executeReadSource(s, e.q) /\ executeReadSource(s, e.q).ok
  BY DEF IsRead
<1>. HIDE DEF s
<1>. DEFINE r == executeReadSource(s, e.q)
<1>6. /\ r.from \in Nat /\ r.to \in Nat /\ r.from <= r.to /\ r.to <= Len(s)
      /\ r.from = r.to => r.from = Len(s)
      /\ r.from < r.to => r.first = LineAt(s, r.from)
  BY <1>4, <1>5, ReadIs
<1>7. QED
  BY <1>4, <1>5, <1>6 DEF s

\* A quotation that was found stands in the file, at the lines it then names.
LEMMA QuoteStands ==
  ASSUME NEW e, IsRead(e), NEW c \in Cite, ValidateAnalysisCitation(c, e)
  PROVE  /\ Placed(c, e) \in Cite /\ Placed(c, e).ev = c.ev
         /\ StandsAt(Placed(c, e), e)
<1>. DEFINE s == Contents[e.file][e.version + 1]
            a == e.read.from
            b == e.read.to
            L == Len(c.quote)
            d == e.source
            P == Placed(c, e)
<1>1. s \in Seq(Byte) /\ a \in Nat /\ b \in Nat /\ a <= b /\ b <= Len(s) /\ Len(s) \in Nat
  BY ReadHas
<1>2. a < b => e.read.first = LineAt(s, a)
  BY ReadHas
<1>3. d = Slice(s, a, b)
  BY DEF IsRead
<1>4. d \in Seq(Byte) /\ Len(d) = b - a /\ \A k \in 1 .. b - a : d[k] = s[a + k]
  <2>. HIDE DEF s, a, b, d
  <2>1. QED
    BY <1>1, <1>3, SliceIs
<1>5. c.quote \in Seq(Byte) /\ L \in Nat /\ L # 0
  <2>1. c.quote \in Seq(Byte)
    BY DEF Cite
  <2>2. ToSet(c.quote) # {}
    BY DEF ValidateAnalysisCitation
  <2>3. L # 0
    BY <2>1, <2>2 DEF ToSet
  <2>4. QED
    BY <2>1, <2>3
<1>6. Matches(c, e) # {}
  <2>1. Cardinality(Matches(c, e)) = 1
    BY DEF ValidateAnalysisCitation
  <2>2. QED
    BY <2>1, FS_EmptySet
<1>7. PICK i : i = (CHOOSE k \in Matches(c, e) : TRUE) /\ i \in Matches(c, e)
  BY <1>6
<1>. DEFINE l == analysisQuoteLines(d, e.read.first, i, i + L)
<1>8. P = [c EXCEPT !.first = l.first, !.last = l.last]
  BY <1>7 DEF Placed
<1>9. i \in 0 .. (Len(d) - L) /\ Slice(d, i, i + L) = c.quote
  BY <1>7 DEF Matches
<1>. HIDE DEF s, a, b, L, d
<1>10. i \in Nat /\ i + L <= b - a /\ a < b /\ i + L \in Nat /\ a + i \in Nat /\ a + (i + L) \in Nat
  BY <1>1, <1>4, <1>5, <1>9
<1>. DEFINE j == a + i
<1>11. Slice(s, j, j + L) = c.quote
  <2>1. Slice(Slice(s, a, b), i, i + L) = Slice(s, a + i, a + (i + L))
    <3>. DEFINE n == i + L
    <3>. HIDE DEF s, a, b, n
    <3>1. n \in Nat /\ i <= n /\ n <= b - a
      BY <1>10, <1>5 DEF n
    <3>2. Slice(Slice(s, a, b), i, n) = Slice(s, a + i, a + n)
      BY <1>1, <1>10, <3>1, SameSlice
    <3>3. QED
      BY <3>2 DEF n
  <2>2. a + (i + L) = j + L
    BY <1>1, <1>5, <1>10
  <2>3. QED
    BY <1>3, <1>9, <2>1, <2>2
<1>12. Newlines(Slice(d, 0, i)) = Breaks(s, a, j)
  <2>1. Slice(Slice(s, a, b), 0, i) = Slice(s, a + 0, a + i)
    <3>. HIDE DEF s, a, b
    <3>1. 0 \in Nat /\ 0 <= i /\ i <= b - a
      BY <1>1, <1>5, <1>10
    <3>2. QED
      BY <1>1, <1>10, <3>1, SameSlice
  <2>2. a + 0 = a
    BY <1>1
  <2>3. Newlines(Slice(s, a, a + i)) = Breaks(s, a, a + i)
    <3>. DEFINE m == a + i
    <3>1. m \in Nat /\ a <= m /\ m <= Len(s)
      BY <1>1, <1>5, <1>10
    <3>. HIDE DEF s, a, b, m
    <3>2. Newlines(Slice(s, a, m)) = Breaks(s, a, m)
      BY <1>1, <3>1, NewlinesOfSlice
    <3>3. QED
      BY <3>2 DEF m
  <2>4. QED
    BY <1>3, <2>1, <2>2, <2>3
<1>13. Newlines(Slice(d, i, i + L)) = Breaks(s, j, j + L)
  <2>1. Slice(d, i, i + L) = Slice(s, j, j + L)
    BY <1>9, <1>11
  <2>2. Newlines(Slice(s, j, j + L)) = Breaks(s, j, j + L)
    <3>. DEFINE m == j + L
    <3>1. j \in Nat /\ m \in Nat /\ j <= m /\ m <= Len(s)
      BY <1>1, <1>5, <1>10
    <3>. HIDE DEF s, j, m
    <3>2. Newlines(Slice(s, j, m)) = Breaks(s, j, m)
      BY <1>1, <3>1, NewlinesOfSlice
    <3>3. QED
      BY <3>2 DEF m
  <2>3. QED
    BY <2>1, <2>2
<1>14. d[i + L] = s[j + L]
  <2>1. i + L \in 1 .. b - a /\ a + (i + L) = j + L
    BY <1>1, <1>5, <1>10
  <2>2. QED
    BY <1>4, <2>1
<1>15. l.first = LineAt(s, a) + Breaks(s, a, j)
  BY <1>2, <1>10, <1>12 DEF analysisQuoteLines
<1>16. l.last = LineAt(s, a) + Breaks(s, a, j) + Breaks(s, j, j + L) - (IF s[j + L] = "n" THEN 1 ELSE 0)
  <2>1. i + L > i
    BY <1>5, <1>10
  <2>2. QED
    BY <1>2, <1>10, <1>12, <1>13, <1>14, <2>1 DEF analysisQuoteLines
<1>17. j \in Nat /\ j + L \in Nat /\ j + L - 1 \in Nat /\ a <= j /\ j <= j + L - 1 /\ j + L <= Len(s)
       /\ j + L <= b /\ (j + L - 1) + 1 = j + L
  BY <1>1, <1>5, <1>10
<1>. HIDE DEF s, a, b, j, l, L, d
<1>18. /\ Breaks(s, 0, a) \in Nat /\ Breaks(s, a, j) \in Nat /\ Breaks(s, 0, j) = Breaks(s, 0, a) + Breaks(s, a, j)
  <2>1. 0 \in Nat /\ 0 <= a
    BY <1>1
  <2>2. /\ Breaks(s, 0, a) \in Nat /\ Breaks(s, 0, j) = Breaks(s, 0, a) + Breaks(s, a, j)
    BY <1>1, <1>17, <2>1, BreaksSum
  <2>3. Breaks(s, a, j) \in Nat
    BY <1>1, <1>17, BreaksSum
  <2>4. QED
    BY <2>2, <2>3
<1>19. /\ Breaks(s, j, j + L - 1) \in Nat
       /\ Breaks(s, j, j + L) = Breaks(s, j, j + L - 1) + (IF s[j + L] = "n" THEN 1 ELSE 0)
  <2>. DEFINE m == j + L - 1
  <2>1. m \in Nat /\ m + 1 = j + L /\ j <= m /\ m <= m + 1 /\ m + 1 \in Nat
    BY <1>17
  <2>. HIDE DEF m
  <2>2. Breaks(s, j, m) \in Nat /\ Breaks(s, j, m + 1) = Breaks(s, j, m) + Breaks(s, m, m + 1)
    BY <1>17, <2>1, BreaksSum
  <2>3. Breaks(s, m, m + 1) = IF s[m + 1] = "n" THEN 1 ELSE 0
    BY <2>1, BreaksOne
  <2>4. QED
    BY <2>1, <2>2, <2>3 DEF m
<1>20. Breaks(s, 0, j + L - 1) = Breaks(s, 0, j) + Breaks(s, j, j + L - 1)
  <2>. DEFINE m == j + L - 1
  <2>1. m \in Nat /\ 0 \in Nat /\ 0 <= j /\ j <= m
    BY <1>17
  <2>. HIDE DEF m
  <2>2. Breaks(s, 0, m) = Breaks(s, 0, j) + Breaks(s, j, m)
    BY <1>17, <2>1, BreaksSum
  <2>3. QED
    BY <2>2 DEF m
<1>21. l.first = 1 + Breaks(s, 0, j) /\ l.last = 1 + Breaks(s, 0, j + L - 1) /\ l.first \in Nat /\ l.last \in Nat
  BY <1>15, <1>16, <1>18, <1>19, <1>20 DEF LineAt
<1>22. P \in Cite /\ P.ev = c.ev /\ P.quote = c.quote /\ P.first = l.first /\ P.last = l.last
  <2>. HIDE DEF P
  <2>1. l.first \in Int /\ l.last \in Int
    BY <1>21
  <2>2. QED
    BY <1>8, <2>1 DEF Cite
<1>23. Newlines(Slice(s, 0, j)) = Breaks(s, 0, j) /\ Newlines(Slice(s, 0, j + L - 1)) = Breaks(s, 0, j + L - 1)
  <2>1. 0 \in Nat /\ 0 <= j /\ j <= Len(s)
    BY <1>1, <1>5, <1>17
  <2>. DEFINE m == j + L - 1
  <2>2. m \in Nat /\ 0 <= m /\ m <= Len(s)
    BY <1>1, <1>5, <1>17
  <2>. HIDE DEF m
  <2>3. Newlines(Slice(s, 0, j)) = Breaks(s, 0, j)
    BY <1>1, <1>17, <2>1, NewlinesOfSlice
  <2>4. Newlines(Slice(s, 0, m)) = Breaks(s, 0, m)
    BY <1>1, <2>1, <2>2, NewlinesOfSlice
  <2>5. QED
    BY <2>3, <2>4 DEF m
<1>24. j \in a .. (b - L)
  BY <1>1, <1>5, <1>17
<1>25. StandsAt(P, e)
  <2>. HIDE DEF P
  <2>1. j \in e.read.from .. (e.read.to - Len(P.quote))
    BY <1>22, <1>24 DEF a, b, L
  <2>2. Slice(s, j, j + Len(P.quote)) = P.quote
    BY <1>11, <1>22 DEF L
  <2>3. P.first = 1 + Newlines(Slice(s, 0, j)) /\ P.last = 1 + Newlines(Slice(s, 0, j + Len(P.quote) - 1))
    BY <1>21, <1>22, <1>23 DEF L
  <2>4. QED
    BY <2>1, <2>2, <2>3 DEF StandsAt, s
<1>26. QED
  BY <1>22, <1>25
-----------------------------------------------------------------------------
(* What validation and merging leave of a report.                          *)

LEMMA ChosenHas ==
  ASSUME NEW T, NEW s \in Seq(T), NEW K
  PROVE  LET c == Chosen(s, K) IN
         /\ c \in Seq(T)
         /\ \A i \in DOMAIN c : \E k \in DOMAIN s : k \in K /\ c[i] = s[k]
         /\ \A k \in DOMAIN s : k \in K => \E i \in DOMAIN c : c[i] = s[k]
         /\ \A i, j \in DOMAIN c : i # j => \E k, l \in DOMAIN s : k # l /\ c[i] = s[k] /\ c[j] = s[l]
<1>. DEFINE c == Chosen(s, K)
            N == Len(s)
            P == {k \in 1 .. N : k \in K}
<1>1. c \in Seq(T) /\ Picks(c, s, K, N)
  BY ChosenIs
<1>. HIDE DEF c
<1>2. DOMAIN c = 1 .. Len(c) /\ Len(c) \in Nat /\ DOMAIN s = 1 .. N /\ N \in Nat
  BY <1>1
<1>3. PICK m \in [1 .. Len(c) -> P] :
             /\ \A i, j \in 1 .. Len(c) : i < j => m[i] < m[j]
             /\ \A i \in 1 .. Len(c) : c[i] = s[m[i]]
             /\ \A k \in 1 .. N : k \in K => \E i \in 1 .. Len(c) : m[i] = k
  BY <1>1 DEF Picks
<1>4. \A i \in DOMAIN c : m[i] \in DOMAIN s /\ m[i] \in K /\ c[i] = s[m[i]] /\ m[i] \in Nat
  BY <1>2, <1>3
<1>5. \A k \in DOMAIN s : k \in K => \E i \in DOMAIN c : c[i] = s[k]
  BY <1>2, <1>3, <1>4
<1>6. ASSUME NEW i \in DOMAIN c, NEW j \in DOMAIN c, i # j PROVE m[i] # m[j]
  <2>1. i < j \/ j < i
    BY <1>2, <1>6
  <2>2. m[i] < m[j] \/ m[j] < m[i]
    BY <1>2, <1>3, <2>1
  <2>3. QED
    BY <1>4, <2>2
<1>7. \A i \in DOMAIN c : \E k \in DOMAIN s : k \in K /\ c[i] = s[k]
  BY <1>4
<1>8. \A i, j \in DOMAIN c : i # j => \E k, l \in DOMAIN s : k # l /\ c[i] = s[k] /\ c[j] = s[l]
  BY <1>4, <1>6
<1>9. QED
  BY <1>1, <1>5, <1>7, <1>8 DEF c

LEMMA IdsAtIs ==
  ASSUME NEW r \in Report, NEW K
  PROVE  LET ids == IdsAt(r, K) IN
         /\ ids \in Seq(STRING)
         /\ \A k \in DOMAIN r.findings : k \in K => \E i \in 1 .. Len(ids) : ids[i] = r.findings[k].id
<1>. DEFINE fs == Chosen(r.findings, K)
            ids == [k \in DOMAIN fs |-> fs[k].id]
<1>1. r.findings \in Seq(Finding)
  BY DEF Report
<1>2. /\ fs \in Seq(Finding)
      /\ \A k \in DOMAIN r.findings : k \in K => \E i \in DOMAIN fs : fs[i] = r.findings[k]
  BY <1>1, ChosenHas
<1>3. IdsAt(r, K) = ids
  BY DEF IdsAt
<1>. HIDE DEF fs
<1>4. \A k \in DOMAIN fs : fs[k].id \in STRING
  <2>1. \A k \in DOMAIN fs : fs[k] \in Finding
    BY <1>2
  <2>2. \A f \in Finding : f.id \in STRING
    BY DEF Finding
  <2>3. QED
    BY <2>1, <2>2
<1>5. ids \in [1 .. Len(fs) -> STRING] /\ DOMAIN fs = 1 .. Len(fs) /\ Len(fs) \in Nat
  BY <1>2, <1>4
<1>6. ids \in Seq(STRING) /\ Len(ids) = Len(fs)
  <2>. HIDE DEF ids
  <2>1. ids \in Seq(STRING)
    BY <1>5, SeqDef
  <2>2. DOMAIN ids = 1 .. Len(fs)
    BY <1>5
  <2>3. QED
    BY <1>5, <2>1, <2>2, LenProperties
<1>7. ASSUME NEW k \in DOMAIN r.findings, k \in K
      PROVE  \E i \in 1 .. Len(ids) : ids[i] = r.findings[k].id
  <2>1. PICK i \in DOMAIN fs : fs[i] = r.findings[k]
    BY <1>2, <1>7
  <2>2. ids[i] = r.findings[k].id
    BY <2>1
  <2>. HIDE DEF ids
  <2>3. QED
    BY <1>5, <1>6, <2>1, <2>2
<1>8. QED
  BY <1>3, <1>6, <1>7

\* A report speaks of a finding: it holds it, leaves it to be verified, or
\* counts more than it could name.
Told(x, id) == id \in IdsOf(x) \/ id \in ToSet(x.unverified) \/ x.dropped > 0

\* What is left of finding f: its name, its scope, and what it cites.
Same(x, f) ==
    /\ x.id = f.id /\ x.scope = f.scope /\ x.deps = f.deps
    /\ {c.ev : c \in x.cites} = {c.ev : c \in f.cites}

\* Reads, each with a number of its own.
AtHand(U) == (\A e \in U : IsRead(e)) /\ \A d, e \in U : d.id = e.id => d = e

Place(f, U) == [f EXCEPT !.cites = {Placed(c, CHOOSE e \in EvidenceOf(c.ev, U) : TRUE) : c \in @}]

LEMMA PlaceIs ==
  ASSUME NEW U, AtHand(U), NEW f \in Finding, Sound(f, U)
  PROVE  /\ Place(f, U) \in Finding /\ Same(Place(f, U), f)
         /\ \A c \in Place(f, U).cites : \E e \in U : e.id = c.ev /\ StandsAt(c, e)
<1>. DEFINE at(c) == CHOOSE e \in EvidenceOf(c.ev, U) : TRUE
            C == {Placed(c, at(c)) : c \in f.cites}
            x == Place(f, U)
<1>1. f.cites \in SUBSET Cite
  BY DEF Finding
<1>2. ASSUME NEW c \in f.cites
      PROVE  /\ at(c) \in U /\ at(c).id = c.ev
             /\ Placed(c, at(c)) \in Cite /\ Placed(c, at(c)).ev = c.ev /\ StandsAt(Placed(c, at(c)), at(c))
  <2>1. PICK e \in EvidenceOf(c.ev, U) : ValidateAnalysisCitation(c, e)
    BY DEF Sound
  <2>2. e \in U /\ e.id = c.ev
    BY <2>1 DEF EvidenceOf
  <2>3. EvidenceOf(c.ev, U) = {e}
    BY <2>2 DEF EvidenceOf, AtHand
  <2>4. at(c) = e
    BY <2>3
  <2>. HIDE DEF at
  <2>5. IsRead(e) /\ c \in Cite
    BY <1>1, <2>2 DEF AtHand
  <2>6. Placed(c, e) \in Cite /\ Placed(c, e).ev = c.ev /\ StandsAt(Placed(c, e), e)
    BY <2>1, <2>5, QuoteStands
  <2>7. QED
    BY <2>2, <2>4, <2>6
<1>3. x = [f EXCEPT !.cites = C]
  BY DEF Place
<1>. HIDE DEF at, x
<1>4. C \in SUBSET Cite
  BY <1>2
<1>5. {c.ev : c \in C} = {c.ev : c \in f.cites}
  BY <1>2
<1>6. \A c \in C : \E e \in U : e.id = c.ev /\ StandsAt(c, e)
  BY <1>2
<1>. HIDE DEF C
<1>7. x \in Finding /\ x.cites = C /\ x.id = f.id /\ x.scope = f.scope /\ x.deps = f.deps
  BY <1>3, <1>4 DEF Finding
<1>8. QED
  BY <1>5, <1>6, <1>7 DEF Same, x

\* What validation against U may make of r.
Validated(v, r, U) ==
    /\ v \in Report /\ Unique(v) /\ v.processed \subseteq r.processed
    /\ \A k \in DOMAIN v.findings :
          /\ ToSet(v.findings[k].deps) \subseteq IdsOf(v)
          /\ \A c \in v.findings[k].cites : \E e \in U : e.id = c.ev /\ StandsAt(c, e)
          /\ \E j \in DOMAIN r.findings : Same(v.findings[k], r.findings[j])
    /\ \A id : Told(r, id) => Told(v, id)

LEMMA ValidIs ==
  ASSUME NEW r \in Report, Unique(r), NEW U, AtHand(U)
  PROVE  Validated(ValidateAnalysisReport(r, U), r, U)
<1>. DEFINE v       == ValidateAnalysisReport(r, U)
            good    == Holding(r, U)
            holds   == {k \in DOMAIN r.findings : r.findings[k].id \in good}
            kept    == Chosen(r.findings, holds)
            found   == [k \in DOMAIN kept |-> Place(kept[k], U)]
            named   == {k \in DOMAIN r.overview : \A j \in 1..(k - 1) : r.overview[j] # r.overview[k]}
            stands  == {k \in named : r.overview[k] \in good}
            ids     == IdsAt(r, DOMAIN r.findings \ holds)
            over    == Chosen(r.overview, named \ stands)
            failed  == Listed(r, ids, FALSE)
            listed  == Listed(failed, over, FALSE)
            used    == UNION {{c.ev : c \in found[k].cites} : k \in DOMAIN found}
            handled == {id \in r.processed : EvidenceOf(id, U) # {} /\ id \in used \union r.summaries}
            top     == Chosen(r.overview, stands)
            sums    == r.summaries \intersect handled
<1>1. v = [listed EXCEPT !.findings = found, !.overview = top, !.processed = handled, !.summaries = sums]
  BY DEF ValidateAnalysisReport, Reduced, Place
<1>2. r.findings \in Seq(Finding) /\ r.overview \in Seq(STRING) /\ r.processed \in SUBSET Nat
  BY DEF Report
<1>3. good \subseteq IdsOf(r) /\ \A id \in good : Sound(FindingOf(r, id), U) /\ ToSet(FindingOf(r, id).deps) \subseteq good
  BY HoldingIs
<1>4. /\ kept \in Seq(Finding)
      /\ \A i \in DOMAIN kept : \E k \in DOMAIN r.findings : k \in holds /\ kept[i] = r.findings[k]
      /\ \A k \in DOMAIN r.findings : k \in holds => \E i \in DOMAIN kept : kept[i] = r.findings[k]
      /\ \A i, j \in DOMAIN kept : i # j =>
            \E k, l \in DOMAIN r.findings : k # l /\ kept[i] = r.findings[k] /\ kept[j] = r.findings[l]
  <2>1. PICK H : H = holds
    OBVIOUS
  <2>2. PICK fs \in Seq(Finding) : fs = r.findings
    BY <1>2
  <2>. DEFINE c == Chosen(fs, H)
  <2>3. kept = c
    BY <2>1, <2>2
  <2>4. /\ c \in Seq(Finding)
        /\ \A i \in DOMAIN c : \E k \in DOMAIN fs : k \in H /\ c[i] = fs[k]
        /\ \A k \in DOMAIN fs : k \in H => \E i \in DOMAIN c : c[i] = fs[k]
        /\ \A i, j \in DOMAIN c : i # j =>
              \E k, l \in DOMAIN fs : k # l /\ c[i] = fs[k] /\ c[j] = fs[l]
    BY ONLY ChosenHas, fs \in Seq(Finding)
  <2>. HIDE DEF c, kept, holds
  <2>5. QED
    BY <2>1, <2>2, <2>3, <2>4
<1>5. Longer(failed, r) /\ Heeded(failed, r, ids, Len(ids)) /\ failed \in Report
  <2>1. ids \in Seq(STRING)
    BY IdsAtIs
  <2>. HIDE DEF ids
  <2>2. QED
    BY <2>1, ListedIs DEF Longer
<1>6. Longer(listed, r) /\ ToSet(failed.unverified) \subseteq ToSet(listed.unverified) /\ listed.dropped >= failed.dropped
  <2>1. over \in Seq(STRING)
    BY <1>2, ChosenIs
  <2>. HIDE DEF over, failed
  <2>2. Longer(listed, failed)
    BY <1>5, <2>1, ListedIs
  <2>. HIDE DEF listed
  <2>3. Longer(listed, r)
    BY <1>5, <2>2, LongerStill
  <2>4. QED
    BY <2>2, <2>3 DEF Longer
<1>7. \A id : id \in {r.findings[k].id : k \in DOMAIN r.findings \ holds} =>
             id \in ToSet(listed.unverified) \/ listed.dropped > r.dropped
  <2>1. SUFFICES ASSUME NEW k \in DOMAIN r.findings \ holds
                 PROVE  r.findings[k].id \in ToSet(listed.unverified) \/ listed.dropped > r.dropped
    OBVIOUS
  <2>2. PICK i \in 1 .. Len(ids) : ids[i] = r.findings[k].id
    BY IdsAtIs
  <2>. HIDE DEF ids, failed, listed, over, holds
  <2>3. ids[i] \in ToSet(failed.unverified) \/ failed.dropped > r.dropped
    BY <1>5, <2>2 DEF Heeded
  <2>4. failed.dropped \in Nat /\ listed.dropped \in Nat /\ r.dropped \in Nat
    BY <1>5, <1>6 DEF Longer, Report
  <2>5. QED
    BY <1>6, <2>2, <2>3, <2>4
<1>8. top \in Seq(STRING)
  BY <1>2, ChosenIs
<1>. HIDE DEF good, kept, failed, listed, ids, over, top, stands, named
<1>9. ASSUME NEW k \in DOMAIN kept
      PROVE  /\ Place(kept[k], U) \in Finding /\ Same(Place(kept[k], U), kept[k]) /\ ToSet(kept[k].deps) \subseteq good
             /\ \A c \in Place(kept[k], U).cites : \E e \in U : e.id = c.ev /\ StandsAt(c, e)
  <2>1. PICK j \in DOMAIN r.findings : j \in holds /\ kept[k] = r.findings[j]
    BY <1>4
  <2>2. r.findings[j].id \in good
    BY <2>1
  <2>3. FindingOf(r, r.findings[j].id) = r.findings[j]
    BY FindingIs
  <2>4. Sound(kept[k], U) /\ ToSet(kept[k].deps) \subseteq good
    BY <1>3, <2>1, <2>2, <2>3
  <2>5. kept[k] \in Finding
    BY <1>4
  <2>6. QED
    BY <2>4, <2>5, PlaceIs
<1>10. found \in Seq(Finding) /\ DOMAIN found = DOMAIN kept
  <2>1. DOMAIN kept = 1 .. Len(kept) /\ Len(kept) \in Nat
    BY <1>4
  <2>2. found \in [1 .. Len(kept) -> Finding]
    BY <1>9, <2>1
  <2>. HIDE DEF found
  <2>3. QED
    BY <2>1, <2>2, SeqDef
<1>11. \A k \in DOMAIN kept : found[k] = Place(kept[k], U)
  OBVIOUS
<1>12. handled \in SUBSET Nat /\ handled \subseteq r.processed /\ sums \in SUBSET Nat
  BY <1>2
<1>. HIDE DEF found, handled, used, sums, v
<1>13. /\ v \in Report /\ v.findings = found /\ v.processed = handled
       /\ v.unverified = listed.unverified /\ v.dropped = listed.dropped
  <2>1. listed \in Report
    BY <1>6 DEF Longer
  <2>2. QED
    BY <1>1, <1>8, <1>10, <1>12, <2>1 DEF Report
<1>14. \A k \in DOMAIN kept : found[k].id = kept[k].id
  BY <1>9, <1>11 DEF Same
<1>15. \A id \in good : id \in IdsOf(v)
  <2>1. SUFFICES ASSUME NEW id \in good PROVE id \in IdsOf(v)
    OBVIOUS
  <2>2. PICK k \in DOMAIN r.findings : r.findings[k].id = id
    BY <1>3 DEF IdsOf
  <2>3. k \in holds
    BY <2>1, <2>2
  <2>4. PICK i \in DOMAIN kept : kept[i] = r.findings[k]
    BY <1>4, <2>3
  <2>5. QED
    BY <1>10, <1>13, <1>14, <2>2, <2>4 DEF IdsOf
<1>16. Unique(v)
  <2>1. SUFFICES ASSUME NEW i \in DOMAIN kept, NEW j \in DOMAIN kept, found[i].id = found[j].id, i # j
                 PROVE  FALSE
    BY <1>10, <1>13 DEF Unique
  <2>2. PICK k \in DOMAIN r.findings, l \in DOMAIN r.findings :
               k # l /\ kept[i] = r.findings[k] /\ kept[j] = r.findings[l]
    BY <1>4, <2>1
  <2>3. r.findings[k].id = r.findings[l].id
    BY <1>14, <2>1, <2>2
  <2>4. QED
    BY <2>2, <2>3 DEF Unique
<1>17. ASSUME NEW k \in DOMAIN v.findings
       PROVE  /\ ToSet(v.findings[k].deps) \subseteq IdsOf(v)
              /\ \A c \in v.findings[k].cites : \E e \in U : e.id = c.ev /\ StandsAt(c, e)
              /\ \E j \in DOMAIN r.findings : Same(v.findings[k], r.findings[j])
  <2>1. k \in DOMAIN kept /\ v.findings[k] = Place(kept[k], U)
    BY <1>10, <1>11, <1>13
  <2>2. PICK j \in DOMAIN r.findings : kept[k] = r.findings[j]
    BY <1>4, <2>1
  <2>3. ToSet(v.findings[k].deps) \subseteq good
    BY <1>9, <2>1 DEF Same
  <2>4. QED
    BY <1>9, <1>15, <2>1, <2>2, <2>3
<1>18. ASSUME NEW id, Told(r, id) PROVE Told(v, id)
  <2>0. listed.dropped \in Nat /\ r.dropped \in Nat /\ listed.dropped >= r.dropped
        /\ ToSet(r.unverified) \subseteq ToSet(listed.unverified)
    BY <1>6 DEF Longer, Report
  <2>1. CASE id \in IdsOf(r)
    <3>1. PICK k \in DOMAIN r.findings : r.findings[k].id = id
      BY <2>1 DEF IdsOf
    <3>2. CASE k \in holds
      BY <1>15, <3>1, <3>2 DEF Told
    <3>3. CASE k \notin holds
      <4>1. id \in ToSet(listed.unverified) \/ listed.dropped > r.dropped
        BY <1>7, <3>1, <3>3
      <4>2. QED
        BY <1>13, <2>0, <4>1 DEF Told
    <3>4. QED
      BY <3>2, <3>3
  <2>2. CASE id \in ToSet(r.unverified)
    BY <1>13, <2>0, <2>2 DEF Told
  <2>3. CASE r.dropped > 0
    BY <1>13, <2>0, <2>3 DEF Told
  <2>4. QED
    BY <1>18, <2>1, <2>2, <2>3 DEF Told
<1>19. QED
  BY <1>12, <1>13, <1>16, <1>17, <1>18 DEF Validated, v

LEMMA ReplacedIs ==
  ASSUME NEW old \in Seq(Finding), NEW new \in Seq(Finding)
  PROVE  LET fs == Replaced(old, new) IN
         /\ fs \in Seq(Finding)
         /\ \A k \in DOMAIN old : \E i \in DOMAIN fs : fs[i].id = old[k].id
         /\ \A k \in DOMAIN new : \E i \in DOMAIN fs : fs[i].id = new[k].id
<1>. DEFINE newer(k) == {j \in DOMAIN new : new[j].id = old[k].id}
            added == {j \in DOMAIN new : \A k \in DOMAIN old : old[k].id # new[j].id}
            at(k) == IF newer(k) = {} THEN old[k] ELSE new[CHOOSE j \in newer(k) : TRUE]
            p == [k \in DOMAIN old |-> at(k)]
            c == Chosen(new, added)
            fs == p \o c
<1>1. Replaced(old, new) = fs
  BY DEF Replaced
<1>2. ASSUME NEW k \in DOMAIN old PROVE at(k) \in Finding /\ at(k).id = old[k].id
  <2>1. CASE newer(k) = {}
    BY <2>1
  <2>2. CASE newer(k) # {}
    <3>1. PICK j \in newer(k) : j = CHOOSE i \in newer(k) : TRUE
      BY <2>2
    <3>2. at(k) = new[j]
      BY <2>2, <3>1
    <3>. HIDE DEF at
    <3>3. QED
      BY <3>1, <3>2
  <2>3. QED
    BY <2>1, <2>2
<1>. HIDE DEF at
<1>3. DOMAIN old = 1 .. Len(old) /\ Len(old) \in Nat
  OBVIOUS
<1>4. p \in Seq(Finding) /\ Len(p) = Len(old) /\ \A k \in DOMAIN old : p[k].id = old[k].id
  <2>1. p \in [1 .. Len(old) -> Finding]
    BY <1>2, <1>3
  <2>2. \A k \in DOMAIN old : p[k].id = old[k].id
    BY <1>2
  <2>3. DOMAIN p = 1 .. Len(old)
    BY <1>3
  <2>. HIDE DEF p
  <2>4. p \in Seq(Finding)
    BY <1>3, <2>1, SeqDef
  <2>5. QED
    BY <1>3, <2>2, <2>3, <2>4, LenProperties
<1>5. PICK K : K = added
  OBVIOUS
<1>6. c = Chosen(new, K)
  BY <1>5
<1>7. /\ Chosen(new, K) \in Seq(Finding)
      /\ \A i \in DOMAIN Chosen(new, K) : \E k \in DOMAIN new : k \in K /\ Chosen(new, K)[i] = new[k]
      /\ \A k \in DOMAIN new : k \in K => \E i \in DOMAIN Chosen(new, K) : Chosen(new, K)[i] = new[k]
      /\ \A i, j \in DOMAIN Chosen(new, K) : i # j =>
            \E k, l \in DOMAIN new : k # l /\ Chosen(new, K)[i] = new[k] /\ Chosen(new, K)[j] = new[l]
  BY ONLY ChosenHas, new \in Seq(Finding)
<1>. HIDE DEF p, c, added
<1>9. c \in Seq(Finding) /\ \A k \in DOMAIN new : k \in added => \E i \in DOMAIN c : c[i] = new[k]
  BY <1>5, <1>6, <1>7
<1>10. /\ fs \in Seq(Finding) /\ Len(fs) = Len(p) + Len(c)
       /\ \A i \in 1 .. Len(p) : fs[i] = p[i]
       /\ \A i \in 1 .. Len(c) : fs[Len(p) + i] = c[i]
  <2>1. fs \in Seq(Finding) /\ Len(fs) = Len(p) + Len(c)
    BY <1>4, <1>9, ConcatProperties
  <2>2. Len(p) \in Nat /\ Len(c) \in Nat
    BY <1>4, <1>9
  <2>3. \A i \in 1 .. Len(p) + Len(c) : fs[i] = IF i <= Len(p) THEN p[i] ELSE c[i - Len(p)]
    BY <1>4, <1>9, ConcatProperties
  <2>. HIDE DEF fs
  <2>4. ASSUME NEW i \in 1 .. Len(p) PROVE fs[i] = p[i]
    BY <2>2, <2>3
  <2>5. ASSUME NEW i \in 1 .. Len(c) PROVE fs[Len(p) + i] = c[i]
    <3>1. Len(p) + i \in 1 .. Len(p) + Len(c) /\ ~ (Len(p) + i <= Len(p)) /\ (Len(p) + i) - Len(p) = i
      BY <2>2
    <3>2. QED
      BY <2>3, <3>1
  <2>6. QED
    BY <2>1, <2>4, <2>5
<1>11. /\ \A i \in 1 .. Len(p) : i \in DOMAIN fs
       /\ \A i \in 1 .. Len(c) : Len(p) + i \in DOMAIN fs
       /\ DOMAIN c = 1 .. Len(c)
  BY <1>4, <1>9, <1>10
<1>. HIDE DEF fs
<1>12. ASSUME NEW k \in DOMAIN old PROVE \E i \in DOMAIN fs : fs[i].id = old[k].id
  <2>1. k \in 1 .. Len(p)
    BY <1>3, <1>4
  <2>2. QED
    BY <1>4, <1>10, <1>11, <2>1
<1>13. ASSUME NEW k \in DOMAIN new PROVE \E i \in DOMAIN fs : fs[i].id = new[k].id
  <2>1. CASE k \in added
    <3>1. PICK i \in 1 .. Len(c) : c[i] = new[k]
      BY <1>9, <1>11, <2>1
    <3>2. QED
      BY <1>10, <1>11, <3>1
  <2>2. CASE k \notin added
    <3>1. PICK j \in DOMAIN old : old[j].id = new[k].id
      BY <2>2 DEF added
    <3>2. PICK i \in DOMAIN fs : fs[i].id = old[j].id
      BY <1>12
    <3>3. QED
      BY <3>1, <3>2
  <2>3. QED
    BY <2>1, <2>2
<1>14. QED
  BY <1>1, <1>10, <1>12, <1>13

LEMMA MergeIs ==
  ASSUME NEW old \in Report, NEW new \in Report
  PROVE  LET m == mergeAnalysisReports(old, new) IN
         /\ m \in Report /\ m.processed = new.processed
         /\ \A id : Told(old, id) => Told(m, id)
         /\ \A id \in IdsOf(new) : Told(m, id)
<1>. DEFINE fs == Replaced(old.findings, new.findings)
            b == [new EXCEPT !.findings = fs]
            l == Listed(b, old.unverified, TRUE)
            m == mergeAnalysisReports(old, new)
<1>1. /\ old.findings \in Seq(Finding) /\ new.findings \in Seq(Finding)
      /\ old.unverified \in Seq(STRING) /\ old.dropped \in Nat /\ new.dropped \in Nat
  BY DEF Report
<1>2. /\ fs \in Seq(Finding)
      /\ \A k \in DOMAIN old.findings : \E i \in DOMAIN fs : fs[i].id = old.findings[k].id
      /\ \A k \in DOMAIN new.findings : \E i \in DOMAIN fs : fs[i].id = new.findings[k].id
  BY ONLY <1>1, ReplacedIs
<1>. HIDE DEF fs
<1>3. /\ b \in Report /\ b.findings = fs /\ b.processed = new.processed /\ b.dropped = new.dropped
      /\ b.unverified = new.unverified
  BY <1>2 DEF Report
<1>. HIDE DEF b
<1>4. Longer(l, b) /\ Heeded(l, b, old.unverified, Len(old.unverified))
  BY <1>1, <1>3, ListedIs
<1>5. m = [l EXCEPT !.dropped = @ + old.dropped]
  BY DEF mergeAnalysisReports, b, fs
<1>. HIDE DEF l, m
<1>6. l \in Report /\ l.findings = fs /\ l.processed = new.processed /\ l.dropped \in Nat /\ l.dropped >= new.dropped
  BY <1>3, <1>4 DEF Longer, Report
<1>7. /\ m \in Report /\ m.findings = fs /\ m.processed = new.processed
      /\ m.unverified = l.unverified /\ m.dropped = l.dropped + old.dropped
  <2>1. l.dropped + old.dropped \in Nat
    BY <1>1, <1>6
  <2>2. QED
    BY <1>5, <1>6, <2>1 DEF Report
<1>8. ASSUME NEW id, Told(old, id) PROVE Told(m, id)
  <2>1. CASE id \in IdsOf(old)
    BY <1>2, <1>7, <2>1 DEF IdsOf, Told
  <2>2. CASE id \in ToSet(old.unverified)
    <3>1. PICK i \in 1 .. Len(old.unverified) : id = old.unverified[i]
      BY <1>1, <2>2 DEF ToSet
    <3>2. id \in ToSet(l.unverified) \/ l.dropped > b.dropped
      BY <1>4, <3>1 DEF Heeded
    <3>3. QED
      BY <1>1, <1>3, <1>6, <1>7, <3>2 DEF Told
  <2>3. CASE old.dropped > 0
    BY <1>1, <1>6, <1>7, <2>3 DEF Told
  <2>4. QED
    BY <1>8, <2>1, <2>2, <2>3 DEF Told
<1>9. ASSUME NEW id \in IdsOf(new) PROVE Told(m, id)
  BY <1>2, <1>7 DEF IdsOf, Told
<1>10. QED
  BY <1>7, <1>8, <1>9 DEF m

LEMMA SameScope ==
  ASSUME NEW a, NEW x, NEW f, Same(x, f), InScope(a, f)
  PROVE  InScope(a, x)
<1>1. x.scope = f.scope /\ {c.ev : c \in x.cites} = {c.ev : c \in f.cites}
  BY DEF Same
<1>2. x.cites = {} <=> f.cites = {}
  BY <1>1
<1>3. FilesOf(x) = FilesOf(f)
  <2>. DEFINE at(n) == (CHOOSE e \in sources : e.id = n).file
  <2>1. FilesOf(x) = {at(n) : n \in {c.ev : c \in x.cites}} /\ FilesOf(f) = {at(n) : n \in {c.ev : c \in f.cites}}
    BY DEF FilesOf
  <2>. HIDE DEF at
  <2>2. QED
    BY <1>1, <2>1
<1>4. QED
  BY <1>1, <1>2, <1>3 DEF InScope

\* The findings moved away are left to be verified.
LEMMA MovedIs ==
  ASSUME NEW f \in Report, Unique(f), NEW out
  PROVE  LET m == [Listed(f, IdsAt(f, out), FALSE) EXCEPT !.findings = Chosen(@, DOMAIN f.findings \ out)] IN
         /\ m \in Report /\ Unique(m) /\ m.processed = f.processed
         /\ \A j \in DOMAIN m.findings : \E k \in DOMAIN f.findings \ out : m.findings[j] = f.findings[k]
         /\ \A id : Told(f, id) => Told(m, id)
<1>. DEFINE ids == IdsAt(f, out)
            l == Listed(f, ids, FALSE)
            D == DOMAIN f.findings \ out
            c == Chosen(f.findings, D)
            m == [Listed(f, IdsAt(f, out), FALSE) EXCEPT !.findings = Chosen(@, DOMAIN f.findings \ out)]
<1>1. f.findings \in Seq(Finding)
  BY DEF Report
<1>2. /\ ids \in Seq(STRING)
      /\ \A k \in DOMAIN f.findings : k \in out => \E i \in 1 .. Len(ids) : ids[i] = f.findings[k].id
  BY IdsAtIs
<1>3. m = [l EXCEPT !.findings = Chosen(@, D)]
  OBVIOUS
<1>. HIDE DEF ids, m
<1>4. Longer(l, f) /\ Heeded(l, f, ids, Len(ids))
  BY <1>2, ListedIs
<1>. HIDE DEF l
<1>5. l \in Report /\ l.findings = f.findings
  BY <1>4 DEF Longer
<1>6. m = [l EXCEPT !.findings = c]
  BY <1>3, <1>5 DEF Report
<1>7. /\ c \in Seq(Finding)
      /\ \A i \in DOMAIN c : \E k \in DOMAIN f.findings : k \in D /\ c[i] = f.findings[k]
      /\ \A k \in DOMAIN f.findings : k \in D => \E i \in DOMAIN c : c[i] = f.findings[k]
      /\ \A i, j \in DOMAIN c : i # j =>
            \E k, n \in DOMAIN f.findings : k # n /\ c[i] = f.findings[k] /\ c[j] = f.findings[n]
  <2>1. PICK fs, K : fs \in Seq(Finding) /\ fs = f.findings /\ K = D
    BY <1>1
  <2>. DEFINE e == Chosen(fs, K)
  <2>2. c = e
    BY <2>1
  <2>3. /\ e \in Seq(Finding)
        /\ \A i \in DOMAIN e : \E k \in DOMAIN fs : k \in K /\ e[i] = fs[k]
        /\ \A k \in DOMAIN fs : k \in K => \E i \in DOMAIN e : e[i] = fs[k]
        /\ \A i, j \in DOMAIN e : i # j => \E k, h \in DOMAIN fs : k # h /\ e[i] = fs[k] /\ e[j] = fs[h]
    <3>1. fs \in Seq(Finding)
      BY <2>1
    <3>2. QED
      BY ONLY <3>1, ChosenHas
  <2>. HIDE DEF e, c, D
  <2>4. QED
    BY <2>1, <2>2, <2>3
<1>. HIDE DEF c
<1>8. /\ m \in Report /\ m.findings = c /\ m.processed = f.processed
      /\ m.unverified = l.unverified /\ m.dropped = l.dropped
  BY <1>4, <1>5, <1>6, <1>7 DEF Longer, Report
<1>9. Unique(m)
  <2>1. SUFFICES ASSUME NEW i \in DOMAIN c, NEW j \in DOMAIN c, c[i].id = c[j].id, i # j PROVE FALSE
    BY <1>8 DEF Unique
  <2>2. PICK k \in DOMAIN f.findings, n \in DOMAIN f.findings :
               k # n /\ c[i] = f.findings[k] /\ c[j] = f.findings[n]
    BY <1>7, <2>1
  <2>3. QED
    BY <2>1, <2>2 DEF Unique
<1>10. ASSUME NEW id, Told(f, id) PROVE Told(m, id)
  <2>0. l.dropped \in Nat /\ f.dropped \in Nat /\ l.dropped >= f.dropped
        /\ ToSet(f.unverified) \subseteq ToSet(l.unverified)
    BY <1>4 DEF Longer, Report
  <2>1. CASE id \in IdsOf(f)
    <3>1. PICK k \in DOMAIN f.findings : f.findings[k].id = id
      BY <2>1 DEF IdsOf
    <3>2. CASE k \in out
      <4>1. PICK i \in 1 .. Len(ids) : ids[i] = id
        BY <1>2, <3>1, <3>2
      <4>2. id \in ToSet(l.unverified) \/ l.dropped > f.dropped
        BY <1>4, <4>1 DEF Heeded
      <4>3. QED
        BY <1>8, <2>0, <4>2 DEF Told
    <3>3. CASE k \notin out
      <4>1. PICK i \in DOMAIN c : c[i] = f.findings[k]
        BY <1>7, <3>3
      <4>2. QED
        BY <1>8, <3>1, <4>1 DEF Told, IdsOf
    <3>4. QED
      BY <3>2, <3>3
  <2>2. CASE id \in ToSet(f.unverified)
    BY <1>8, <2>0, <2>2 DEF Told
  <2>3. CASE f.dropped > 0
    BY <1>8, <2>0, <2>3 DEF Told
  <2>4. QED
    BY <1>10, <2>1, <2>2, <2>3 DEF Told
<1>11. \A j \in DOMAIN m.findings : \E k \in DOMAIN f.findings \ out : m.findings[j] = f.findings[k]
  BY <1>7, <1>8
<1>12. QED
  BY <1>8, <1>9, <1>10, <1>11 DEF m

LEMMA CheckedIs ==
  ASSUME NEW a, NEW report \in Report, Unique(report), AtHand(Usable(a, TRUE))
  PROVE  LET v == Checked(a, report) IN
         /\ Validated(v, report, Usable(a, TRUE))
         /\ \A k \in DOMAIN v.findings : InScope(a, v.findings[k])
<1>1. PICK U : U = Usable(a, TRUE)
  OBVIOUS
<1>. DEFINE first == ValidateAnalysisReport(report, U)
            out == {k \in DOMAIN first.findings : ~InScope(a, first.findings[k])}
            moved == [Listed(first, IdsAt(first, out), FALSE)
                         EXCEPT !.findings = Chosen(@, DOMAIN first.findings \ out)]
            then == ValidateAnalysisReport(moved, U)
<1>2. Checked(a, report) = IF out = {} THEN first ELSE then
  BY <1>1, Zenon DEF Checked, Narrowed
<1>3. Validated(first, report, U)
  BY <1>1, ValidIs
<1>. HIDE DEF first
<1>4. CASE out = {}
  BY <1>1, <1>2, <1>3, <1>4
<1>5. CASE out # {}
  <2>1. first \in Report /\ Unique(first)
    BY <1>3 DEF Validated
  <2>. HIDE DEF out
  <2>2. /\ moved \in Report /\ Unique(moved) /\ moved.processed = first.processed
        /\ \A j \in DOMAIN moved.findings : \E k \in DOMAIN first.findings \ out : moved.findings[j] = first.findings[k]
        /\ \A id : Told(first, id) => Told(moved, id)
    BY <2>1, MovedIs
  <2>. HIDE DEF moved
  <2>3. Validated(then, moved, U)
    BY <1>1, <2>2, ValidIs
  <2>. HIDE DEF then
  <2>4. ASSUME NEW k \in DOMAIN then.findings
        PROVE  /\ \E j \in DOMAIN report.findings : Same(then.findings[k], report.findings[j])
               /\ InScope(a, then.findings[k])
    <3>1. PICK j \in DOMAIN moved.findings : Same(then.findings[k], moved.findings[j])
      BY <2>3 DEF Validated
    <3>2. PICK n \in DOMAIN first.findings \ out : moved.findings[j] = first.findings[n]
      BY <2>2
    <3>3. PICK i \in DOMAIN report.findings : Same(first.findings[n], report.findings[i])
      BY <1>3, <3>2 DEF Validated
    <3>4. Same(then.findings[k], report.findings[i])
      BY <3>1, <3>2, <3>3 DEF Same
    <3>5. InScope(a, first.findings[n])
      BY <3>2 DEF out
    <3>6. InScope(a, then.findings[k])
      BY <3>1, <3>2, <3>5, SameScope
    <3>7. QED
      BY <3>4, <3>6
  <2>5. Validated(then, report, U)
    BY <1>3, <2>2, <2>3, <2>4 DEF Validated
  <2>6. QED
    BY <1>1, <1>2, <1>5, <2>4, <2>5
<1>6. QED
  BY <1>4, <1>5
-----------------------------------------------------------------------------
(* What a reachable state is like.                                         *)

Saying == [kind : {"user", "answer", "result"}, note : Noting, calls : Nat, ev : Nat, form : {"whole"}]
Phase  == {"wait", "go", "repeated", "captured", "running", "done", "lost"}
Entry  == [call : Call, step : Phase, ev : Nat]
Holds  == [report : Report, noted : BOOLEAN, processed : SUBSET Nat, summaries : SUBSET Nat]

IsLedger(m) ==
    /\ m = [models |-> m.models, tools |-> m.tools, evidence |-> m.evidence, of |-> m.of]
    /\ IsFiniteSet(DOMAIN m.evidence) /\ m.of \in [Agent -> Holds]

\* A value for each agent.
Each(f) == f = [a \in Agent |-> f[a]]

Types ==
    /\ task \in Tasks /\ IsLedger(mem) /\ IsLedger(durable) /\ next \in Nat
    /\ Each(pc) /\ Each(request) /\ Each(delivered) /\ Each(exposed) /\ Each(accepted) /\ Each(judged)
    /\ session \in [Agent -> Seq(Saying)] /\ batch \in [Agent -> Seq(Entry)]
    /\ \A a \in Agent : pc[a] = "note" => session[a] # <<>>
    /\ version \in [File -> Nat] /\ \A f \in File : version[f] < Len(Contents[f])

LEMMA EachIs ==
  ASSUME NEW f, Each(f), NEW a \in Agent, NEW x
  PROVE  LET g == [f EXCEPT ![a] = x]
         IN Each(g) /\ g[a] = x /\ \A b \in Agent : b # a => g[b] = f[b]
<1>1. DOMAIN f = Agent
  BY DEF Each
<1>2. QED
  BY <1>1 DEF Each

LEMMA EachOf ==
  ASSUME NEW f, Each(f), NEW S, \A a \in Agent : f[a] \in S
  PROVE  f \in [Agent -> S]
BY DEF Each

LEMMA SeqAt ==
  ASSUME NEW T, NEW s \in Seq(T), NEW i \in DOMAIN s, NEW x \in T
  PROVE  LET u == [s EXCEPT ![i] = x]
         IN u \in Seq(T) /\ DOMAIN u = DOMAIN s /\ Len(u) = Len(s)
BY ExceptSeq

LEMMA StepIs ==
  ASSUME batch \in [Agent -> Seq(Entry)], NEW a \in Agent, NEW i \in DOMAIN batch[a], NEW x \in Entry,
         Step(a, i, x)
  PROVE  /\ batch' \in [Agent -> Seq(Entry)]
         /\ \A b \in Agent : b # a => batch'[b] = batch[b]
         /\ DOMAIN batch'[a] = DOMAIN batch[a] /\ batch'[a][i] = x
         /\ \A j \in DOMAIN batch[a] : j # i => batch'[a][j] = batch[a][j]
<1>. DEFINE u == [batch[a] EXCEPT ![i] = x]
<1>1. batch' = [batch EXCEPT ![a] = u]
  BY DEF Step
<1>2. batch[a] \in Seq(Entry)
  OBVIOUS
<1>3. u \in Seq(Entry) /\ DOMAIN u = DOMAIN batch[a]
  BY <1>2, SeqAt
<1>4. u[i] = x /\ \A j \in DOMAIN batch[a] : j # i => u[j] = batch[a][j]
  OBVIOUS
<1>. HIDE DEF u
<1>5. QED
  BY <1>1, <1>3, <1>4

LEMMA NoReportIs ==
  NoReport \in Report /\ Unique(NoReport) /\ NoReport.findings = <<>> /\ NoReport.processed = {}
<1>1. <<>> \in Seq(Finding) /\ <<>> \in Seq(STRING) /\ DOMAIN <<>> = {}
  OBVIOUS
<1>2. NoReport \in Report /\ NoReport.findings = <<>> /\ NoReport.processed = {}
  BY <1>1 DEF NoReport, Report
<1>3. QED
  BY <1>1, <1>2 DEF Unique

LEMMA RecordIs ==
  ASSUME IsLedger(durable), NEW s, IsLedger(s), Record(s)
  PROVE  mem' = s /\ IsLedger(mem') /\ IsLedger(durable')
<1>1. mem' = s /\ (durable' = s \/ durable' = durable)
  BY DEF Record
<1>2. QED
  BY <1>1

LEMMA ChargedIs ==
  ASSUME IsLedger(mem), NEW what
  PROVE  IsLedger(Charged(what)) /\ Charged(what).of = mem.of
<1>. DEFINE m == Charged(what)
            x == mem.models + (IF what = "model" THEN 1 ELSE 0)
            y == mem.tools + (IF what = "tool" THEN 1 ELSE 0)
<1>1. mem = [models |-> mem.models, tools |-> mem.tools, evidence |-> mem.evidence, of |-> mem.of]
  BY DEF IsLedger
<1>a. m = [mem EXCEPT !.models = x, !.tools = y]
  BY <1>1 DEF Charged
<1>. HIDE DEF m, x, y
<1>2. /\ m = [models |-> m.models, tools |-> m.tools, evidence |-> m.evidence, of |-> m.of]
      /\ m.evidence = mem.evidence /\ m.of = mem.of
  BY <1>1, <1>a
<1>3. IsLedger(m)
  BY <1>2 DEF IsLedger
<1>4. QED
  BY <1>2, <1>3 DEF m

LEMMA KeptIs ==
  ASSUME IsLedger(mem), NEW id, NEW e
  PROVE  IsLedger(Kept(id, e)) /\ Kept(id, e).of = mem.of
<1>. DEFINE m == Kept(id, e)
            f == [n \in DOMAIN mem.evidence \union {id} |-> IF n = id THEN e ELSE mem.evidence[n]]
<1>1. mem = [models |-> mem.models, tools |-> mem.tools, evidence |-> mem.evidence, of |-> mem.of]
  BY DEF IsLedger
<1>2. m = [mem EXCEPT !.evidence = f]
  BY <1>1 DEF Kept
<1>3. DOMAIN f = DOMAIN mem.evidence \union {id}
  OBVIOUS
<1>. HIDE DEF m, f
<1>4. /\ m = [models |-> m.models, tools |-> m.tools, evidence |-> m.evidence, of |-> m.of]
      /\ m.evidence = f /\ m.of = mem.of
  BY <1>1, <1>2
<1>5. IsFiniteSet(DOMAIN f)
  BY <1>3, FS_AddElement DEF IsLedger
<1>6. IsLedger(m)
  BY <1>4, <1>5 DEF IsLedger
<1>7. QED
  BY <1>4, <1>6 DEF m

LEMMA RecordedIs ==
  ASSUME IsLedger(mem), NEW a \in Agent, NEW r \in Report
  PROVE  LET m == Recorded(a, r) IN
         /\ IsLedger(m)
         /\ m.of[a].report = r /\ m.of[a].noted = TRUE
         /\ m.of[a].processed \subseteq mem.of[a].processed \union (r.processed \intersect delivered[a])
         /\ \A b \in Agent : b # a => m.of[b] = mem.of[b]
<1>. DEFINE told == mem.of[a].summaries \union (r.summaries \intersect delivered[a])
            cited == UNION {{c.ev : c \in r.findings[k].cites} : k \in DOMAIN r.findings}
            done == r.processed \intersect delivered[a] \intersect (told \union cited)
            h == [report |-> r, noted |-> TRUE, summaries |-> told, processed |-> mem.of[a].processed \union done]
            m == Recorded(a, r)
            g == [mem.of EXCEPT ![a] = h]
<1>1. mem = [models |-> mem.models, tools |-> mem.tools, evidence |-> mem.evidence, of |-> mem.of]
      /\ mem.of \in [Agent -> Holds]
  BY DEF IsLedger
<1>2. r.processed \subseteq Nat /\ r.summaries \subseteq Nat
  BY DEF Report
<1>3. mem.of[a] \in Holds
  BY <1>1
<1>4. told \subseteq Nat
  BY <1>2, <1>3 DEF Holds
<1>. HIDE DEF told, cited
<1>5. done \subseteq r.processed \intersect delivered[a] /\ done \subseteq Nat
  BY <1>2
<1>6. m = [mem EXCEPT !.of[a] = h]
  BY DEF Recorded, told, cited
<1>. HIDE DEF done
<1>7. h \in Holds /\ h.report = r /\ h.noted = TRUE /\ h.processed = mem.of[a].processed \union done
  BY <1>3, <1>4, <1>5 DEF Holds
<1>. HIDE DEF h
<1>8. m = [mem EXCEPT !.of = g]
  BY <1>1, <1>6
<1>9. g \in [Agent -> Holds] /\ g[a] = h /\ \A b \in Agent : b # a => g[b] = mem.of[b]
  BY <1>1, <1>7
<1>. HIDE DEF g, m
<1>10. /\ m = [models |-> m.models, tools |-> m.tools, evidence |-> m.evidence, of |-> m.of]
       /\ m.evidence = mem.evidence /\ m.of = g
  BY <1>1, <1>8
<1>11. IsLedger(m)
  BY <1>9, <1>10 DEF IsLedger
<1>12. QED
  BY <1>5, <1>7, <1>9, <1>10, <1>11 DEF m

LEMMA LastIs ==
  ASSUME NEW T, NEW s \in Seq(T), s # <<>>
  PROVE  Last(s) \in T /\ Last(s) \in ToSet(s)
<1>1. Len(s) \in 1 .. Len(s)
  BY EmptySeq, LenProperties
<1>2. Last(s) = s[Len(s)]
  BY DEF Last
<1>3. QED
  BY <1>1, <1>2 DEF ToSet

LEMMA MessageIs ==
  ASSUME NEW kind \in {"user", "answer", "result"}, NEW note \in Noting, NEW calls \in Nat, NEW ev \in Nat
  PROVE  Message(kind, note, calls, ev, "whole") \in Saying
BY DEF Message, Saying

LEMMA NoNoteIs == NoNote \in Noting
BY NoReportIs DEF NoNote, Note, Noting

LEMMA GoalIs == <<Goal>> \in Seq(Saying) /\ Goal.ev = 0
<1>1. Goal \in Saying
  BY MessageIs, NoNoteIs DEF Goal
<1>2. QED
  BY <1>1 DEF Goal, Message

LEMMA NewCallIs ==
  ASSUME NEW c \in Call
  PROVE  NewCall(c) \in Entry
BY DEF NewCall, Entry, Phase

LEMMA BatchesAre ==
  ASSUME task \in Tasks, NEW a, NEW cs \in Batches(a)
  PROVE  /\ cs \in Seq(Call) /\ Len(cs) \in Nat /\ DOMAIN cs = 1 .. Len(cs)
         /\ \A i \in DOMAIN cs : cs[i].tool = "spawn" => a = Root /\ pc[cs[i].agent] = "off"
<1>. DEFINE open == {c \in task.menu : c.tool = "spawn" => a = Root /\ pc[c.agent] = "off"}
<1>1. open \subseteq Call
  BY TasksAssumption
<1>2. cs \in {<<c>> : c \in open} \/ cs \in {<<c, d>> : c, d \in open} \/ cs = <<>>
  BY DEF Batches
<1>3. cs \in Seq(open)
  <2>. HIDE DEF open
  <2>1. CASE cs = <<>>
    BY <2>1
  <2>2. CASE cs \in {<<c>> : c \in open}
    <3>1. PICK c \in open : cs = <<c>>
      BY <2>2
    <3>2. QED
      BY <3>1
  <2>3. CASE cs \in {<<c, d>> : c, d \in open}
    <3>1. PICK c \in open, d \in open : cs = <<c, d>>
      BY <2>3
    <3>2. QED
      BY <3>1
  <2>4. QED
    BY <1>2, <2>1, <2>2, <2>3
<1>4. \A c \in open : c.tool = "spawn" => a = Root /\ pc[c.agent] = "off"
  OBVIOUS
<1>. HIDE DEF open
<1>5. cs \in Seq(Call)
  BY <1>1, <1>3, SeqMonotonic
<1>6. \A i \in DOMAIN cs : cs[i] \in open
  BY <1>3
<1>7. QED
  BY <1>4, <1>5, <1>6

LEMMA PcIs ==
  ASSUME Each(pc), NEW a \in Agent, NEW where, Goto(a, where)
  PROVE  Each(pc') /\ pc'[a] = where /\ \A b \in Agent : b # a => pc'[b] = pc[b]
<1>1. DOMAIN pc = Agent
  BY DEF Each
<1>2. pc' = [pc EXCEPT ![a] = where]
  BY DEF Goto
<1>3. pc'[a] = where /\ \A b \in Agent : b # a => pc'[b] = pc[b]
  BY <1>1, <1>2
<1>4. Each(pc')
  BY <1>1, <1>2 DEF Each
<1>5. QED
  BY <1>3, <1>4

LEMMA StartTypes == Init => Types
<1>1. SUFFICES ASSUME Init PROVE Types
  OBVIOUS
<1>2. IsLedger(mem) /\ IsLedger(durable)
  <2>. DEFINE of0 == [a \in Agent |-> NoNotes]
  <2>1. NoNotes \in Holds
    BY NoReportIs DEF NoNotes, Holds
  <2>2. of0 \in [Agent -> Holds]
    BY <2>1
  <2>3. mem = [models |-> 0, tools |-> 0, evidence |-> <<>>, of |-> of0] /\ durable = mem
    BY <1>1 DEF Init
  <2>. HIDE DEF of0
  <2>4. mem.evidence = <<>> /\ mem.of = of0 /\ mem.models = 0 /\ mem.tools = 0
    BY <2>3
  <2>5. DOMAIN <<>> = {} /\ IsFiniteSet({})
    BY FS_EmptySet
  <2>6. QED
    BY <2>2, <2>3, <2>4, <2>5 DEF IsLedger
<1>3. /\ Each(pc) /\ Each(request) /\ Each(delivered) /\ Each(exposed) /\ Each(accepted) /\ Each(judged)
      /\ \A a \in Agent : pc[a] = "off"
  BY <1>1 DEF Init, Each
<1>4. session \in [Agent -> Seq(Saying)] /\ batch \in [Agent -> Seq(Entry)]
  <2>1. <<>> \in Seq(Saying) /\ <<>> \in Seq(Entry)
    OBVIOUS
  <2>2. QED
    BY <1>1, <2>1 DEF Init
<1>5. version \in [File -> Nat] /\ \A f \in File : version[f] < Len(Contents[f])
  <2>1. ASSUME NEW f \in File PROVE 0 < Len(Contents[f])
    <3>1. Contents[f] \in Seq(Seq(Byte)) /\ Contents[f] # <<>>
      BY ContentsAssumption
    <3>2. QED
      BY <3>1, EmptySeq, LenProperties
  <2>2. QED
    BY <1>1, <2>1 DEF Init
<1>6. task \in Tasks /\ next \in Nat
  BY <1>1 DEF Init
<1>7. QED
  BY <1>2, <1>3, <1>4, <1>5, <1>6 DEF Types

Reads ==
    /\ IsFiniteSet(sources) /\ (next = 0 => sources = {})
    /\ AtHand(sources) /\ \A e \in sources : e.id <= next

\* The report a note comes to.
Proposed(a) ==
    LET answer == Last(session[a]) IN
    IF mem.of[a].noted /\ answer.calls # 0
    THEN mergeAnalysisReports(mem.of[a].report, answer.note.report) ELSE answer.note.report

LEMMA UsableIs ==
  ASSUME Reads, NEW a, NEW needed
  PROVE  AtHand(Usable(a, needed)) /\ Usable(a, needed) \subseteq sources
<1>1. Usable(a, needed) \subseteq sources
  BY DEF Usable
<1>2. QED
  BY <1>1 DEF Reads, AtHand

LEMMA AcceptIs ==
  ASSUME Types, Reads, NEW a \in Agent, Accept(a)
  PROVE  LET m == Last(session[a])
             p == Proposed(a)
             r == Checked(a, p)
         IN /\ m \in Saying /\ m \in ToSet(session[a])
            /\ p \in Report /\ p.processed = m.note.report.processed
            /\ \A id \in IdsOf(m.note.report) : Told(p, id)
            /\ mem.of[a].noted /\ m.calls # 0 => \A id : Told(mem.of[a].report, id) => Told(p, id)
            /\ \/ UNCHANGED <<mem, durable, accepted, judged>>
               \/ /\ Validated(r, p, Usable(a, TRUE)) /\ \A k \in DOMAIN r.findings : InScope(a, r.findings[k])
                  /\ mem' = Recorded(a, r) /\ IsLedger(mem') /\ IsLedger(durable')
                  /\ judged' = [judged EXCEPT ![a] = version]
                  /\ \/ accepted' = accepted
                     \/ accepted' = [accepted EXCEPT ![a] = @ \union {m.note}]
<1>. DEFINE m == Last(session[a])
            note == m.note
            old == mem.of[a]
            p == Proposed(a)
            r == Checked(a, p)
<1>1. m \in Saying /\ m \in ToSet(session[a])
  <2>1. session[a] \in Seq(Saying) /\ session[a] # <<>>
    BY DEF Types, Accept
  <2>2. QED
    BY <2>1, LastIs
<1>2. note.report \in Report /\ old.report \in Report
  <2>1. note \in Noting
    BY <1>1 DEF Saying
  <2>2. old \in Holds
    BY DEF Types, IsLedger
  <2>3. QED
    BY <2>1, <2>2 DEF Noting, Holds
<1>3. p = IF old.noted /\ m.calls # 0 THEN mergeAnalysisReports(old.report, note.report) ELSE note.report
  BY DEF Proposed
<1>. HIDE DEF m
<1>4. /\ p \in Report /\ p.processed = note.report.processed
      /\ \A id \in IdsOf(note.report) : Told(p, id)
      /\ old.noted /\ m.calls # 0 => \A id : Told(old.report, id) => Told(p, id)
  <2>1. CASE old.noted /\ m.calls # 0
    <3>1. p = mergeAnalysisReports(old.report, note.report)
      BY <1>3, <2>1
    <3>. HIDE DEF p
    <3>2. QED
      BY <1>2, <3>1, MergeIs
  <2>2. CASE ~ (old.noted /\ m.calls # 0)
    BY <1>2, <1>3, <2>2 DEF Told
  <2>3. QED
    BY <2>1, <2>2
<1>5. \/ UNCHANGED <<mem, durable, accepted, judged>>
      \/ /\ checkAnalysisStructure(p) /\ Record(Recorded(a, r))
         /\ judged' = [judged EXCEPT ![a] = version]
         /\ \/ accepted' = accepted
            \/ accepted' = [accepted EXCEPT ![a] = @ \union {note}]
  <2>1. p = IF old.noted /\ ~ (m.calls = 0) THEN mergeAnalysisReports(old.report, note.report) ELSE note.report
    BY <1>3
  <2>. HIDE DEF p
  <2>2. QED
    BY <2>1 DEF Accept, ledger, m
<1>6. CASE /\ checkAnalysisStructure(p) /\ Record(Recorded(a, r))
           /\ judged' = [judged EXCEPT ![a] = version]
           /\ \/ accepted' = accepted
              \/ accepted' = [accepted EXCEPT ![a] = @ \union {note}]
  <2>1. Unique(p)
    BY <1>4, <1>6, UniqueIs DEF checkAnalysisStructure
  <2>2. Validated(r, p, Usable(a, TRUE)) /\ \A k \in DOMAIN r.findings : InScope(a, r.findings[k])
    <3>. HIDE DEF p
    <3>1. QED
      BY <1>4, <2>1, UsableIs, CheckedIs
  <2>. HIDE DEF r, p
  <2>3. r \in Report
    BY <2>2 DEF Validated
  <2>4. IsLedger(mem) /\ IsLedger(durable)
    BY DEF Types
  <2>5. mem' = Recorded(a, r) /\ IsLedger(mem') /\ IsLedger(durable')
    BY <1>6, <2>3, <2>4, RecordIs, RecordedIs
  <2>6. QED
    BY <1>1, <1>4, <1>6, <2>2, <2>5 DEF m, p, r
<1>7. QED
  <2>. HIDE DEF r, p
  <2>1. CASE UNCHANGED <<mem, durable, accepted, judged>>
    BY <1>1, <1>4, <2>1 DEF m, p, r
  <2>2. QED
    BY <1>5, <1>6, <2>1

LEMMA StepTypes == Types /\ Reads /\ [Next]_vars => Types'
<1>1. SUFFICES ASSUME Types, Reads, [Next]_vars PROVE Types'
  OBVIOUS
<1>2. /\ task \in Tasks /\ IsLedger(mem) /\ IsLedger(durable) /\ next \in Nat
      /\ Each(pc) /\ Each(request) /\ Each(delivered) /\ Each(exposed) /\ Each(accepted) /\ Each(judged)
      /\ session \in [Agent -> Seq(Saying)] /\ batch \in [Agent -> Seq(Entry)]
      /\ \A a \in Agent : pc[a] = "note" => session[a] # <<>>
      /\ version \in [File -> Nat] /\ \A f \in File : version[f] < Len(Contents[f])
  BY <1>1 DEF Types
<1>3. CASE Open
  <2>1. /\ mem' = [durable EXCEPT !.of = [a \in Agent |-> NoNotes]] /\ durable' = mem'
        /\ next' = 0 /\ task' = task /\ version' = version
        /\ pc' = [a \in Agent |-> IF a = Root THEN "turn" ELSE "off"]
        /\ session' = [a \in Agent |-> IF a = Root THEN <<Goal>> ELSE <<>>]
        /\ request' = [a \in Agent |-> NoRequest] /\ batch' = [a \in Agent |-> <<>>]
        /\ delivered' = [a \in Agent |-> {}] /\ accepted' = delivered' /\ exposed' = delivered'
        /\ judged' = [a \in Agent |-> version]
    BY <1>3 DEF Open, world
  <2>2. IsLedger(mem') /\ IsLedger(durable')
    <3>. DEFINE of0 == [a \in Agent |-> NoNotes]
    <3>1. NoNotes \in Holds
      BY NoReportIs DEF NoNotes, Holds
    <3>2. of0 \in [Agent -> Holds]
      BY <3>1
    <3>3. mem' = [durable EXCEPT !.of = of0]
      BY <2>1
    <3>. HIDE DEF of0
    <3>4. durable = [models |-> durable.models, tools |-> durable.tools, evidence |-> durable.evidence, of |-> durable.of]
      BY <1>2 DEF IsLedger
    <3>5. /\ mem' = [models |-> mem'.models, tools |-> mem'.tools, evidence |-> mem'.evidence, of |-> mem'.of]
          /\ mem'.of = of0 /\ mem'.evidence = durable.evidence
      BY <3>3, <3>4
    <3>6. IsLedger(mem')
      BY <1>2, <3>2, <3>5 DEF IsLedger
    <3>7. QED
      BY <2>1, <3>6
  <2>3. session' \in [Agent -> Seq(Saying)] /\ batch' \in [Agent -> Seq(Entry)]
    <3>1. <<>> \in Seq(Saying) /\ <<>> \in Seq(Entry)
      OBVIOUS
    <3>2. QED
      BY <2>1, <3>1, GoalIs
  <2>4. Each(pc') /\ Each(request') /\ Each(delivered') /\ Each(exposed') /\ Each(accepted') /\ Each(judged')
    BY <2>1 DEF Each
  <2>5. \A a \in Agent : pc'[a] # "note"
    BY <2>1
  <2>6. QED
    BY <1>2, <2>1, <2>2, <2>3, <2>4, <2>5 DEF Types
<1>4. CASE Leave
  <2>1. pc' = [a \in Agent |-> "off"] /\ UNCHANGED <<task, ledger, runtime, session, request, batch, world, past>>
    BY <1>4 DEF Leave
  <2>2. Each(pc') /\ \A a \in Agent : pc'[a] # "note"
    BY <2>1 DEF Each
  <2>3. QED
    BY <1>2, <2>1, <2>2 DEF Types, ledger, runtime, world, past
<1>5. CASE Edit
  <2>1. PICK c \in task.menu : /\ c.tool = "read" /\ version[c.file] + 1 < Len(Contents[c.file])
                               /\ version' = [version EXCEPT ![c.file] = @ + 1]
    BY <1>5 DEF Edit
  <2>2. c.file \in File
    BY <1>2, <2>1, TasksAssumption DEF Call
  <2>3. version' \in [File -> Nat] /\ \A f \in File : version'[f] < Len(Contents[f])
    BY <1>2, <2>1, <2>2
  <2>4. QED
    BY <1>2, <1>5, <2>3 DEF Edit, Types, ledger, runtime, talk, past
<1>6. ASSUME NEW a \in Agent, Ask(a) PROVE Types'
  <2>1. /\ UNCHANGED <<task, runtime, session, batch, world, past>>
        /\ \E where : where # "note" /\ Goto(a, where)
    BY <1>6 DEF Ask, End
  <2>2. Each(pc') /\ \A b \in Agent : pc'[b] = "note" => pc[b] = "note"
    BY <1>2, <2>1, PcIs
  <2>3. IsLedger(mem') /\ IsLedger(durable') /\ Each(request')
    <3>1. CASE UNCHANGED <<ledger, request>>
      BY <1>2, <3>1 DEF ledger
    <3>2. CASE /\ Record(Charged("model"))
               /\ request' = [request EXCEPT ![a] = prepareAnalysisRequest(a)]
      BY <1>2, <3>2, RecordIs, ChargedIs, EachIs
    <3>3. QED
      BY <1>6, <3>1, <3>2 DEF Ask
  <2>4. QED
    BY <1>2, <2>1, <2>2, <2>3 DEF Types, runtime, world, past
<1>7. ASSUME NEW a \in Agent, Fail(a) PROVE Types'
  <2>1. /\ UNCHANGED <<task, ledger, runtime, session, request, batch, world, past>>
        /\ \E where : where # "note" /\ Goto(a, where)
    BY <1>7 DEF Fail, End
  <2>2. Each(pc') /\ \A b \in Agent : pc'[b] = "note" => pc[b] = "note"
    BY <1>2, <2>1, PcIs
  <2>3. QED
    BY <1>2, <2>1, <2>2 DEF Types, runtime, world, past, ledger
<1>8. ASSUME NEW a \in Agent, Answer(a) PROVE Types'
  <2>1. /\ delivered' = [delivered EXCEPT ![a] = @ \union request[a].delivered]
        /\ exposed' = [exposed EXCEPT ![a] = Whole(request[a])]
        /\ Goto(a, "note")
        /\ UNCHANGED <<task, ledger, next, accepted, request, world, judged>>
    BY <1>8 DEF Answer
  <2>2. PICK note \in task.notes \union {NoNote}, calls \in Batches(a) :
           /\ batch' = [batch EXCEPT ![a] = [i \in DOMAIN calls |-> NewCall(calls[i])]]
           /\ session' = [session EXCEPT ![a] = Append(@, Message("answer", note, Len(calls), 0, "whole"))]
    BY <1>8 DEF Answer
  <2>3. note \in Noting
    BY <1>2, <2>2, NoNoteIs, TasksAssumption DEF Noting
  <2>4. calls \in Seq(Call) /\ Len(calls) \in Nat /\ DOMAIN calls = 1 .. Len(calls)
    BY <1>2, BatchesAre
  <2>. DEFINE m == Message("answer", note, Len(calls), 0, "whole")
              es == [i \in DOMAIN calls |-> NewCall(calls[i])]
  <2>5. m \in Saying
    BY <2>3, <2>4, MessageIs
  <2>6. es \in Seq(Entry)
    <3>1. \A i \in DOMAIN calls : NewCall(calls[i]) \in Entry
      BY <2>4, NewCallIs
    <3>2. es \in [1 .. Len(calls) -> Entry]
      BY <2>4, <3>1
    <3>. HIDE DEF es
    <3>3. QED
      BY <2>4, <3>2, SeqDef
  <2>. HIDE DEF m, es
  <2>7. session[a] \in Seq(Saying)
    BY <1>2
  <2>8. Append(session[a], m) \in Seq(Saying) /\ Append(session[a], m) # <<>>
    BY <2>5, <2>7, AppendProperties, EmptySeq
  <2>9. /\ session' \in [Agent -> Seq(Saying)] /\ batch' \in [Agent -> Seq(Entry)]
        /\ session'[a] # <<>> /\ \A b \in Agent : b # a => session'[b] = session[b]
    BY <1>2, <2>2, <2>6, <2>8 DEF m, es
  <2>10. Each(pc') /\ \A b \in Agent : b # a => pc'[b] = pc[b]
    BY <1>2, <2>1, PcIs
  <2>11. Each(delivered') /\ Each(exposed')
    BY <1>2, <2>1, EachIs
  <2>12. QED
    BY <1>2, <2>1, <2>9, <2>10, <2>11 DEF Types, ledger, world
<1>9. ASSUME NEW a \in Agent, Accept(a) PROVE Types'
  <2>1. /\ UNCHANGED <<task, next, delivered, exposed, session, request, batch, world>>
        /\ \E where : where # "note" /\ Goto(a, where)
    BY <1>9 DEF Accept, End
  <2>2. Each(pc') /\ \A b \in Agent : pc'[b] = "note" => pc[b] = "note"
    BY <1>2, <2>1, PcIs
  <2>3. IsLedger(mem') /\ IsLedger(durable') /\ Each(accepted') /\ Each(judged')
    <3>1. CASE UNCHANGED <<mem, durable, accepted, judged>>
      BY <1>2, <3>1
    <3>2. CASE /\ IsLedger(mem') /\ IsLedger(durable')
               /\ judged' = [judged EXCEPT ![a] = version]
               /\ \/ accepted' = accepted
                  \/ accepted' = [accepted EXCEPT ![a] = @ \union {Last(session[a]).note}]
      <4>1. Each(judged')
        BY <1>2, <3>2, EachIs
      <4>2. Each([accepted EXCEPT ![a] = @ \union {Last(session[a]).note}])
        BY <1>2, EachIs
      <4>3. Each(accepted')
        BY <1>2, <3>2, <4>2
      <4>4. QED
        BY <3>2, <4>1, <4>3
    <3>3. QED
      BY <1>1, <1>9, <3>1, <3>2, AcceptIs
  <2>4. QED
    BY <1>2, <2>1, <2>2, <2>3 DEF Types, world
<1>10. ASSUME NEW a \in Agent, NEW i \in DOMAIN batch[a], Try(a, i) PROVE Types'
  <2>1. UNCHANGED <<task, runtime, pc, session, request, world, past>>
    BY <1>10 DEF Try, Phase
  <2>2. \E x \in Entry : Step(a, i, x)
    <3>1. batch[a][i] \in Entry
      BY <1>2
    <3>2. PICK step \in Phase : Step(a, i, [batch[a][i] EXCEPT !.step = step])
      BY <1>10 DEF Try, Phase
    <3>3. [batch[a][i] EXCEPT !.step = step] \in Entry
      BY <3>1 DEF Entry
    <3>4. QED
      BY <3>2, <3>3
  <2>3. batch' \in [Agent -> Seq(Entry)]
    BY <1>2, <2>2, StepIs
  <2>4. IsLedger(mem') /\ IsLedger(durable')
    <3>1. CASE UNCHANGED ledger
      BY <1>2, <3>1 DEF ledger
    <3>2. CASE Record(Charged("tool"))
      BY <1>2, <3>2, RecordIs, ChargedIs
    <3>3. QED
      BY <1>10, <3>1, <3>2 DEF Try, Phase
  <2>5. QED
    BY <1>2, <2>1, <2>3, <2>4 DEF Types, runtime, world, past
<1>11. ASSUME NEW a \in Agent, NEW i \in DOMAIN batch[a], Capture(a, i) PROVE Types'
  <2>. DEFINE n == (IF next = 0 THEN Cardinality(DOMAIN mem.evidence) ELSE next) + 1
  <2>1. UNCHANGED <<task, mem, durable, delivered, accepted, exposed, pc, session, request, world, past>>
    BY <1>11 DEF Capture
  <2>2. n \in Nat
    <3>1. Cardinality(DOMAIN mem.evidence) \in Nat
      BY <1>2, FS_CardinalityType DEF IsLedger
    <3>2. QED
      BY <1>2, <3>1
  <2>. HIDE DEF n
  <2>3. next' \in Nat /\ \E x \in Entry : Step(a, i, x)
    <3>1. batch[a][i] \in Entry
      BY <1>2
    <3>2. /\ next' = next \/ next' = n
          /\ \/ \E step \in Phase : Step(a, i, [batch[a][i] EXCEPT !.step = step])
             \/ Step(a, i, [batch[a][i] EXCEPT !.step = "captured", !.ev = n])
      BY <1>11 DEF Capture, n, Phase
    <3>3. \A step \in Phase : [batch[a][i] EXCEPT !.step = step] \in Entry
      BY <3>1 DEF Entry
    <3>4. [batch[a][i] EXCEPT !.step = "captured", !.ev = n] \in Entry
      BY <2>2, <3>1 DEF Entry, Phase
    <3>5. QED
      BY <1>2, <2>2, <3>2, <3>3, <3>4
  <2>4. batch' \in [Agent -> Seq(Entry)]
    BY <1>2, <2>3, StepIs
  <2>5. QED
    BY <1>2, <2>1, <2>3, <2>4 DEF Types, world, past
<1>12. ASSUME NEW a \in Agent, NEW i \in DOMAIN batch[a], Keep(a, i) PROVE Types'
  <2>1. UNCHANGED <<task, runtime, pc, session, request, world, past>>
    BY <1>12 DEF Keep
  <2>2. \E x \in Entry : Step(a, i, x)
    <3>1. batch[a][i] \in Entry
      BY <1>2
    <3>2. PICK step \in Phase : Step(a, i, [batch[a][i] EXCEPT !.step = step])
      BY <1>12 DEF Keep, Phase
    <3>3. [batch[a][i] EXCEPT !.step = step] \in Entry
      BY <3>1 DEF Entry
    <3>4. QED
      BY <3>2, <3>3
  <2>3. batch' \in [Agent -> Seq(Entry)]
    BY <1>2, <2>2, StepIs
  <2>4. IsLedger(mem') /\ IsLedger(durable')
    <3>1. CASE UNCHANGED ledger
      BY <1>2, <3>1 DEF ledger
    <3>2. ASSUME NEW s, s = mem \/ s = Kept(batch[a][i].ev, CHOOSE e \in sources : e.id = batch[a][i].ev),
                 Record(s)
          PROVE  IsLedger(mem') /\ IsLedger(durable')
      BY <1>2, <3>2, RecordIs, KeptIs
    <3>3. QED
      BY <1>12, <3>1, <3>2 DEF Keep
  <2>5. QED
    BY <1>2, <2>1, <2>3, <2>4 DEF Types, runtime, world, past
<1>13. ASSUME NEW i \in DOMAIN batch[Root], Spawn(i) PROVE Types'
  <2>. DEFINE x == batch[Root][i]
              b == x.call.agent
  <2>0. Root \in Agent
    BY DEF Agent
  <2>1. x \in Entry /\ x.call.tool = "spawn"
    BY <1>2, <1>13, <2>0 DEF Spawn
  <2>2. b \in Agent
    BY <2>1 DEF Entry, Call, Agent
  <2>3. /\ Goto(b, "turn") /\ session' = [session EXCEPT ![b] = <<Goal>>]
        /\ Step(Root, i, [x EXCEPT !.step = "running"])
        /\ UNCHANGED <<task, ledger, runtime, request, world, past>>
    BY <1>13 DEF Spawn
  <2>4. [x EXCEPT !.step = "running"] \in Entry
    BY <2>1 DEF Entry, Phase
  <2>5. batch' \in [Agent -> Seq(Entry)]
    BY <1>2, <2>0, <2>3, <2>4, StepIs
  <2>. HIDE DEF b, x
  <2>6. /\ Each(pc') /\ session' \in [Agent -> Seq(Saying)]
        /\ \A c \in Agent : pc'[c] = "note" => pc[c] = "note" /\ session'[c] = session[c]
    BY <1>2, <2>2, <2>3, PcIs, GoalIs
  <2>7. QED
    BY <1>2, <2>3, <2>5, <2>6 DEF Types, ledger, runtime, world, past
<1>14. ASSUME NEW i \in DOMAIN batch[Root], Return(i) PROVE Types'
  <2>. DEFINE x == batch[Root][i]
  <2>0. Root \in Agent
    BY DEF Agent
  <2>1. x \in Entry
    BY <1>2, <2>0
  <2>2. /\ UNCHANGED <<task, runtime, pc, session, request, world, past>>
        /\ Record(mem) \/ UNCHANGED ledger
        /\ \E step \in Phase : Step(Root, i, [x EXCEPT !.step = step])
    BY <1>14 DEF Return, Phase
  <2>3. \A step \in Phase : [x EXCEPT !.step = step] \in Entry
    BY <2>1 DEF Entry
  <2>4. batch' \in [Agent -> Seq(Entry)]
    BY <1>2, <2>0, <2>2, <2>3, StepIs
  <2>5. IsLedger(mem') /\ IsLedger(durable')
    <3>1. CASE UNCHANGED ledger
      BY <1>2, <3>1 DEF ledger
    <3>2. CASE Record(mem)
      BY <1>2, <3>2, RecordIs
    <3>3. QED
      BY <2>2, <3>1, <3>2
  <2>6. QED
    BY <1>2, <2>2, <2>4, <2>5 DEF Types, runtime, world, past
<1>15. ASSUME NEW a \in Agent, EndBatch(a) PROVE Types'
  <2>. DEFINE b == batch[a]
              ms == [i \in DOMAIN b |-> Message("result", NoNote, 0, b[i].ev, "whole")]
  <2>1. /\ UNCHANGED <<task, ledger, runtime, request, world, past>>
        /\ \E where : where # "note" /\ Goto(a, where)
        /\ session' = [session EXCEPT ![a] = @ \o ms]
        /\ batch' = [batch EXCEPT ![a] = <<>>]
    BY <1>15 DEF EndBatch, End
  <2>2. b \in Seq(Entry) /\ DOMAIN b = 1 .. Len(b) /\ Len(b) \in Nat
    BY <1>2
  <2>3. ms \in Seq(Saying)
    <3>1. ASSUME NEW i \in DOMAIN b PROVE Message("result", NoNote, 0, b[i].ev, "whole") \in Saying
      <4>1. b[i].ev \in Nat
        <5>1. b[i] \in Entry
          BY <2>2
        <5>2. QED
          BY <5>1 DEF Entry
      <4>2. QED
        BY <4>1, NoNoteIs, MessageIs
    <3>2. ms \in [1 .. Len(b) -> Saying]
      BY <2>2, <3>1
    <3>. HIDE DEF ms
    <3>3. QED
      BY <2>2, <3>2, SeqDef
  <2>. HIDE DEF ms
  <2>4. session[a] \o ms \in Seq(Saying)
    BY <1>2, <2>3, ConcatProperties
  <2>5. session' \in [Agent -> Seq(Saying)] /\ \A c \in Agent : c # a => session'[c] = session[c]
    BY <1>2, <2>1, <2>4
  <2>6. batch' \in [Agent -> Seq(Entry)]
    <3>1. <<>> \in Seq(Entry)
      OBVIOUS
    <3>2. QED
      BY <1>2, <2>1, <3>1
  <2>7. Each(pc') /\ \A c \in Agent : pc'[c] = "note" => c # a /\ pc[c] = "note"
    BY <1>2, <2>1, PcIs
  <2>8. QED
    BY <1>2, <2>1, <2>5, <2>6, <2>7 DEF Types, ledger, runtime, world, past
<1>16. CASE UNCHANGED vars
  BY <1>2, <1>16 DEF vars, ledger, runtime, talk, world, past, Types
<1>17. QED
  BY <1>1, <1>3, <1>4, <1>5, <1>6, <1>7, <1>8, <1>9, <1>10, <1>11, <1>12, <1>13, <1>14, <1>15, <1>16 DEF Next
-----------------------------------------------------------------------------
(* The reads of a run, and what a note may cite.                           *)

LEMMA StepReads == Types /\ Reads /\ [Next]_vars => Reads'
<1>1. SUFFICES ASSUME Types, Reads, [Next]_vars PROVE Reads'
  OBVIOUS
<1>2. CASE UNCHANGED <<sources, next>>
  BY <1>1, <1>2 DEF Reads
<1>3. CASE Open
  <2>1. sources' = {} /\ next' = 0
    BY <1>3 DEF Open
  <2>2. IsFiniteSet({})
    BY FS_EmptySet
  <2>3. QED
    BY <2>1, <2>2 DEF Reads, AtHand
<1>4. ASSUME NEW a \in Agent, NEW i \in DOMAIN batch[a], Capture(a, i), ~ UNCHANGED <<sources, next>>
      PROVE  Reads'
  <2>. DEFINE c == batch[a][i].call
              n == (IF next = 0 THEN Cardinality(DOMAIN mem.evidence) ELSE next) + 1
              r == executeReadSource(Content(c.file), c.q)
              e == [id |-> n, agent |-> a, file |-> c.file, version |-> version[c.file], q |-> c.q,
                    read |-> r, source |-> Slice(Content(c.file), r.from, r.to), run |-> runs]
  <2>1. c.tool = "read" /\ r.ok /\ next' = n /\ sources' = sources \union {e}
    BY <1>4 DEF Capture
  <2>2. c \in Call
    <3>1. batch[a][i] \in Entry
      BY <1>1 DEF Types
    <3>2. QED
      BY <3>1 DEF Entry
  <2>3. c.file \in File /\ c.q \in Request
    BY <2>1, <2>2 DEF Call
  <2>4. n \in Nat \ {0} /\ \A d \in sources : d.id < n
    <3>1. Cardinality(DOMAIN mem.evidence) \in Nat
      BY <1>1, FS_CardinalityType DEF Types, IsLedger
    <3>2. next \in Nat
      BY <1>1 DEF Types
    <3>3. \A d \in sources : d.id \in Nat /\ d.id <= next /\ next # 0
      BY <1>1 DEF Reads, AtHand, IsRead
    <3>4. QED
      BY <3>1, <3>2, <3>3
  <2>. HIDE DEF n
  <2>5. version[c.file] \in Nat /\ version[c.file] < Len(Contents[c.file])
    BY <1>1, <2>3 DEF Types
  <2>6. Content(c.file) = Contents[c.file][version[c.file] + 1]
    BY DEF Content
  <2>. HIDE DEF c
  <2>7. IsRead(e)
    BY <2>1, <2>3, <2>4, <2>5, <2>6 DEF IsRead
  <2>8. e.id = n
    OBVIOUS
  <2>. HIDE DEF e
  <2>9. IsFiniteSet(sources')
    BY <1>1, <2>1, FS_AddElement DEF Reads
  <2>10. AtHand(sources')
    <3>1. \A d \in sources : d.id # n
      <4>1. \A d \in sources : d.id \in Nat
        BY <1>1 DEF Reads, AtHand, IsRead
      <4>2. QED
        BY <2>4, <4>1
    <3>2. QED
      BY <1>1, <2>1, <2>7, <2>8, <3>1 DEF Reads, AtHand
  <2>11. \A d \in sources' : d.id <= next'
    <3>1. \A d \in sources : d.id \in Nat
      BY <1>1 DEF Reads, AtHand, IsRead
    <3>2. QED
      BY <2>1, <2>4, <2>8, <3>1
  <2>12. next' # 0
    BY <2>1, <2>4
  <2>13. QED
    BY <2>9, <2>10, <2>11, <2>12 DEF Reads
<1>. DEFINE Still == UNCHANGED <<sources, next>>
<1>5. (vars' = vars \/ Leave \/ Edit) => Still
  BY DEF vars, runtime, Leave, Edit
<1>6. ASSUME NEW a \in Agent PROVE Ask(a) \/ Fail(a) \/ Answer(a) \/ Accept(a) \/ EndBatch(a) => Still
  BY DEF runtime, Ask, Fail, Answer, Accept, EndBatch
<1>7. ASSUME NEW a \in Agent, NEW i \in DOMAIN batch[a] PROVE Try(a, i) \/ Keep(a, i) => Still
  BY DEF runtime, Try, Keep
<1>8. ASSUME NEW i \in DOMAIN batch[Root] PROVE Spawn(i) \/ Return(i) => Still
  BY DEF runtime, Spawn, Return
<1>9. Still \/ Open \/ \E a \in Agent : \E i \in DOMAIN batch[a] : Capture(a, i)
  BY <1>1, <1>5, <1>6, <1>7, <1>8 DEF Next
<1>10. QED
  BY <1>2, <1>3, <1>4, <1>9

LEMMA EachDomain ==
  ASSUME NEW f, Each(f)
  PROVE  DOMAIN f = Agent
BY DEF Each

\* What counts as delivered stood whole in a request that was answered.
Had == \A a \in Agent : delivered[a] \subseteq seen /\ request[a].delivered \subseteq Whole(request[a])

EvsOf(ms) == {ms[i].ev : i \in DOMAIN ms}

LEMMA RequestIs ==
  ASSUME Reads, NEW a
  PROVE  LET req == prepareAnalysisRequest(a) IN req.delivered \subseteq Whole(req)
<1>. DEFINE req == prepareAnalysisRequest(a)
            valid == {e.id : e \in Usable(a, FALSE)}
            ev == {req.messages[i].ev : i \in {j \in DOMAIN req.messages : req.messages[j].form = "whole"}}
<1>1. req.delivered = ev \intersect valid
  BY DEF prepareAnalysisRequest
<1>2. 0 \notin valid
  BY UsableIs DEF AtHand, IsRead
<1>. HIDE DEF req, valid
<1>3. Whole(req) = ev \ {0}
  BY DEF Whole
<1>4. QED
  BY <1>1, <1>2, <1>3 DEF req

LEMMA StepHad == Types /\ Reads /\ Had /\ [Next]_vars => Had'
<1>1. SUFFICES ASSUME Types, Reads, Had, [Next]_vars PROVE Had'
  OBVIOUS
<1>2. CASE UNCHANGED <<delivered, request, seen>>
  BY <1>1, <1>2 DEF Had, Whole
<1>3. CASE Open
  BY <1>3 DEF Open, Had, NoRequest
<1>4. ASSUME NEW a \in Agent, Ask(a), ~ UNCHANGED request PROVE Had'
  <2>1. request' = [request EXCEPT ![a] = prepareAnalysisRequest(a)] /\ UNCHANGED <<delivered, seen>>
    BY <1>4 DEF Ask, runtime, past
  <2>2. request'[a] = prepareAnalysisRequest(a) /\ \A b \in Agent : b # a => request'[b] = request[b]
    <3>1. DOMAIN request = Agent
      BY <1>1, EachDomain DEF Types
    <3>2. QED
      BY <2>1, <3>1
  <2>3. request'[a].delivered \subseteq Whole(request'[a])
    BY <1>1, <2>2, RequestIs
  <2>4. ASSUME NEW b \in Agent PROVE delivered'[b] \subseteq seen' /\ request'[b].delivered \subseteq Whole(request'[b])
    <3>1. delivered'[b] \subseteq seen'
      BY <1>1, <2>1 DEF Had
    <3>2. CASE b = a
      BY <2>3, <3>1, <3>2
    <3>3. CASE b # a
      BY <1>1, <2>2, <3>1, <3>3 DEF Had
    <3>4. QED
      BY <3>2, <3>3
  <2>5. QED
    BY <2>4 DEF Had, Whole
<1>5. ASSUME NEW a \in Agent, Answer(a) PROVE Had'
  <2>1. /\ delivered' = [delivered EXCEPT ![a] = @ \union request[a].delivered]
        /\ seen' = seen \union Whole(request[a]) /\ request' = request
    BY <1>5 DEF Answer
  <2>2. DOMAIN delivered = Agent
    BY <1>1, EachDomain DEF Types
  <2>3. delivered'[a] = delivered[a] \union request[a].delivered /\ \A b \in Agent : b # a => delivered'[b] = delivered[b]
    BY <2>1, <2>2
  <2>4. \A b \in Agent : delivered'[b] \subseteq seen'
    BY <1>1, <2>1, <2>3 DEF Had
  <2>5. QED
    BY <1>1, <2>1, <2>4 DEF Had, Whole
<1>6. \/ UNCHANGED <<delivered, request, seen>> \/ Open
      \/ \E a \in Agent : Answer(a) \/ (Ask(a) /\ ~ UNCHANGED request)
  <2>1. ASSUME NEW a \in Agent, Ask(a) PROVE UNCHANGED <<delivered, seen>>
    BY <2>1 DEF Ask, runtime, past
  <2>2. ASSUME NEW a \in Agent, Fail(a) \/ Accept(a) \/ EndBatch(a) PROVE UNCHANGED <<delivered, request, seen>>
    BY <2>2 DEF Fail, Accept, EndBatch, runtime, past
  <2>3. ASSUME NEW a \in Agent, NEW i \in DOMAIN batch[a], Try(a, i) \/ Capture(a, i) \/ Keep(a, i)
        PROVE  UNCHANGED <<delivered, request, seen>>
    BY <2>3 DEF Try, Capture, Keep, runtime, past
  <2>4. ASSUME NEW i \in DOMAIN batch[Root], Spawn(i) \/ Return(i) PROVE UNCHANGED <<delivered, request, seen>>
    BY <2>4 DEF Spawn, Return, runtime, past
  <2>5. Leave \/ Edit \/ UNCHANGED vars => UNCHANGED <<delivered, request, seen>>
    BY DEF Leave, Edit, vars, runtime, past, talk
  <2>6. QED
    BY <1>1, <2>1, <2>2, <2>3, <2>4, <2>5 DEF Next
<1>7. QED
  BY <1>2, <1>3, <1>4, <1>5, <1>6

\* A file that is covered has been read byte by byte.
LEMMA CoveredIs ==
  ASSUME Types, Reads, NEW a, NEW f \in File, Covered(a, f)
  PROVE  \A b \in 0 .. Len(Content(f)) - 1 : \E x \in sources :
            x.file = f /\ x.version = version[f] /\ b \in x.read.from .. (x.read.to - 1)
<1>. DEFINE mine == {e \in sources : /\ e.file = f /\ e.version = version[f] /\ (e.agent = a \/ a = Root)
                                     /\ e.id \in DOMAIN mem.evidence /\ mem.evidence[e.id] = e}
            I == {[from |-> e.read.from, to |-> e.read.to] : e \in mine}
            total == Len(Content(f))
<1>1. Gaps(I, total).gaps = <<>>
  BY DEF Covered
<1>2. mine \subseteq sources /\ \A e \in mine : e.file = f /\ e.version = version[f]
  OBVIOUS
<1>. HIDE DEF mine
<1>3. IsFiniteSet(I)
  <2>1. IsFiniteSet(mine)
    BY <1>2, FS_Subset DEF Reads
  <2>. DEFINE g == [e \in mine |-> [from |-> e.read.from, to |-> e.read.to]]
  <2>2. g \in [mine -> I] /\ \A x \in I : \E e \in mine : g[e] = x
    OBVIOUS
  <2>. HIDE DEF g, I
  <2>3. g \in Surjection(mine, I)
    BY <2>2 DEF Surjection
  <2>4. QED
    BY <2>1, <2>3, FS_Surjection
<1>4. I \subseteq Spans
  <2>1. \A e \in mine : e.read.from \in Nat /\ e.read.to \in Nat
    BY <1>2, ReadHas DEF Reads, AtHand
  <2>2. QED
    BY <2>1 DEF Spans
<1>5. total \in Nat
  <2>1. version[f] \in Nat /\ version[f] < Len(Contents[f])
    BY DEF Types
  <2>2. Contents[f] \in Seq(Seq(Byte))
    BY ContentsAssumption
  <2>3. Content(f) \in Seq(Byte)
    BY <2>1, <2>2 DEF Content
  <2>4. QED
    BY <2>3
<1>. HIDE DEF total
<1>6. \A b \in 0 .. total - 1 : \E x \in I : b \in Within(x)
  <2>. HIDE DEF I
  <2>1. QED
    BY <1>1, <1>3, <1>4, <1>5, GapsCover
<1>7. ASSUME NEW b \in 0 .. total - 1
      PROVE  \E x \in sources : x.file = f /\ x.version = version[f] /\ b \in x.read.from .. (x.read.to - 1)
  <2>1. PICK x \in mine : b \in Within([from |-> x.read.from, to |-> x.read.to])
    BY <1>6
  <2>2. b \in x.read.from .. (x.read.to - 1)
    BY <2>1 DEF Within
  <2>3. QED
    BY <1>2, <2>1, <2>2
<1>8. QED
  BY <1>7 DEF total

\* What CitedIsSeen says of a finding of agent a's report.
Backed(a, r, f) ==
    /\ ToSet(f.deps) \subseteq IdsOf(r)
    /\ \A c \in f.cites : \E e \in sources :
          /\ e.id = c.ev /\ (e.agent = a \/ a = Root) /\ e.id \in seen
          /\ e.version = judged[a][e.file] /\ StandsAt(c, e)
          /\ f.scope = "file" =>
                \A b \in 0..(Len(Contents[e.file][e.version + 1]) - 1) :
                    \E x \in sources : /\ x.file = e.file /\ x.version = e.version
                                       /\ b \in x.read.from..(x.read.to - 1)

LEMMA CitedBacked ==
  CitedIsSeen <=> \A a \in Agent : \A k \in DOMAIN mem.of[a].report.findings :
                     Backed(a, mem.of[a].report, mem.of[a].report.findings[k])
BY DEF CitedIsSeen, Backed

LEMMA CitedStays ==
  ASSUME NEW a \in Agent, mem'.of[a].report = mem.of[a].report, judged'[a] = judged[a],
         sources \subseteq sources', seen \subseteq seen',
         \A k \in DOMAIN mem.of[a].report.findings : Backed(a, mem.of[a].report, mem.of[a].report.findings[k])
  PROVE  (\A k \in DOMAIN mem.of[a].report.findings : Backed(a, mem.of[a].report, mem.of[a].report.findings[k]))'
<1>. DEFINE r == mem.of[a].report
<1>1. SUFFICES ASSUME NEW k \in DOMAIN r.findings PROVE Backed(a, mem.of[a].report, mem.of[a].report.findings[k])'
  OBVIOUS
<1>. DEFINE f == r.findings[k]
<1>2. Backed(a, r, f)
  OBVIOUS
<1>3. PICK d, q : d = f /\ q = r
  OBVIOUS
<1>4. Backed(a, q, d) /\ mem'.of[a].report = q /\ mem'.of[a].report.findings[k] = d
  BY <1>2, <1>3
<1>. HIDE DEF r, f
<1>5. ToSet(d.deps) \subseteq IdsOf(q)
  BY <1>4 DEF Backed
<1>6. ASSUME NEW c \in d.cites
      PROVE  \E e \in sources' :
                /\ e.id = c.ev /\ (e.agent = a \/ a = Root) /\ e.id \in seen'
                /\ e.version = judged'[a][e.file] /\ StandsAt(c, e)
                /\ d.scope = "file" =>
                      \A b \in 0..(Len(Contents[e.file][e.version + 1]) - 1) :
                          \E x \in sources' : /\ x.file = e.file /\ x.version = e.version
                                              /\ b \in x.read.from..(x.read.to - 1)
  <2>1. PICK e \in sources :
          /\ e.id = c.ev /\ (e.agent = a \/ a = Root) /\ e.id \in seen
          /\ e.version = judged[a][e.file] /\ StandsAt(c, e)
          /\ d.scope = "file" =>
                \A b \in 0..(Len(Contents[e.file][e.version + 1]) - 1) :
                    \E x \in sources : /\ x.file = e.file /\ x.version = e.version
                                       /\ b \in x.read.from..(x.read.to - 1)
    BY <1>4 DEF Backed
  <2>2. e \in sources' /\ e.id \in seen' /\ e.version = judged'[a][e.file]
    BY <2>1
  <2>3. d.scope = "file" =>
           \A b \in 0..(Len(Contents[e.file][e.version + 1]) - 1) :
               \E x \in sources' : /\ x.file = e.file /\ x.version = e.version
                                   /\ b \in x.read.from..(x.read.to - 1)
    BY <2>1
  <2>4. QED
    BY <2>1, <2>2, <2>3
<1>7. Backed(a, q, d)'
  BY <1>5, <1>6 DEF Backed, StandsAt
<1>8. QED
  BY <1>4, <1>7

\* But for a new run and an accepted note, what is held of the agents stays,
\* and reads are only added.
LEMMA OfStays ==
  ASSUME Types, [Next]_vars, ~ Open, \A a \in Agent : ~ Accept(a)
  PROVE  /\ mem'.of = mem.of /\ judged' = judged /\ accepted' = accepted
         /\ sources \subseteq sources' /\ seen \subseteq seen'
<1>0. IsLedger(mem) /\ IsLedger(durable)
  BY DEF Types
<1>1. ASSUME NEW a \in Agent, Ask(a)
      PROVE  mem'.of = mem.of /\ UNCHANGED <<judged, accepted, sources, seen>>
  <2>1. UNCHANGED <<judged, accepted, sources, seen>> /\ (mem' = mem \/ Record(Charged("model")))
    BY <1>1 DEF Ask, runtime, past, ledger
  <2>2. QED
    BY <1>0, <2>1, RecordIs, ChargedIs
<1>2. ASSUME NEW a \in Agent, Fail(a) \/ EndBatch(a) PROVE UNCHANGED <<mem, judged, accepted, sources, seen>>
  BY <1>2 DEF Fail, EndBatch, runtime, past, ledger
<1>3. ASSUME NEW a \in Agent, Answer(a)
      PROVE  UNCHANGED <<mem, judged, accepted, sources>> /\ seen \subseteq seen'
  BY <1>3 DEF Answer, ledger
<1>4. ASSUME NEW a \in Agent, NEW i \in DOMAIN batch[a], Try(a, i)
      PROVE  mem'.of = mem.of /\ UNCHANGED <<judged, accepted, sources, seen>>
  <2>1. UNCHANGED <<judged, accepted, sources, seen>> /\ (mem' = mem \/ Record(Charged("tool")))
    BY <1>4 DEF Try, runtime, past, ledger
  <2>2. QED
    BY <1>0, <2>1, RecordIs, ChargedIs
<1>5. ASSUME NEW a \in Agent, NEW i \in DOMAIN batch[a], Capture(a, i)
      PROVE  UNCHANGED <<mem, judged, accepted, seen>> /\ sources \subseteq sources'
  BY <1>5 DEF Capture, past
<1>6. ASSUME NEW a \in Agent, NEW i \in DOMAIN batch[a], Keep(a, i)
      PROVE  mem'.of = mem.of /\ UNCHANGED <<judged, accepted, sources, seen>>
  <2>. DEFINE s == Kept(batch[a][i].ev, CHOOSE e \in sources : e.id = batch[a][i].ev)
  <2>1. UNCHANGED <<judged, accepted, sources, seen>> /\ (mem' = mem \/ Record(s) \/ Record(mem))
    BY <1>6 DEF Keep, runtime, past, ledger
  <2>2. IsLedger(s) /\ s.of = mem.of
    BY <1>0, KeptIs
  <2>. HIDE DEF s
  <2>3. QED
    BY <1>0, <2>1, <2>2, RecordIs
<1>7. ASSUME NEW i \in DOMAIN batch[Root], Spawn(i) PROVE UNCHANGED <<mem, judged, accepted, sources, seen>>
  BY <1>7 DEF Spawn, runtime, past, ledger
<1>8. ASSUME NEW i \in DOMAIN batch[Root], Return(i)
      PROVE  mem'.of = mem.of /\ UNCHANGED <<judged, accepted, sources, seen>>
  <2>1. UNCHANGED <<judged, accepted, sources, seen>> /\ (mem' = mem \/ Record(mem))
    BY <1>8 DEF Return, runtime, past, ledger
  <2>2. QED
    BY <1>0, <2>1, RecordIs
<1>9. Leave \/ Edit \/ UNCHANGED vars => UNCHANGED <<mem, judged, accepted, sources, seen>>
  BY DEF Leave, Edit, vars, runtime, past, ledger
<1>10. QED
  BY <1>1, <1>2, <1>3, <1>4, <1>5, <1>6, <1>7, <1>8, <1>9 DEF Next

LEMMA StepCited == Types /\ Reads /\ Had /\ CitedIsSeen /\ [Next]_vars => CitedIsSeen'
<1>1. SUFFICES ASSUME Types, Reads, Had, CitedIsSeen, [Next]_vars PROVE CitedIsSeen'
  OBVIOUS
<1>2. \A a \in Agent : \A k \in DOMAIN mem.of[a].report.findings :
         Backed(a, mem.of[a].report, mem.of[a].report.findings[k])
  BY <1>1, CitedBacked
<1>3. SUFFICES ASSUME NEW a \in Agent
               PROVE  (\A k \in DOMAIN mem.of[a].report.findings :
                          Backed(a, mem.of[a].report, mem.of[a].report.findings[k]))'
  BY DEF CitedIsSeen, Backed
<1>4. CASE Open
  <2>1. mem' = [durable EXCEPT !.of = [b \in Agent |-> NoNotes]]
    BY <1>4 DEF Open
  <2>2. durable = [models |-> durable.models, tools |-> durable.tools, evidence |-> durable.evidence, of |-> durable.of]
    BY <1>1 DEF Types, IsLedger
  <2>3. mem'.of[a] = NoNotes
    BY <2>1, <2>2
  <2>4. mem'.of[a].report.findings = <<>> /\ DOMAIN <<>> = {}
    BY <2>3, NoReportIs DEF NoNotes
  <2>5. QED
    BY <2>4
<1>5. CASE mem'.of[a].report = mem.of[a].report /\ judged'[a] = judged[a] /\ sources \subseteq sources' /\ seen \subseteq seen'
  BY <1>2, <1>5, CitedStays
<1>6. ASSUME NEW b \in Agent, Accept(b) PROVE \/ mem'.of[a].report = mem.of[a].report /\ judged'[a] = judged[a]
                                              \/ /\ b = a /\ judged' = [judged EXCEPT ![a] = version]
                                                 /\ LET r == Checked(a, Proposed(a)) IN
                                                    /\ Validated(r, Proposed(a), Usable(a, TRUE))
                                                    /\ \A k \in DOMAIN r.findings : InScope(a, r.findings[k])
                                                    /\ mem'.of[a].report = r
  <2>. DEFINE p == Proposed(b)
              r == Checked(b, p)
  <2>1. \/ UNCHANGED <<mem, durable, accepted, judged>>
        \/ /\ Validated(r, p, Usable(b, TRUE)) /\ \A k \in DOMAIN r.findings : InScope(b, r.findings[k])
           /\ mem' = Recorded(b, r) /\ judged' = [judged EXCEPT ![b] = version]
    BY <1>1, <1>6, AcceptIs
  <2>. HIDE DEF p, r
  <2>2. CASE UNCHANGED <<mem, judged>>
    BY <2>2
  <2>3. CASE /\ Validated(r, p, Usable(b, TRUE)) /\ \A k \in DOMAIN r.findings : InScope(b, r.findings[k])
             /\ mem' = Recorded(b, r) /\ judged' = [judged EXCEPT ![b] = version]
    <3>1. r \in Report /\ IsLedger(mem)
      BY <1>1, <2>3 DEF Validated, Types
    <3>2. mem'.of[b].report = r /\ \A c \in Agent : c # b => mem'.of[c] = mem.of[c]
      BY <2>3, <3>1, RecordedIs
    <3>3. DOMAIN judged = Agent
      BY <1>1, EachDomain DEF Types
    <3>4. CASE b # a
      BY <2>3, <3>2, <3>3, <3>4
    <3>5. CASE b = a
      BY <2>3, <3>2, <3>5 DEF p, r
    <3>6. QED
      BY <3>4, <3>5
  <2>4. QED
    BY <2>1, <2>2, <2>3
<1>7. ASSUME Accept(a), judged' = [judged EXCEPT ![a] = version],
             NEW r, r = Checked(a, Proposed(a)),
             Validated(r, Proposed(a), Usable(a, TRUE)),
             \A k \in DOMAIN r.findings : InScope(a, r.findings[k]),
             mem'.of[a].report = r
      PROVE  (\A k \in DOMAIN mem.of[a].report.findings :
                 Backed(a, mem.of[a].report, mem.of[a].report.findings[k]))'
  <2>1. SUFFICES ASSUME NEW k \in DOMAIN r.findings PROVE Backed(a, r, r.findings[k])'
    BY <1>7
  <2>2. sources' = sources /\ seen' = seen /\ judged'[a] = version
    <3>1. DOMAIN judged = Agent
      BY <1>1, EachDomain DEF Types
    <3>2. QED
      BY <1>7, <3>1 DEF Accept
  <2>3. PICK f : f = r.findings[k]
    OBVIOUS
  <2>4. ToSet(f.deps) \subseteq IdsOf(r) /\ \A c \in f.cites : \E e \in Usable(a, TRUE) : e.id = c.ev /\ StandsAt(c, e)
    BY <1>7, <2>3 DEF Validated
  <2>5. InScope(a, f)
    BY <1>7, <2>3
  <2>6. ASSUME NEW c \in f.cites
        PROVE  \E e \in sources :
                  /\ e.id = c.ev /\ (e.agent = a \/ a = Root) /\ e.id \in seen
                  /\ e.version = version[e.file] /\ StandsAt(c, e)
                  /\ f.scope = "file" =>
                        \A b \in 0..(Len(Contents[e.file][e.version + 1]) - 1) :
                            \E x \in sources : /\ x.file = e.file /\ x.version = e.version
                                               /\ b \in x.read.from..(x.read.to - 1)
    <3>1. PICK e \in Usable(a, TRUE) : e.id = c.ev /\ StandsAt(c, e)
      BY <2>4
    <3>2. /\ e \in sources /\ e.version = version[e.file] /\ (e.agent = a \/ a = Root)
          /\ e.id \in delivered[e.agent]
      BY DEF Usable
    <3>3. e.agent \in Agent /\ e.file \in File
      BY <1>1, <3>2 DEF Reads, AtHand, IsRead
    <3>4. e.id \in seen
      BY <1>1, <3>2, <3>3 DEF Had
    <3>5. ASSUME f.scope = "file"
          PROVE  \A b \in 0..(Len(Contents[e.file][e.version + 1]) - 1) :
                    \E x \in sources : /\ x.file = e.file /\ x.version = e.version
                                       /\ b \in x.read.from..(x.read.to - 1)
      <4>1. \A x \in FilesOf(f) : Covered(a, x)
        BY <2>5, <3>5 DEF InScope
      <4>2. (CHOOSE d \in sources : d.id = c.ev) = e
        <5>1. \A d \in sources : d.id = c.ev => d = e
          BY <1>1, <3>1, <3>2 DEF Reads, AtHand
        <5>2. QED
          BY <3>1, <3>2, <5>1
      <4>3. e.file \in FilesOf(f)
        BY <4>2 DEF FilesOf
      <4>4. Covered(a, e.file)
        BY <4>1, <4>3
      <4>5. Content(e.file) = Contents[e.file][e.version + 1]
        BY <3>2 DEF Content
      <4>6. QED
        BY <1>1, <3>2, <3>3, <4>4, <4>5, CoveredIs
    <3>6. QED
      BY <3>1, <3>2, <3>4, <3>5
  <2>7. Backed(a, r, f)'
    BY <2>2, <2>4, <2>6 DEF Backed, StandsAt
  <2>8. QED
    BY <2>3, <2>7
<1>8. ASSUME NEW b \in Agent, Accept(b) PROVE sources' = sources /\ seen' = seen
  BY <1>8 DEF Accept
<1>9. CASE \E b \in Agent : Accept(b)
  BY <1>5, <1>6, <1>7, <1>8, <1>9
<1>10. CASE ~ Open /\ ~ \E b \in Agent : Accept(b)
  <2>1. /\ mem'.of = mem.of /\ judged' = judged /\ sources \subseteq sources' /\ seen \subseteq seen'
    BY <1>1, <1>10, OfStays
  <2>2. QED
    BY <1>5, <2>1
<1>11. QED
  BY <1>4, <1>9, <1>10

LEMMA StartReads == Init => Reads /\ Had /\ CitedIsSeen
<1>1. SUFFICES ASSUME Init PROVE Reads /\ Had /\ CitedIsSeen
  OBVIOUS
<1>2. Reads
  BY <1>1, FS_EmptySet DEF Init, Reads, AtHand
<1>3. Had
  BY <1>1 DEF Init, Had, NoRequest
<1>4. CitedIsSeen
  <2>1. ASSUME NEW a \in Agent PROVE mem.of[a].report.findings = <<>>
    <3>1. mem.of[a] = NoNotes
      BY <1>1 DEF Init
    <3>2. QED
      BY <3>1, NoReportIs DEF NoNotes
  <2>2. DOMAIN <<>> = {}
    OBVIOUS
  <2>3. QED
    BY <2>1, <2>2 DEF CitedIsSeen
<1>5. QED
  BY <1>2, <1>3, <1>4

\* In every reachable state the ledger, sessions and calls have their types,
\* every read of the run has a number of its own and is what the file held
\* (captureAnalysisRead), and what counts as delivered stood whole in a request
\* that was answered (prepareAnalysisRequest, markAnalysisDelivered).
THEOREM NotesAreTyped == Spec => [](Types /\ Reads /\ Had)
<1>1. Init => Types /\ Reads /\ Had
  BY StartTypes, StartReads
<1>2. Types /\ Reads /\ Had /\ [Next]_vars => (Types /\ Reads /\ Had)'
  BY StepTypes, StepReads, StepHad
<1>3. QED
  BY <1>1, <1>2, PTL DEF Spec

\* Every finding of an accepted report rests on this run: its quotations stand,
\* at the lines they name, in reads that their reader had whole in an answered
\* request, of the versions of then; what it depends on is in the report; and a
\* finding about whole files has them read to the end (acceptAnalysis,
\* ValidateAnalysisReport, ValidateAnalysisCitation).
THEOREM CitedMeansSeen == Spec => []CitedIsSeen
<1>1. Types /\ Reads /\ Had /\ CitedIsSeen /\ [Next]_vars => CitedIsSeen'
  BY StepCited
<1>2. QED
  BY <1>1, StartReads, NotesAreTyped, PTL DEF Spec
-----------------------------------------------------------------------------
(* What a request leaves out.                                              *)

\* A message that was folded, and an answer without its text.
FoldNoted(a, m) ==
    /\ m.ev \in seen /\ \E x \in ToSet(session[a]) : m.ev \in x.note.report.processed
    /\ \/ m.ev \in request[a].summaries
       \/ \E n \in request[a].notes : \E f \in ToSet(n.findings) : \E c \in f.cites : c.ev = m.ev

CutNoted(a, m) ==
    \A id \in IdsOf(m.note.report) : \E n \in request[a].notes :
        id \in IdsOf(n) \/ id \in ToSet(n.unverified) \/ n.dropped > 0

Noted(a) ==
    pc[a] = "asked" => \A i \in DOMAIN request[a].messages :
        /\ request[a].messages[i].form = "folded" => FoldNoted(a, request[a].messages[i])
        /\ request[a].messages[i].form = "short" => CutNoted(a, request[a].messages[i])

\* A call that was refused.
StandsIn(ms, c) ==
    \E j \in DOMAIN ms : \E e \in sources :
        LET r == executeReadSource(Contents[e.file][e.version + 1], c.q)
        IN /\ e.id = ms[j].ev /\ e.file = c.file
           /\ Key(e.q) = Key(c.q) \/ (r.ok /\ e.read.from <= r.from /\ r.to <= e.read.to)

Refused(a) ==
    \A i \in DOMAIN batch[a] : batch[a][i].step = "repeated" => StandsIn(request[a].messages, batch[a][i].call)

LEMMA LeftOutIs == LeftOutIsNoted <=> \A a \in Agent : Noted(a) /\ Refused(a)
BY DEF LeftOutIsNoted, Noted, Refused, StandsIn, FoldNoted, CutNoted

\* What an agent has said it is done with, it has had, and said so in its
\* conversation; what it has had is in its last request, and that in its session.
Spoken(a) ==
    /\ mem.of[a].processed \subseteq delivered[a]
    /\ \A n \in mem.of[a].processed : \E m \in ToSet(session[a]) : n \in m.note.report.processed
    /\ delivered[a] \union exposed[a] \subseteq EvsOf(request[a].messages)
    /\ EvsOf(request[a].messages) \subseteq EvsOf(session[a])

\* While the agent goes on, its report tells of every note that was accepted.
StillTold(a) ==
    /\ Unique(mem.of[a].report)
    /\ pc[a] \in {"turn", "asked", "note", "batch"} =>
          \A n \in accepted[a] : mem.of[a].noted /\ \A id \in IdsOf(n.report) : Told(mem.of[a].report, id)

Idle(a) == pc[a] \in {"turn", "asked"} => batch[a] = <<>>

Accounted(a) == Spoken(a) /\ StillTold(a) /\ Idle(a) /\ Noted(a) /\ Refused(a)

\* The agent is as it was.
Unmoved(a) ==
    /\ pc'[a] = pc[a] /\ session'[a] = session[a] /\ request'[a] = request[a] /\ batch'[a] = batch[a]
    /\ delivered'[a] = delivered[a] /\ exposed'[a] = exposed[a] /\ accepted'[a] = accepted[a]
    /\ mem'.of[a] = mem.of[a]

LEMMA AccountedStays ==
  ASSUME NEW a \in Agent, Accounted(a), Unmoved(a), sources \subseteq sources', seen \subseteq seen'
  PROVE  Accounted(a)'
<1>1. Spoken(a)'
  BY DEF Accounted, Unmoved, Spoken
<1>2. StillTold(a)'
  BY DEF Accounted, Unmoved, StillTold
<1>3. Idle(a)'
  BY DEF Accounted, Unmoved, Idle
<1>4. Noted(a)'
  BY DEF Accounted, Unmoved, Noted, FoldNoted, CutNoted
<1>5. Refused(a)'
  BY DEF Accounted, Unmoved, Refused, StandsIn
<1>6. QED
  BY <1>1, <1>2, <1>3, <1>4, <1>5 DEF Accounted

\* An action of one agent.
Act(a) ==
    \/ Ask(a) \/ Fail(a) \/ Answer(a) \/ Accept(a) \/ EndBatch(a)
    \/ \E i \in DOMAIN batch[a] : Try(a, i) \/ Capture(a, i) \/ Keep(a, i)

\* Usage and evidence are counted beside what is held of the agents.
LEMMA OfStaysIn ==
  ASSUME Types, NEW a \in Agent,
         Ask(a) \/ \E i \in DOMAIN batch[a] : Try(a, i) \/ Capture(a, i) \/ Keep(a, i)
  PROVE  mem'.of = mem.of
<1>0. IsLedger(mem) /\ IsLedger(durable)
  BY DEF Types
<1>1. CASE Ask(a)
  <2>1. mem' = mem \/ Record(Charged("model"))
    BY <1>1 DEF Ask, ledger
  <2>2. QED
    BY <1>0, <2>1, RecordIs, ChargedIs
<1>2. ASSUME NEW i \in DOMAIN batch[a], Try(a, i) PROVE mem'.of = mem.of
  <2>1. mem' = mem \/ Record(Charged("tool"))
    BY <1>2 DEF Try, ledger
  <2>2. QED
    BY <1>0, <2>1, RecordIs, ChargedIs
<1>3. ASSUME NEW i \in DOMAIN batch[a], Capture(a, i) PROVE mem'.of = mem.of
  BY <1>3 DEF Capture
<1>4. ASSUME NEW i \in DOMAIN batch[a], Keep(a, i) PROVE mem'.of = mem.of
  <2>. DEFINE s == Kept(batch[a][i].ev, CHOOSE e \in sources : e.id = batch[a][i].ev)
  <2>1. mem' = mem \/ Record(s) \/ Record(mem)
    BY <1>4 DEF Keep, ledger
  <2>2. IsLedger(s) /\ s.of = mem.of
    BY <1>0, KeptIs
  <2>. HIDE DEF s
  <2>3. QED
    BY <1>0, <2>1, <2>2, RecordIs
<1>5. QED
  BY <1>1, <1>2, <1>3, <1>4

\* It changes nothing of another one, and there is an agent to act.
LEMMA OthersStay ==
  ASSUME Types, Reads, NEW a \in Agent, Act(a)
  PROVE  /\ \A b \in Agent : b # a => Unmoved(b)
         /\ pc[a] # "off" /\ pc'[a] # "off" /\ sources \subseteq sources' /\ seen \subseteq seen'
<1>0. /\ Each(pc) /\ DOMAIN request = Agent /\ DOMAIN delivered = Agent /\ DOMAIN exposed = Agent
      /\ DOMAIN accepted = Agent /\ session \in [Agent -> Seq(Saying)] /\ batch \in [Agent -> Seq(Entry)]
  BY EachDomain DEF Types
<1>1. CASE Ask(a)
  <2>1. /\ UNCHANGED <<runtime, session, batch, seen>> /\ \E where : where # "off" /\ Goto(a, where)
        /\ pc[a] = "turn" /\ (request' = request \/ request' = [request EXCEPT ![a] = prepareAnalysisRequest(a)])
    BY <1>1 DEF Ask, End, past
  <2>2. mem'.of = mem.of
    BY <1>1, OfStaysIn
  <2>3. QED
    BY <1>0, <2>1, <2>2, PcIs DEF Unmoved, runtime
<1>2. CASE Fail(a)
  <2>1. /\ UNCHANGED <<runtime, session, batch, request, seen, mem>> /\ \E where : where # "off" /\ Goto(a, where)
        /\ pc[a] = "asked"
    BY <1>2 DEF Fail, End, past, ledger
  <2>2. QED
    BY <1>0, <2>1, PcIs DEF Unmoved, runtime
<1>3. CASE Answer(a)
  <2>1. /\ delivered' = [delivered EXCEPT ![a] = @ \union request[a].delivered]
        /\ exposed' = [exposed EXCEPT ![a] = Whole(request[a])]
        /\ seen \subseteq seen' /\ Goto(a, "note") /\ pc[a] = "asked"
        /\ UNCHANGED <<mem, sources, accepted, request>>
        /\ \E x, y : batch' = [batch EXCEPT ![a] = x] /\ session' = [session EXCEPT ![a] = y]
    BY <1>3 DEF Answer, ledger
  <2>2. QED
    BY <1>0, <2>1, PcIs DEF Unmoved
<1>4. CASE Accept(a)
  <2>1. /\ UNCHANGED <<sources, delivered, exposed, session, request, batch, seen>>
        /\ \E where : where # "off" /\ Goto(a, where) /\ pc[a] = "note"
    BY <1>4 DEF Accept, End
  <2>2. \A b \in Agent : b # a => mem'.of[b] = mem.of[b] /\ accepted'[b] = accepted[b]
    <3>1. CASE UNCHANGED <<mem, accepted>>
      BY <3>1
    <3>2. ASSUME NEW r \in Report, NEW n, mem' = Recorded(a, r),
                 accepted' = accepted \/ accepted' = [accepted EXCEPT ![a] = @ \union {n}]
          PROVE  \A b \in Agent : b # a => mem'.of[b] = mem.of[b] /\ accepted'[b] = accepted[b]
      <4>1. IsLedger(mem)
        BY DEF Types
      <4>2. \A b \in Agent : b # a => mem'.of[b] = mem.of[b]
        BY <3>2, <4>1, RecordedIs
      <4>3. \A b \in Agent : b # a => accepted'[b] = accepted[b]
        BY <1>0, <3>2
      <4>4. QED
        BY <4>2, <4>3
    <3>3. QED
      BY <1>4, <3>1, <3>2, AcceptIs DEF Validated
  <2>3. QED
    BY <1>0, <2>1, <2>2, PcIs DEF Unmoved
<1>5. CASE EndBatch(a)
  <2>1. /\ UNCHANGED <<runtime, request, seen, mem>> /\ \E where : where # "off" /\ Goto(a, where)
        /\ pc[a] = "batch"
        /\ \E x, y : batch' = [batch EXCEPT ![a] = x] /\ session' = [session EXCEPT ![a] = y]
    BY <1>5 DEF EndBatch, End, past, ledger
  <2>2. QED
    BY <1>0, <2>1, PcIs DEF Unmoved, runtime
<1>6. ASSUME NEW i \in DOMAIN batch[a], Try(a, i) \/ Capture(a, i) \/ Keep(a, i)
      PROVE  /\ \A b \in Agent : b # a => Unmoved(b)
             /\ pc[a] # "off" /\ pc'[a] # "off" /\ sources \subseteq sources' /\ seen \subseteq seen'
  <2>1. /\ UNCHANGED <<pc, session, request, delivered, exposed, accepted, seen>> /\ pc[a] = "batch"
        /\ sources \subseteq sources' /\ \E x : Step(a, i, x)
    BY <1>6 DEF Try, Capture, Keep, runtime, past
  <2>2. \A b \in Agent : b # a => batch'[b] = batch[b]
    BY <1>0, <2>1 DEF Step
  <2>3. mem'.of = mem.of
    BY <1>6, OfStaysIn
  <2>4. QED
    BY <2>1, <2>2, <2>3 DEF Unmoved
<1>7. QED
  BY <1>1, <1>2, <1>3, <1>4, <1>5, <1>6 DEF Act

\* The messages of a request are those of the session; what is folded the agent
\* is done with and the request speaks of, what is cut was accepted.
MadeOf(a, req) ==
    /\ DOMAIN req.messages = DOMAIN session[a]
    /\ \A i \in DOMAIN session[a] : LET m == req.messages[i] IN
          /\ m.ev = session[a][i].ev /\ m.note = session[a][i].note
          /\ m.form = "folded" =>
                /\ m.ev \in mem.of[a].processed
                /\ \/ m.ev \in req.summaries
                   \/ \E n \in req.notes : \E f \in ToSet(n.findings) : \E c \in f.cites : c.ev = m.ev
          /\ m.form = "short" => m.note \in accepted[a]

LEMMA PreparedIs ==
  ASSUME Types, NEW a \in Agent, NEW req, req = prepareAnalysisRequest(a)
  PROVE  /\ req.notes = {ValidateAnalysisReport(mem.of[b].report, Usable(a, TRUE)) : b \in Shown(a)}
         /\ MadeOf(a, req)
<1>. DEFINE ms     == session[a]
            valid  == {e.id : e \in Usable(a, FALSE)}
            notes  == {ValidateAnalysisReport(mem.of[b].report, Usable(a, TRUE)) : b \in Shown(a)}
            told   == mem.of[a].summaries \intersect valid
            cited  == UNION {UNION {{c.ev : c \in n.findings[k].cites} : k \in DOMAIN n.findings} : n \in notes}
            latest == Max({0} \union {i \in DOMAIN ms : ms[i].calls > 0})
            form(i) == IF i >= latest THEN ms[i].form
                       ELSE IF /\ ms[i].ev \in valid \intersect mem.of[a].processed
                               /\ ms[i].ev \in told \union cited THEN "folded"
                       ELSE compactAnalysisAssistant(a, ms[i])
            made   == [i \in DOMAIN ms |-> [ms[i] EXCEPT !.form = form(i)]]
<1>1. req.messages = made /\ req.notes = notes /\ req.summaries = told
  BY DEF prepareAnalysisRequest
<1>2. \A i \in DOMAIN ms : ms[i] \in Saying
  <2>1. ms \in Seq(Saying)
    BY DEF Types
  <2>2. QED
    BY <2>1
<1>3. \A x \in cited : \E n \in notes : \E f \in ToSet(n.findings) : \E c \in f.cites : c.ev = x
  <2>. HIDE DEF notes
  <2>1. ASSUME NEW x \in cited
        PROVE  \E n \in notes : \E f \in ToSet(n.findings) : \E c \in f.cites : c.ev = x
    <3>1. PICK n \in notes : \E k \in DOMAIN n.findings : x \in {c.ev : c \in n.findings[k].cites}
      BY <2>1
    <3>2. PICK k \in DOMAIN n.findings : x \in {c.ev : c \in n.findings[k].cites}
      BY <3>1
    <3>3. n.findings[k] \in ToSet(n.findings)
      BY DEF ToSet
    <3>4. QED
      BY <3>2, <3>3
  <2>2. QED
    BY <2>1
<1>4. ASSUME NEW i \in DOMAIN ms
      PROVE  /\ form(i) = "folded" => ms[i].ev \in mem.of[a].processed /\ ms[i].ev \in told \union cited
             /\ form(i) = "short" => ms[i].note \in accepted[a]
  <2>1. ms[i].form = "whole"
    BY <1>2 DEF Saying
  <2>. HIDE DEF latest, told, cited, valid, ms
  <2>2. QED
    BY <2>1 DEF compactAnalysisAssistant
<1>. HIDE DEF told, cited, form, notes
<1>5. ASSUME NEW i \in DOMAIN ms
      PROVE  made[i].ev = ms[i].ev /\ made[i].note = ms[i].note /\ made[i].form = form(i)
  BY <1>2 DEF Saying
<1>6. DOMAIN made = DOMAIN ms
  OBVIOUS
<1>. HIDE DEF made, ms
<1>7. QED
  BY <1>1, <1>3, <1>4, <1>5, <1>6 DEF ms, notes, MadeOf

\* The notes of the agent that a request holds tell of all that its report does.
LEMMA NotesTell ==
  ASSUME Types, Reads, NEW a \in Agent, mem.of[a].noted, Unique(mem.of[a].report)
  PROVE  \E n \in prepareAnalysisRequest(a).notes : \A id : Told(mem.of[a].report, id) => Told(n, id)
<1>1. a \in Shown(a)
  BY DEF Shown
<1>2. mem.of[a].report \in Report
  <2>1. mem.of[a] \in Holds
    BY DEF Types, IsLedger
  <2>2. QED
    BY <2>1 DEF Holds
<1>. DEFINE n == ValidateAnalysisReport(mem.of[a].report, Usable(a, TRUE))
<1>3. Validated(n, mem.of[a].report, Usable(a, TRUE))
  BY <1>2, UsableIs, ValidIs
<1>4. n \in prepareAnalysisRequest(a).notes
  <2>1. PICK req : req = prepareAnalysisRequest(a)
    OBVIOUS
  <2>2. req.notes = {ValidateAnalysisReport(mem.of[b].report, Usable(a, TRUE)) : b \in Shown(a)}
    BY <2>1, PreparedIs
  <2>3. QED
    BY <1>1, <2>1, <2>2
<1>. HIDE DEF n
<1>5. QED
  BY <1>3, <1>4 DEF Validated

\* The request an agent makes accounts for what it leaves out.
LEMMA AskNotes ==
  ASSUME Types, Reads, Had, NEW a \in Agent, Accounted(a), Ask(a)
  PROVE  Accounted(a)'
<1>0. /\ Each(pc) /\ Each(request) /\ session \in [Agent -> Seq(Saying)]
  BY DEF Types
<1>1. /\ UNCHANGED <<sources, delivered, accepted, exposed, session, batch, seen>> /\ pc[a] = "turn"
      /\ \/ request' = request /\ pc'[a] \in {"over", "back"}
         \/ request' = [request EXCEPT ![a] = prepareAnalysisRequest(a)] /\ pc'[a] \in {"asked", "over", "back"}
  BY <1>0, PcIs DEF Ask, End, runtime, past
<1>2. mem'.of = mem.of
  BY OfStaysIn
<1>3. batch[a] = <<>>
  BY <1>1 DEF Accounted, Idle
<1>4. StillTold(a)' /\ Idle(a)' /\ Refused(a)'
  <2>1. StillTold(a)'
    BY <1>1, <1>2 DEF Accounted, StillTold
  <2>2. DOMAIN <<>> = {}
    OBVIOUS
  <2>3. QED
    BY <1>1, <1>3, <2>1, <2>2 DEF Idle, Refused
<1>5. CASE request' = request /\ pc'[a] \in {"over", "back"}
  <2>1. Spoken(a)' /\ Noted(a)'
    BY <1>1, <1>2, <1>5 DEF Accounted, Spoken, Noted
  <2>2. QED
    BY <1>4, <2>1 DEF Accounted
<1>6. CASE request' = [request EXCEPT ![a] = prepareAnalysisRequest(a)] /\ pc'[a] \in {"asked", "over", "back"}
  <2>1. PICK req : req = prepareAnalysisRequest(a)
    OBVIOUS
  <2>2. request'[a] = req
    <3>1. DOMAIN request = Agent
      BY <1>0, EachDomain
    <3>2. QED
      BY <1>6, <2>1, <3>1
  <2>a. MadeOf(a, req)
    BY <2>1, PreparedIs
  <2>3. /\ DOMAIN req.messages = DOMAIN session[a]
        /\ \A i \in DOMAIN session[a] : LET m == req.messages[i] IN
              /\ m.ev = session[a][i].ev /\ m.note = session[a][i].note
              /\ m.form = "folded" =>
                    /\ m.ev \in mem.of[a].processed
                    /\ \/ m.ev \in req.summaries
                       \/ \E n \in req.notes : \E f \in ToSet(n.findings) : \E c \in f.cites : c.ev = m.ev
              /\ m.form = "short" => m.note \in accepted[a]
    BY <2>a DEF MadeOf
  <2>4. EvsOf(req.messages) = EvsOf(session[a])
    BY <2>3 DEF EvsOf
  <2>5. Spoken(a)'
    BY <1>1, <1>2, <2>2, <2>4 DEF Accounted, Spoken
  <2>6. ASSUME NEW i \in DOMAIN session[a], req.messages[i].form = "folded"
        PROVE  FoldNoted(a, req.messages[i])'
    <3>1. PICK m : m = req.messages[i]
      OBVIOUS
    <3>2. m.ev \in seen /\ \E x \in ToSet(session[a]) : m.ev \in x.note.report.processed
      BY <2>3, <2>6, <3>1 DEF Accounted, Spoken, Had
    <3>3. FoldNoted(a, m)'
      BY <1>1, <2>2, <2>3, <2>6, <3>1, <3>2 DEF FoldNoted
    <3>4. QED
      BY <2>1, <3>1, <3>3 DEF FoldNoted
  <2>7. ASSUME NEW i \in DOMAIN session[a], req.messages[i].form = "short"
        PROVE  \A id \in IdsOf(req.messages[i].note.report) : \E n \in req.notes : Told(n, id)
    <3>1. mem.of[a].noted /\ Unique(mem.of[a].report)
          /\ \A id \in IdsOf(req.messages[i].note.report) : Told(mem.of[a].report, id)
      BY <1>1, <2>3, <2>7 DEF Accounted, StillTold
    <3>2. QED
      BY <2>1, <3>1, NotesTell
  <2>8. Noted(a)'
    BY <2>2, <2>3, <2>6, <2>7 DEF Noted, FoldNoted, CutNoted, Told
  <2>9. QED
    BY <1>4, <2>5, <2>8 DEF Accounted
<1>7. QED
  BY <1>1, <1>5, <1>6

LEMMA Behind ==
  ASSUME NEW s \in Seq(Saying), NEW t \in Seq(Saying)
  PROVE  EvsOf(s) \subseteq EvsOf(s \o t) /\ ToSet(s) \subseteq ToSet(s \o t)
<1>1. \A i \in DOMAIN s : i \in DOMAIN (s \o t) /\ (s \o t)[i] = s[i]
  BY ConcatProperties
<1>2. EvsOf(s) \subseteq EvsOf(s \o t)
  <2>1. ASSUME NEW i \in DOMAIN s PROVE s[i].ev \in EvsOf(s \o t)
    BY <1>1 DEF EvsOf
  <2>2. QED
    BY <2>1 DEF EvsOf
<1>3. ToSet(s) \subseteq ToSet(s \o t)
  BY <1>1 DEF ToSet
<1>4. QED
  BY <1>2, <1>3

LEMMA BehindOne ==
  ASSUME NEW s \in Seq(Saying), NEW m \in Saying
  PROVE  EvsOf(s) \subseteq EvsOf(Append(s, m)) /\ ToSet(s) \subseteq ToSet(Append(s, m))
<1>1. \A i \in DOMAIN s : i \in DOMAIN Append(s, m) /\ Append(s, m)[i] = s[i]
  BY AppendProperties
<1>2. EvsOf(s) \subseteq EvsOf(Append(s, m))
  <2>1. ASSUME NEW i \in DOMAIN s PROVE s[i].ev \in EvsOf(Append(s, m))
    BY <1>1 DEF EvsOf
  <2>2. QED
    BY <2>1 DEF EvsOf
<1>3. ToSet(s) \subseteq ToSet(Append(s, m))
  BY <1>1 DEF ToSet
<1>4. QED
  BY <1>2, <1>3

LEMMA FailAccounts ==
  ASSUME Types, NEW a \in Agent, Accounted(a), Fail(a)
  PROVE  Accounted(a)'
<1>1. /\ UNCHANGED <<sources, delivered, accepted, exposed, session, request, batch, seen, mem>>
      /\ pc'[a] \in {"over", "back"}
  <2>1. Each(pc)
    BY DEF Types
  <2>2. QED
    BY <2>1, PcIs DEF Fail, End, runtime, past, ledger
<1>2. Spoken(a)' /\ StillTold(a)' /\ Idle(a)' /\ Noted(a)'
  BY <1>1 DEF Accounted, Spoken, StillTold, Idle, Noted
<1>3. Refused(a)'
  BY <1>1 DEF Accounted, Refused, StandsIn
<1>4. QED
  BY <1>2, <1>3 DEF Accounted

LEMMA AnswerAccounts ==
  ASSUME Types, Had, NEW a \in Agent, Accounted(a), Answer(a)
  PROVE  Accounted(a)'
<1>0. /\ Each(pc) /\ DOMAIN delivered = Agent /\ DOMAIN exposed = Agent
      /\ session \in [Agent -> Seq(Saying)] /\ batch \in [Agent -> Seq(Entry)] /\ task \in Tasks
  BY EachDomain DEF Types
<1>1. /\ delivered'[a] = delivered[a] \union request[a].delivered /\ exposed'[a] = Whole(request[a])
      /\ pc[a] = "asked" /\ pc'[a] = "note"
      /\ UNCHANGED <<mem, sources, accepted, request>>
  BY <1>0, PcIs DEF Answer, ledger
<1>2. PICK note \in task.notes \union {NoNote}, calls \in Batches(a) :
         /\ batch' = [batch EXCEPT ![a] = [i \in DOMAIN calls |-> NewCall(calls[i])]]
         /\ session' = [session EXCEPT ![a] = Append(@, Message("answer", note, Len(calls), 0, "whole"))]
  BY DEF Answer
<1>. DEFINE m == Message("answer", note, Len(calls), 0, "whole")
<1>3. m \in Saying
  <2>1. note \in Noting
    BY <1>0, <1>2, NoNoteIs, TasksAssumption
  <2>2. Len(calls) \in Nat
    BY <1>0, BatchesAre
  <2>3. QED
    BY <2>1, <2>2, MessageIs
<1>4. session'[a] = Append(session[a], m) /\ session[a] \in Seq(Saying)
  BY <1>0, <1>2
<1>. HIDE DEF m
<1>5. EvsOf(session[a]) \subseteq EvsOf(session'[a]) /\ ToSet(session[a]) \subseteq ToSet(session'[a])
  BY <1>3, <1>4, BehindOne
<1>6. Spoken(a)'
  <2>1. Whole(request[a]) \subseteq EvsOf(request[a].messages)
    BY DEF Whole, EvsOf
  <2>2. request[a].delivered \subseteq Whole(request[a])
    BY DEF Had
  <2>3. PICK M : M = ToSet(session[a])
    OBVIOUS
  <2>4. PICK M1 : M1 = ToSet(session'[a])
    OBVIOUS
  <2>5. \A n \in mem.of[a].processed : \E x \in M1 : n \in x.note.report.processed
    BY <1>5, <2>3, <2>4 DEF Accounted, Spoken
  <2>6. mem.of[a].processed \subseteq delivered'[a] /\ delivered'[a] \union exposed'[a] \subseteq EvsOf(request[a].messages)
    BY <1>1, <2>1, <2>2 DEF Accounted, Spoken
  <2>7. EvsOf(request[a].messages) \subseteq EvsOf(session'[a])
    BY <1>5 DEF Accounted, Spoken
  <2>8. QED
    BY <1>1, <2>4, <2>5, <2>6, <2>7 DEF Spoken
<1>7. StillTold(a)' /\ Idle(a)' /\ Noted(a)'
  BY <1>1 DEF Accounted, StillTold, Idle, Noted
<1>8. Refused(a)'
  <2>1. batch'[a] = [i \in DOMAIN calls |-> NewCall(calls[i])]
    BY <1>0, <1>2
  <2>2. \A i \in DOMAIN batch'[a] : batch'[a][i].step = "wait"
    BY <2>1 DEF NewCall
  <2>3. QED
    BY <2>2 DEF Refused
<1>9. QED
  BY <1>6, <1>7, <1>8 DEF Accounted

LEMMA EndBatchAccounts ==
  ASSUME Types, NEW a \in Agent, Accounted(a), EndBatch(a)
  PROVE  Accounted(a)'
<1>0. Each(pc) /\ session \in [Agent -> Seq(Saying)] /\ batch \in [Agent -> Seq(Entry)]
  BY DEF Types
<1>1. /\ UNCHANGED <<mem, sources, delivered, accepted, exposed, request>>
      /\ pc[a] = "batch" /\ pc'[a] \in {"turn", "over", "back"}
      /\ batch'[a] = <<>>
  BY <1>0, PcIs DEF EndBatch, End, ledger, runtime
<1>. DEFINE b == batch[a]
            ms == [i \in DOMAIN b |-> Message("result", NoNote, 0, b[i].ev, "whole")]
<1>2. ms \in Seq(Saying)
  <2>1. b \in Seq(Entry) /\ DOMAIN b = 1 .. Len(b) /\ Len(b) \in Nat
    BY <1>0
  <2>2. ASSUME NEW i \in DOMAIN b PROVE Message("result", NoNote, 0, b[i].ev, "whole") \in Saying
    <3>1. b[i] \in Entry
      BY <2>1
    <3>2. b[i].ev \in Nat
      BY <3>1 DEF Entry
    <3>3. QED
      BY <3>2, NoNoteIs, MessageIs
  <2>3. ms \in [1 .. Len(b) -> Saying]
    BY <2>1, <2>2
  <2>. HIDE DEF ms
  <2>4. QED
    BY <2>1, <2>3, SeqDef
<1>3. session'[a] = session[a] \o ms /\ session[a] \in Seq(Saying)
  BY <1>0 DEF EndBatch
<1>. HIDE DEF ms
<1>4. EvsOf(session[a]) \subseteq EvsOf(session'[a]) /\ ToSet(session[a]) \subseteq ToSet(session'[a])
  BY <1>2, <1>3, Behind
<1>5. Spoken(a)'
  <2>1. PICK M : M = ToSet(session[a])
    OBVIOUS
  <2>2. PICK M1 : M1 = ToSet(session'[a])
    OBVIOUS
  <2>3. \A n \in mem.of[a].processed : \E x \in M1 : n \in x.note.report.processed
    BY <1>4, <2>1, <2>2 DEF Accounted, Spoken
  <2>4. EvsOf(request[a].messages) \subseteq EvsOf(session'[a])
    BY <1>4 DEF Accounted, Spoken
  <2>5. QED
    BY <1>1, <2>2, <2>3, <2>4 DEF Accounted, Spoken
<1>6. StillTold(a)' /\ Idle(a)' /\ Noted(a)'
  BY <1>1 DEF Accounted, StillTold, Idle, Noted
<1>7. Refused(a)'
  <2>1. DOMAIN <<>> = {}
    OBVIOUS
  <2>2. QED
    BY <1>1, <2>1 DEF Refused
<1>8. QED
  BY <1>5, <1>6, <1>7 DEF Accounted

LEMMA AcceptAccounts ==
  ASSUME Types, Reads, NEW a \in Agent, Accounted(a), Accept(a)
  PROVE  Accounted(a)'
<1>. DEFINE m == Last(session[a])
            p == Proposed(a)
            r == Checked(a, p)
<1>0. Each(pc) /\ DOMAIN accepted = Agent /\ IsLedger(mem)
  BY EachDomain DEF Types
<1>1. /\ UNCHANGED <<sources, delivered, exposed, session, request, batch, seen>>
      /\ pc[a] = "note" /\ pc'[a] \in {"batch", "over", "back", "answered"}
      /\ m.calls = 0 => pc'[a] # "batch"
  BY <1>0, PcIs DEF Accept, End
<1>2. Idle(a)' /\ Noted(a)' /\ Refused(a)'
  BY <1>1 DEF Accounted, Idle, Noted, Refused, StandsIn
<1>3. /\ m \in ToSet(session[a])
      /\ p.processed = m.note.report.processed
      /\ \A id \in IdsOf(m.note.report) : Told(p, id)
      /\ mem.of[a].noted /\ m.calls # 0 => \A id : Told(mem.of[a].report, id) => Told(p, id)
      /\ \/ UNCHANGED <<mem, accepted>>
         \/ /\ Validated(r, p, Usable(a, TRUE)) /\ mem' = Recorded(a, r)
            /\ \/ accepted' = accepted
               \/ accepted' = [accepted EXCEPT ![a] = @ \union {m.note}]
  BY AcceptIs
<1>. HIDE DEF m, p, r
<1>4. CASE UNCHANGED <<mem, accepted>>
  <2>1. Spoken(a)' /\ StillTold(a)'
    BY <1>1, <1>4 DEF Accounted, Spoken, StillTold
  <2>2. QED
    BY <1>2, <2>1 DEF Accounted
<1>5. CASE /\ Validated(r, p, Usable(a, TRUE)) /\ mem' = Recorded(a, r)
           /\ \/ accepted' = accepted
              \/ accepted' = [accepted EXCEPT ![a] = @ \union {m.note}]
  <2>1. r \in Report /\ Unique(r) /\ r.processed \subseteq p.processed /\ \A id : Told(p, id) => Told(r, id)
    BY <1>5 DEF Validated
  <2>2. /\ mem'.of[a].report = r /\ mem'.of[a].noted
        /\ mem'.of[a].processed \subseteq mem.of[a].processed \union (r.processed \intersect delivered[a])
    BY <1>0, <1>5, <2>1, RecordedIs
  <2>3. Spoken(a)'
    <3>1. mem'.of[a].processed \subseteq delivered[a]
      BY <2>2 DEF Accounted, Spoken
    <3>2. ASSUME NEW n \in mem'.of[a].processed
          PROVE  \E x \in ToSet(session[a]) : n \in x.note.report.processed
      <4>1. CASE n \in mem.of[a].processed
        BY <4>1 DEF Accounted, Spoken
      <4>2. CASE n \in r.processed
        BY <1>3, <2>1, <4>2
      <4>3. QED
        BY <2>2, <4>1, <4>2
    <3>3. PICK M : M = ToSet(session[a])
      OBVIOUS
    <3>4. \A n \in mem'.of[a].processed : \E x \in M : n \in x.note.report.processed
      BY <3>2, <3>3
    <3>5. ToSet(session'[a]) = M
      BY <1>1, <3>3
    <3>6. QED
      BY <1>1, <3>1, <3>4, <3>5 DEF Accounted, Spoken
  <2>4. StillTold(a)'
    <3>1. ASSUME pc'[a] = "batch", NEW n \in accepted'[a], NEW id \in IdsOf(n.report)
          PROVE  Told(r, id)
      <4>1. CASE n \in accepted[a]
        <5>1. mem.of[a].noted /\ Told(mem.of[a].report, id)
          BY <1>1, <3>1, <4>1 DEF Accounted, StillTold
        <5>2. Told(p, id)
          BY <1>1, <1>3, <3>1, <5>1
        <5>3. QED
          BY <2>1, <5>2
      <4>2. CASE n = m.note
        BY <1>3, <2>1, <3>1, <4>2
      <4>3. accepted'[a] \subseteq accepted[a] \union {m.note}
        BY <1>0, <1>5
      <4>4. QED
        BY <4>1, <4>2, <4>3
    <3>2. QED
      BY <1>1, <2>1, <2>2, <3>1 DEF StillTold
  <2>5. QED
    BY <1>2, <2>3, <2>4 DEF Accounted
<1>6. QED
  BY <1>3, <1>4, <1>5

\* What a call is refused for is in the agent's last request.
LEMMA RepeatedStands ==
  ASSUME Types, Reads, NEW a \in Agent, Spoken(a), NEW c \in Call, c.tool = "read", IsRepeated(a, c)
  PROVE  StandsIn(request[a].messages, c)
<1>1. c.file \in File /\ c.q \in Request
  BY DEF Call
<1>. DEFINE owned == {e \in sources : e.agent = a /\ Recorded1(e)}
<1>2. PICK e \in owned :
        /\ e.id \in exposed[a] \union mem.of[a].processed
        /\ e.file = c.file /\ e.version = version[c.file]
        /\ \/ Key(e.q) = Key(c.q)
           \/ \E x \in owned :
                 /\ x.file = c.file /\ x.version = version[c.file]
                 /\ LET known == knownReadInterval(c.q, x.read, x.source)
                    IN known.known /\ known.from = e.read.from /\ known.to = e.read.to
  BY DEF IsRepeated
<1>3. e \in sources /\ IsRead(e)
  BY DEF Reads, AtHand
<1>4. PICK j \in DOMAIN request[a].messages : e.id = request[a].messages[j].ev
  <2>1. e.id \in EvsOf(request[a].messages)
    BY <1>2 DEF Spoken
  <2>2. QED
    BY <2>1 DEF EvsOf
<1>. DEFINE s == Contents[e.file][e.version + 1]
            r == executeReadSource(s, c.q)
<1>5. Key(e.q) = Key(c.q) \/ (r.ok /\ e.read.from <= r.from /\ r.to <= e.read.to)
  <2>1. CASE Key(e.q) = Key(c.q)
    BY <2>1
  <2>2. ASSUME NEW x \in owned, x.file = c.file, x.version = version[c.file],
               NEW known, known = knownReadInterval(c.q, x.read, x.source),
               known.known, known.from = e.read.from, known.to = e.read.to
        PROVE  r.ok /\ e.read.from <= r.from /\ r.to <= e.read.to
    <3>1. IsRead(x) /\ x.file = e.file /\ x.version = e.version
      BY <1>2, <2>2 DEF Reads, AtHand
    <3>2. ValidText(s) /\ e.read.from \in Nat /\ e.read.to \in Nat /\ e.read.from <= e.read.to
          /\ (e.read.from = e.read.to => e.read.from = Len(s))
      BY <1>3, ReadHas
    <3>3. x.q \in Request /\ x.read = executeReadSource(s, x.q) /\ x.read.ok
          /\ x.source = Slice(s, x.read.from, x.read.to)
      BY <3>1 DEF IsRead
    <3>4. known.from < known.to \/ known.from = Len(s)
      BY <2>2, <3>2
    <3>. HIDE DEF s, r
    <3>5. known = knownReadInterval(c.q, x.read, Slice(s, x.read.from, x.read.to))
      BY <2>2, <3>3
    <3>6. PICK y : y = x.read
      OBVIOUS
    <3>7. y = executeReadSource(s, x.q) /\ y.ok /\ known = knownReadInterval(c.q, y, Slice(s, y.from, y.to))
      BY <3>3, <3>5, <3>6
    <3>8. r.ok /\ r.from = known.from /\ r.to = known.to
      BY <1>1, <2>2, <3>2, <3>3, <3>4, <3>7, KnownIsWhatIsRead DEF r
    <3>9. QED
      BY <2>2, <3>2, <3>8
  <2>3. QED
    BY <1>2, <2>1, <2>2
<1>6. QED
  BY <1>2, <1>3, <1>4, <1>5 DEF StandsIn

\* What becomes of a call: it stays the one it is, and waits for nothing twice.
LEMMA CallIs ==
  ASSUME Types, NEW a \in Agent, NEW i \in DOMAIN batch[a], Try(a, i) \/ Capture(a, i) \/ Keep(a, i)
  PROVE  \E y \in Entry :
            /\ Step(a, i, y) /\ y.call = batch[a][i].call
            /\ y.step = "repeated" => batch[a][i].call.tool = "read" /\ IsRepeated(a, batch[a][i].call)
            /\ y.step \in {"wait", "go"} => batch[a][i].step = "wait"
<1>. DEFINE x == batch[a][i]
<1>0. x \in Entry
  BY DEF Types
<1>1. CASE Try(a, i)
  <2>1. PICK step \in Phase : /\ Step(a, i, [x EXCEPT !.step = step])
                              /\ step = "repeated" => x.call.tool = "read" /\ IsRepeated(a, x.call)
                              /\ x.step = "wait"
    BY <1>1 DEF Try, Phase
  <2>2. [x EXCEPT !.step = step] \in Entry /\ [x EXCEPT !.step = step].call = x.call
        /\ [x EXCEPT !.step = step].step = step
    BY <1>0 DEF Entry
  <2>3. QED
    BY <2>1, <2>2
<1>2. CASE Capture(a, i)
  <2>. DEFINE n == (IF next = 0 THEN Cardinality(DOMAIN mem.evidence) ELSE next) + 1
  <2>1. n \in Nat
    <3>1. Cardinality(DOMAIN mem.evidence) \in Nat
      BY FS_CardinalityType DEF Types, IsLedger
    <3>2. QED
      BY <3>1 DEF Types
  <2>2. \/ \E step \in {"done", "lost"} : Step(a, i, [x EXCEPT !.step = step])
        \/ Step(a, i, [x EXCEPT !.step = "captured", !.ev = n])
    BY <1>2 DEF Capture, n
  <2>. HIDE DEF n
  <2>3. \A step \in {"done", "lost"} : /\ [x EXCEPT !.step = step] \in Entry
                                       /\ [x EXCEPT !.step = step].call = x.call
                                       /\ [x EXCEPT !.step = step].step \notin {"repeated", "wait", "go"}
    BY <1>0 DEF Entry, Phase
  <2>4. /\ [x EXCEPT !.step = "captured", !.ev = n] \in Entry
        /\ [x EXCEPT !.step = "captured", !.ev = n].call = x.call
        /\ [x EXCEPT !.step = "captured", !.ev = n].step \notin {"repeated", "wait", "go"}
    BY <1>0, <2>1 DEF Entry, Phase
  <2>5. QED
    BY <2>2, <2>3, <2>4
<1>3. CASE Keep(a, i)
  <2>1. \E step \in {"done", "lost"} : Step(a, i, [x EXCEPT !.step = step])
    BY <1>3 DEF Keep
  <2>2. \A step \in {"done", "lost"} : /\ [x EXCEPT !.step = step] \in Entry
                                       /\ [x EXCEPT !.step = step].call = x.call
                                       /\ [x EXCEPT !.step = step].step \notin {"repeated", "wait", "go"}
    BY <1>0 DEF Entry, Phase
  <2>3. QED
    BY <2>1, <2>2
<1>4. QED
  BY <1>1, <1>2, <1>3

LEMMA CallAccounts ==
  ASSUME Types, Reads, NEW a \in Agent, Accounted(a),
         NEW i \in DOMAIN batch[a], Try(a, i) \/ Capture(a, i) \/ Keep(a, i)
  PROVE  Accounted(a)'
<1>0. Each(pc) /\ batch \in [Agent -> Seq(Entry)]
  BY DEF Types
<1>1. /\ UNCHANGED <<pc, session, request, delivered, exposed, accepted, seen>> /\ pc[a] = "batch"
      /\ sources \subseteq sources'
  BY DEF Try, Capture, Keep, runtime, past
<1>2. mem'.of = mem.of
  BY OfStaysIn
<1>3. Spoken(a)' /\ StillTold(a)' /\ Idle(a)' /\ Noted(a)'
  BY <1>1, <1>2 DEF Accounted, Spoken, StillTold, Idle, Noted
<1>. DEFINE x == batch[a][i]
<1>4. x \in Entry
  BY <1>0
<1>5. PICK y : /\ y \in Entry /\ Step(a, i, y) /\ y.call = x.call
               /\ y.step = "repeated" => x.call.tool = "read" /\ IsRepeated(a, x.call)
  BY CallIs
<1>6. /\ DOMAIN batch'[a] = DOMAIN batch[a] /\ batch'[a][i] = y
      /\ \A j \in DOMAIN batch[a] : j # i => batch'[a][j] = batch[a][j]
  BY <1>0, <1>5, StepIs
<1>7. ASSUME NEW j \in DOMAIN batch'[a], batch'[a][j].step = "repeated"
      PROVE  StandsIn(request[a].messages, batch'[a][j].call)
  <2>1. CASE j # i
    BY <1>6, <1>7, <2>1 DEF Accounted, Refused
  <2>2. CASE j = i
    <3>1. x.call \in Call /\ x.call.tool = "read" /\ IsRepeated(a, x.call)
      BY <1>4, <1>5, <1>6, <1>7, <2>2 DEF Entry
    <3>2. StandsIn(request[a].messages, x.call)
      BY <3>1, RepeatedStands DEF Accounted
    <3>3. QED
      BY <1>5, <1>6, <2>2, <3>2
  <2>3. QED
    BY <2>1, <2>2
<1>8. Refused(a)'
  <2>1. ASSUME NEW j \in DOMAIN batch'[a], batch'[a][j].step = "repeated",
               NEW ms, ms = request'[a].messages, NEW c, c = batch'[a][j].call
        PROVE  \E k \in DOMAIN ms : \E e \in sources' :
                  LET r == executeReadSource(Contents[e.file][e.version + 1], c.q)
                  IN /\ e.id = ms[k].ev /\ e.file = c.file
                     /\ Key(e.q) = Key(c.q) \/ (r.ok /\ e.read.from <= r.from /\ r.to <= e.read.to)
    <3>1. StandsIn(ms, c)
      BY <1>1, <1>7, <2>1
    <3>2. QED
      BY <1>1, <3>1 DEF StandsIn
  <2>2. QED
    BY <2>1 DEF Refused, StandsIn
<1>9. QED
  BY <1>3, <1>8 DEF Accounted

LEMMA ActAccounts ==
  ASSUME Types, Reads, Had, NEW a \in Agent, Act(a), \A b \in Agent : Accounted(b)
  PROVE  \A b \in Agent : Accounted(b)'
<1>1. Accounted(a)'
  BY AskNotes, FailAccounts, AnswerAccounts, AcceptAccounts, EndBatchAccounts, CallAccounts DEF Act
<1>2. ASSUME NEW b \in Agent, b # a PROVE Accounted(b)'
  BY <1>2, OthersStay, AccountedStays
<1>3. QED
  BY <1>1, <1>2

\* A subagent that is still to be started has done nothing in this run.
Fresh(b) == EvsOf(request[b].messages) = {} /\ mem.of[b].processed = {} /\ accepted[b] = {} /\ batch[b] = <<>>
Untouched == pc[Root] # "off" => \A b \in Agent : pc[b] = "off" => Fresh(b)

\* Each call that waits to start one has one of its own.
Waits(i) == batch[Root][i].call.tool = "spawn" /\ batch[Root][i].step \in {"wait", "go"}
Starting ==
    pc[Root] \in {"note", "batch"} => \A i \in DOMAIN batch[Root] : Waits(i) =>
        /\ pc[batch[Root][i].call.agent] = "off"
        /\ \A j \in DOMAIN batch[Root] : j # i /\ Waits(j) => batch[Root][j].call.agent # batch[Root][i].call.agent

LEMMA StartIs ==
  ASSUME Types, NEW i \in DOMAIN batch[Root], batch[Root][i].call.tool = "spawn"
  PROVE  Root \in Agent /\ batch[Root][i].call.agent \in Agent \ {Root}
<1>1. Root \in Agent
  BY DEF Agent
<1>2. batch[Root][i] \in Entry
  BY <1>1 DEF Types
<1>3. batch[Root][i].call.agent \in Subs
  BY <1>2 DEF Entry, Call
<1>4. QED
  BY <1>1, <1>3, SourceAssumption DEF Agent

LEMMA UntouchedStays ==
  ASSUME Untouched, pc[Root] # "off",
         \A b \in Agent : pc'[b] = "off" =>
             /\ pc[b] = "off" /\ request'[b] = request[b] /\ mem'.of[b] = mem.of[b]
             /\ accepted'[b] = accepted[b] /\ batch'[b] = batch[b]
  PROVE  Untouched'
BY DEF Untouched, Fresh

LEMMA StartingStays ==
  ASSUME Types, Starting, pc[Root] \in {"note", "batch"}, DOMAIN batch'[Root] = DOMAIN batch[Root],
         \A j \in DOMAIN batch[Root] : /\ batch'[Root][j].call = batch[Root][j].call
                                       /\ batch'[Root][j].step \in {"wait", "go"} => batch[Root][j].step \in {"wait", "go"},
         \A j \in DOMAIN batch[Root] : Waits(j) /\ batch'[Root][j].step \in {"wait", "go"} =>
             pc'[batch[Root][j].call.agent] = pc[batch[Root][j].call.agent]
  PROVE  Starting'
BY DEF Starting, Waits

LEMMA ActUntouched ==
  ASSUME Types, Reads, Untouched, NEW a \in Agent, Act(a)
  PROVE  Untouched'
<1>1. /\ \A b \in Agent : b # a => Unmoved(b)
      /\ pc[a] # "off" /\ pc'[a] # "off"
  BY OthersStay
<1>2. CASE pc[Root] = "off"
  <2>1. Root \in Agent /\ Root # a
    BY <1>1, <1>2 DEF Agent
  <2>2. pc'[Root] = "off"
    BY <1>1, <1>2, <2>1 DEF Unmoved
  <2>3. QED
    BY <2>2 DEF Untouched
<1>3. CASE pc[Root] # "off"
  BY <1>1, <1>3, UntouchedStays DEF Unmoved
<1>4. QED
  BY <1>2, <1>3

LEMMA ActStarting ==
  ASSUME Types, Reads, Starting, NEW a \in Agent, Act(a)
  PROVE  Starting'
<1>0. Root \in Agent /\ batch \in [Agent -> Seq(Entry)] /\ Each(pc) /\ task \in Tasks
  BY DEF Types, Agent
<1>1. /\ \A b \in Agent : b # a => Unmoved(b)
      /\ pc[a] # "off" /\ pc'[a] # "off"
  BY OthersStay
<1>2. CASE a # Root
  <2>1. Unmoved(Root)
    BY <1>0, <1>1, <1>2
  <2>2. CASE pc[Root] \in {"note", "batch"}
    <3>1. ASSUME NEW j \in DOMAIN batch[Root], Waits(j)
          PROVE  pc'[batch[Root][j].call.agent] = pc[batch[Root][j].call.agent]
      <4>1. pc[batch[Root][j].call.agent] = "off" /\ batch[Root][j].call.agent \in Agent
        BY <2>2, <3>1, StartIs DEF Starting, Waits
      <4>2. QED
        BY <1>1, <4>1 DEF Unmoved
    <3>2. batch'[Root] = batch[Root]
      BY <2>1 DEF Unmoved
    <3>3. QED
      BY <2>2, <3>1, <3>2, StartingStays
  <2>3. CASE pc[Root] \notin {"note", "batch"}
    BY <2>1, <2>3 DEF Unmoved, Starting
  <2>4. QED
    BY <2>2, <2>3
<1>3. CASE a = Root
  <2>1. \A j \in DOMAIN batch[Root] : Waits(j) =>
            pc'[batch[Root][j].call.agent] = pc[batch[Root][j].call.agent]
    BY <1>1, <1>3, StartIs DEF Waits, Unmoved
  <2>2. CASE Ask(Root) \/ Fail(Root) \/ EndBatch(Root)
    <3>1. pc'[Root] \notin {"note", "batch"}
      <4>1. \E where \in {"turn", "asked", "over", "back"} : Goto(Root, where)
        BY <2>2 DEF Ask, Fail, EndBatch, End
      <4>2. QED
        BY <1>0, <4>1, PcIs
    <3>2. QED
      BY <3>1 DEF Starting
  <2>3. CASE Answer(Root)
    <3>1. PICK calls \in Batches(Root) :
             /\ \A i, j \in DOMAIN calls : i # j /\ calls[i].tool = "spawn" => calls[i] # calls[j]
             /\ batch' = [batch EXCEPT ![Root] = [i \in DOMAIN calls |-> NewCall(calls[i])]]
      BY <2>3 DEF Answer
    <3>2. batch'[Root] = [i \in DOMAIN calls |-> NewCall(calls[i])]
      BY <1>0, <3>1
    <3>3. DOMAIN batch'[Root] = DOMAIN calls /\ \A i \in DOMAIN calls : batch'[Root][i].call = calls[i]
      BY <3>2 DEF NewCall
    <3>4. calls \in Seq(Call) /\ \A i \in DOMAIN calls : calls[i].tool = "spawn" => pc[calls[i].agent] = "off"
      BY <1>0, BatchesAre
    <3>5. \A i \in DOMAIN calls : calls[i].tool = "spawn" => calls[i] = [tool |-> "spawn", agent |-> calls[i].agent]
                                                         /\ calls[i].agent \in Agent \ {Root}
      <4>1. ASSUME NEW i \in DOMAIN calls, calls[i].tool = "spawn"
            PROVE  calls[i] = [tool |-> "spawn", agent |-> calls[i].agent] /\ calls[i].agent \in Subs
        <5>1. calls[i] \in Call
          BY <3>4
        <5>2. QED
          BY <4>1, <5>1 DEF Call
      <4>2. QED
        BY <4>1, SourceAssumption DEF Agent
    <3>6. \A i \in DOMAIN calls : calls[i].tool = "spawn" => pc'[calls[i].agent] = "off"
      BY <1>1, <1>3, <3>4, <3>5 DEF Unmoved
    <3>7. \A i, j \in DOMAIN calls : i # j /\ calls[i].tool = "spawn" /\ calls[j].tool = "spawn" =>
              calls[i].agent # calls[j].agent
      BY <3>1, <3>5
    <3>8. QED
      BY <3>3, <3>6, <3>7 DEF Starting, Waits
  <2>4. CASE Accept(Root)
    <3>1. pc[Root] = "note" /\ batch' = batch
      BY <2>4 DEF Accept
    <3>2. QED
      BY <2>1, <3>1, StartingStays
  <2>5. ASSUME NEW i \in DOMAIN batch[Root], Try(Root, i) \/ Capture(Root, i) \/ Keep(Root, i)
        PROVE  Starting'
    <3>1. PICK y : /\ y \in Entry /\ Step(Root, i, y) /\ y.call = batch[Root][i].call
                   /\ y.step \in {"wait", "go"} => batch[Root][i].step = "wait"
      BY <1>0, <2>5, CallIs
    <3>2. /\ DOMAIN batch'[Root] = DOMAIN batch[Root] /\ batch'[Root][i] = y
          /\ \A j \in DOMAIN batch[Root] : j # i => batch'[Root][j] = batch[Root][j]
      BY <1>0, <3>1, StepIs
    <3>3. pc[Root] = "batch"
      BY <2>5 DEF Try, Capture, Keep
    <3>4. \A j \in DOMAIN batch[Root] : /\ batch'[Root][j].call = batch[Root][j].call
                                        /\ batch'[Root][j].step \in {"wait", "go"} => batch[Root][j].step \in {"wait", "go"}
      BY <3>1, <3>2
    <3>5. QED
      BY <2>1, <3>2, <3>3, <3>4, StartingStays
  <2>6. QED
    BY <1>3, <2>2, <2>3, <2>4, <2>5 DEF Act
<1>4. QED
  BY <1>2, <1>3

\* Starting a subagent, and its return.
LEMMA SpawnIs ==
  ASSUME Types, Starting, NEW i \in DOMAIN batch[Root], Spawn(i)
  PROVE  LET x == batch[Root][i] IN
         /\ x.call.agent \in Agent \ {Root} /\ pc[x.call.agent] = "off" /\ Waits(i)
         /\ pc[Root] = "batch" /\ pc'[x.call.agent] = "turn" /\ session'[x.call.agent] = <<Goal>>
         /\ \A b \in Agent : b # x.call.agent => pc'[b] = pc[b] /\ session'[b] = session[b]
         /\ \A b \in Agent : b # Root => batch'[b] = batch[b]
         /\ DOMAIN batch'[Root] = DOMAIN batch[Root] /\ batch'[Root][i] = [x EXCEPT !.step = "running"]
         /\ \A j \in DOMAIN batch[Root] : j # i => batch'[Root][j] = batch[Root][j]
         /\ UNCHANGED <<mem, sources, delivered, accepted, exposed, request, seen>>
<1>. DEFINE x == batch[Root][i]
            b == x.call.agent
<1>0. Root \in Agent /\ batch \in [Agent -> Seq(Entry)] /\ Each(pc) /\ session \in [Agent -> Seq(Saying)]
  BY DEF Types, Agent
<1>1. /\ pc[Root] = "batch" /\ x.step = "go" /\ x.call.tool = "spawn"
      /\ Goto(b, "turn") /\ session' = [session EXCEPT ![b] = <<Goal>>]
      /\ Step(Root, i, [x EXCEPT !.step = "running"])
      /\ UNCHANGED <<mem, sources, delivered, accepted, exposed, request, seen>>
  BY DEF Spawn, ledger, runtime, past
<1>2. b \in Agent \ {Root} /\ Waits(i) /\ pc[b] = "off"
  BY <1>1, StartIs DEF Waits, Starting
<1>3. x \in Entry /\ [x EXCEPT !.step = "running"] \in Entry
  <2>1. x \in Entry
    BY <1>0
  <2>2. QED
    BY <2>1 DEF Entry, Phase
<1>4. /\ \A c \in Agent : c # Root => batch'[c] = batch[c]
      /\ DOMAIN batch'[Root] = DOMAIN batch[Root] /\ batch'[Root][i] = [x EXCEPT !.step = "running"]
      /\ \A j \in DOMAIN batch[Root] : j # i => batch'[Root][j] = batch[Root][j]
  BY <1>0, <1>1, <1>3, StepIs
<1>. HIDE DEF b, x
<1>5. pc'[b] = "turn" /\ \A c \in Agent : c # b => pc'[c] = pc[c]
  BY <1>0, <1>1, <1>2, PcIs
<1>6. session'[b] = <<Goal>> /\ \A c \in Agent : c # b => session'[c] = session[c]
  BY <1>0, <1>1, <1>2
<1>7. QED
  BY <1>1, <1>2, <1>4, <1>5, <1>6 DEF b, x

LEMMA SpawnAccounts ==
  ASSUME Types, Starting, Untouched, \A a \in Agent : Accounted(a), NEW i \in DOMAIN batch[Root], Spawn(i)
  PROVE  (\A a \in Agent : Accounted(a))' /\ Untouched' /\ Starting'
<1>1. PICK b : b = batch[Root][i].call.agent
  OBVIOUS
<1>2. /\ b \in Agent \ {Root} /\ pc[b] = "off" /\ Waits(i)
      /\ pc[Root] = "batch" /\ pc'[b] = "turn" /\ session'[b] = <<Goal>>
      /\ \A c \in Agent : c # b => pc'[c] = pc[c] /\ session'[c] = session[c]
      /\ \A c \in Agent : c # Root => batch'[c] = batch[c]
      /\ DOMAIN batch'[Root] = DOMAIN batch[Root]
      /\ batch'[Root][i] = [batch[Root][i] EXCEPT !.step = "running"]
      /\ \A j \in DOMAIN batch[Root] : j # i => batch'[Root][j] = batch[Root][j]
      /\ UNCHANGED <<mem, sources, delivered, accepted, exposed, request, seen>>
  BY <1>1, SpawnIs
<1>3. Root \in Agent /\ batch[Root][i] \in Entry
  BY DEF Types, Agent
<1>4. batch'[Root][i].step = "running" /\ batch'[Root][i].call = batch[Root][i].call
  BY <1>2, <1>3 DEF Entry
<1>5. Fresh(b)
  BY <1>2 DEF Untouched
<1>6. Accounted(b)'
  <2>1. EvsOf(request[b].messages) = {} /\ mem.of[b].processed = {} /\ accepted[b] = {} /\ batch[b] = <<>>
    BY <1>5 DEF Fresh
  <2>2. delivered[b] \union exposed[b] \subseteq {} /\ Unique(mem.of[b].report)
    BY <1>2, <2>1 DEF Accounted, Spoken, StillTold
  <2>3. batch'[b] = <<>> /\ DOMAIN <<>> = {}
    BY <1>2, <2>1
  <2>4. Spoken(b)'
    BY <1>2, <2>1, <2>2 DEF Spoken
  <2>5. StillTold(b)'
    BY <1>2, <2>1, <2>2 DEF StillTold
  <2>6. Idle(b)' /\ Noted(b)' /\ Refused(b)'
    BY <1>2, <2>3 DEF Idle, Noted, Refused
  <2>7. QED
    BY <2>4, <2>5, <2>6 DEF Accounted
<1>7. Accounted(Root)'
  <2>1. pc'[Root] = "batch" /\ session'[Root] = session[Root]
    BY <1>2, <1>3
  <2>2. Spoken(Root)' /\ StillTold(Root)' /\ Idle(Root)' /\ Noted(Root)'
    BY <1>2, <1>3, <2>1 DEF Accounted, Spoken, StillTold, Idle, Noted
  <2>3. ASSUME NEW j \in DOMAIN batch[Root], batch'[Root][j].step = "repeated"
        PROVE  StandsIn(request[Root].messages, batch'[Root][j].call)
    <3>1. j # i
      BY <1>4, <2>3
    <3>2. QED
      BY <1>2, <1>3, <2>3, <3>1 DEF Accounted, Refused
  <2>4. Refused(Root)'
    BY <1>2, <2>3 DEF Refused, StandsIn
  <2>5. QED
    BY <2>2, <2>4 DEF Accounted
<1>8. ASSUME NEW c \in Agent, c # Root, c # b PROVE Accounted(c)'
  <2>1. Unmoved(c)
    BY <1>2, <1>8 DEF Unmoved
  <2>2. QED
    BY <1>2, <2>1, AccountedStays
<1>9. (\A a \in Agent : Accounted(a))'
  BY <1>6, <1>7, <1>8
<1>10. Untouched'
  <2>1. ASSUME NEW c \in Agent, pc'[c] = "off"
        PROVE  /\ pc[c] = "off" /\ request'[c] = request[c] /\ mem'.of[c] = mem.of[c]
               /\ accepted'[c] = accepted[c] /\ batch'[c] = batch[c]
    BY <1>2, <1>3, <2>1
  <2>2. QED
    BY <1>2, <2>1, UntouchedStays
<1>11. Starting'
  <2>1. \A j \in DOMAIN batch[Root] : /\ batch'[Root][j].call = batch[Root][j].call
                                      /\ batch'[Root][j].step \in {"wait", "go"} => batch[Root][j].step \in {"wait", "go"}
    BY <1>2, <1>4
  <2>2. ASSUME NEW j \in DOMAIN batch[Root], Waits(j), batch'[Root][j].step \in {"wait", "go"}
        PROVE  pc'[batch[Root][j].call.agent] = pc[batch[Root][j].call.agent]
    <3>1. j # i
      BY <1>4, <2>2
    <3>2. batch[Root][j].call.agent # b
      BY <1>1, <1>2, <2>2, <3>1 DEF Starting
    <3>3. batch[Root][j].call.agent \in Agent
      BY <2>2, StartIs DEF Waits
    <3>4. QED
      BY <1>2, <3>2, <3>3
  <2>3. QED
    BY <1>2, <2>1, <2>2, StartingStays
<1>12. QED
  BY <1>9, <1>10, <1>11

LEMMA ReturnAccounts ==
  ASSUME Types, Starting, Untouched, \A a \in Agent : Accounted(a), NEW i \in DOMAIN batch[Root], Return(i)
  PROVE  (\A a \in Agent : Accounted(a))' /\ Untouched' /\ Starting'
<1>0. Root \in Agent /\ batch \in [Agent -> Seq(Entry)] /\ IsLedger(mem) /\ IsLedger(durable)
  BY DEF Types, Agent
<1>1. /\ UNCHANGED <<sources, delivered, accepted, exposed, pc, session, request, seen>> /\ pc[Root] = "batch"
      /\ Record(mem) \/ UNCHANGED mem
      /\ \E step \in {"done", "lost"} : Step(Root, i, [batch[Root][i] EXCEPT !.step = step])
  BY DEF Return, runtime, past, ledger
<1>2. mem'.of = mem.of
  BY <1>0, <1>1, RecordIs
<1>3. PICK y : /\ y \in Entry /\ Step(Root, i, y) /\ y.call = batch[Root][i].call /\ y.step \in {"done", "lost"}
  <2>1. batch[Root][i] \in Entry
    BY <1>0
  <2>2. PICK step \in {"done", "lost"} : Step(Root, i, [batch[Root][i] EXCEPT !.step = step])
    BY <1>1
  <2>3. /\ [batch[Root][i] EXCEPT !.step = step] \in Entry
        /\ [batch[Root][i] EXCEPT !.step = step].call = batch[Root][i].call
        /\ [batch[Root][i] EXCEPT !.step = step].step = step
    BY <2>1 DEF Entry, Phase
  <2>4. QED
    BY <2>2, <2>3
<1>4. /\ \A c \in Agent : c # Root => batch'[c] = batch[c]
      /\ DOMAIN batch'[Root] = DOMAIN batch[Root] /\ batch'[Root][i] = y
      /\ \A j \in DOMAIN batch[Root] : j # i => batch'[Root][j] = batch[Root][j]
  BY <1>0, <1>3, StepIs
<1>5. ASSUME NEW c \in Agent, c # Root PROVE Accounted(c)'
  <2>1. Unmoved(c)
    BY <1>1, <1>2, <1>4, <1>5 DEF Unmoved
  <2>2. QED
    BY <1>1, <2>1, AccountedStays
<1>6. Accounted(Root)'
  <2>1. Spoken(Root)' /\ StillTold(Root)' /\ Idle(Root)' /\ Noted(Root)'
    BY <1>0, <1>1, <1>2 DEF Accounted, Spoken, StillTold, Idle, Noted
  <2>2. ASSUME NEW j \in DOMAIN batch[Root], batch'[Root][j].step = "repeated"
        PROVE  StandsIn(request[Root].messages, batch'[Root][j].call)
    <3>1. j # i
      BY <1>3, <1>4, <2>2
    <3>2. QED
      BY <1>0, <1>4, <2>2, <3>1 DEF Accounted, Refused
  <2>3. Refused(Root)'
    BY <1>1, <1>4, <2>2 DEF Refused, StandsIn
  <2>4. QED
    BY <2>1, <2>3 DEF Accounted
<1>7. (\A a \in Agent : Accounted(a))'
  BY <1>5, <1>6
<1>8. Untouched'
  <2>1. ASSUME NEW c \in Agent, pc'[c] = "off"
        PROVE  /\ pc[c] = "off" /\ request'[c] = request[c] /\ mem'.of[c] = mem.of[c]
               /\ accepted'[c] = accepted[c] /\ batch'[c] = batch[c]
    BY <1>1, <1>2, <1>4, <2>1
  <2>2. QED
    BY <1>1, <2>1, UntouchedStays
<1>9. Starting'
  <2>1. \A j \in DOMAIN batch[Root] : /\ batch'[Root][j].call = batch[Root][j].call
                                      /\ batch'[Root][j].step \in {"wait", "go"} => batch[Root][j].step \in {"wait", "go"}
    BY <1>3, <1>4
  <2>2. QED
    BY <1>1, <1>4, <2>1, StartingStays
<1>10. QED
  BY <1>7, <1>8, <1>9

\* A new run has nothing to account for.
LEMMA OpenAccounts ==
  ASSUME Types, Open
  PROVE  (\A a \in Agent : Accounted(a))' /\ Untouched' /\ Starting'
<1>1. Root \in Agent /\ IsLedger(durable)
  BY DEF Types, Agent
<1>2. \A a \in Agent : mem'.of[a] = NoNotes
  <2>1. mem' = [durable EXCEPT !.of = [b \in Agent |-> NoNotes]]
    BY DEF Open
  <2>2. durable = [models |-> durable.models, tools |-> durable.tools, evidence |-> durable.evidence, of |-> durable.of]
    BY <1>1 DEF IsLedger
  <2>3. QED
    BY <2>1, <2>2
<1>3. /\ \A a \in Agent : delivered'[a] = {} /\ accepted'[a] = {} /\ exposed'[a] = {}
      /\ \A a \in Agent : request'[a] = NoRequest /\ batch'[a] = <<>> /\ pc'[a] \in {"turn", "off"}
      /\ pc'[Root] = "turn"
  BY <1>1 DEF Open
<1>4. EvsOf(<<>>) = {} /\ DOMAIN <<>> = {}
  BY DEF EvsOf
<1>5. /\ NoNotes.processed = {} /\ Unique(NoNotes.report) /\ NoRequest.messages = <<>>
  BY NoReportIs DEF NoNotes, NoRequest
<1>6. ASSUME NEW a \in Agent PROVE Accounted(a)'
  <2>1. /\ mem'.of[a].processed = {} /\ Unique(mem'.of[a].report) /\ EvsOf(request'[a].messages) = {}
        /\ DOMAIN batch'[a] = {} /\ batch'[a] = <<>>
    BY <1>2, <1>3, <1>4, <1>5
  <2>2. Spoken(a)'
    BY <1>3, <2>1 DEF Spoken
  <2>3. StillTold(a)' /\ Idle(a)' /\ Noted(a)'
    BY <1>3, <2>1 DEF StillTold, Idle, Noted
  <2>4. Refused(a)'
    BY <2>1 DEF Refused
  <2>5. QED
    BY <2>2, <2>3, <2>4 DEF Accounted
<1>7. Untouched'
  BY <1>2, <1>3, <1>4, <1>5 DEF Untouched, Fresh
<1>8. Starting'
  BY <1>3 DEF Starting
<1>9. QED
  BY <1>6, <1>7, <1>8

\* Nor has one that has ended.
LEMMA LeaveAccounts ==
  ASSUME Leave, \A a \in Agent : Accounted(a)
  PROVE  (\A a \in Agent : Accounted(a))' /\ Untouched' /\ Starting'
<1>1. /\ UNCHANGED <<mem, sources, delivered, accepted, exposed, session, request, batch, seen>>
      /\ \A a \in Agent : pc'[a] = "off"
  BY DEF Leave, ledger, runtime, past
<1>2. ASSUME NEW a \in Agent PROVE Accounted(a)'
  <2>1. Spoken(a)' /\ StillTold(a)' /\ Idle(a)' /\ Noted(a)'
    BY <1>1, <1>2 DEF Accounted, Spoken, StillTold, Idle, Noted
  <2>2. Refused(a)'
    BY <1>1, <1>2 DEF Accounted, Refused, StandsIn
  <2>3. QED
    BY <2>1, <2>2 DEF Accounted
<1>3. Root \in Agent
  BY DEF Agent
<1>4. QED
  BY <1>1, <1>2, <1>3 DEF Untouched, Starting

\* What LeftOutIsNoted rests on.
Accounts == (\A a \in Agent : Accounted(a)) /\ Untouched /\ Starting

LEMMA StartAccounts == Init => Accounts
<1>1. SUFFICES ASSUME Init PROVE Accounts
  OBVIOUS
<1>2. \A a \in Agent : mem.of[a] = NoNotes
  BY <1>1 DEF Init
<1>3. /\ \A a \in Agent : delivered[a] = {} /\ accepted[a] = {} /\ exposed[a] = {}
      /\ \A a \in Agent : request[a] = NoRequest /\ batch[a] = <<>> /\ pc[a] = "off"
  BY <1>1 DEF Init
<1>4. EvsOf(<<>>) = {} /\ DOMAIN <<>> = {}
  BY DEF EvsOf
<1>5. /\ NoNotes.processed = {} /\ Unique(NoNotes.report) /\ NoRequest.messages = <<>>
  BY NoReportIs DEF NoNotes, NoRequest
<1>6. ASSUME NEW a \in Agent PROVE Accounted(a)
  <2>1. mem.of[a].processed = {} /\ Unique(mem.of[a].report) /\ EvsOf(request[a].messages) = {}
    BY <1>2, <1>3, <1>4, <1>5
  <2>2. QED
    BY <1>3, <1>4, <2>1 DEF Accounted, Spoken, StillTold, Idle, Noted, Refused
<1>7. Root \in Agent
  BY DEF Agent
<1>8. QED
  BY <1>3, <1>6, <1>7 DEF Accounts, Untouched, Starting

LEMMA StepAccounts == Types /\ Reads /\ Had /\ Accounts /\ [Next]_vars => Accounts'
<1>1. SUFFICES ASSUME Types, Reads, Had, Accounts, [Next]_vars PROVE Accounts'
  OBVIOUS
<1>2. (\A a \in Agent : Accounted(a)) /\ Untouched /\ Starting
  BY <1>1 DEF Accounts
<1>3. ASSUME NEW a \in Agent, Act(a) PROVE Accounts'
  BY <1>1, <1>2, <1>3, ActAccounts, ActUntouched, ActStarting DEF Accounts
<1>4. ASSUME NEW i \in DOMAIN batch[Root], Spawn(i) \/ Return(i) PROVE Accounts'
  BY <1>1, <1>2, <1>4, SpawnAccounts, ReturnAccounts DEF Accounts
<1>5. CASE Open
  BY <1>1, <1>5, OpenAccounts DEF Accounts
<1>6. CASE Leave
  BY <1>2, <1>6, LeaveAccounts DEF Accounts
<1>7. CASE Edit \/ UNCHANGED vars
  <2>1. UNCHANGED <<mem, sources, delivered, accepted, exposed, pc, session, request, batch, seen>>
    BY <1>7 DEF Edit, vars, ledger, runtime, talk, past
  <2>2. \A a \in Agent : Accounted(a)'
    BY <1>2, <2>1, AccountedStays DEF Unmoved
  <2>3. Untouched'
    BY <1>2, <2>1 DEF Untouched, Fresh
  <2>4. Starting'
    BY <1>2, <2>1 DEF Starting, Waits
  <2>5. QED
    BY <2>2, <2>3, <2>4 DEF Accounts
<1>8. QED
  BY <1>1, <1>3, <1>4, <1>5, <1>6, <1>7 DEF Next, Act

\* What a request leaves out it speaks of: a folded read has been had, and a
\* finding or summary in the request speaks of it; the findings of an answer
\* without its text are in the notes; and a read refused as repeated is in the
\* last request (prepareAnalysisRequest, mergeAnalysisReports,
\* rejectDuplicateRead).
THEOREM NothingLeftUnsaid == Spec => []LeftOutIsNoted
<1>1. Types /\ Reads /\ Had /\ Accounts /\ [Next]_vars => Accounts'
  BY StepAccounts
<1>2. Accounts => LeftOutIsNoted
  BY LeftOutIs DEF Accounts, Accounted
<1>3. QED
  BY <1>1, <1>2, StartAccounts, NotesAreTyped, PTL DEF Spec
================================================================================
