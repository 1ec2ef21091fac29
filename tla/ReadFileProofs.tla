----------------------------- MODULE ReadFileProofs -----------------------------
(***************************************************************************)
(* What is proved of the reading of files (module ReadFile), for any text, *)
(* requests and sizes of a page. A page is counted out in newlines         *)
(* (Breaks, LineAt), and a page with numbers ends where these fill it      *)
(* (ConsumedIs); so what an earlier read tells of a request is what the    *)
(* request would return (KnownIsWhatIsRead). And intervals without a gap   *)
(* hold every byte (GapsCover), by going through them in the order of      *)
(* their places (SweepIs), one number after another (Recursively, Induct). *)
(***************************************************************************)
EXTENDS ReadFile, FiniteSetTheorems, SequenceTheorems, WellFoundedInduction, TLAPS

-----------------------------------------------------------------------------
(* Least and greatest elements.                                            *)

LEMMA MinOfNat ==
  ASSUME NEW S \in SUBSET Nat, S # {}
  PROVE  Min(S) \in S /\ \A y \in S : Min(S) <= y
<1>1. \E x \in S : \A y \in S : ~ <<y, x>> \in OpToRel(<, Nat)
  BY NatLessThanWellFounded, WFMin
<1>a. \A x, y \in Nat : y < x => <<y, x>> \in OpToRel(<, Nat)
  BY Zenon DEF OpToRel
<1>b. \A x, y \in Nat : ~ (y < x) => x =< y
  OBVIOUS
<1>2. \E x \in S : \A y \in S : x =< y
  BY <1>1, <1>a, <1>b, Zenon
<1>3. QED
  BY <1>2 DEF Min

LEMMA MinIs ==
  ASSUME NEW S \in SUBSET Nat, NEW x \in S, \A y \in S : x <= y
  PROVE  Min(S) = x
<1>1. Min(S) \in S /\ \A y \in S : Min(S) <= y
  BY MinOfNat
<1>2. Min(S) \in Nat /\ x \in Nat /\ Min(S) <= x /\ x <= Min(S)
  BY <1>1
<1>3. QED
  BY <1>2

LEMMA MaxOfNat ==
  ASSUME NEW S \in SUBSET Nat, S # {}, NEW n \in Nat, \A y \in S : y <= n
  PROVE  Max(S) \in S /\ \A y \in S : y <= Max(S)
<1> DEFINE T == {n - y : y \in S}
<1>1. T \in SUBSET Nat /\ T # {}
  <2>1. \A y \in S : n - y \in Nat
    OBVIOUS
  <2>2. T \subseteq Nat
    BY <2>1
  <2>3. T # {}
    OBVIOUS
  <2>4. QED
    BY <2>2, <2>3
<1>2. PICK t \in T : \A z \in T : t <= z
  <2> HIDE DEF T
  <2>1. QED
    BY <1>1, MinOfNat
<1>3. PICK x \in S : t = n - x
  OBVIOUS
<1>4. \A y \in S : n - y \in T
  OBVIOUS
<1>5. \A y \in S : x >= y
  BY <1>2, <1>3, <1>4
<1>6. \E z \in S : \A y \in S : z >= y
  BY <1>5
<1>7. Max(S) \in S /\ \A y \in S : Max(S) >= y
  BY <1>6 DEF Max
<1>8. QED
  BY <1>7

LEMMA MaxIs ==
  ASSUME NEW S \in SUBSET Nat, NEW x \in S, \A y \in S : y <= x
  PROVE  Max(S) = x
<1>1. Max(S) \in S /\ \A y \in S : y <= Max(S)
  BY MaxOfNat
<1>2. Max(S) \in Nat /\ x \in Nat /\ Max(S) <= x /\ x <= Max(S)
  BY <1>1
<1>3. QED
  BY <1>2

-----------------------------------------------------------------------------
(* Slices, and the newlines in them.                                       *)

LEMMA SliceIs ==
  ASSUME NEW S, NEW s \in Seq(S), NEW a \in Nat, NEW b \in Nat, a <= b, b <= Len(s)
  PROVE  /\ Slice(s, a, b) \in Seq(S)
         /\ Len(Slice(s, a, b)) = b - a
         /\ \A i \in 1 .. b - a : Slice(s, a, b)[i] = s[a + i]
<1>1. /\ SubSeq(s, a + 1, b) \in Seq(S)
      /\ Len(SubSeq(s, a + 1, b)) = IF a + 1 <= b THEN b - (a + 1) + 1 ELSE 0
      /\ \A i \in 1 .. b - (a + 1) + 1 : SubSeq(s, a + 1, b)[i] = s[a + 1 + i - 1]
  BY SubSeqProperties
<1>2. QED
  BY <1>1 DEF Slice

LEMMA SameSlice ==
  ASSUME NEW S, NEW s \in Seq(S), NEW a \in Nat, NEW b \in Nat, a <= b, b <= Len(s),
         NEW c \in Nat, NEW d \in Nat, c <= d, d <= b - a
  PROVE  Slice(Slice(s, a, b), c, d) = Slice(s, a + c, a + d)
<1>1. /\ Slice(s, a, b) \in Seq(S) /\ Len(Slice(s, a, b)) = b - a
      /\ \A i \in 1 .. b - a : Slice(s, a, b)[i] = s[a + i]
  BY SliceIs
<1>2. /\ Slice(Slice(s, a, b), c, d) \in Seq(S) /\ Len(Slice(Slice(s, a, b), c, d)) = d - c
      /\ \A i \in 1 .. d - c : Slice(Slice(s, a, b), c, d)[i] = Slice(s, a, b)[c + i]
  <2>1. d <= Len(Slice(s, a, b))
    BY <1>1
  <2>2. QED
    BY ONLY <1>1, <2>1, SliceIs, c \in Nat, d \in Nat, c <= d
<1>3. /\ Slice(s, a + c, a + d) \in Seq(S) /\ Len(Slice(s, a + c, a + d)) = d - c
      /\ \A i \in 1 .. d - c : Slice(s, a + c, a + d)[i] = s[a + c + i]
  <2>1. a + c \in Nat /\ a + d \in Nat /\ a + c <= a + d /\ a + d <= Len(s) /\ (a + d) - (a + c) = d - c
    BY LenProperties
  <2> DEFINE aa == a + c  bb == a + d
  <2>2. /\ Slice(s, aa, bb) \in Seq(S) /\ Len(Slice(s, aa, bb)) = bb - aa
        /\ \A i \in 1 .. bb - aa : Slice(s, aa, bb)[i] = s[aa + i]
    <3> HIDE DEF aa, bb
    <3>1. aa \in Nat /\ bb \in Nat /\ aa <= bb /\ bb <= Len(s)
      BY <2>1 DEF aa, bb
    <3>2. QED
      BY <3>1, SliceIs, ZenonT(40)
  <2>3. QED
    BY <2>1, <2>2
<1>4. \A i \in 1 .. d - c : Slice(Slice(s, a, b), c, d)[i] = Slice(s, a + c, a + d)[i]
  <2>1. SUFFICES ASSUME NEW i \in 1 .. d - c
                 PROVE  Slice(Slice(s, a, b), c, d)[i] = Slice(s, a + c, a + d)[i]
    OBVIOUS
  <2>2. c + i \in 1 .. b - a
    OBVIOUS
  <2>3. Slice(s, a, b)[c + i] = s[a + (c + i)]
    BY <1>1, <2>2
  <2>4. a + (c + i) = a + c + i
    OBVIOUS
  <2>5. QED
    BY <1>2, <1>3, <2>3, <2>4
<1>5. QED
  BY <1>2, <1>3, <1>4, SeqEqual

\* Newlines among the bytes a .. b - 1.
Breaks(s, a, b) == Cardinality({i \in (a + 1) .. b : s[i] = "n"})

LEMMA BreaksSum ==
  ASSUME NEW s, NEW a \in Nat, NEW b \in Nat, NEW c \in Nat, a <= b, b <= c
  PROVE  /\ Breaks(s, a, b) \in Nat
         /\ Breaks(s, a, c) = Breaks(s, a, b) + Breaks(s, b, c)
<1> DEFINE In(x, y) == {i \in (x + 1) .. y : s[i] = "n"}
<1>1. ASSUME NEW x \in Nat, NEW y \in Nat
      PROVE  IsFiniteSet(In(x, y)) /\ Cardinality(In(x, y)) \in Nat
  <2>1. IsFiniteSet((x + 1) .. y)
    BY FS_Interval
  <2>2. QED
    BY <2>1, FS_Subset, FS_CardinalityType
<1>2. In(a, b) \cap In(b, c) = {}
  OBVIOUS
<1>3. In(a, c) = In(a, b) \cup In(b, c)
  OBVIOUS
<1>4. /\ IsFiniteSet(In(a, b)) /\ IsFiniteSet(In(b, c))
      /\ Cardinality(In(a, b)) \in Nat /\ Cardinality(In(b, c)) \in Nat
  BY <1>1
<1>5. Cardinality(In(a, b) \cup In(b, c)) = Cardinality(In(a, b)) + Cardinality(In(b, c))
  <2> HIDE DEF In
  <2>1. QED
    BY <1>2, <1>4, FS_Union, FS_EmptySet
<1>6. QED
  BY <1>3, <1>4, <1>5 DEF Breaks

LEMMA BreaksOne ==
  ASSUME NEW s, NEW i \in Nat
  PROVE  Breaks(s, i, i + 1) = IF s[i + 1] = "n" THEN 1 ELSE 0
<1>1. {k \in (i + 1) .. (i + 1) : s[k] = "n"} = IF s[i + 1] = "n" THEN {i + 1} ELSE {}
  OBVIOUS
<1>2. QED
  BY <1>1, FS_Singleton, FS_EmptySet DEF Breaks

LEMMA BreaksNone ==
  ASSUME NEW s, NEW i \in Nat
  PROVE  Breaks(s, i, i) = 0
<1>1. {k \in (i + 1) .. i : s[k] = "n"} = {}
  OBVIOUS
<1>2. QED
  BY <1>1, FS_EmptySet DEF Breaks

LEMMA NewlinesOfSlice ==
  ASSUME NEW S, NEW s \in Seq(S), NEW a \in Nat, NEW b \in Nat, a <= b, b <= Len(s)
  PROVE  Newlines(Slice(s, a, b)) = Breaks(s, a, b)
<1> DEFINE d == Slice(s, a, b)
           A == {i \in DOMAIN d : d[i] = "n"}
           B == {i \in (a + 1) .. b : s[i] = "n"}
           f == [i \in A |-> i + a]
<1>1. DOMAIN d = 1 .. b - a /\ \A i \in 1 .. b - a : d[i] = s[a + i]
  BY SliceIs, LenProperties, ZenonT(40)
<1> HIDE DEF d
<1>2. IsFiniteSet(A)
  <2>1. IsFiniteSet(1 .. b - a)
    BY FS_Interval
  <2>2. QED
    BY <1>1, <2>1, FS_Subset
<1>3. \A i \in A : i + a \in B
  BY <1>1
<1>4. \A j \in B : j - a \in A /\ (j - a) + a = j
  BY <1>1
<1>5. \A i, k \in A : i + a = k + a => i = k
  BY <1>1
<1>6. f \in Bijection(A, B)
  <2>1. f \in [A -> B]
    BY <1>3
  <2>2. \A i, k \in A : f[i] = f[k] => i = k
    BY <1>5
  <2>3. \A j \in B : \E i \in A : f[i] = j
    BY <1>4
  <2> HIDE DEF f, A, B
  <2>4. QED
    BY <2>1, <2>2, <2>3 DEF Bijection, Injection, Surjection, IsInjective
<1>7. Cardinality(B) = Cardinality(A)
  <2> HIDE DEF f, A, B
  <2>1. QED
    BY <1>2, <1>6, FS_Bijection DEF ExistsBijection
<1>8. QED
  BY <1>7 DEF Newlines, Breaks, d
-----------------------------------------------------------------------------
(* Lines.                                                                  *)

\* The line byte i is on.
LineAt(s, i) == 1 + Breaks(s, 0, i)

LEMMA LineSteps ==
  ASSUME NEW s, NEW i \in Nat
  PROVE  /\ LineAt(s, 0) = 1
         /\ LineAt(s, i) \in Nat
         /\ LineAt(s, i + 1) = LineAt(s, i) + (IF s[i + 1] = "n" THEN 1 ELSE 0)
         /\ \A j \in Nat : i <= j => LineAt(s, i) <= LineAt(s, j)
         /\ \A j \in Nat : i <= j => LineAt(s, j) = LineAt(s, i) + Breaks(s, i, j)
<1>1. Breaks(s, 0, 0) = 0
  BY BreaksNone
<1>2. Breaks(s, 0, i) \in Nat
  BY BreaksSum, SMTT(30)
<1>3. Breaks(s, 0, i + 1) = Breaks(s, 0, i) + (IF s[i + 1] = "n" THEN 1 ELSE 0)
  BY BreaksSum, BreaksOne
<1>4. ASSUME NEW j \in Nat, i <= j
      PROVE  Breaks(s, 0, j) = Breaks(s, 0, i) + Breaks(s, i, j) /\ Breaks(s, i, j) \in Nat
  <2>1. Breaks(s, 0, j) = Breaks(s, 0, i) + Breaks(s, i, j)
    BY <1>4, BreaksSum
  <2>2. Breaks(s, i, j) \in Nat
    BY <1>4, BreaksSum, j <= j
  <2>3. QED
    BY <2>1, <2>2
<1>5. QED
  BY <1>1, <1>2, <1>3, <1>4 DEF LineAt

\* The bytes of the lines from .. to that are among the first n.
Mine(s, n, from, to) == {i \in 0 .. n - 1 : LineAt(s, i) \in from .. to}

LEMMA LinesOfIs ==
  ASSUME NEW s \in Seq(Byte), NEW from, NEW to
  PROVE  LinesOf(s, from, to) =
           IF Mine(s, Len(s), from, to) = {} THEN [from |-> Len(s), to |-> Len(s)]
           ELSE [from |-> Min(Mine(s, Len(s), from, to)),
                 to |-> Max(Mine(s, Len(s), from, to)) + 1]
<1>1. ASSUME NEW i \in 0 .. Len(s) - 1
      PROVE  1 + Newlines(SubSeq(s, 1, i)) = LineAt(s, i)
  <2>1. Newlines(Slice(s, 0, i)) = Breaks(s, 0, i)
    BY NewlinesOfSlice, LenProperties
  <2>2. QED
    BY <2>1 DEF LineAt, Slice
<1>2. {i \in 0 .. Len(s) - 1 : 1 + Newlines(SubSeq(s, 1, i)) \in from .. to} = Mine(s, Len(s), from, to)
  BY <1>1 DEF Mine
<1>3. QED
  BY <1>2 DEF LinesOf

\* Where the lines from .. to of a file begin and end.
LEMMA LinesAre ==
  ASSUME NEW s, ValidText(s), NEW from \in Nat \ {0}, NEW to \in Nat,
         Mine(s, Len(s), from, to) # {}
  PROVE  LET x == LinesOf(s, from, to) IN
         /\ x.from \in Nat /\ x.to \in Nat /\ x.from < x.to /\ x.to <= Len(s)
         /\ LineAt(s, x.from) = from
         /\ Boundary(s, x.from) /\ Boundary(s, x.to)
<1> DEFINE M == Mine(s, Len(s), from, to)
<1>0. /\ s \in Seq(Byte) /\ Len(s) \in Nat /\ DOMAIN s = 1 .. Len(s)
      /\ \A i \in 1 .. Len(s) : s[i] = "t" => i > 1 /\ s[i - 1] = "h"
  BY LenProperties DEF ValidText
<1>1. M \in SUBSET Nat /\ M # {} /\ \A y \in M : y <= Len(s)
  BY <1>0 DEF Mine
<1>2. PICK a \in M : a = Min(M) /\ \A y \in M : a <= y
  BY <1>1, MinOfNat
<1>3. PICK b \in M : b = Max(M) /\ \A y \in M : y <= b
  BY <1>0, <1>1, MaxOfNat
<1>4. LinesOf(s, from, to) = [from |-> a, to |-> b + 1]
  BY <1>0, <1>1, <1>2, <1>3, LinesOfIs
<1>5. /\ a \in Nat /\ b \in Nat /\ a <= b /\ b + 1 <= Len(s)
      /\ LineAt(s, a) \in from .. to /\ LineAt(s, b) \in from .. to
  BY <1>0, <1>2, <1>3 DEF Mine
<1>6. LineAt(s, a) = from /\ (a # 0 => s[a] = "n")
  <2>1. CASE a = 0
    BY <2>1, <1>5, LineSteps
  <2>2. CASE a # 0
    <3> DEFINE c == a - 1
    <3>1. c \in Nat /\ c + 1 = a /\ c \in 0 .. Len(s) - 1
      BY <2>2, <1>0, <1>5
    <3>2. c \notin M
      BY <3>1, <1>2, <1>5
    <3>3. LineAt(s, c) \notin from .. to
      BY <3>1, <3>2 DEF Mine
    <3>4. LineAt(s, c) \in Nat /\ LineAt(s, a) = LineAt(s, c) + (IF s[a] = "n" THEN 1 ELSE 0)
      <4> HIDE DEF c
      <4>1. QED
        BY <3>1, LineSteps
    <3>5. QED
      BY <3>3, <3>4, <1>5
  <2>3. QED
    BY <2>1, <2>2
<1>7. b + 1 < Len(s) => s[b + 1] = "n"
  <2>1. ASSUME b + 1 < Len(s) PROVE s[b + 1] = "n"
    <3>1. b + 1 \in 0 .. Len(s) - 1 /\ b + 1 \notin M
      BY <2>1, <1>3, <1>5, <1>0
    <3>2. LineAt(s, b + 1) \notin from .. to
      BY <3>1 DEF Mine
    <3>3. LineAt(s, b) \in Nat /\ LineAt(s, b + 1) = LineAt(s, b) + (IF s[b + 1] = "n" THEN 1 ELSE 0)
      BY <1>5, LineSteps
    <3>4. QED
      BY <3>2, <3>3, <1>5
  <2>2. QED
    BY <2>1
<1>8. Boundary(s, a) /\ Boundary(s, b + 1)
  <2>1. a < Len(s) => s[a + 1] # "t"
    BY <1>0, <1>5, <1>6
  <2>2. b + 1 < Len(s) => s[b + 1 + 1] # "t"
    BY <1>0, <1>5, <1>7
  <2>3. QED
    BY <1>0, <1>5, <2>1, <2>2 DEF Boundary
<1>9. QED
  BY <1>4, <1>5, <1>6, <1>8
-----------------------------------------------------------------------------
(* What fits on a page.                                                    *)

LEMMA TrimmedIs ==
  ASSUME NEW t \in Seq(Byte), Boundary(t, 0), NEW n \in Nat
  PROVE  /\ Trimmed(t, n) \in Nat /\ Trimmed(t, n) <= n /\ Trimmed(t, n) <= Len(t)
         /\ Boundary(t, Trimmed(t, n))
         /\ \A i \in 0 .. n : i <= Len(t) /\ Boundary(t, i) => i <= Trimmed(t, n)
<1> DEFINE T == {i \in 0 .. n : i <= Len(t) /\ Boundary(t, i)}
<1>0. Len(t) \in Nat
  BY LenProperties
<1>1. 0 \in T
  BY <1>0
<1>2. T \in SUBSET Nat /\ T # {} /\ \A y \in T : y <= n
  BY <1>1
<1>3. Max(T) \in T /\ \A y \in T : y <= Max(T)
  <2> HIDE DEF T
  <2>1. QED
    BY <1>2, MaxOfNat
<1>4. Trimmed(t, n) = Max(T)
  BY DEF Trimmed
<1>5. QED
  BY <1>3, <1>4

LEMMA Products ==
  ASSUME NEW a \in Nat, NEW b \in Nat, NEW c \in Nat, NEW d \in Nat, a <= b
  PROVE  /\ c * a \in Nat /\ c * a <= c * b /\ c * 0 = 0 /\ c * 1 = c
         /\ c * (b + 1) + d <= (b + 1) * (c + d)
<1>1. PICK k \in Nat : b = a + k
  <2>1. b - a \in Nat /\ b = a + (b - a)
    OBVIOUS
  <2>2. QED
    BY <2>1
<1>2. c * a \in Nat /\ c * k \in Nat /\ c * (a + k) = c * a + c * k
  OBVIOUS
<1>3. b * d \in Nat /\ (b + 1) * (c + d) = c * (b + 1) + (b * d + d)
  OBVIOUS
<1>4. QED
  BY <1>1, <1>2, <1>3

\* The bytes that n bytes of a page make, with their numbers.
Numbered(w, continued, n) ==
  n + Label * Cardinality({i \in LineStarts(w) : i < n}) + (IF continued /\ n > 0 THEN Again ELSE 0)

LEMMA ConsumedIs ==
  ASSUME NEW w \in Seq(Byte), Boundary(w, 0), NEW continued \in BOOLEAN
  PROVE  /\ Consumed(w, continued) \in Nat /\ Consumed(w, continued) <= Len(w)
         /\ Boundary(w, Consumed(w, continued))
         /\ \A n \in 0 .. Len(w) : Boundary(w, n) /\ Numbered(w, continued, n) <= MaxRead
              => n <= Consumed(w, continued)
<1> DEFINE T == {n \in 0 .. Len(w) : Boundary(w, n) /\ Numbered(w, continued, n) <= MaxRead}
<1>0. Len(w) \in Nat
  BY LenProperties
<1>1. 0 \in T
  <2>1. {i \in LineStarts(w) : i < 0} = {}
    BY DEF LineStarts
  <2>2. Numbered(w, continued, 0) = 0
    BY <2>1, FS_EmptySet, ReadAssumption DEF Numbered
  <2>3. QED
    BY <1>0, <2>2, ReadAssumption
<1>2. T \in SUBSET Nat /\ T # {} /\ \A y \in T : y <= Len(w)
  BY <1>0, <1>1
<1>3. Max(T) \in T /\ \A y \in T : y <= Max(T)
  <2> HIDE DEF T
  <2>1. QED
    BY <1>0, <1>2, MaxOfNat
<1>4. Consumed(w, continued) = Max(T)
  BY DEF Consumed, Numbered
<1>5. QED
  BY <1>0, <1>3, <1>4

\* Fits is on the safe side.
LEMMA ConsumedAll ==
  ASSUME NEW w \in Seq(Byte), Boundary(w, 0), NEW continued \in BOOLEAN, Fits(w, TRUE)
  PROVE  Consumed(w, continued) = Len(w)
<1> DEFINE A == {i \in DOMAIN w : w[i] = "n"}
           B == {i \in LineStarts(w) : i < Len(w)}
<1>0. Len(w) \in Nat /\ DOMAIN w = 1 .. Len(w)
  BY LenProperties
<1>1. IsFiniteSet(A) /\ Cardinality(A) \in Nat /\ Newlines(w) = Cardinality(A)
  <2>1. IsFiniteSet(1 .. Len(w))
    BY <1>0, FS_Interval
  <2>2. IsFiniteSet(A)
    BY <1>0, <2>1, FS_Subset
  <2>3. QED
    BY <2>2, FS_CardinalityType DEF Newlines
<1>2. IsFiniteSet(B) /\ Cardinality(B) \in Nat /\ Cardinality(B) <= Newlines(w) + 1
  <2>1. B \subseteq A \cup {0}
    BY <1>0 DEF LineStarts
  <2>2. IsFiniteSet(A \cup {0}) /\ Cardinality(A \cup {0}) = Cardinality(A) + 1
    <3>1. 0 \notin A
      BY <1>0
    <3> HIDE DEF A
    <3>2. QED
      BY <1>1, <3>1, FS_AddElement
  <2>3. QED
    BY <1>1, <2>1, <2>2, FS_Subset, FS_CardinalityType
<1>3. Label * Cardinality(B) <= Label * (Newlines(w) + 1)
  <2> DEFINE a == Cardinality(B)  b == Newlines(w) + 1
  <2>1. a \in Nat /\ b \in Nat /\ a <= b
    BY <1>1, <1>2
  <2> HIDE DEF a, b
  <2>2. Label * a <= Label * b
    BY ONLY <2>1, Products, ReadAssumption
  <2>3. QED
    BY <2>2 DEF a, b
<1>4. Label * (Newlines(w) + 1) + Again <= (Newlines(w) + 1) * (Label + Again)
  <2> DEFINE b == Newlines(w)
  <2>1. b \in Nat /\ b <= b
    BY <1>1
  <2> HIDE DEF b
  <2>2. Label * (b + 1) + Again <= (b + 1) * (Label + Again)
    BY ONLY <2>1, Products, ReadAssumption
  <2>3. QED
    BY <2>2 DEF b
<1>5. /\ Label * Cardinality(B) \in Nat /\ Label * (Newlines(w) + 1) \in Nat
      /\ (Newlines(w) + 1) * (Label + Again) \in Nat
  BY <1>1, <1>2, ReadAssumption
<1>6. Len(w) + (Newlines(w) + 1) * (Label + Again) <= MaxRead
  BY DEF Fits
<1>7. Numbered(w, continued, Len(w)) <= MaxRead
  <2> DEFINE x == Label * Cardinality(B)
             y == Label * (Newlines(w) + 1)
             z == (Newlines(w) + 1) * (Label + Again)
  <2>1. Numbered(w, continued, Len(w)) = Len(w) + x + (IF continued /\ Len(w) > 0 THEN Again ELSE 0)
    BY DEF Numbered
  <2>2. x \in Nat /\ y \in Nat /\ z \in Nat /\ x <= y /\ y + Again <= z /\ Len(w) + z <= MaxRead
    BY <1>3, <1>4, <1>5, <1>6
  <2> HIDE DEF x, y, z
  <2>3. QED
    BY <2>1, <2>2, <1>0, ReadAssumption
<1>8. Len(w) \in 0 .. Len(w) /\ Boundary(w, Len(w))
  BY <1>0 DEF Boundary
<1>9. QED
  BY <1>0, <1>7, <1>8, ConsumedIs

\* A page is never empty for the numbers' sake.
LEMMA ConsumedSome ==
  ASSUME NEW w \in Seq(Byte), Boundary(w, 0), w # <<>>, NEW continued \in BOOLEAN,
         \A i \in 2 .. Len(w) : w[i] = "t" => w[i - 1] = "h"
  PROVE  Consumed(w, continued) > 0
<1> DEFINE n == IF Len(w) > 1 /\ w[2] = "t" THEN 2 ELSE 1
           B == {i \in LineStarts(w) : i < n}
<1>0. Len(w) \in Nat /\ Len(w) > 0
  BY EmptySeq, LenProperties
<1>1. n \in 1 .. 2 /\ n <= Len(w)
  BY <1>0
<1>2. Boundary(w, n)
  <2>1. CASE Len(w) > 1 /\ w[2] = "t"
    <3>1. Len(w) > 2 => w[3] # "t"
      BY <2>1, <1>0
    <3>2. QED
      BY <2>1, <3>1, <1>0 DEF Boundary
  <2>2. CASE ~ (Len(w) > 1 /\ w[2] = "t")
    BY <2>2, <1>0 DEF Boundary
  <2>3. QED
    BY <2>1, <2>2
<1>3. B \subseteq {0}
  <2>1. ASSUME NEW i \in B PROVE i = 0
    <3>1. i \in 0 .. Len(w) - 1 /\ i < n /\ (i = 0 \/ w[i] = "n")
      BY DEF LineStarts
    <3>2. CASE Len(w) > 1 /\ w[2] = "t"
      <4>1. w[1] = "h"
        BY <3>2, <1>0
      <4>2. QED
        BY <4>1, <3>1, <3>2
    <3>3. CASE ~ (Len(w) > 1 /\ w[2] = "t")
      BY <3>1, <3>3
    <3>4. QED
      BY <3>2, <3>3
  <2>2. QED
    BY <2>1
<1>4. Cardinality(B) \in Nat /\ Cardinality(B) <= 1
  <2> HIDE DEF B
  <2>1. IsFiniteSet({0}) /\ Cardinality({0}) = 1
    BY FS_Singleton
  <2>2. IsFiniteSet(B) /\ Cardinality(B) <= Cardinality({0})
    BY <1>3, <2>1, FS_Subset
  <2>3. QED
    BY <2>1, <2>2, FS_CardinalityType
<1>5. Label * Cardinality(B) \in Nat /\ Label * Cardinality(B) <= Label
  <2> DEFINE a == Cardinality(B)
  <2>1. a \in Nat /\ 1 \in Nat /\ a <= 1
    BY <1>4
  <2> HIDE DEF a
  <2>2. Label * a \in Nat /\ Label * a <= Label * 1 /\ Label * 1 = Label
    BY ONLY <2>1, Products, ReadAssumption
  <2>3. QED
    BY <2>2 DEF a
<1>6. Numbered(w, continued, n) <= MaxRead
  <2> DEFINE x == Label * Cardinality(B)
  <2>1. Numbered(w, continued, n) = n + x + (IF continued /\ n > 0 THEN Again ELSE 0)
    BY DEF Numbered
  <2>2. x \in Nat /\ x <= Label
    BY <1>5
  <2> HIDE DEF x, n
  <2>3. QED
    BY <2>1, <2>2, <1>1, ReadAssumption
<1>7. n <= Consumed(w, continued)
  <2> HIDE DEF n
  <2>1. QED
    BY <1>0, <1>1, <1>2, <1>6, ConsumedIs
<1>8. QED
  <2> HIDE DEF n
  <2>1. QED
    BY <1>1, <1>7, ConsumedIs
\* Between two places between characters, a slice has the text's boundaries.
LEMMA BoundaryInside ==
  ASSUME NEW s \in Seq(Byte), NEW a \in Nat, NEW b \in Nat, a <= b, b <= Len(s), Boundary(s, b),
         NEW i \in 0 .. b - a
  PROVE  Boundary(Slice(s, a, b), i) <=> Boundary(s, a + i)
<1> DEFINE d == Slice(s, a, b)
<1>0. Len(s) \in Nat
  BY LenProperties
<1>1. d \in Seq(Byte) /\ Len(d) = b - a /\ \A j \in 1 .. b - a : d[j] = s[a + j]
  BY SliceIs
<1>2. CASE i = b - a
  <2>1. a + i = b /\ i >= Len(d)
    BY <1>1, <1>2
  <2>2. QED
    BY <2>1 DEF Boundary
<1>3. CASE i < b - a
  <2>1. d[i + 1] = s[a + i + 1] /\ a + i < Len(s) /\ i < Len(d)
    BY <1>0, <1>1, <1>3
  <2>2. QED
    BY <2>1, <1>0, <1>1 DEF Boundary
<1>4. QED
  BY <1>2, <1>3

\* A page opened at a place between two characters ends at one.
LEMMA PageIs ==
  ASSUME NEW s, ValidText(s), NEW a \in Nat, NEW b \in Nat, a <= b, b <= Len(s),
         Boundary(s, a), Boundary(s, b), NEW n \in Nat
  PROVE  LET t == Trimmed(Slice(s, a, b), n)
             w == SubSeq(Slice(s, a, b), 1, t)
         IN /\ t \in Nat /\ t <= n /\ a + t <= b
            /\ w = Slice(s, a, a + t) /\ w \in Seq(Byte) /\ Len(w) = t
            /\ Boundary(w, 0) /\ Boundary(s, a + t)
            /\ \A i \in 0 .. t : Boundary(w, i) => Boundary(s, a + i)
            /\ \A i \in 2 .. t : w[i] = "t" => w[i - 1] = "h"
            /\ \A i \in 0 .. n : a + i <= b /\ Boundary(s, a + i) => i <= t
<1> DEFINE d == Slice(s, a, b)
           t == Trimmed(d, n)
           w == SubSeq(d, 1, t)
<1>0. /\ s \in Seq(Byte) /\ Len(s) \in Nat
      /\ \A i \in 1 .. Len(s) : s[i] = "t" <=> i > 1 /\ s[i - 1] = "h"
  BY LenProperties DEF ValidText
<1>1. d \in Seq(Byte) /\ Len(d) = b - a /\ \A i \in 1 .. b - a : d[i] = s[a + i]
  BY <1>0, SliceIs
<1>2. \A i \in 0 .. b - a : Boundary(d, i) <=> Boundary(s, a + i)
  BY <1>0, BoundaryInside
<1>3. Boundary(d, 0)
  BY <1>2
<1>4. /\ t \in Nat /\ t <= n /\ t <= b - a /\ Boundary(d, t)
      /\ \A i \in 0 .. n : i <= b - a /\ Boundary(d, i) => i <= t
  <2> HIDE DEF d
  <2>1. QED
    BY <1>1, <1>3, TrimmedIs
<1>5. w = Slice(s, a, a + t)
  <2>1. w = Slice(d, 0, t)
    BY DEF Slice
  <2>2. Slice(d, 0, t) = Slice(s, a + 0, a + t)
    <3> HIDE DEF t
    <3>1. QED
      BY <1>0, <1>4, SameSlice
  <2>3. QED
    BY <2>1, <2>2
<1>6. w \in Seq(Byte) /\ Len(w) = t /\ \A i \in 1 .. t : w[i] = s[a + i]
  <2> DEFINE e == a + t
  <2>1. e \in Nat /\ a <= e /\ e <= Len(s) /\ e - a = t
    BY <1>0, <1>4
  <2>2. /\ Slice(s, a, e) \in Seq(Byte) /\ Len(Slice(s, a, e)) = e - a
        /\ \A i \in 1 .. e - a : Slice(s, a, e)[i] = s[a + i]
    <3> HIDE DEF e
    <3>1. QED
      BY <1>0, <2>1, SliceIs
  <2>3. QED
    BY <1>5, <2>1, <2>2
<1>7. Boundary(s, a + t)
  BY <1>2, <1>4
<1> HIDE DEF t, w
<1>8. \A i \in 0 .. t : Boundary(w, i) => Boundary(s, a + i)
  <2>1. ASSUME NEW i \in 0 .. t, Boundary(w, i)
        PROVE  Boundary(s, a + i)
    <3>1. CASE i = t
      BY <3>1, <1>7
    <3>2. CASE i < t
      <4>1. w[i + 1] = s[a + i + 1] /\ w[i + 1] # "t"
        BY <2>1, <3>2, <1>4, <1>6 DEF Boundary
      <4>2. QED
        BY <4>1 DEF Boundary
    <3>3. QED
      BY <3>1, <3>2, <1>4
  <2>2. QED
    BY <2>1
<1>9. Boundary(w, 0)
  <2>1. CASE t = 0
    BY <2>1, <1>6 DEF Boundary
  <2>2. CASE t > 0
    <3>1. w[1] = s[a + 1] /\ a < Len(s)
      BY <2>2, <1>4, <1>6, <1>0
    <3>2. s[a + 1] # "t"
      BY <3>1, <1>0 DEF Boundary
    <3>3. QED
      BY <3>1, <3>2 DEF Boundary
  <2>3. QED
    BY <2>1, <2>2, <1>4
<1>10. \A i \in 2 .. t : w[i] = "t" => w[i - 1] = "h"
  <2>1. ASSUME NEW i \in 2 .. t, w[i] = "t"
        PROVE  w[i - 1] = "h"
    <3>1. w[i] = s[a + i] /\ w[i - 1] = s[a + (i - 1)] /\ a + i \in 1 .. Len(s)
      BY <1>0, <1>4, <1>6
    <3>2. a + (i - 1) = a + i - 1
      BY <1>4
    <3>3. QED
      BY <2>1, <3>1, <3>2, <1>0
  <2>2. QED
    BY <2>1
<1>11. \A i \in 0 .. n : a + i <= b /\ Boundary(s, a + i) => i <= t
  <2>1. ASSUME NEW i \in 0 .. n, a + i <= b, Boundary(s, a + i)
        PROVE  i <= t
    <3>1. i \in 0 .. b - a
      BY <2>1
    <3>2. Boundary(d, i)
      BY <3>1, <2>1, <1>2
    <3>3. QED
      BY <3>1, <3>2, <2>1, <1>4
  <2>2. QED
    BY <2>1
<1>12. /\ t \in Nat /\ t <= n /\ a + t <= b
       /\ w = Slice(s, a, a + t) /\ w \in Seq(Byte) /\ Len(w) = t
       /\ Boundary(w, 0) /\ Boundary(s, a + t)
       /\ \A i \in 0 .. t : Boundary(w, i) => Boundary(s, a + i)
       /\ \A i \in 2 .. t : w[i] = "t" => w[i - 1] = "h"
       /\ \A i \in 0 .. n : a + i <= b /\ Boundary(s, a + i) => i <= t
  BY <1>4, <1>5, <1>6, <1>7, <1>8, <1>9, <1>10, <1>11
<1>13. QED
  BY ONLY <1>12 DEF t, w, d
-----------------------------------------------------------------------------
(* A read.                                                                 *)

\* Where the bytes that a request names begin and end, what of them makes a
\* page, and how much of the page is shown.
Start(s, q) == IF q.by = "lines" THEN LinesOf(s, q.from, q.to).from ELSE q.from
Stop(s, q)  == IF q.by = "lines" THEN LinesOf(s, q.from, q.to).to ELSE Len(s)
Limit(q)    == IF q.by = "lines" THEN MaxRead ELSE q.limit
Page(s, q)  == SubSeq(Slice(s, Start(s, q), Stop(s, q)), 1,
                      Trimmed(Slice(s, Start(s, q), Stop(s, q)), Limit(q)))
Middle(s, q) == q.by = "bytes" /\ q.from > 0 /\ s[q.from] # "n"
Taken(s, q) == IF q.numbered THEN Consumed(Page(s, q), Middle(s, q)) ELSE Len(Page(s, q))
First(s, q) == IF q.by = "lines" THEN q.from ELSE 1 + Newlines(Slice(s, 0, q.from))

LEMMA ReadUnfolds ==
  ASSUME NEW s, NEW q \in Request
  PROVE  executeReadSource(s, q) =
           IF \/ Start(s, q) > Len(s) \/ ~ Boundary(s, Start(s, q))
              \/ Slice(s, Start(s, q), Stop(s, q)) # <<>> /\ Page(s, q) = <<>>
           THEN NoRead
           ELSE Receipt(s, Start(s, q), Start(s, q) + Taken(s, q), First(s, q))
<1>1. CASE q.by = "lines"
  BY <1>1, Zenon DEF executeReadSource, Start, Stop, Limit, Page, Middle, Taken, First
<1>2. CASE q.by # "lines"
  <2>1. q.by = "bytes"
    BY <1>2 DEF Request, ByBytes, ByLines
  <2>2. QED
    BY <1>2, <2>1, Zenon DEF executeReadSource, Start, Stop, Limit, Page, Middle, Taken, First
<1>3. QED
  BY <1>1, <1>2

\* The range of a request that can be answered.
LEMMA RangeIs ==
  ASSUME NEW s, ValidText(s), NEW q \in Request, Start(s, q) <= Len(s), Boundary(s, Start(s, q))
  PROVE  /\ Start(s, q) \in Nat /\ Stop(s, q) \in Nat /\ Limit(q) \in Nat \ {0}
         /\ Start(s, q) <= Stop(s, q) /\ Stop(s, q) <= Len(s)
         /\ Boundary(s, Stop(s, q))
         /\ Start(s, q) = Stop(s, q) => Start(s, q) = Len(s)
         /\ Start(s, q) < Stop(s, q) => First(s, q) = LineAt(s, Start(s, q))
<1>0. s \in Seq(Byte) /\ Len(s) \in Nat
  BY LenProperties DEF ValidText
<1>1. CASE q.by = "lines"
  <2>1. q.from \in Nat \ {0} /\ q.to \in Nat
    BY <1>1 DEF Request, ByBytes, ByLines
  <2>2. CASE Mine(s, Len(s), q.from, q.to) = {}
    <3>1. LinesOf(s, q.from, q.to) = [from |-> Len(s), to |-> Len(s)]
      BY <2>2, <1>0, LinesOfIs
    <3>2. Boundary(s, Len(s))
      BY <1>0 DEF Boundary
    <3>3. QED
      BY <3>1, <3>2, <1>0, <1>1, ReadAssumption DEF Start, Stop, Limit
  <2>3. CASE Mine(s, Len(s), q.from, q.to) # {}
    <3> DEFINE x == LinesOf(s, q.from, q.to)
    <3>1. /\ x.from \in Nat /\ x.to \in Nat /\ x.from < x.to /\ x.to <= Len(s)
          /\ LineAt(s, x.from) = q.from
          /\ Boundary(s, x.from) /\ Boundary(s, x.to)
      BY <2>1, <2>3, LinesAre
    <3>2. Start(s, q) = x.from /\ Stop(s, q) = x.to /\ Limit(q) = MaxRead /\ First(s, q) = q.from
      BY <1>1 DEF Start, Stop, Limit, First
    <3> HIDE DEF x
    <3>3. QED
      BY <3>1, <3>2, ReadAssumption
  <2>4. QED
    BY <2>2, <2>3
<1>2. CASE q.by # "lines"
  <2>1. q.from \in Nat /\ q.limit \in Nat \ {0}
    BY <1>2 DEF Request, ByBytes, ByLines
  <2>2. Start(s, q) = q.from /\ Stop(s, q) = Len(s) /\ Limit(q) = q.limit
        /\ First(s, q) = 1 + Newlines(Slice(s, 0, q.from))
    BY <1>2 DEF Start, Stop, Limit, First
  <2>3. Boundary(s, Len(s))
    BY <1>0 DEF Boundary
  <2>4. Newlines(Slice(s, 0, q.from)) = Breaks(s, 0, q.from)
    BY <1>0, <2>1, <2>2, NewlinesOfSlice
  <2>5. QED
    BY <1>0, <2>1, <2>2, <2>3, <2>4 DEF LineAt
<1>3. QED
  BY <1>1, <1>2

\* The page of a request that can be answered.
LEMMA PageShown ==
  ASSUME NEW s, ValidText(s), NEW q \in Request, Start(s, q) <= Len(s), Boundary(s, Start(s, q))
  PROVE  LET p == Page(s, q)
             a == Start(s, q)
         IN /\ Len(p) \in Nat /\ Len(p) <= Limit(q) /\ a + Len(p) <= Stop(s, q)
            /\ p = Slice(s, a, a + Len(p)) /\ Boundary(s, a + Len(p))
            /\ \A i \in 0 .. Limit(q) : a + i <= Stop(s, q) /\ Boundary(s, a + i) => i <= Len(p)
            /\ Taken(s, q) \in Nat /\ Taken(s, q) <= Len(p)
            /\ Boundary(s, a + Taken(s, q))
            /\ p # <<>> => Taken(s, q) > 0
            /\ Fits(p, q.numbered) => Taken(s, q) = Len(p)
<1> DEFINE p == Page(s, q)
           a == Start(s, q)
           b == Stop(s, q)
           n == Limit(q)
           m == Middle(s, q)
<1>0. s \in Seq(Byte) /\ Len(s) \in Nat
  BY LenProperties DEF ValidText
<1>1. a \in Nat /\ b \in Nat /\ n \in Nat /\ a <= b /\ b <= Len(s) /\ Boundary(s, a) /\ Boundary(s, b)
  BY RangeIs
<1>2. p = SubSeq(Slice(s, a, b), 1, Trimmed(Slice(s, a, b), n))
  BY DEF Page
<1>3. m \in BOOLEAN
  BY DEF Middle
<1>4. Taken(s, q) = IF q.numbered THEN Consumed(p, m) ELSE Len(p)
  BY DEF Taken
<1> HIDE DEF p, a, b, n, m
<1> DEFINE t == Trimmed(Slice(s, a, b), n)
           w == SubSeq(Slice(s, a, b), 1, t)
<1>5. /\ t \in Nat /\ t <= n /\ a + t <= b
      /\ p = Slice(s, a, a + t) /\ p \in Seq(Byte) /\ Len(p) = t
      /\ Boundary(p, 0) /\ Boundary(s, a + t)
      /\ \A i \in 0 .. t : Boundary(p, i) => Boundary(s, a + i)
      /\ \A i \in 2 .. t : p[i] = "t" => p[i - 1] = "h"
      /\ \A i \in 0 .. n : a + i <= b /\ Boundary(s, a + i) => i <= t
  <2>1. /\ t \in Nat /\ t <= n /\ a + t <= b
        /\ w = Slice(s, a, a + t) /\ w \in Seq(Byte) /\ Len(w) = t
        /\ Boundary(w, 0) /\ Boundary(s, a + t)
        /\ \A i \in 0 .. t : Boundary(w, i) => Boundary(s, a + i)
        /\ \A i \in 2 .. t : w[i] = "t" => w[i - 1] = "h"
        /\ \A i \in 0 .. n : a + i <= b /\ Boundary(s, a + i) => i <= t
    BY ONLY <1>1, PageIs, ValidText(s)
  <2>2. p = w
    BY <1>2
  <2> HIDE DEF t, w
  <2>3. QED
    BY <2>1, <2>2
<1> HIDE DEF t
<1>6. /\ Consumed(p, m) \in Nat /\ Consumed(p, m) <= Len(p) /\ Boundary(p, Consumed(p, m))
      /\ p # <<>> => Consumed(p, m) > 0
      /\ Fits(p, TRUE) => Consumed(p, m) = Len(p)
  BY <1>3, <1>5, ConsumedIs, ConsumedSome, ConsumedAll
<1>7. Boundary(s, a + Consumed(p, m))
  BY <1>5, <1>6
<1>8. p # <<>> => Len(p) > 0
  BY <1>5, EmptySeq
<1>9. q.numbered \in BOOLEAN
  BY DEF Request, ByBytes, ByLines
<1>10. /\ Taken(s, q) \in Nat /\ Taken(s, q) <= Len(p)
       /\ Boundary(s, a + Taken(s, q))
       /\ p # <<>> => Taken(s, q) > 0
       /\ Fits(p, q.numbered) => Taken(s, q) = Len(p)
  <2>1. CASE q.numbered = TRUE
    BY <2>1, <1>4, <1>6, <1>7
  <2>2. CASE q.numbered = FALSE
    BY <2>2, <1>4, <1>5, <1>8
  <2>3. QED
    BY <2>1, <2>2, <1>9
<1>11. QED
  BY <1>5, <1>10 DEF p, a, b, n

\* What a read returns.
LEMMA ReadIs ==
  ASSUME NEW s, ValidText(s), NEW q \in Request, executeReadSource(s, q).ok
  PROVE  LET r == executeReadSource(s, q) IN
         /\ r.from = Start(s, q) /\ r.to = Start(s, q) + Taken(s, q)
         /\ Start(s, q) <= Len(s) /\ Boundary(s, Start(s, q))
         /\ r.from \in Nat /\ r.to \in Nat /\ r.from <= r.to /\ r.to <= Len(s)
         /\ r.total = Len(s) /\ Boundary(s, r.to)
         /\ r.from = r.to => r.from = Len(s)
         /\ r.from < r.to =>
              /\ r.first = LineAt(s, r.from)
              /\ r.last = LineAt(s, r.to) - (IF s[r.to] = "n" THEN 1 ELSE 0)
<1> DEFINE r == executeReadSource(s, q)
           a == Start(s, q)
           b == Start(s, q) + Taken(s, q)
           f == First(s, q)
<1>0. s \in Seq(Byte) /\ Len(s) \in Nat
  BY LenProperties DEF ValidText
<1>1. ~ \/ a > Len(s) \/ ~ Boundary(s, a)
        \/ Slice(s, a, Stop(s, q)) # <<>> /\ Page(s, q) = <<>>
  BY ReadUnfolds DEF NoRead
<1>2. r = Receipt(s, a, b, f)
  BY <1>1, ReadUnfolds
<1>3. /\ a \in Nat /\ Stop(s, q) \in Nat /\ a <= Stop(s, q) /\ Stop(s, q) <= Len(s)
      /\ a = Stop(s, q) => a = Len(s)
      /\ a < Stop(s, q) => f = LineAt(s, a)
  <2>1. Start(s, q) <= Len(s) /\ Boundary(s, Start(s, q))
    <3>1. CASE q.by = "lines"
      <4>1. q.from \in Nat \ {0} /\ q.to \in Nat
        BY <3>1 DEF Request, ByBytes, ByLines
      <4>2. LinesOf(s, q.from, q.to).from \in Nat
        BY <4>1, <1>0, LinesAre, LinesOfIs
      <4>3. QED
        BY <4>2, <3>1, <1>0, <1>1 DEF Start
    <3>2. CASE q.by # "lines"
      <4>1. q.from \in Nat
        BY <3>2 DEF Request, ByBytes, ByLines
      <4>2. QED
        BY <4>1, <3>2, <1>0, <1>1 DEF Start
    <3>3. QED
      BY <3>1, <3>2
  <2>2. QED
    BY <2>1, RangeIs
<1>4. /\ Taken(s, q) \in Nat /\ a + Len(Page(s, q)) <= Stop(s, q) /\ Taken(s, q) <= Len(Page(s, q))
      /\ Len(Page(s, q)) \in Nat /\ Boundary(s, b)
      /\ Page(s, q) # <<>> => Taken(s, q) > 0
  BY <1>0, <1>1, <1>3, PageShown
<1>5. b \in Nat /\ a <= b /\ b <= Len(s)
  BY <1>0, <1>3, <1>4
<1>6. a = b => a = Len(s)
  <2>1. ASSUME a = b, a # Len(s) PROVE FALSE
    <3>1. Taken(s, q) = 0 /\ a < Stop(s, q)
      BY <2>1, <1>3, <1>4
    <3>2. Page(s, q) = <<>>
      BY <3>1, <1>4
    <3>3. Slice(s, a, Stop(s, q)) = <<>>
      BY <3>2, <1>1
    <3>4. Len(Slice(s, a, Stop(s, q))) = Stop(s, q) - a
      BY <1>0, <1>3, SliceIs
    <3>5. QED
      BY <3>1, <3>3, <3>4, <1>3, EmptySeq
  <2>2. QED
    BY <2>1
<1>7. ASSUME a < b
      PROVE  /\ Receipt(s, a, b, f).first = LineAt(s, a)
             /\ Receipt(s, a, b, f).last = LineAt(s, b) - (IF s[b] = "n" THEN 1 ELSE 0)
  <2> DEFINE d == Slice(s, a, b)
  <2>0. a \in Nat /\ b \in Nat /\ a <= b /\ b <= Len(s)
    BY <1>3, <1>5
  <2> HIDE DEF a, b
  <2>1. d \in Seq(Byte) /\ Len(d) = b - a /\ d[b - a] = s[a + (b - a)] /\ Newlines(d) = Breaks(s, a, b)
    <3>1. d \in Seq(Byte) /\ Len(d) = b - a /\ \A i \in 1 .. b - a : d[i] = s[a + i]
      BY <1>0, <2>0, SliceIs
    <3>2. b - a \in 1 .. b - a
      BY <2>0, <1>7
    <3>3. Newlines(d) = Breaks(s, a, b)
      BY <1>0, <2>0, NewlinesOfSlice
    <3>4. QED
      BY <3>1, <3>2, <3>3
  <2>2. d # <<>> /\ Last(d) = s[b]
    BY <2>1, <1>3, <1>5, <1>7, EmptySeq DEF Last
  <2>3. f = LineAt(s, a)
    BY <1>3, <1>4, <1>5, <1>7
  <2>4. LineAt(s, b) = LineAt(s, a) + Breaks(s, a, b)
    BY <1>3, <1>5, LineSteps
  <2>5. Receipt(s, a, b, f).first = f
        /\ Receipt(s, a, b, f).last = f + Newlines(d) - (IF Last(d) = "n" THEN 1 ELSE 0)
    BY <2>2 DEF Receipt
  <2>6. LineAt(s, a) \in Nat /\ Breaks(s, a, b) \in Nat
    <3>1. b <= b
      BY <2>0
    <3>2. Breaks(s, a, b) \in Nat
      BY <2>0, <3>1, BreaksSum
    <3>3. QED
      BY <2>0, <3>2, LineSteps
  <2>7. QED
    BY <2>1, <2>2, <2>3, <2>4, <2>5, <2>6
<1>8. Receipt(s, a, b, f).from = a /\ Receipt(s, a, b, f).to = b /\ Receipt(s, a, b, f).total = Len(s)
  BY DEF Receipt
<1>9. /\ r.from = a /\ r.to = b /\ r.total = Len(s)
      /\ a <= Len(s) /\ Boundary(s, a)
      /\ a < b => /\ r.first = LineAt(s, a)
                  /\ r.last = LineAt(s, b) - (IF s[b] = "n" THEN 1 ELSE 0)
  <2> HIDE DEF a, b, f, r
  <2>1. QED
    BY <1>0, <1>1, <1>2, <1>3, <1>5, <1>7, <1>8
<1>10. a \in Nat /\ b \in Nat /\ a <= b /\ b <= Len(s) /\ Boundary(s, b)
  BY <1>3, <1>4, <1>5
<1> HIDE DEF r, f
<1>11. QED
  BY ONLY <1>6, <1>9, <1>10 DEF r
-----------------------------------------------------------------------------
(* What an earlier read tells of a request.                                *)

\* A request whose range is known, and fits, returns it.
LEMMA WholeRange ==
  ASSUME NEW s, ValidText(s), NEW q \in Request, Start(s, q) <= Len(s), Boundary(s, Start(s, q)),
         NEW to \in Nat, Start(s, q) <= to, to = Start(s, q) + Len(Page(s, q)),
         Fits(Slice(s, Start(s, q), to), q.numbered),
         Start(s, q) < to \/ Start(s, q) = Len(s)
  PROVE  LET r == executeReadSource(s, q) IN r.ok /\ r.from = Start(s, q) /\ r.to = to
<1> DEFINE a == Start(s, q)
<1>0. s \in Seq(Byte) /\ Len(s) \in Nat
  BY LenProperties DEF ValidText
<1>1. /\ a \in Nat /\ Stop(s, q) \in Nat /\ a <= Stop(s, q) /\ Stop(s, q) <= Len(s)
  BY RangeIs
<1>2. /\ Len(Page(s, q)) \in Nat /\ Page(s, q) = Slice(s, a, to)
      /\ Fits(Page(s, q), q.numbered) => Taken(s, q) = Len(Page(s, q))
  BY PageShown
<1>3. Taken(s, q) = Len(Page(s, q))
  BY <1>2
<1>4. ~ (Slice(s, a, Stop(s, q)) # <<>> /\ Page(s, q) = <<>>)
  <2>1. CASE a < to
    <3>1. Len(Page(s, q)) > 0
      BY <2>1, <1>1, <1>2
    <3>2. QED
      BY <3>1, EmptySeq
  <2>2. CASE a = Len(s)
    <3>1. Slice(s, a, Stop(s, q)) \in Seq(Byte) /\ Len(Slice(s, a, Stop(s, q))) = 0
      <4>1. Stop(s, q) = a
        BY <2>2, <1>0, <1>1
      <4>2. a \in Nat /\ a <= a /\ a <= Len(s) /\ a - a = 0
        BY <1>1, <4>1
      <4>3. Slice(s, a, a) \in Seq(Byte) /\ Len(Slice(s, a, a)) = a - a
        <5> HIDE DEF a
        <5>1. QED
          BY <1>0, <4>2, SliceIs
      <4>4. QED
        BY <4>1, <4>2, <4>3
    <3>2. QED
      BY <3>1, EmptySeq
  <2>3. QED
    BY <2>1, <2>2
<1>5. a <= Len(s) => ~ (a > Len(s))
  BY <1>0, <1>1
<1>6. executeReadSource(s, q) = Receipt(s, a, a + Taken(s, q), First(s, q))
  BY <1>4, <1>5, ReadUnfolds
<1>7. a + Taken(s, q) = to
  BY <1>3
<1>8. QED
  BY <1>6, <1>7 DEF Receipt

\* The bytes of u .. v - 1 that are on the lines from .. to are all there are in
\* the file, if these lines begin and end inside.
LEMMA LinesInside ==
  ASSUME NEW s, ValidText(s), NEW u \in Nat, NEW v \in Nat, u < v, v <= Len(s),
         NEW from \in Nat \ {0}, NEW to \in Nat,
         LineAt(s, u) <= from, from = LineAt(s, u) => u = 0,
         to <= LineAt(s, v) - (IF s[v] = "n" THEN 1 ELSE 0),
         NEW a \in u .. v - 1, NEW b \in u .. v - 1,
         LineAt(s, a) \in from .. to, LineAt(s, b) \in from .. to,
         \A i \in u .. v - 1 : LineAt(s, i) \in from .. to => a <= i /\ i <= b,
         s[b + 1] = "n" \/ v = Len(s)
  PROVE  LinesOf(s, from, to) = [from |-> a, to |-> b + 1]
<1> DEFINE M == Mine(s, Len(s), from, to)
<1>0. s \in Seq(Byte) /\ Len(s) \in Nat
  BY LenProperties DEF ValidText
<1>1. \A i, j \in Nat : LineAt(s, i) \in Nat /\ (i <= j => LineAt(s, i) <= LineAt(s, j))
  BY LineSteps
<1>2. ASSUME NEW i \in M PROVE a <= i
  <2>1. i \in 0 .. Len(s) - 1 /\ LineAt(s, i) \in from .. to
    BY DEF Mine
  <2>2. CASE i < u
    <3>1. LineAt(s, i) <= LineAt(s, u) /\ LineAt(s, i) \in Nat /\ LineAt(s, u) \in Nat
      BY <1>0, <1>1, <2>1, <2>2
    <3>2. from = LineAt(s, u)
      BY <2>1, <3>1
    <3>3. QED
      BY <2>1, <2>2, <3>2, <1>0
  <2>3. CASE i \in u .. v - 1
    BY <2>1, <2>3
  <2>4. CASE i >= v
    BY <2>1, <2>4, <1>0
  <2>5. QED
    BY <2>1, <2>2, <2>3, <2>4, <1>0
<1>3. ASSUME NEW i \in M PROVE i <= b
  <2>1. i \in 0 .. Len(s) - 1 /\ LineAt(s, i) \in from .. to
    BY DEF Mine
  <2>2. SUFFICES ASSUME b + 1 <= i PROVE FALSE
    BY <2>1, <1>0
  <2>3. b + 1 \in Nat /\ b \in Nat /\ i \in Nat /\ b + 1 <= v
    BY <2>1, <1>0
  <2>4. /\ LineAt(s, b + 1) = LineAt(s, b) + (IF s[b + 1] = "n" THEN 1 ELSE 0)
        /\ LineAt(s, b) \in Nat /\ LineAt(s, b + 1) \in Nat /\ LineAt(s, i) \in Nat
        /\ LineAt(s, b + 1) <= LineAt(s, i)
    BY <2>2, <2>3, <1>1, LineSteps
  <2>5. CASE b + 1 < v
    <3>1. b + 1 \in u .. v - 1
      BY <2>3, <2>5
    <3>2. LineAt(s, b + 1) \notin from .. to
      BY <3>1, <2>3
    <3>3. LineAt(s, b + 1) > to
      BY <3>2, <2>4
    <3>4. QED
      BY <3>3, <2>1, <2>4
  <2>6. CASE b + 1 = v
    <3>1. s[v] = "n"
      <4>1. v # Len(s)
        BY <2>1, <2>2, <2>6, <1>0
      <4>2. QED
        BY <4>1, <2>6
    <3>2. to <= LineAt(s, b + 1) - 1
      BY <3>1, <2>6
    <3>3. QED
      BY <3>2, <2>1, <2>4, SMTT(30)
  <2>7. QED
    BY <2>3, <2>5, <2>6
<1>4. M \in SUBSET Nat /\ a \in M /\ b \in M
  BY <1>0 DEF Mine
<1> HIDE DEF M
<1>5. Min(M) = a /\ Max(M) = b /\ M # {}
  BY <1>2, <1>3, <1>4, MinIs, MaxIs
<1>6. QED
  BY <1>0, <1>5, LinesOfIs DEF M

\* What a read was of, in numbers.
LEMMA KnownLinesIs ==
  ASSUME NEW s, ValidText(s), NEW q \in Request, q.by = "lines", NEW x,
         NEW u \in Nat, NEW v \in Nat, u <= v, v <= Len(s),
         x.from = u, x.to = v, x.total = Len(s),
         u < v => x.first = LineAt(s, u) /\ x.last = LineAt(s, v) - (IF s[v] = "n" THEN 1 ELSE 0),
         KnownLines(q, x, Slice(s, u, v)).known
  PROVE  LET known == KnownLines(q, x, Slice(s, u, v)) IN
         /\ LinesOf(s, q.from, q.to) = [from |-> known.from, to |-> known.to]
         /\ known.from \in Nat /\ known.to \in Nat
         /\ u <= known.from /\ known.from < known.to /\ known.to <= v
         /\ Mine(s, Len(s), q.from, q.to) # {}
<1> DEFINE d == Slice(s, u, v)
           L == {i \in 0 .. v - u - 1 : LineAt(s, u + i) \in q.from .. q.to}
           known == KnownLines(q, x, d)
<1>0. /\ s \in Seq(Byte) /\ Len(s) \in Nat /\ q.from \in Nat \ {0} /\ q.to \in Nat
  BY LenProperties DEF ValidText, Request, ByBytes, ByLines
<1>1. d \in Seq(Byte) /\ Len(d) = v - u /\ \A i \in 1 .. v - u : d[i] = s[u + i]
  <2>1. s \in Seq(Byte)
    BY <1>0
  <2>2. QED
    BY ONLY <2>1, SliceIs, u \in Nat, v \in Nat, u <= v, v <= Len(s)
<1>2. ASSUME NEW i \in 0 .. v - u - 1
      PROVE  x.first + Newlines(SubSeq(d, 1, i)) = LineAt(s, u + i)
  <2>1. SubSeq(d, 1, i) = Slice(s, u, u + i)
    <3>1. SubSeq(d, 1, i) = Slice(d, 0, i)
      BY DEF Slice
    <3>2. Slice(d, 0, i) = Slice(s, u + 0, u + i)
      BY <1>0, SameSlice
    <3>3. QED
      BY <3>1, <3>2
  <2>2. Newlines(Slice(s, u, u + i)) = Breaks(s, u, u + i)
    BY <1>0, NewlinesOfSlice
  <2>3. LineAt(s, u + i) = LineAt(s, u) + Breaks(s, u, u + i)
    BY LineSteps
  <2>4. x.first = LineAt(s, u)
    BY <1>0
  <2>5. QED
    BY <2>1, <2>2, <2>3, <2>4
<1>3. {i \in 0 .. Len(d) - 1 : x.first + Newlines(SubSeq(d, 1, i)) \in q.from .. q.to} = L
  BY <1>1, <1>2
<1>4. /\ ~ (q.from < x.first \/ q.to > x.last \/ (q.from = x.first /\ u # 0))
      /\ L # {} /\ (d[Max(L) + 1] = "n" \/ v = Len(s))
      /\ known.from = u + Min(L) /\ known.to = u + Max(L) + 1
  <2> HIDE DEF L, d
  <2>1. known = IF \/ q.from < x.first \/ q.to > x.last
                   \/ q.from = x.first /\ x.from # 0
                   \/ L = {}
                   \/ d[Max(L) + 1] # "n" /\ x.to # x.total
                THEN Unknown
                ELSE [known |-> TRUE, from |-> x.from + Min(L), to |-> x.from + Max(L) + 1]
    BY <1>3, Zenon DEF KnownLines
  <2>2. known.known
    BY DEF d
  <2> HIDE DEF known
  <2>3. QED
    BY <2>1, <2>2 DEF Unknown
<1>5. L \in SUBSET Nat /\ \A y \in L : y <= v
  BY <1>0
<1>6. /\ Min(L) \in L /\ Max(L) \in L /\ \A y \in L : Min(L) <= y /\ y <= Max(L)
  <2> HIDE DEF L
  <2>1. QED
    BY <1>4, <1>5, MinOfNat, MaxOfNat
<1> DEFINE k == Min(L)
           l == Max(L)
<1>7. /\ k \in Nat /\ l \in Nat /\ k <= l /\ l <= v - u - 1
      /\ LineAt(s, u + k) \in q.from .. q.to
      /\ LineAt(s, u + l) \in q.from .. q.to
  <2>1. k \in L /\ l \in L /\ k <= l
    BY <1>6
  <2> HIDE DEF k, l
  <2>2. QED
    BY <2>1
<1>8. \A i \in u .. v - 1 : LineAt(s, i) \in q.from .. q.to => u + k <= i /\ i <= u + l
  <2>1. ASSUME NEW i \in u .. v - 1, LineAt(s, i) \in q.from .. q.to
        PROVE  u + k <= i /\ i <= u + l
    <3>1. i - u \in 0 .. v - u - 1 /\ u + (i - u) = i
      OBVIOUS
    <3>2. i - u \in L
      BY <2>1, <3>1
    <3>3. k <= i - u /\ i - u <= l
      BY <3>2, <1>6
    <3> HIDE DEF k, l
    <3>4. QED
      BY <3>3, <1>7
  <2>2. QED
    BY <2>1
<1>9. d[l + 1] = s[u + l + 1] /\ u < v
  <2>1. l + 1 \in 1 .. v - u /\ u < v /\ u + (l + 1) = u + l + 1
    <3> HIDE DEF l, k
    <3>1. QED
      BY <1>7
  <2>2. d[l + 1] = s[u + (l + 1)]
    <3> HIDE DEF l, k, d
    <3>1. QED
      BY <2>1, <1>1
  <2>3. QED
    BY <2>1, <2>2
<1>10. /\ x.first = LineAt(s, u) /\ x.last = LineAt(s, v) - (IF s[v] = "n" THEN 1 ELSE 0)
       /\ LineAt(s, u) \in Nat /\ LineAt(s, v) \in Nat
  BY <1>9, LineSteps
<1>11. LinesOf(s, q.from, q.to) = [from |-> u + k, to |-> u + l + 1]
  <2> DEFINE a == u + k
             b == u + l
  <2>1. /\ LineAt(s, u) <= q.from /\ (q.from = LineAt(s, u) => u = 0)
        /\ q.to <= LineAt(s, v) - (IF s[v] = "n" THEN 1 ELSE 0)
    BY <1>0, <1>4, <1>10
  <2>2. a \in u .. v - 1 /\ b \in u .. v - 1 /\ a <= b
    <3> HIDE DEF k, l
    <3>1. QED
      BY <1>7
  <2>3. s[b + 1] = "n" \/ v = Len(s)
    BY <1>4, <1>9
  <2>4. LineAt(s, a) \in q.from .. q.to /\ LineAt(s, b) \in q.from .. q.to
    BY <1>7
  <2>5. \A i \in u .. v - 1 : LineAt(s, i) \in q.from .. q.to => a <= i /\ i <= b
    BY <1>8
  <2> HIDE DEF a, b
  <2>6. LinesOf(s, q.from, q.to) = [from |-> a, to |-> b + 1]
    <3> DEFINE from == q.from
               to   == q.to
    <3>1. from \in Nat \ {0} /\ to \in Nat /\ u < v
      BY <1>0, <1>9
    <3>2. /\ LineAt(s, u) <= from /\ (from = LineAt(s, u) => u = 0)
          /\ to <= LineAt(s, v) - (IF s[v] = "n" THEN 1 ELSE 0)
          /\ LineAt(s, a) \in from .. to /\ LineAt(s, b) \in from .. to
          /\ \A i \in u .. v - 1 : LineAt(s, i) \in from .. to => a <= i /\ i <= b
      BY <2>1, <2>4, <2>5
    <3> HIDE DEF from, to
    <3>3. LinesOf(s, from, to) = [from |-> a, to |-> b + 1]
      BY ONLY <2>2, <2>3, <3>1, <3>2, LinesInside, ValidText(s), u \in Nat, v \in Nat, v <= Len(s)
    <3>4. QED
      BY <3>3 DEF from, to
  <2>7. QED
    BY <2>6 DEF a, b
<1>12. u + k \in Mine(s, Len(s), q.from, q.to)
  <2> HIDE DEF k, l
  <2>1. QED
    BY <1>0, <1>7 DEF Mine
<1>13. known.from = u + k /\ known.to = u + l + 1
  BY <1>4
<1> HIDE DEF known, k, l, L
<1>14. /\ LinesOf(s, q.from, q.to) = [from |-> known.from, to |-> known.to]
       /\ known.from \in Nat /\ known.to \in Nat
       /\ u <= known.from /\ known.from < known.to /\ known.to <= v
       /\ Mine(s, Len(s), q.from, q.to) # {}
  BY <1>7, <1>11, <1>12, <1>13, SMTT(30)
<1>15. QED
  BY <1>14 DEF known, d

LEMMA KnownByLines ==
  ASSUME NEW s, ValidText(s), NEW q \in Request, q.by = "lines", NEW x,
         NEW u \in Nat, NEW v \in Nat, u <= v, v <= Len(s),
         x.from = u, x.to = v, x.total = Len(s),
         u < v => x.first = LineAt(s, u) /\ x.last = LineAt(s, v) - (IF s[v] = "n" THEN 1 ELSE 0),
         NEW known, known = KnownLines(q, x, Slice(s, u, v)), known.known,
         Fits(Slice(Slice(s, u, v), known.from - u, known.to - u), q.numbered)
  PROVE  LET then == executeReadSource(s, q)
         IN then.ok /\ then.from = known.from /\ then.to = known.to
<1>0. s \in Seq(Byte) /\ Len(s) \in Nat
  BY LenProperties DEF ValidText
<1>1. /\ LinesOf(s, q.from, q.to) = [from |-> known.from, to |-> known.to]
      /\ known.from \in Nat /\ known.to \in Nat
      /\ u <= known.from /\ known.from < known.to /\ known.to <= v
      /\ Mine(s, Len(s), q.from, q.to) # {}
  BY KnownLinesIs
<1>2. PICK a \in Nat, b \in Nat : a = known.from /\ b = known.to
  BY <1>1
<1>3. u <= a /\ a < b /\ b <= v
  BY <1>1, <1>2
<1>4. Start(s, q) = a /\ Stop(s, q) = b /\ Limit(q) = MaxRead
  BY <1>1, <1>2 DEF Start, Stop, Limit
<1>5. Boundary(s, a) /\ Boundary(s, b)
  <2>1. q.from \in Nat \ {0} /\ q.to \in Nat
    BY DEF Request, ByBytes, ByLines
  <2>2. Boundary(s, LinesOf(s, q.from, q.to).from) /\ Boundary(s, LinesOf(s, q.from, q.to).to)
    BY <2>1, <1>1, LinesAre
  <2>3. QED
    BY <2>2, <1>1, <1>2
<1>6. Slice(Slice(s, u, v), a - u, b - u) = Slice(s, a, b)
  <2> DEFINE c == a - u
             d == b - u
  <2>1. c \in Nat /\ d \in Nat /\ c <= d /\ d <= v - u /\ u + c = a /\ u + d = b
    BY <1>3
  <2> HIDE DEF c, d
  <2>2. Slice(Slice(s, u, v), c, d) = Slice(s, u + c, u + d)
    BY ONLY <2>1, <1>0, SameSlice, u \in Nat, v \in Nat, u <= v, v <= Len(s)
  <2>3. QED
    BY <2>1, <2>2 DEF c, d
<1>7. Fits(Slice(s, a, b), q.numbered) /\ b - a <= MaxRead
  <2>1. Fits(Slice(s, a, b), q.numbered)
    BY <1>2, <1>6
  <2>2. Len(Slice(s, a, b)) = b - a
    BY ONLY <1>0, <1>3, a \in Nat, b \in Nat, v \in Nat, v <= Len(s), SliceIs
  <2>3. QED
    BY <2>1, <2>2 DEF Fits
<1>8. a <= Len(s)
  BY <1>0, <1>3
<1>9. /\ Len(Page(s, q)) \in Nat /\ a + Len(Page(s, q)) <= b
      /\ \A i \in 0 .. MaxRead : a + i <= b /\ Boundary(s, a + i) => i <= Len(Page(s, q))
  BY ONLY <1>4, <1>5, <1>8, PageShown, ValidText(s), q \in Request
<1>10. b = a + Len(Page(s, q))
  <2>1. b - a \in 0 .. MaxRead /\ a + (b - a) = b
    BY <1>3, <1>7, ReadAssumption
  <2>2. b - a <= Len(Page(s, q))
    BY <2>1, <1>5, <1>9
  <2>3. QED
    BY <2>2, <1>9, <1>3
<1>11. LET then == executeReadSource(s, q) IN then.ok /\ then.from = a /\ then.to = b
  BY ONLY <1>3, <1>4, <1>5, <1>7, <1>8, <1>10, WholeRange, ValidText(s), q \in Request, a \in Nat, b \in Nat
<1>12. QED
  BY <1>2, <1>11

\* By bytes; an interval that is empty before the end is no answer.
LEMMA KnownByBytes ==
  ASSUME NEW s, ValidText(s), NEW q \in Request, q.by = "bytes", NEW x,
         NEW u \in Nat, NEW v \in Nat, u <= v, v <= Len(s),
         x.from = u, x.to = v, x.total = Len(s), Boundary(s, v),
         NEW known, known = KnownBytes(q, x, Slice(s, u, v)), known.known,
         known.from < known.to \/ known.from = Len(s),
         Fits(Slice(Slice(s, u, v), known.from - u, known.to - u), q.numbered)
  PROVE  LET then == executeReadSource(s, q)
         IN then.ok /\ then.from = known.from /\ then.to = known.to
<1> DEFINE a     == q.from
           end   == Min({q.from + q.limit, x.total})
           d     == Slice(s, u, v)
           local == Slice(d, a - u, end - u)
           K     == {i \in 0 .. Len(local) : Boundary(d, a - u + i)}
<1>0. /\ s \in Seq(Byte) /\ Len(s) \in Nat /\ q.from \in Nat /\ q.limit \in Nat \ {0}
  BY LenProperties DEF ValidText, Request, ByBytes, ByLines
<1>1. /\ ~ (q.from > x.total \/ q.from < x.from \/ end > x.to \/ ~ Boundary(d, a - u))
      /\ known.from = a /\ known.to = a + Max(K)
  <2>1. known = IF \/ q.from > x.total \/ q.from < x.from \/ end > x.to
                   \/ ~ Boundary(d, q.from - x.from)
                THEN Unknown
                ELSE [known |-> TRUE, from |-> q.from, to |-> q.from + Max(K)]
    BY Zenon DEF KnownBytes
  <2> HIDE DEF K, d, end
  <2>2. QED
    BY <2>1 DEF Unknown
<1>2. /\ end \in Nat /\ end = (IF a + q.limit <= Len(s) THEN a + q.limit ELSE Len(s))
  <2> DEFINE e == IF a + q.limit <= Len(s) THEN a + q.limit ELSE Len(s)
             S == {a + q.limit, Len(s)}
  <2>1. S \in SUBSET Nat /\ e \in S /\ \A y \in S : e <= y
    BY <1>0
  <2>2. Min(S) = e
    <3> HIDE DEF S, e
    <3>1. QED
      BY <2>1, MinIs
  <2>3. end = Min(S)
    OBVIOUS
  <2> HIDE DEF end
  <2>4. QED
    BY <2>2, <2>3, <1>0
<1> HIDE DEF end
<1>3. a \in Nat /\ u <= a /\ a <= end /\ end <= v /\ a <= Len(s) /\ end - a <= q.limit
  BY <1>0, <1>1, <1>2
<1> HIDE DEF a
<1>4. /\ Start(s, q) = a /\ Stop(s, q) = Len(s) /\ Limit(q) = q.limit
  BY DEF Start, Stop, Limit, a
<1>5. \A i \in 0 .. v - a : Boundary(d, a - u + i) <=> Boundary(s, a + i)
  <2>1. ASSUME NEW i \in 0 .. v - a
        PROVE  Boundary(d, a - u + i) <=> Boundary(s, a + i)
    <3> DEFINE j == a - u + i
    <3>1. j \in 0 .. v - u /\ u + j = a + i
      BY <1>3
    <3> HIDE DEF j
    <3>2. Boundary(d, j) <=> Boundary(s, u + j)
      BY ONLY <3>1, <1>0, BoundaryInside, u \in Nat, v \in Nat, u <= v, v <= Len(s), Boundary(s, v)
    <3>3. QED
      BY <3>1, <3>2 DEF j
  <2>2. QED
    BY <2>1
<1>6. Boundary(s, a)
  <2>1. 0 \in 0 .. v - a /\ a - u + 0 = a - u /\ a + 0 = a
    BY <1>2, <1>3
  <2>2. Boundary(d, a - u)
    BY <1>1 DEF a
  <2>3. QED
    BY <2>1, <2>2, <1>5
<1>7. Len(local) = end - a
  <2> DEFINE c == a - u
             f == end - u
  <2>1. c \in Nat /\ f \in Nat /\ c <= f /\ f <= v - u /\ f - c = end - a
    BY <1>2, <1>3
  <2>2. d \in Seq(Byte) /\ Len(d) = v - u
    BY ONLY <1>0, SliceIs, u \in Nat, v \in Nat, u <= v, v <= Len(s), ZenonT(40)
  <2>3. f <= Len(d)
    BY <2>1, <2>2
  <2> HIDE DEF c, f, d
  <2>4. Len(Slice(d, c, f)) = f - c
    BY ONLY <2>1, <2>2, <2>3, SliceIs
  <2>5. QED
    BY <2>1, <2>4 DEF c, f, d
<1> DEFINE p == Len(Page(s, q))
<1>8. /\ p \in Nat /\ p <= q.limit /\ a + p <= Len(s) /\ Boundary(s, a + p)
      /\ \A i \in 0 .. q.limit : a + i <= Len(s) /\ Boundary(s, a + i) => i <= p
      /\ Page(s, q) = Slice(s, a, a + p)
  BY ONLY <1>3, <1>4, <1>6, PageShown, ValidText(s), q \in Request
<1>9. K \in SUBSET Nat /\ p \in K /\ \A y \in K : y <= p
  <2> HIDE DEF p, d
  <2>1. p \in 0 .. end - a
    BY <1>0, <1>2, <1>3, <1>8 DEF a
  <2>2. p \in K
    <3>1. p \in 0 .. v - a
      BY <2>1, <1>2, <1>3
    <3>2. Boundary(d, a - u + p)
      BY <3>1, <1>5, <1>8
    <3> HIDE DEF local
    <3>3. QED
      BY <2>1, <3>2, <1>7
  <2>3. ASSUME NEW y \in K PROVE y <= p
    <3>1. y \in 0 .. end - a /\ Boundary(d, a - u + y)
      BY <1>7
    <3>2. y \in 0 .. v - a /\ y \in 0 .. q.limit /\ a + y <= Len(s)
      <4>1. end \in Nat /\ a \in Nat /\ v \in Nat /\ q.limit \in Nat /\ Len(s) \in Nat
        BY <1>0, <1>2, <1>3
      <4>2. y <= end - a /\ end <= v /\ v <= Len(s) /\ end - a <= q.limit /\ y \in Nat
        BY <3>1, <4>1, <1>3
      <4>3. QED
        BY <4>1, <4>2
    <3>3. Boundary(s, a + y)
      BY <3>1, <3>2, <1>5
    <3>4. QED
      BY <3>2, <3>3, <1>8
  <2>4. K \in SUBSET Nat
    OBVIOUS
  <2>5. QED
    BY <2>2, <2>3, <2>4
<1>10. known.from = a /\ known.to = a + p
  <2> HIDE DEF K, p
  <2>1. Max(K) = p
    BY <1>9, MaxIs
  <2>2. QED
    BY <2>1, <1>1 DEF a
<1> HIDE DEF p
<1>11. Slice(d, known.from - u, known.to - u) = Slice(s, a, a + p)
  <2> DEFINE c == a - u
             f == a + p - u
  <2>1. p <= end - a
    BY <1>0, <1>2, <1>3, <1>8 DEF a
  <2>2. c \in Nat /\ f \in Nat /\ c <= f /\ f <= v - u /\ u + c = a /\ u + f = a + p
    BY <2>1, <1>2, <1>3, <1>8
  <2> HIDE DEF c, f
  <2>3. Slice(d, c, f) = Slice(s, u + c, u + f)
    BY ONLY <2>2, <1>0, SameSlice, u \in Nat, v \in Nat, u <= v, v <= Len(s)
  <2>4. QED
    BY <2>2, <2>3, <1>10 DEF c, f
<1>12. Fits(Slice(s, a, a + p), q.numbered) /\ (a < a + p \/ a = Len(s))
  BY <1>10, <1>11
<1>13. LET then == executeReadSource(s, q) IN then.ok /\ then.from = a /\ then.to = a + p
  <2> DEFINE b == a + p
  <2>1. b \in Nat /\ a <= b /\ b = a + Len(Page(s, q))
    BY <1>3, <1>8 DEF p
  <2>2. Fits(Slice(s, a, b), q.numbered) /\ (a < b \/ a = Len(s))
    BY <1>12
  <2> HIDE DEF b
  <2>3. LET then == executeReadSource(s, q) IN then.ok /\ then.from = a /\ then.to = b
    BY ONLY <2>1, <2>2, <1>3, <1>4, <1>6, WholeRange, ValidText(s), q \in Request
  <2>4. QED
    BY <2>3 DEF b
<1>14. QED
  BY <1>10, <1>13

\* What an earlier read r tells of a request q is what q would return: the
\* comparison of rejectDuplicateRead is exact, for every text, every two
\* requests and every size of a page and of the lines' numbers
\* (knownReadInterval, executeReadSource). An empty interval is an answer only
\* at the end of the file.
THEOREM KnownIsWhatIsRead ==
  ASSUME NEW s, ValidText(s), NEW r \in Request, NEW q \in Request,
         NEW x, x = executeReadSource(s, r), x.ok,
         NEW known, known = knownReadInterval(q, x, Slice(s, x.from, x.to)), known.known,
         known.from < known.to \/ known.from = Len(s)
  PROVE  LET then == executeReadSource(s, q)
         IN then.ok /\ then.from = known.from /\ then.to = known.to
<1>1. /\ x.from \in Nat /\ x.to \in Nat /\ x.from <= x.to /\ x.to <= Len(s)
      /\ x.total = Len(s) /\ Boundary(s, x.to)
      /\ x.from < x.to =>
           /\ x.first = LineAt(s, x.from)
           /\ x.last = LineAt(s, x.to) - (IF s[x.to] = "n" THEN 1 ELSE 0)
  BY ReadIs
<1>2. PICK u \in Nat, v \in Nat : u = x.from /\ v = x.to
  BY <1>1
<1> DEFINE d == Slice(s, u, v)
           k == IF q.by = "lines" THEN KnownLines(q, x, d) ELSE KnownBytes(q, x, d)
<1>3. known = IF k.known /\ Fits(Slice(d, k.from - u, k.to - u), q.numbered) THEN k ELSE Unknown
  BY <1>2, Zenon DEF knownReadInterval
<1>4. known = k /\ k.known /\ Fits(Slice(d, k.from - u, k.to - u), q.numbered)
  <2> HIDE DEF k, d
  <2>1. QED
    BY <1>3 DEF Unknown
<1>5. CASE q.by = "lines"
  <2>1. known = KnownLines(q, x, Slice(s, u, v))
    BY <1>4, <1>5
  <2>2. Fits(Slice(Slice(s, u, v), known.from - u, known.to - u), q.numbered)
    BY <1>4
  <2>3. /\ u <= v /\ v <= Len(s) /\ x.from = u /\ x.to = v /\ x.total = Len(s)
        /\ u < v => x.first = LineAt(s, u) /\ x.last = LineAt(s, v) - (IF s[v] = "n" THEN 1 ELSE 0)
    BY <1>1, <1>2
  <2>4. QED
    BY ONLY <2>1, <2>2, <2>3, <1>5, KnownByLines, ValidText(s), q \in Request, u \in Nat, v \in Nat,
            known.known
<1>6. CASE q.by # "lines"
  <2>1. known = KnownBytes(q, x, Slice(s, u, v))
    BY <1>4, <1>6
  <2>2. Fits(Slice(Slice(s, u, v), known.from - u, known.to - u), q.numbered)
    BY <1>4
  <2>3. u <= v /\ v <= Len(s) /\ x.from = u /\ x.to = v /\ x.total = Len(s) /\ Boundary(s, v)
    BY <1>1, <1>2
  <2>4. q.by = "bytes"
    BY <1>6 DEF Request, ByBytes, ByLines
  <2>5. QED
    BY ONLY <2>1, <2>2, <2>3, <2>4, KnownByBytes, ValidText(s), q \in Request, u \in Nat, v \in Nat,
            known.known, known.from < known.to \/ known.from = Len(s)
<1>7. QED
  BY <1>5, <1>6
-----------------------------------------------------------------------------
(* Recursion over the first numbers.                                       *)

\* f starts with b and goes from one argument to the next as g says.
Steps(f, n, b, g) == f[0] = b /\ \A k \in 1 .. n : f[k] = g[k][f[k - 1]]

LEMMA Recursively ==
  ASSUME NEW N \in Nat, NEW S, NEW b \in S, NEW g \in [1 .. N -> [S -> S]]
  PROVE  \E f \in [0 .. N -> S] : Steps(f, N, b, g)
<1>. DEFINE Upto(n) == {f \in [0 .. n -> S] : Steps(f, n, b, g)}
            Bad == {n \in 0 .. N : Upto(n) = {}}
<1>1. Bad = {}
  <2>1. SUFFICES ASSUME Bad # {} PROVE FALSE
    OBVIOUS
  <2>2. PICK m \in Bad : \A n \in Bad : m <= n
    <3>1. Bad \in SUBSET Nat
      OBVIOUS
    <3>. HIDE DEF Bad
    <3>2. QED
      BY <2>1, <3>1, MinOfNat
  <2>3. m # 0
    <3>1. [k \in 0 .. 0 |-> b] \in Upto(0)
      BY DEF Steps
    <3>2. QED
      BY <2>2, <3>1
  <2>4. m \in 1 .. N /\ m - 1 \in 0 .. N
    BY <2>2, <2>3
  <2>5. m - 1 \notin Bad
    <3>. HIDE DEF Bad
    <3>1. m \in Nat
      BY <2>4
    <3>2. QED
      BY <2>2, <2>4, <3>1
  <2>6. PICK f \in [0 .. m - 1 -> S] : f[0] = b /\ \A k \in 1 .. m - 1 : f[k] = g[k][f[k - 1]]
    <3>1. Upto(m - 1) # {}
      BY <2>4, <2>5
    <3>2. QED
      BY <3>1 DEF Steps
  <2>. DEFINE h == [k \in 0 .. m |-> IF k = m THEN g[m][f[m - 1]] ELSE f[k]]
  <2>7. f[m - 1] \in S
    BY <2>4, <2>6
  <2>8. g[m][f[m - 1]] \in S
    BY <2>4, <2>7
  <2>9. h \in [0 .. m -> S]
    BY <2>4, <2>6, <2>8
  <2>10. h[0] = b
    BY <2>4, <2>6
  <2>11. ASSUME NEW k \in 1 .. m PROVE h[k] = g[k][h[k - 1]]
    <3>1. h[k - 1] = f[k - 1]
      BY <2>4, <2>11
    <3>2. CASE k = m
      <4>1. h[m] = g[m][f[m - 1]]
        BY <2>4
      <4>. HIDE DEF h
      <4>2. QED
        BY <3>1, <3>2, <4>1
    <3>3. CASE k # m
      BY <2>4, <2>6, <3>1, <3>3
    <3>4. QED
      BY <3>2, <3>3
  <2>. HIDE DEF h
  <2>12. h \in Upto(m)
    BY <2>9, <2>10, <2>11 DEF Steps
  <2>13. QED
    BY <2>2, <2>12
<1>2. N \notin Bad
  BY <1>1
<1>3. Upto(N) # {}
  BY <1>2
<1>4. QED
  BY <1>3

\* What holds of the first elements holds of all.
LEMMA Induct ==
  ASSUME NEW N \in Nat, NEW P, 0 \in P, \A k \in 1 .. N : k - 1 \in P => k \in P
  PROVE  \A k \in 0 .. N : k \in P
<1>. DEFINE Bad == {k \in 0 .. N : k \notin P}
<1>1. SUFFICES ASSUME Bad # {} PROVE FALSE
  OBVIOUS
<1>2. PICK m \in Bad : \A n \in Bad : m <= n
  <2>1. Bad \in SUBSET Nat
    OBVIOUS
  <2>. HIDE DEF Bad
  <2>2. QED
    BY <1>1, <2>1, MinOfNat
<1>3. m \in 1 .. N /\ m - 1 \in 0 .. N
  BY <1>2
<1>4. m - 1 \notin Bad
  <2>1. m - 1 < m
    BY <1>3
  <2>2. \A n \in Bad : n \in Nat
    OBVIOUS
  <2>. HIDE DEF Bad
  <2>3. QED
    BY <1>2, <1>3, <2>1, <2>2
<1>5. m - 1 \in P
  BY <1>3, <1>4
<1>6. QED
  BY <1>2, <1>3, <1>5

-----------------------------------------------------------------------------
(* What the coverage of a file is computed from.                           *)

LEMMA MinOfTwo ==
  ASSUME NEW a \in Nat, NEW b \in Nat
  PROVE  Min({a, b}) = (IF a <= b THEN a ELSE b) /\ Max({a, b}) = (IF a <= b THEN b ELSE a)
<1>1. {a, b} \in SUBSET Nat
  OBVIOUS
<1>2. CASE a <= b
  <2>1. Min({a, b}) = a
    BY <1>1, <1>2, MinIs
  <2>2. Max({a, b}) = b
    BY <1>1, <1>2, MaxIs
  <2>3. QED
    BY <1>2, <2>1, <2>2
<1>3. CASE ~ (a <= b)
  <2>1. Min({a, b}) = b
    BY <1>1, <1>3, MinIs
  <2>2. Max({a, b}) = a
    BY <1>1, <1>3, MaxIs
  <2>3. QED
    BY <1>3, <2>1, <2>2
<1>4. QED
  BY <1>2, <1>3

Spans == [from : Nat, to : Nat]

LEMMA EarliestIs ==
  ASSUME NEW left \in SUBSET Spans, left # {}
  PROVE  Earliest(left) \in left /\ \A y \in left : Earliest(left).from <= y.from
<1>. DEFINE F == {x.from : x \in left}
<1>1. F \in SUBSET Nat /\ F # {}
  BY DEF Spans
<1>2. PICK m \in F : \A n \in F : m <= n
  <2>. HIDE DEF F
  <2>1. QED
    BY <1>1, MinOfNat
<1>3. \E x \in left : \A y \in left : x.from <= y.from
  <2>1. PICK x \in left : m = x.from
    OBVIOUS
  <2>2. \A y \in left : y.from \in F
    OBVIOUS
  <2>3. QED
    BY <1>2, <2>1, <2>2
<1>4. QED
  BY <1>3, Zenon DEF Earliest

\* The states of the cursor, and those that have seen what they passed: as long
\* as there is no gap, every byte before the cursor is in an interval.
Cursors(I) == [left : SUBSET I, cursor : Nat, read : Int, gaps : Seq(Spans)]
Seen(I) == {t \in Cursors(I) : t.gaps = <<>> => \A b \in 0 .. t.cursor - 1 : \E x \in I : b \in Within(x)}

LEMMA PassedIs ==
  ASSUME NEW I \in SUBSET Spans, NEW t \in Seen(I), NEW x \in I, NEW total \in Nat
  PROVE  Passed(t, x, total) \in Seen(I)
<1>. DEFINE to == Min({total, x.to})
            u == Passed(t, x, total)
<1>1. /\ t.left \in SUBSET I /\ t.cursor \in Nat /\ t.read \in Int /\ t.gaps \in Seq(Spans)
      /\ x.from \in Nat /\ x.to \in Nat
  BY DEF Seen, Cursors, Spans
<1>2. to \in Nat /\ to <= x.to
  BY <1>1, MinOfTwo
<1>3. Max({t.cursor, to}) = (IF t.cursor <= to THEN to ELSE t.cursor)
  <2>. HIDE DEF to
  <2>1. QED
    BY <1>1, <1>2, MinOfTwo
<1>4. Max({t.cursor, x.from}) \in Nat
  BY <1>1, MinOfTwo
<1>. HIDE DEF to
<1>5. u = [left |-> t.left \ {x}, cursor |-> Max({t.cursor, to}),
           read |-> t.read + (IF to > t.cursor THEN to - Max({t.cursor, x.from}) ELSE 0),
           gaps |-> IF x.from > t.cursor
                    THEN Append(t.gaps, [from |-> t.cursor, to |-> x.from]) ELSE t.gaps]
  BY DEF Passed, to
<1>6. Append(t.gaps, [from |-> t.cursor, to |-> x.from]) \in Seq(Spans) \ {<<>>}
  <2>1. [from |-> t.cursor, to |-> x.from] \in Spans
    BY <1>1 DEF Spans
  <2>2. QED
    BY <1>1, <2>1, AppendProperties, EmptySeq
<1>7. u.gaps \in Seq(Spans) /\ (u.gaps = <<>> => t.gaps = <<>> /\ x.from <= t.cursor)
  BY <1>1, <1>5, <1>6
<1>8. u.cursor \in Nat /\ u.cursor = (IF t.cursor <= to THEN to ELSE t.cursor)
  BY <1>1, <1>2, <1>3, <1>5
<1>9. u.read \in Int
  BY <1>1, <1>2, <1>4, <1>5
<1>10. u \in Cursors(I)
  <2>1. t.left \ {x} \in SUBSET I
    BY <1>1
  <2>2. QED
    BY <1>5, <1>7, <1>8, <1>9, <2>1 DEF Cursors
<1>11. ASSUME u.gaps = <<>>, NEW b \in 0 .. u.cursor - 1
       PROVE  \E y \in I : b \in Within(y)
  <2>1. CASE b < t.cursor
    BY <1>1, <1>7, <1>11, <2>1 DEF Seen
  <2>2. CASE ~ (b < t.cursor)
    <3>1. b \in x.from .. x.to - 1
      BY <1>1, <1>2, <1>7, <1>8, <1>11, <2>2
    <3>2. QED
      BY <3>1 DEF Within
  <2>3. QED
    BY <2>1, <2>2
<1>. HIDE DEF u
<1>12. u \in Seen(I)
  BY <1>10, <1>11 DEF Seen
<1>13. QED
  BY <1>12 DEF u

\* Every state of the cursor has seen what it passed.
LEMMA SweepIs ==
  ASSUME NEW I \in SUBSET Spans, IsFiniteSet(I), NEW total \in Nat
  PROVE  Sweep(I, total)[Cardinality(I)] \in Seen(I)
<1>. DEFINE N == Cardinality(I)
            b == [left |-> I, cursor |-> 0, read |-> 0, gaps |-> <<>>]
            pass(t) == IF t.left # {} THEN Passed(t, Earliest(t.left), total) ELSE t
            g == [k \in 1 .. N |-> [t \in Seen(I) |-> pass(t)]]
            Left(k) == {t \in Seen(I) : IsFiniteSet(t.left) /\ Cardinality(t.left) = N - k}
            Is(f) == f = [k \in 0 .. N |-> IF k = 0 THEN b ELSE Passed(f[k - 1], Earliest(f[k - 1].left), total)]
<1>1. N \in Nat
  BY FS_CardinalityType
<1>2. b \in Left(0)
  <2>1. b.gaps \in Seq(Spans) /\ \A k \in 0 .. b.cursor - 1 : FALSE
    OBVIOUS
  <2>2. b \in Cursors(I)
    BY <2>1 DEF Cursors
  <2>3. b \in Seen(I)
    BY <2>1, <2>2 DEF Seen
  <2>4. QED
    BY <1>1, <2>3
<1>3. ASSUME NEW t \in Seen(I), t.left # {}
      PROVE  /\ Passed(t, Earliest(t.left), total) \in Seen(I)
             /\ \A k \in 1 .. N : t \in Left(k - 1) => Passed(t, Earliest(t.left), total) \in Left(k)
  <2>1. t.left \in SUBSET I
    BY DEF Seen, Cursors
  <2>2. Earliest(t.left) \in t.left
    <3>1. t.left \in SUBSET Spans
      BY <2>1
    <3>2. QED
      BY ONLY <3>1, <1>3, EarliestIs
  <2>. DEFINE x == Earliest(t.left)
              u == Passed(t, x, total)
  <2>3. x \in I
    BY <2>1, <2>2
  <2>4. u \in Seen(I)
    <3>. HIDE DEF x
    <3>1. QED
      BY <2>3, PassedIs
  <2>5. u.left = t.left \ {x}
    BY DEF Passed
  <2>. HIDE DEF u
  <2>6. ASSUME NEW k \in 1 .. N, t \in Left(k - 1) PROVE u \in Left(k)
    <3>1. IsFiniteSet(t.left) /\ Cardinality(t.left) = N - (k - 1) /\ x \in t.left
      BY <2>2, <2>6
    <3>. HIDE DEF x
    <3>2. IsFiniteSet(u.left) /\ Cardinality(u.left) = Cardinality(t.left) - 1
      <4>. DEFINE L == t.left
      <4>. HIDE DEF L
      <4>1. ASSUME IsFiniteSet(L), x \in L
            PROVE  IsFiniteSet(L \ {x}) /\ Cardinality(L \ {x}) = Cardinality(L) - 1
        BY <4>1, FS_RemoveElement
      <4>2. QED
        BY <3>1, <2>5, <4>1 DEF L
    <3>3. Cardinality(u.left) = N - k
      BY <1>1, <3>1, <3>2
    <3>4. QED
      BY <2>4, <3>2, <3>3
  <2>7. QED
    BY <2>4, <2>6 DEF u
<1>4. ASSUME NEW k \in 1 .. N, NEW t \in Left(k - 1) PROVE t.left # {} /\ t \in Seen(I)
  <2>1. Cardinality(t.left) = N - (k - 1) /\ N - (k - 1) # 0
    BY <1>1
  <2>2. QED
    BY <2>1, FS_EmptySet
<1>5. g \in [1 .. N -> [Seen(I) -> Seen(I)]]
  <2>1. \A t \in Seen(I) : pass(t) \in Seen(I)
    BY <1>3
  <2>. HIDE DEF pass, N
  <2>2. QED
    BY <2>1
<1>6. b \in Seen(I)
  BY <1>2
<1>7. PICK f \in [0 .. N -> Seen(I)] : f[0] = b /\ \A k \in 1 .. N : f[k] = g[k][f[k - 1]]
  <2>. HIDE DEF g, b, N
  <2>1. \E f \in [0 .. N -> Seen(I)] : Steps(f, N, b, g)
    BY <1>1, <1>5, <1>6, Recursively
  <2>2. QED
    BY <2>1 DEF Steps
<1>8. ASSUME NEW k \in 1 .. N PROVE f[k] = pass(f[k - 1])
  <2>1. k \in 0 .. N /\ k - 1 \in 0 .. N
    BY <1>1
  <2>2. f[k - 1] \in Seen(I)
    BY <1>7, <2>1
  <2>. HIDE DEF pass, N, b
  <2>3. QED
    BY <1>7, <2>2
<1>. HIDE DEF g
<1>9. \A k \in 0 .. N : f[k] \in Left(k)
  <2>. DEFINE P == {k \in Nat : f[k] \in Left(k)}
  <2>1. 0 \in P
    BY <1>2, <1>7
  <2>2. ASSUME NEW k \in 1 .. N, k - 1 \in P PROVE k \in P
    <3>1. f[k - 1] \in Left(k - 1) /\ k \in Nat
      BY <2>2
    <3>2. f[k - 1].left # {} /\ f[k - 1] \in Seen(I)
      BY ONLY <3>1, <1>4
    <3>3. f[k] = Passed(f[k - 1], Earliest(f[k - 1].left), total)
      BY <1>8, <3>2
    <3>4. f[k] \in Left(k)
      <4>. HIDE DEF Left
      <4>1. QED
        BY <1>3, <3>1, <3>2, <3>3
    <3>5. QED
      BY <3>1, <3>4
  <2>. HIDE DEF P
  <2>3. \A k \in 0 .. N : k \in P
    BY ONLY <1>1, <2>1, <2>2, Induct
  <2>4. QED
    BY <2>3 DEF P
<1>10. Is(f)
  <2>1. ASSUME NEW k \in 0 .. N
        PROVE  f[k] = IF k = 0 THEN b ELSE Passed(f[k - 1], Earliest(f[k - 1].left), total)
    <3>1. CASE k = 0
      BY <1>7, <3>1
    <3>2. CASE k # 0
      <4>1. k \in 1 .. N /\ k - 1 \in 0 .. N
        BY <1>1, <3>2
      <4>2. f[k - 1].left # {}
        BY <1>4, <1>9, <4>1
      <4>3. f[k] = Passed(f[k - 1], Earliest(f[k - 1].left), total)
        BY <1>8, <4>1, <4>2
      <4>4. QED
        BY <3>2, <4>3
    <3>3. QED
      BY <3>1, <3>2
  <2>. HIDE DEF b
  <2>2. QED
    BY <2>1, <1>7
<1>11. Sweep(I, total) = CHOOSE h : Is(h)
  BY DEF Sweep
<1>12. Is(Sweep(I, total))
  <2>. HIDE DEF Is
  <2>1. QED
    BY <1>10, <1>11
<1>. DEFINE h == Sweep(I, total)
<1>13. h = [k \in 0 .. N |-> IF k = 0 THEN b ELSE Passed(h[k - 1], Earliest(h[k - 1].left), total)]
  BY <1>12
<1>. HIDE DEF h, b
<1>14. h[0] = b /\ \A k \in 1 .. N : h[k] = Passed(h[k - 1], Earliest(h[k - 1].left), total)
  <2>1. \A k \in 0 .. N : h[k] = IF k = 0 THEN b ELSE Passed(h[k - 1], Earliest(h[k - 1].left), total)
    BY <1>13
  <2>2. \A k \in 1 .. N : k \in 0 .. N /\ k # 0
    BY <1>1
  <2>3. QED
    BY <1>1, <2>1, <2>2
<1>15. \A k \in 0 .. N : h[k] \in Left(k)
  <2>. DEFINE P == {k \in Nat : h[k] \in Left(k)}
  <2>1. 0 \in P
    BY <1>2, <1>14
  <2>2. ASSUME NEW k \in 1 .. N, k - 1 \in P PROVE k \in P
    <3>1. h[k - 1] \in Left(k - 1) /\ k \in Nat
      BY <2>2
    <3>2. h[k - 1].left # {} /\ h[k - 1] \in Seen(I)
      BY ONLY <3>1, <1>4
    <3>3. h[k] \in Left(k)
      <4>. HIDE DEF Left
      <4>1. QED
        BY <1>3, <3>1, <3>2, <1>14
    <3>4. QED
      BY <3>1, <3>3
  <2>. HIDE DEF P
  <2>3. \A k \in 0 .. N : k \in P
    BY ONLY <1>1, <2>1, <2>2, Induct
  <2>4. QED
    BY <2>3 DEF P
<1>16. h[N] \in Seen(I)
  BY <1>1, <1>15
<1>17. QED
  BY <1>16 DEF h

\* Intervals that leave no gap hold every byte.
LEMMA GapsCover ==
  ASSUME NEW I \in SUBSET Spans, IsFiniteSet(I), NEW total \in Nat, Gaps(I, total).gaps = <<>>
  PROVE  \A b \in 0 .. total - 1 : \E x \in I : b \in Within(x)
<1>. DEFINE e == Sweep(I, total)[Cardinality(I)]
<1>1. e \in Seen(I)
  BY SweepIs
<1>. HIDE DEF e
<1>2. e.cursor \in Nat /\ e.gaps \in Seq(Spans)
  BY <1>1 DEF Seen, Cursors
<1>3. Gaps(I, total).gaps = IF e.cursor < total
                            THEN Append(e.gaps, [from |-> e.cursor, to |-> total]) ELSE e.gaps
  BY DEF Gaps, e
<1>4. Append(e.gaps, [from |-> e.cursor, to |-> total]) # <<>>
  <2>1. [from |-> e.cursor, to |-> total] \in Spans
    BY <1>2 DEF Spans
  <2>2. QED
    BY <1>2, <2>1, AppendProperties, EmptySeq
<1>5. ~ (e.cursor < total) /\ e.gaps = <<>>
  BY <1>3, <1>4
<1>6. \A b \in 0 .. total - 1 : b \in 0 .. e.cursor - 1
  BY <1>2, <1>5
<1>7. QED
  BY <1>1, <1>5, <1>6 DEF Seen

=================================================================================
