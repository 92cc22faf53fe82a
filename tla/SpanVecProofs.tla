---------------------------- MODULE SpanVecProofs ----------------------------
(***************************************************************************)
(* What insert() of a SpanVec computes, for lists of any length and spans  *)
(* of any size: the merge loop ends, never runs off the list, keeps the    *)
(* list ordered, loses no byte and invents none but those of gaps of one.  *)
(***************************************************************************)
EXTENDS SpanVecSpec, FiniteSetTheorems, SequenceTheorems, TLAPS

Spans == {x \in [start : Nat, end : Nat] : x.start < x.end}
Ordered(s) == \A i, j \in 1 .. Len(s) : i < j => s[i].start < s[j].start
Lists == {s \in Seq(Spans) : Ordered(s)}

(* The covered bytes C agree with the bytes I that were inserted, but for  *)
(* gaps of one byte.                                                       *)
Agrees(C, I) == I \subseteq C /\ \A b \in C \ I : {b - 1, b + 1} \subseteq I
---------------------------------------------------------------------------
(* Induction over the numbers, as the existence of a smallest              *)
(* counterexample.                                                         *)
LEMMA SmallestNumber ==
  ASSUME NEW T \in SUBSET Nat, T # {}
  PROVE  \E n \in T : \A m \in T : n <= m
  <1> DEFINE Less == {p \in Nat \X Nat : p[1] < p[2]}
  <1>1. IsWellFoundedOn(Less, Nat)
    BY NatLessThanWellFounded DEF OpToRel
  <1>2. \A m, n \in Nat : m < n => <<m, n>> \in Less
    OBVIOUS
  <1> HIDE DEF Less
  <1>3. PICK n \in T : \A m \in T : ~ (<<m, n>> \in Less)
    BY <1>1, WFMin
  <1>4. ASSUME NEW m \in T PROVE n <= m
    <2>1. m \in Nat /\ n \in Nat /\ ~ (m < n)
      BY <1>2, <1>3
    <2>. QED
      BY <2>1
  <1>. QED
    BY <1>4
---------------------------------------------------------------------------
(* Spans.                                                                  *)

LEMMA MaxOfTwo ==
  ASSUME NEW a \in Int, NEW b \in Int
  PROVE  Max({a, b}) = IF a >= b THEN a ELSE b
  <1>1. \E x \in {a, b} : \A y \in {a, b} : x >= y
    OBVIOUS
  <1>2. Max({a, b}) \in {a, b} /\ \A y \in {a, b} : Max({a, b}) >= y
    BY <1>1 DEF Max
  <1>. QED
    BY <1>2

LEMMA MinOfTwo ==
  ASSUME NEW a \in Int, NEW b \in Int
  PROVE  Min({a, b}) = IF a <= b THEN a ELSE b
  <1>1. \E x \in {a, b} : \A y \in {a, b} : x <= y
    OBVIOUS
  <1>2. Min({a, b}) \in {a, b} /\ \A y \in {a, b} : Min({a, b}) <= y
    BY <1>1 DEF Min
  <1>. QED
    BY <1>2

\* The hull of a span and one that does not start before it.
LEMMA HullOfTwo ==
  ASSUME NEW l \in Spans, NEW r \in Spans, l.start <= r.start
  PROVE  /\ Hull(l, r) \in Spans
         /\ Hull(l, r).start = l.start
         /\ Hull(l, r).end = IF l.end >= r.end THEN l.end ELSE r.end
         /\ SpanBytes(l) \subseteq SpanBytes(Hull(l, r))
         /\ SpanBytes(r) \subseteq SpanBytes(Hull(l, r))
  <1>1. /\ l.start \in Nat /\ l.end \in Nat /\ l.start < l.end
        /\ r.start \in Nat /\ r.end \in Nat /\ r.start < r.end
    BY DEF Spans
  <1>2. /\ Min({l.start, r.start}) = l.start
        /\ Max({l.end, r.end}) = IF l.end >= r.end THEN l.end ELSE r.end
    <2>1. Min({l.start, r.start}) = IF l.start <= r.start THEN l.start ELSE r.start
      BY <1>1, MinOfTwo
    <2>2. Max({l.end, r.end}) = IF l.end >= r.end THEN l.end ELSE r.end
      BY <1>1, MaxOfTwo
    <2>. QED
      BY <2>1, <2>2
  <1>3. Hull(l, r) = [start |-> l.start, end |-> IF l.end >= r.end THEN l.end ELSE r.end]
    BY <1>2 DEF Hull, Span
  <1>. QED
    BY <1>1, <1>3 DEF Spans, SpanBytes

\* The three outcomes of merge_right.
LEMMA MergeRightOutcomes ==
  ASSUME NEW l \in Spans, NEW r \in Spans
  PROVE  \/ /\ MergeRight(l, r).kind = "Identity" /\ MergeRight(l, r).span = l
            /\ l = r
         \/ /\ MergeRight(l, r).kind = "Merged" /\ MergeRight(l, r).span = Hull(l, r)
            /\ l # r /\ l.start <= r.start /\ l.end + 1 >= r.start
         \/ /\ MergeRight(l, r).kind = "UnMerged" /\ MergeRight(l, r).span = l
            /\ l # r /\ ~ (l.start <= r.start /\ l.end + 1 >= r.start)
  BY DEF MergeRight

\* Replacing two spans that meet, or nearly meet, by their hull.
LEMMA HullAgrees ==
  ASSUME NEW C, NEW I, Agrees(C, I), NEW l \in Spans, NEW r \in Spans,
         l.start <= r.start, l.end + 1 >= r.start,
         SpanBytes(l) \subseteq C, SpanBytes(r) \subseteq C
  PROVE  Agrees(C \cup SpanBytes(Hull(l, r)), I)
  <1>1. /\ l.start \in Nat /\ l.end \in Nat /\ l.start < l.end
        /\ r.start \in Nat /\ r.end \in Nat /\ r.start < r.end
    BY DEF Spans
  <1>2. ASSUME NEW b \in SpanBytes(Hull(l, r)), b \notin C
        PROVE  b = l.end /\ l.end + 1 = r.start
    BY <1>1, <1>2, HullOfTwo DEF SpanBytes
  <1>3. ASSUME NEW b \in SpanBytes(Hull(l, r)), b \notin C
        PROVE  {b - 1, b + 1} \subseteq I
    <2>1. b = l.end /\ b + 1 = r.start
      BY <1>2, <1>3
    <2>2. b - 1 \in C /\ b + 1 \in C
      BY <1>1, <2>1 DEF SpanBytes
    <2>3. b \notin I
      BY <1>3 DEF Agrees
    <2>4. b \in Int /\ (b - 1) + 1 = b /\ (b + 1) - 1 = b
      BY <1>1, <2>1
    <2>5. b - 1 \in I
      BY <2>2, <2>3, <2>4 DEF Agrees
    <2>6. b + 1 \in I
      BY <2>2, <2>3, <2>4 DEF Agrees
    <2>. QED
      BY <2>5, <2>6
  <1>. QED
    BY <1>3 DEF Agrees
---------------------------------------------------------------------------
(* Lists.                                                                  *)

LEMMA CoveredBy ==
  ASSUME NEW s, NEW n \in Nat, DOMAIN s = 1 .. n, NEW b
  PROVE  b \in Covered(s) <=> \E i \in 1 .. n : b \in SpanBytes(s[i])
  BY DEF Covered

LEMMA InsertedAt ==
  ASSUME NEW S, NEW s \in Seq(S), NEW e \in S, NEW k \in 1 .. Len(s) + 1
  PROVE  /\ InsertAt(s, k, e) \in Seq(S)
         /\ Len(InsertAt(s, k, e)) = Len(s) + 1
         /\ \A j \in 1 .. Len(s) + 1 :
               InsertAt(s, k, e)[j] = IF j < k THEN s[j] ELSE IF j = k THEN e ELSE s[j - 1]
  <1> DEFINE a == SubSeq(s, 1, k - 1)
             z == SubSeq(s, k, Len(s))
  <1>1. /\ Len(s) \in Nat /\ a \in Seq(S) /\ z \in Seq(S) /\ Len(a) = k - 1
        /\ Len(z) = Len(s) - k + 1
        /\ \A j \in 1 .. k - 1 : a[j] = s[j]
        /\ \A j \in 1 .. Len(s) - k + 1 : z[j] = s[k + j - 1]
    OBVIOUS
  <1>2. InsertAt(s, k, e) = (a \o <<e>>) \o z
    BY DEF InsertAt
  <1> HIDE DEF a, z
  <1>3. /\ a \o <<e>> \in Seq(S) /\ Len(a \o <<e>>) = k
        /\ \A j \in 1 .. k : (a \o <<e>>)[j] = IF j < k THEN s[j] ELSE e
    BY <1>1
  <1> DEFINE az == a \o <<e>>
  <1> HIDE DEF az
  <1>4. /\ az \o z \in Seq(S) /\ Len(az \o z) = Len(s) + 1
        /\ \A j \in 1 .. Len(s) + 1 : (az \o z)[j] = IF j <= k THEN az[j] ELSE z[j - k]
    <2>1. az \in Seq(S) /\ Len(az) = k
      BY <1>3 DEF az
    <2>2. /\ az \o z \in Seq(S) /\ Len(az \o z) = Len(az) + Len(z)
          /\ \A j \in 1 .. Len(az) + Len(z) :
                (az \o z)[j] = IF j <= Len(az) THEN az[j] ELSE z[j - Len(az)]
      BY <1>1, <2>1, ConcatProperties
    <2>3. Len(az) + Len(z) = Len(s) + 1
      BY <1>1, <2>1
    <2>. QED
      BY <2>1, <2>2, <2>3
  <1>5. ASSUME NEW j \in 1 .. Len(s) + 1
        PROVE  (az \o z)[j] = IF j < k THEN s[j] ELSE IF j = k THEN e ELSE s[j - 1]
    <2>1. CASE j <= k
      BY <1>3, <1>4, <2>1 DEF az
    <2>2. CASE j > k
      <3>1. j - k \in 1 .. Len(s) - k + 1 /\ k + (j - k) - 1 = j - 1
        BY <1>1, <2>2
      <3>. QED
        BY <1>1, <1>4, <2>2, <3>1
    <2>3. j <= k \/ j > k
      BY <1>1
    <2>. QED
      BY <2>1, <2>2, <2>3
  <1>. QED
    BY <1>2, <1>4, <1>5 DEF az

LEMMA RemovedAt ==
  ASSUME NEW S, NEW s \in Seq(S), NEW k \in 1 .. Len(s)
  PROVE  /\ RemoveAt(s, k) \in Seq(S)
         /\ Len(RemoveAt(s, k)) = Len(s) - 1
         /\ \A j \in 1 .. Len(s) - 1 :
               RemoveAt(s, k)[j] = IF j < k THEN s[j] ELSE s[j + 1]
  <1> DEFINE a == SubSeq(s, 1, k - 1)
             z == SubSeq(s, k + 1, Len(s))
  <1>1. /\ Len(s) \in Nat /\ a \in Seq(S) /\ z \in Seq(S) /\ Len(a) = k - 1
        /\ Len(z) = Len(s) - k
        /\ \A j \in 1 .. k - 1 : a[j] = s[j]
        /\ \A j \in 1 .. Len(s) - k : z[j] = s[k + j]
    OBVIOUS
  <1>2. RemoveAt(s, k) = a \o z
    BY DEF RemoveAt
  <1> HIDE DEF a, z
  <1>3. /\ a \o z \in Seq(S) /\ Len(a \o z) = Len(s) - 1
        /\ \A j \in 1 .. Len(s) - 1 : (a \o z)[j] = IF j <= k - 1 THEN a[j] ELSE z[j - (k - 1)]
    <2>1. /\ a \o z \in Seq(S) /\ Len(a \o z) = Len(a) + Len(z)
          /\ \A j \in 1 .. Len(a) + Len(z) :
                (a \o z)[j] = IF j <= Len(a) THEN a[j] ELSE z[j - Len(a)]
      BY <1>1, ConcatProperties
    <2>2. Len(a) + Len(z) = Len(s) - 1
      BY <1>1
    <2>. QED
      BY <1>1, <2>1, <2>2
  <1>4. ASSUME NEW j \in 1 .. Len(s) - 1
        PROVE  (a \o z)[j] = IF j < k THEN s[j] ELSE s[j + 1]
    <2>1. CASE j < k
      BY <1>1, <1>3, <2>1
    <2>2. CASE j >= k
      <3>1. j - (k - 1) \in 1 .. Len(s) - k /\ k + (j - (k - 1)) = j + 1
        BY <1>1, <2>2
      <3>. QED
        BY <1>1, <1>3, <2>2, <3>1
    <2>3. j < k \/ j >= k
      BY <1>1
    <2>. QED
      BY <2>1, <2>2, <2>3
  <1>. QED
    BY <1>2, <1>3, <1>4

\* A new span between two others.
LEMMA InsertBetween ==
  ASSUME NEW s \in Lists, NEW e \in Spans, NEW k \in 0 .. Len(s),
         \A i \in 1 .. k : s[i].start < e.start,
         \A i \in k + 1 .. Len(s) : e.start < s[i].start
  PROVE  /\ InsertAt(s, k + 1, e) \in Lists
         /\ Len(InsertAt(s, k + 1, e)) = Len(s) + 1
         /\ Covered(InsertAt(s, k + 1, e)) = Covered(s) \cup SpanBytes(e)
  <1> DEFINE t == InsertAt(s, k + 1, e)
  <1>1. /\ t \in Seq(Spans) /\ Len(t) = Len(s) + 1 /\ Len(s) \in Nat
        /\ \A j \in 1 .. Len(s) + 1 :
              t[j] = IF j < k + 1 THEN s[j] ELSE IF j = k + 1 THEN e ELSE s[j - 1]
    BY InsertedAt DEF Lists
  <1> HIDE DEF t
  <1>2. \A j \in 1 .. Len(s) : s[j] \in Spans /\ s[j].start \in Nat
    BY DEF Lists, Spans
  <1>3. Ordered(t)
    <2> SUFFICES ASSUME NEW i \in 1 .. Len(t), NEW j \in 1 .. Len(t), i < j
                 PROVE  t[i].start < t[j].start
      BY DEF Ordered
    <2>1. \A a, b \in 1 .. Len(s) : a < b => s[a].start < s[b].start
      BY DEF Lists, Ordered
    <2>2. CASE j < k + 1
      BY <1>1, <2>1, <2>2
    <2>3. CASE j = k + 1
      BY <1>1, <2>3
    <2>4. CASE j > k + 1
      <3>1. CASE i < k + 1
        BY <1>1, <2>1, <2>4, <3>1
      <3>0. t[j] = s[j - 1] /\ j - 1 \in 1 .. Len(s)
        BY <1>1, <2>4
      <3>2. CASE i = k + 1
        BY <1>1, <2>4, <3>0, <3>2
      <3>3. CASE i > k + 1
        <4>1. t[i] = s[i - 1] /\ i - 1 \in 1 .. Len(s) /\ i - 1 < j - 1
          BY <1>1, <3>3
        <4>. QED
          BY <2>1, <3>0, <4>1
      <3>. QED
        BY <3>1, <3>2, <3>3
    <2>. QED
      BY <2>2, <2>3, <2>4
  <1>4. Covered(t) = Covered(s) \cup SpanBytes(e)
    <2>1. DOMAIN s = 1 .. Len(s) /\ DOMAIN t = 1 .. Len(s) + 1
      BY <1>1 DEF Lists
    <2>2. ASSUME NEW b \in Covered(t) PROVE b \in Covered(s) \cup SpanBytes(e)
      <3>1. PICK i \in 1 .. Len(s) + 1 : b \in SpanBytes(t[i])
        BY <1>1, <2>1, CoveredBy
      <3>2. t[i] = e \/ \E j \in 1 .. Len(s) : t[i] = s[j]
        BY <1>1
      <3>. QED
        BY <1>1, <2>1, <3>1, <3>2, CoveredBy
    <2>3. ASSUME NEW b \in SpanBytes(e) PROVE b \in Covered(t)
      <3>1. t[k + 1] = e /\ k + 1 \in 1 .. Len(s) + 1
        BY <1>1
      <3>. QED
        BY <1>1, <2>1, <3>1, CoveredBy
    <2>4. ASSUME NEW b \in Covered(s) PROVE b \in Covered(t)
      <3>1. PICK i \in 1 .. Len(s) : b \in SpanBytes(s[i])
        BY <1>1, <2>1, CoveredBy
      <3>2. \E j \in 1 .. Len(s) + 1 : t[j] = s[i]
        <4>1. CASE i < k + 1
          BY <1>1, <4>1
        <4>2. CASE i >= k + 1
          <5>1. t[i + 1] = s[i] /\ i + 1 \in 1 .. Len(s) + 1
            BY <1>1, <4>2
          <5>. QED
            BY <5>1
        <4>. QED
          BY <4>1, <4>2
      <3>. QED
        BY <1>1, <2>1, <3>1, <3>2, CoveredBy
    <2>. QED
      BY <2>2, <2>3, <2>4
  <1>. QED
    BY <1>1, <1>3, <1>4 DEF Lists, t

\* A span in the place of one that it contains.
LEMMA ReplaceSpan ==
  ASSUME NEW s \in Lists, NEW e \in Spans, NEW k \in 1 .. Len(s),
         SpanBytes(s[k]) \subseteq SpanBytes(e),
         \A i \in 1 .. k - 1 : s[i].start < e.start,
         \A i \in k + 1 .. Len(s) : e.start < s[i].start
  PROVE  /\ ReplaceAt(s, k, e) \in Lists
         /\ Len(ReplaceAt(s, k, e)) = Len(s)
         /\ \A i \in 1 .. Len(s) : ReplaceAt(s, k, e)[i] = IF i = k THEN e ELSE s[i]
         /\ Covered(ReplaceAt(s, k, e)) = Covered(s) \cup SpanBytes(e)
  <1> DEFINE t == ReplaceAt(s, k, e)
  <1>1. /\ t \in Seq(Spans) /\ Len(t) = Len(s) /\ Len(s) \in Nat
        /\ \A i \in 1 .. Len(s) : t[i] = IF i = k THEN e ELSE s[i]
    BY DEF Lists, ReplaceAt
  <1> HIDE DEF t
  <1>2. Ordered(t)
    <2> SUFFICES ASSUME NEW i \in 1 .. Len(t), NEW j \in 1 .. Len(t), i < j
                 PROVE  t[i].start < t[j].start
      BY DEF Ordered
    <2>1. \A a, b \in 1 .. Len(s) : a < b => s[a].start < s[b].start
      BY DEF Lists, Ordered
    <2>2. CASE i = k
      BY <1>1, <2>2
    <2>3. CASE j = k
      BY <1>1, <2>3
    <2>4. CASE i # k /\ j # k
      BY <1>1, <2>1, <2>4
    <2>. QED
      BY <2>2, <2>3, <2>4
  <1>3. Covered(t) = Covered(s) \cup SpanBytes(e)
    <2>1. DOMAIN s = 1 .. Len(s) /\ DOMAIN t = 1 .. Len(s)
      BY <1>1 DEF Lists
    <2>2. ASSUME NEW b \in Covered(t) PROVE b \in Covered(s) \cup SpanBytes(e)
      <3>1. PICK i \in 1 .. Len(s) : b \in SpanBytes(t[i])
        BY <1>1, <2>1, CoveredBy
      <3>2. t[i] = e \/ t[i] = s[i]
        BY <1>1
      <3>. QED
        BY <1>1, <2>1, <3>1, <3>2, CoveredBy
    <2>3. ASSUME NEW b \in SpanBytes(e) PROVE b \in Covered(t)
      <3>1. t[k] = e
        BY <1>1
      <3>. QED
        BY <1>1, <2>1, <3>1, CoveredBy
    <2>4. ASSUME NEW b \in Covered(s) PROVE b \in Covered(t)
      <3>1. PICK i \in 1 .. Len(s) : b \in SpanBytes(s[i])
        BY <1>1, <2>1, CoveredBy
      <3>2. b \in SpanBytes(t[i])
        BY <1>1, <3>1
      <3>. QED
        BY <1>1, <2>1, <3>2, CoveredBy
    <2>. QED
      BY <2>2, <2>3, <2>4
  <1>. QED
    BY <1>1, <1>2, <1>3 DEF Lists, t

\* A span in the place of two neighbours that it contains.
AbsorbsNext(s, k, e) ==
    LET t == RemoveAt(ReplaceAt(s, k, e), k + 1)
    IN  /\ t \in Lists /\ Len(t) = Len(s) - 1 /\ t[k] = e
        /\ Covered(t) = Covered(s) \cup SpanBytes(e)

LEMMA AbsorbNext ==
  ASSUME NEW s \in Lists, NEW e \in Spans, NEW k \in 1 .. Len(s), k < Len(s),
         e.start = s[k].start,
         SpanBytes(s[k]) \subseteq SpanBytes(e), SpanBytes(s[k + 1]) \subseteq SpanBytes(e)
  PROVE  AbsorbsNext(s, k, e)
  <1> DEFINE r == ReplaceAt(s, k, e)
             t == RemoveAt(r, k + 1)
  <1>1. \A a, b \in 1 .. Len(s) : a < b => s[a].start < s[b].start
    BY DEF Lists, Ordered
  <1>2. Len(s) \in Nat /\ k + 1 \in 1 .. Len(s) /\ DOMAIN s = 1 .. Len(s)
    BY DEF Lists
  <1>3. /\ \A i \in 1 .. k - 1 : s[i].start < e.start
        /\ \A i \in k + 1 .. Len(s) : e.start < s[i].start
    BY <1>1, <1>2
  <1>4. /\ r \in Lists /\ Len(r) = Len(s)
        /\ \A i \in 1 .. Len(s) : r[i] = IF i = k THEN e ELSE s[i]
        /\ Covered(r) = Covered(s) \cup SpanBytes(e)
    BY <1>3, ReplaceSpan
  <1> HIDE DEF r
  <1>5. /\ t \in Seq(Spans) /\ Len(t) = Len(s) - 1
        /\ \A j \in 1 .. Len(s) - 1 : t[j] = IF j < k + 1 THEN r[j] ELSE r[j + 1]
    <2>1. r \in Seq(Spans) /\ k + 1 \in 1 .. Len(r)
      BY <1>2, <1>4 DEF Lists
    <2>2. /\ RemoveAt(r, k + 1) \in Seq(Spans) /\ Len(RemoveAt(r, k + 1)) = Len(r) - 1
          /\ \A j \in 1 .. Len(r) - 1 :
                RemoveAt(r, k + 1)[j] = IF j < k + 1 THEN r[j] ELSE r[j + 1]
      BY <2>1, RemovedAt
    <2>3. Len(r) = Len(s)
      BY <1>4
    <2>. QED
      BY <2>2, <2>3
  <1> HIDE DEF t
  <1>6. \A a, b \in 1 .. Len(s) : a < b => r[a].start < r[b].start
    BY <1>4 DEF Lists, Ordered
  <1>7. Ordered(t)
    <2> SUFFICES ASSUME NEW i \in 1 .. Len(t), NEW j \in 1 .. Len(t), i < j
                 PROVE  t[i].start < t[j].start
      BY DEF Ordered
    <2>1. \E a, b \in 1 .. Len(s) : a < b /\ t[i] = r[a] /\ t[j] = r[b]
      <3>1. CASE j < k + 1
        <4>1. t[i] = r[i] /\ t[j] = r[j] /\ i \in 1 .. Len(s) /\ j \in 1 .. Len(s)
          BY <1>2, <1>5, <3>1
        <4>. QED
          BY <4>1
      <3>2. CASE i < k + 1 /\ j >= k + 1
        <4>1. t[i] = r[i] /\ t[j] = r[j + 1] /\ i \in 1 .. Len(s) /\ j + 1 \in 1 .. Len(s)
          BY <1>2, <1>5, <3>2
        <4>. QED
          BY <4>1
      <3>3. CASE i >= k + 1
        <4>1. /\ t[i] = r[i + 1] /\ t[j] = r[j + 1]
              /\ i + 1 \in 1 .. Len(s) /\ j + 1 \in 1 .. Len(s) /\ i + 1 < j + 1
          BY <1>2, <1>5, <3>3
        <4>. QED
          BY <4>1
      <3>. QED
        BY <1>5, <3>1, <3>2, <3>3
    <2>. QED
      BY <1>6, <2>1
  <1>8. Covered(t) = Covered(r)
    <2>1. DOMAIN r = 1 .. Len(s) /\ DOMAIN t = 1 .. Len(s) - 1 /\ Len(s) - 1 \in Nat
      BY <1>2, <1>4, <1>5 DEF Lists
    <2>2. ASSUME NEW b \in Covered(t) PROVE b \in Covered(r)
      <3>1. PICK i \in 1 .. Len(s) - 1 : b \in SpanBytes(t[i])
        BY <2>1, CoveredBy
      <3>2. \E j \in 1 .. Len(s) : t[i] = r[j]
        <4>1. CASE i < k + 1
          BY <1>2, <1>5, <4>1
        <4>2. CASE i >= k + 1
          <5>1. t[i] = r[i + 1] /\ i + 1 \in 1 .. Len(s)
            BY <1>2, <1>5, <4>2
          <5>. QED
            BY <5>1
        <4>. QED
          BY <4>1, <4>2
      <3>. QED
        BY <1>2, <2>1, <3>1, <3>2, CoveredBy
    <2>3. ASSUME NEW b \in Covered(r) PROVE b \in Covered(t)
      <3>1. PICK i \in 1 .. Len(s) : b \in SpanBytes(r[i])
        BY <1>2, <2>1, CoveredBy
      <3>2. \E j \in 1 .. Len(s) - 1 : b \in SpanBytes(t[j])
        <4>1. CASE i < k + 1
          <5>1. t[i] = r[i] /\ i \in 1 .. Len(s) - 1
            BY <1>2, <1>5, <4>1
          <5>. QED
            BY <3>1, <5>1
        <4>2. CASE i = k + 1
          <5>1. r[i] = s[i] /\ t[k] = e /\ k \in 1 .. Len(s) - 1
            BY <1>2, <1>4, <1>5, <4>2
          <5>2. b \in SpanBytes(e)
            BY <3>1, <4>2, <5>1
          <5>. QED
            BY <5>1, <5>2
        <4>3. CASE i > k + 1
          <5>1. t[i - 1] = r[i] /\ i - 1 \in 1 .. Len(s) - 1
            BY <1>2, <1>5, <4>3
          <5>. QED
            BY <3>1, <5>1
        <4>. QED
          BY <4>1, <4>2, <4>3
      <3>. QED
        BY <2>1, <3>2, CoveredBy
    <2>. QED
      BY <2>2, <2>3
  <1>9. t[k] = e
    BY <1>2, <1>4, <1>5
  <1>. QED
    BY <1>4, <1>5, <1>7, <1>8, <1>9 DEF Lists, t, r, AbsorbsNext
---------------------------------------------------------------------------
(* One turn of the merge loop.  Before its first turn the span to place is *)
(* none of the list's; after a turn that goes on, it is its left or its    *)
(* right neighbour.  `turns` bounds the turns that are left.               *)

Unplaced(c) ==
    /\ \A i \in 1 .. c.idx : c.spans[i].start < c.elem.start
    /\ \A i \in c.idx + 1 .. Len(c.spans) : c.elem.start <= c.spans[i].start
IsLeft(c) == c.idx > 0 /\ c.spans[c.idx] = c.elem
IsRight(c) == c.idx < Len(c.spans) /\ c.spans[c.idx + 1] = c.elem

Cursors == [spans : Lists, elem : Spans, idx : Nat, done : BOOLEAN, panic : {FALSE}]

Turning(c, I, turns) ==
    /\ c \in Cursors /\ c.idx <= Len(c.spans)
    /\ c.done => Agrees(Covered(c.spans), I)
    /\ ~ c.done =>
          /\ Agrees(Covered(c.spans) \cup SpanBytes(c.elem), I)
          /\ \/ Unplaced(c) /\ Len(c.spans) + 2 <= turns
             \/ IsRight(c) /\ Len(c.spans) + 1 <= turns
             \/ IsLeft(c) /\ Len(c.spans) <= turns

\* The ends of a turn.
LEMMA TurnEnds ==
  ASSUME NEW c \in Cursors, NEW I, NEW turns \in Int, c.idx <= Len(c.spans),
         NEW s \in Lists, Agrees(Covered(s), I), c.idx <= Len(s)
  PROVE  Turning(Placed(c, s), I, turns)
  BY DEF Turning, Placed, Cursors

\* The span to place is found in the list.
LEMMA FoundCovers ==
  ASSUME NEW c \in Cursors, c.idx <= Len(c.spans), IsLeft(c) \/ IsRight(c)
  PROVE  Covered(c.spans) \cup SpanBytes(c.elem) = Covered(c.spans)
  <1>1. DOMAIN c.spans = 1 .. Len(c.spans) /\ Len(c.spans) \in Nat /\ c.idx \in Nat
    BY DEF Cursors, Lists
  <1>2. PICK i \in 1 .. Len(c.spans) : c.spans[i] = c.elem
    BY <1>1 DEF IsLeft, IsRight
  <1>. QED
    BY <1>1, <1>2, CoveredBy

\* A turn that goes on leaves the span it places in the list.
LEMMA TurnGoesOn ==
  ASSUME NEW c \in Cursors, ~ c.done, NEW I, NEW turns \in Int,
         NEW t \in Lists, NEW e \in Spans, NEW i \in Nat, i <= Len(t),
         Agrees(Covered(t), I),
         \/ i < Len(t) /\ t[i + 1] = e /\ Len(t) + 1 <= turns
         \/ i > 0 /\ t[i] = e /\ Len(t) <= turns
  PROVE  Turning(MovedOn(c, t, e, i), I, turns)
  <1> DEFINE d == MovedOn(c, t, e, i)
  <1>1. /\ d \in Cursors /\ d.spans = t /\ d.elem = e /\ d.idx = i /\ d.done = FALSE
    BY DEF MovedOn, Cursors
  <1> HIDE DEF d
  <1>2. \/ IsRight(d) /\ Len(d.spans) + 1 <= turns
        \/ IsLeft(d) /\ Len(d.spans) <= turns
    BY <1>1 DEF IsRight, IsLeft
  <1>3. Covered(d.spans) \cup SpanBytes(d.elem) = Covered(d.spans)
    BY <1>1, <1>2, FoundCovers
  <1>4. Agrees(Covered(d.spans) \cup SpanBytes(d.elem), I)
    BY <1>1, <1>3
  <1>5. Turning(d, I, turns)
    BY <1>1, <1>2, <1>4 DEF Turning
  <1>. QED
    BY <1>5 DEF d

\* The hull of a span of the list and the one to place, in the list.
HullTakesOver(s, e, I, k, h) ==
    /\ ReplaceAt(s, k, h) \in Lists
    /\ Len(ReplaceAt(s, k, h)) = Len(s)
    /\ ReplaceAt(s, k, h)[k] = h
    /\ SpanBytes(s[k]) \subseteq SpanBytes(h)
    /\ SpanBytes(e) \subseteq SpanBytes(h)
    /\ Agrees(Covered(s) \cup SpanBytes(h), I)
    /\ Agrees(Covered(ReplaceAt(s, k, h)), I)

LEMMA HullInList ==
  ASSUME NEW s \in Lists, NEW e \in Spans, NEW I, Agrees(Covered(s) \cup SpanBytes(e), I),
         NEW k \in 1 .. Len(s), NEW h \in Spans,
         \/ h = Hull(s[k], e) /\ s[k].start <= e.start /\ s[k].end + 1 >= e.start
         \/ h = Hull(e, s[k]) /\ e.start <= s[k].start /\ e.end + 1 >= s[k].start,
         \A i \in 1 .. k - 1 : s[i].start < h.start
  PROVE  HullTakesOver(s, e, I, k, h)
  <1>1. s[k] \in Spans /\ Len(s) \in Nat /\ DOMAIN s = 1 .. Len(s)
    BY DEF Lists
  <1>2. s[k].start \in Nat /\ e.start \in Nat
    BY <1>1 DEF Spans
  <1>3. /\ SpanBytes(s[k]) \subseteq SpanBytes(h) /\ SpanBytes(e) \subseteq SpanBytes(h)
        /\ h.start <= s[k].start
    BY <1>1, <1>2, HullOfTwo
  <1>4. SpanBytes(s[k]) \subseteq Covered(s)
    BY <1>1, CoveredBy
  <1>5. Agrees((Covered(s) \cup SpanBytes(e)) \cup SpanBytes(h), I)
    BY <1>1, <1>4, HullAgrees
  <1>6. (Covered(s) \cup SpanBytes(e)) \cup SpanBytes(h) = Covered(s) \cup SpanBytes(h)
    BY <1>3
  <1>7. \A i \in k + 1 .. Len(s) : h.start < s[i].start
    <2> SUFFICES ASSUME NEW i \in k + 1 .. Len(s) PROVE h.start < s[i].start
      OBVIOUS
    <2>1. s[k].start < s[i].start /\ s[i] \in Spans
      BY <1>1 DEF Lists, Ordered
    <2>. QED
      BY <1>2, <1>3, <2>1 DEF Spans
  <1>8. /\ ReplaceAt(s, k, h) \in Lists
        /\ Len(ReplaceAt(s, k, h)) = Len(s)
        /\ \A i \in 1 .. Len(s) : ReplaceAt(s, k, h)[i] = IF i = k THEN h ELSE s[i]
        /\ Covered(ReplaceAt(s, k, h)) = Covered(s) \cup SpanBytes(h)
    BY <1>3, <1>7, ReplaceSpan
  <1>. QED
    BY <1>3, <1>5, <1>6, <1>8 DEF HullTakesOver

LEMMA PairTurn ==
  ASSUME NEW c, NEW I, NEW turns \in Int, Turning(c, I, turns), ~ c.done, Len(c.spans) > 0,
         NEW l, \/ c.idx = 0 /\ l = 1
                \/ c.idx = Len(c.spans) /\ l = c.idx
  PROVE  Turning(PairStep(c, l), I, turns - 1)
  <1> DEFINE s == c.spans
             e == c.elem
  <1>1. /\ c \in Cursors /\ s \in Lists /\ e \in Spans /\ c.idx \in 0 .. Len(s) /\ Len(s) \in Nat
        /\ l \in 1 .. Len(s) /\ s[l] \in Spans
        /\ Agrees(Covered(s) \cup SpanBytes(e), I)
        /\ Unplaced(c) \/ IsRight(c) \/ IsLeft(c)
    <2>1. c \in Cursors /\ c.idx <= Len(c.spans)
          /\ Agrees(Covered(s) \cup SpanBytes(e), I)
          /\ (Unplaced(c) \/ IsRight(c) \/ IsLeft(c))
      BY DEF Turning
    <2>2. s \in Lists /\ e \in Spans /\ c.idx \in Nat
      BY <2>1 DEF Cursors
    <2>3. Len(s) \in Nat /\ \A i \in 1 .. Len(s) : s[i] \in Spans
      BY <2>2 DEF Lists
    <2>. QED
      BY <2>1, <2>2, <2>3
  <1>2. s[l].start \in Nat /\ s[l].end \in Nat /\ e.start \in Nat /\ e.end \in Nat
    BY <1>1 DEF Spans
  <1>3. s[l] = e => IsLeft(c) \/ IsRight(c)
    BY <1>1 DEF IsLeft, IsRight
  <1>4. s[l] # e => IF c.idx = 0 THEN e.start <= s[l].start ELSE s[l].start < e.start
    BY <1>1 DEF Unplaced, IsLeft, IsRight
  <1>5. \A i, j \in 1 .. Len(s) : i < j => s[i].start < s[j].start
    BY <1>1 DEF Lists, Ordered
  <1> DEFINE m == Merge(s[l], e)
  <1>6. CASE s[l] = e
    <2>1. m.kind = "Identity"
      BY <1>6 DEF Merge, MergeRight
    <2>2. PairStep(c, l) = Placed(c, s)
      BY <2>1 DEF PairStep
    <2>3. Agrees(Covered(s), I)
      <3>1. Covered(s) \cup SpanBytes(e) = Covered(s)
        BY <1>1, <1>3, <1>6, FoundCovers
      <3>. QED
        BY <1>1, <3>1
    <2>. QED
      BY <1>1, <2>2, <2>3, TurnEnds
  <1>7. CASE s[l] # e /\ MergeRight(s[l], e).kind = "Merged"
    <2>1. m = MergeRight(s[l], e)
      BY <1>7 DEF Merge
    <2>2. m.kind = "Merged" /\ m.span = Hull(s[l], e)
          /\ s[l].start <= e.start /\ s[l].end + 1 >= e.start
      BY <1>1, <1>7, <2>1, MergeRightOutcomes
    <2>3. PairStep(c, l) = Placed(c, ReplaceAt(s, l, m.span))
      BY <2>2 DEF PairStep
    <2>4. m.span \in Spans /\ m.span.start = s[l].start
      BY <1>1, <2>2, HullOfTwo
    <2>5. \A i \in 1 .. l - 1 : s[i].start < m.span.start
      BY <1>1, <1>5, <2>4
    <2> HIDE DEF m, s, e
    <2>6. HullTakesOver(s, e, I, l, m.span)
      BY <1>1, <2>2, <2>4, <2>5, HullInList
    <2> USE DEF s, e
    <2>. QED
      BY <1>1, <2>3, <2>6, TurnEnds DEF HullTakesOver
  <1>8. CASE s[l] # e /\ MergeRight(s[l], e).kind = "UnMerged" /\ MergeRight(e, s[l]).kind = "Merged"
    <2>1. m = MergeRight(e, s[l])
      BY <1>8 DEF Merge
    <2>2. m.kind = "Merged" /\ m.span = Hull(e, s[l])
          /\ e.start <= s[l].start /\ e.end + 1 >= s[l].start
      BY <1>1, <1>8, <2>1, MergeRightOutcomes
    <2>3. PairStep(c, l) = Placed(c, ReplaceAt(s, l, m.span))
      BY <2>2 DEF PairStep
    <2>4. m.span \in Spans /\ m.span.start = e.start
      BY <1>1, <2>2, HullOfTwo
    <2>5. c.idx = 0 /\ l = 1
      BY <1>1, <1>2, <1>4, <1>8, <2>2
    <2>6. \A i \in 1 .. l - 1 : s[i].start < m.span.start
      BY <2>5
    <2> HIDE DEF m, s, e
    <2>7. HullTakesOver(s, e, I, l, m.span)
      BY <1>1, <2>2, <2>4, <2>6, HullInList
    <2> USE DEF s, e
    <2>. QED
      BY <1>1, <2>3, <2>7, TurnEnds DEF HullTakesOver
  <1>9. CASE s[l] # e /\ MergeRight(s[l], e).kind = "UnMerged" /\ MergeRight(e, s[l]).kind # "Merged"
    <2>1. m.kind = "UnMerged"
      BY <1>9 DEF Merge
    <2>2. PairStep(c, l) = Placed(c, InsertAt(s, c.idx + 1, e))
      BY <2>1 DEF PairStep
    <2>3. ~ (e.start <= s[l].start /\ e.end + 1 >= s[l].start)
      BY <1>1, <1>9, MergeRightOutcomes
    <2>4. e.start < e.end
      BY <1>1 DEF Spans
    <2>5. IF c.idx = 0 THEN e.start < s[l].start ELSE s[l].start < e.start
      BY <1>2, <1>4, <1>9, <2>3, <2>4
    <2>6. \A i \in 1 .. Len(s) : s[i].start \in Nat
      BY <1>1 DEF Lists, Spans
    <2>7. \A i \in 1 .. c.idx : s[i].start < e.start
      BY <1>1, <1>2, <1>5, <2>5, <2>6
    <2>8. \A i \in c.idx + 1 .. Len(s) : e.start < s[i].start
      BY <1>1, <1>2, <1>5, <2>5, <2>6
    <2>9. /\ InsertAt(s, c.idx + 1, e) \in Lists
          /\ Len(InsertAt(s, c.idx + 1, e)) = Len(s) + 1
          /\ Covered(InsertAt(s, c.idx + 1, e)) = Covered(s) \cup SpanBytes(e)
      BY <1>1, <2>7, <2>8, InsertBetween
    <2>10. c.idx <= Len(InsertAt(s, c.idx + 1, e))
           /\ Agrees(Covered(InsertAt(s, c.idx + 1, e)), I)
      <3>1. c.idx <= Len(s) + 1
        BY <1>1
      <3>. QED
        BY <1>1, <2>9, <3>1
    <2>. QED
      BY <1>1, <2>2, <2>9, <2>10, TurnEnds
  <1>. QED
    BY <1>1, <1>6, <1>7, <1>8, <1>9, MergeRightOutcomes

LEMMA TripleTurn ==
  ASSUME NEW c, NEW I, NEW turns \in Int, Turning(c, I, turns), ~ c.done,
         c.idx > 0, c.idx < Len(c.spans)
  PROVE  Turning(TripleStep(c), I, turns - 1)
  <1> DEFINE s == c.spans
             e == c.elem
             i == c.idx
             l == s[i]
             r == s[i + 1]
             a == MergeRight(l, e)
             b == MergeRight(IF a.kind = "UnMerged" THEN e ELSE a.span, r)
  <1>1. /\ c \in Cursors /\ s \in Lists /\ e \in Spans /\ Len(s) \in Nat
        /\ i \in 1 .. Len(s) /\ i + 1 \in 1 .. Len(s) /\ i < Len(s) /\ i \in Nat
        /\ l \in Spans /\ r \in Spans
        /\ Agrees(Covered(s) \cup SpanBytes(e), I)
    <2>1. c \in Cursors /\ c.idx <= Len(c.spans)
          /\ Agrees(Covered(s) \cup SpanBytes(e), I)
      BY DEF Turning
    <2>2. s \in Lists /\ e \in Spans /\ c.idx \in Nat
      BY <2>1 DEF Cursors
    <2>3. Len(s) \in Nat /\ \A k \in 1 .. Len(s) : s[k] \in Spans
      BY <2>2 DEF Lists
    <2>4. i \in 1 .. Len(s) /\ i + 1 \in 1 .. Len(s)
      BY <2>2, <2>3
    <2>. QED
      BY <2>1, <2>2, <2>3, <2>4
  <1>2. /\ l.start \in Nat /\ l.end \in Nat /\ e.start \in Nat /\ e.end \in Nat
        /\ r.start \in Nat /\ r.end \in Nat /\ e.start < e.end
    BY <1>1 DEF Spans
  <1>3. l.start < r.start /\ \A k \in 1 .. i - 1 : s[k].start < l.start
    <2>1. \A p, q \in 1 .. Len(s) : p < q => s[p].start < s[q].start
      BY <1>1 DEF Lists, Ordered
    <2>2. i < i + 1 /\ \A k \in 1 .. i - 1 : k \in 1 .. Len(s) /\ k < i
      BY <1>1
    <2>. QED
      BY <1>1, <2>1, <2>2
  <1>4. Len(s) <= turns /\ \/ e = l
                           \/ e = r /\ Len(s) + 1 <= turns
                           \/ l.start < e.start /\ e.start <= r.start /\ Len(s) + 2 <= turns
    BY <1>1 DEF Turning, Unplaced, IsLeft, IsRight
  <1>5. DOMAIN s = 1 .. Len(s) /\ SpanBytes(l) \subseteq Covered(s) /\ SpanBytes(r) \subseteq Covered(s)
    <2>1. DOMAIN s = 1 .. Len(s)
      BY <1>1 DEF Lists
    <2>. QED
      BY <1>1, <2>1, CoveredBy
  <1>6. e = l \/ e = r => Agrees(Covered(s), I)
    <2>1. e = l \/ e = r => Covered(s) \cup SpanBytes(e) = Covered(s)
      BY <1>5
    <2>. QED
      BY <1>1, <2>1
  <1>7. \A k \in 1 .. i : s[k].start \in Nat /\ s[k].start <= l.start
    <2> SUFFICES ASSUME NEW k \in 1 .. i PROVE s[k].start \in Nat /\ s[k].start <= l.start
      OBVIOUS
    <2>1. s[k] \in Spans
      BY <1>1 DEF Lists
    <2>2. k = i \/ s[k].start < l.start
      BY <1>1, <1>3
    <2>. QED
      BY <1>2, <2>1, <2>2 DEF Spans
  <1>8. Coalesce(e, l, r) = [left |-> a, right |-> b]
    BY DEF Coalesce
  <1>9. TripleStep(c) =
          CASE a.kind = "Merged" /\ b.kind = "Merged" ->
                MovedOn(c, RemoveAt(ReplaceAt(s, i, b.span), i + 1), b.span, i)
          [] a.kind = "Merged" /\ b.kind = "UnMerged" ->
                MovedOn(c, ReplaceAt(s, i, a.span), a.span, i - 1)
          [] a.kind = "UnMerged" /\ b.kind = "Merged" ->
                MovedOn(c, ReplaceAt(s, i + 1, b.span), b.span, i)
          [] a.kind = "UnMerged" /\ b.kind = "UnMerged" ->
                Placed(c, InsertAt(s, i + 1, e))
          [] a.kind = "Identity" /\ b.kind = "Identity" ->
                DuplicateStep(c)
          [] \/ a.kind = "Identity" /\ b.kind = "Merged"
             \/ a.kind = "Merged" /\ b.kind = "Identity" ->
                MovedOn(c, RemoveAt(ReplaceAt(s, i, b.span), i + 1), b.span, i)
          [] OTHER -> Placed(c, s)
    BY <1>8 DEF TripleStep
  <1> HIDE DEF a, b, s, e, i, l, r
  \* Both neighbours are taken over.
  <1>10. ASSUME NEW h \in Spans, h.start = l.start, SpanBytes(l) \subseteq SpanBytes(h),
                SpanBytes(r) \subseteq SpanBytes(h), Agrees(Covered(s) \cup SpanBytes(h), I),
                TripleStep(c) = MovedOn(c, RemoveAt(ReplaceAt(s, i, h), i + 1), h, i)
         PROVE  Turning(TripleStep(c), I, turns - 1)
    <2> DEFINE t == RemoveAt(ReplaceAt(s, i, h), i + 1)
    <2>1. AbsorbsNext(s, i, h)
      BY <1>1, <1>10, AbsorbNext DEF l, r
    <2>2. t \in Lists /\ Len(t) = Len(s) - 1 /\ t[i] = h
          /\ Covered(t) = Covered(s) \cup SpanBytes(h)
      BY <2>1 DEF AbsorbsNext
    <2> HIDE DEF t
    <2>3. i <= Len(t) /\ i > 0 /\ Len(t) <= turns - 1 /\ Agrees(Covered(t), I)
      BY <1>1, <1>4, <1>10, <2>2
    <2>4. turns - 1 \in Int
      OBVIOUS
    <2>5. Turning(MovedOn(c, t, h, i), I, turns - 1)
      BY <1>1, <1>10, <2>2, <2>3, <2>4, TurnGoesOn
    <2>. QED
      BY <1>10, <2>5 DEF t
  \* The span is in the list already, and stays.
  <1>11. CASE TripleStep(c) = Placed(c, s) /\ (e = l \/ e = r)
    <2>1. c.idx <= Len(s)
      BY <1>1 DEF i
    <2>. QED
      BY <1>1, <1>6, <1>11, <2>1, TurnEnds DEF s
  <1>12. CASE e = l
    <2>1. a.kind = "Identity" /\ a.span = l
      BY <1>12 DEF a, MergeRight
    <2>2. b = MergeRight(l, r)
      BY <2>1 DEF b
    <2>3. b.kind # "Identity"
      BY <1>1, <1>2, <1>3, <2>2, MergeRightOutcomes
    <2>4. CASE b.kind = "Merged"
      <3>1. b.span = Hull(l, r) /\ l.start <= r.start /\ l.end + 1 >= r.start
        BY <1>1, <2>2, <2>4, MergeRightOutcomes
      <3>2. /\ b.span \in Spans /\ b.span.start = l.start
            /\ SpanBytes(l) \subseteq SpanBytes(b.span)
            /\ SpanBytes(r) \subseteq SpanBytes(b.span)
        BY <1>1, <3>1, HullOfTwo
      <3>3. Agrees(Covered(s) \cup SpanBytes(b.span), I)
        BY <1>1, <1>5, <1>6, <1>12, <3>1, HullAgrees
      <3>4. TripleStep(c) = MovedOn(c, RemoveAt(ReplaceAt(s, i, b.span), i + 1), b.span, i)
        BY <1>9, <2>1, <2>4
      <3>. QED
        BY <1>10, <3>2, <3>3, <3>4
    <2>5. CASE b.kind = "UnMerged"
      BY <1>9, <1>11, <1>12, <2>1, <2>5
    <2>. QED
      BY <1>1, <2>2, <2>3, <2>4, <2>5, MergeRightOutcomes
  <1>13. CASE e # l /\ a.kind = "Merged"
    <2>1. a.span = Hull(l, e) /\ l.start <= e.start /\ l.end + 1 >= e.start
      BY <1>1, <1>13, MergeRightOutcomes DEF a
    <2> DEFINE h1 == a.span
    <2>2. /\ h1 \in Spans /\ h1.start = l.start
          /\ SpanBytes(l) \subseteq SpanBytes(h1) /\ SpanBytes(e) \subseteq SpanBytes(h1)
          /\ h1.end = IF l.end >= e.end THEN l.end ELSE e.end
      BY <1>1, <2>1, HullOfTwo
    <2>3. Agrees(Covered(s) \cup SpanBytes(h1), I)
      <3>1. Agrees((Covered(s) \cup SpanBytes(e)) \cup SpanBytes(h1), I)
        BY <1>1, <1>5, <2>1, HullAgrees
      <3>2. (Covered(s) \cup SpanBytes(e)) \cup SpanBytes(h1) = Covered(s) \cup SpanBytes(h1)
        BY <2>2
      <3>. QED
        BY <3>1, <3>2
    <2>4. b = MergeRight(h1, r)
      BY <1>13 DEF b
    <2> HIDE DEF h1
    <2>5. b.kind # "Identity"
      BY <1>1, <1>2, <1>3, <2>2, <2>4, MergeRightOutcomes
    <2>6. CASE b.kind = "Merged"
      <3>1. b.span = Hull(h1, r) /\ h1.start <= r.start /\ h1.end + 1 >= r.start
        BY <1>1, <2>2, <2>4, <2>6, MergeRightOutcomes
      <3>2. /\ b.span \in Spans /\ b.span.start = l.start
            /\ SpanBytes(h1) \subseteq SpanBytes(b.span)
            /\ SpanBytes(r) \subseteq SpanBytes(b.span)
        BY <1>1, <2>2, <3>1, HullOfTwo
      <3>3. Agrees((Covered(s) \cup SpanBytes(h1)) \cup SpanBytes(b.span), I)
        BY <1>1, <1>5, <2>2, <2>3, <3>1, HullAgrees
      <3>4. (Covered(s) \cup SpanBytes(h1)) \cup SpanBytes(b.span) = Covered(s) \cup SpanBytes(b.span)
        BY <3>2
      <3>5. TripleStep(c) = MovedOn(c, RemoveAt(ReplaceAt(s, i, b.span), i + 1), b.span, i)
        BY <1>9, <1>13, <2>6
      <3>6. SpanBytes(l) \subseteq SpanBytes(b.span)
        BY <2>2, <3>2
      <3>7. Agrees(Covered(s) \cup SpanBytes(b.span), I)
        BY <3>3, <3>4
      <3>. QED
        BY <1>10, <3>2, <3>5, <3>6, <3>7
    <2>7. CASE b.kind = "UnMerged"
      <3>1. ~ (h1.start <= r.start /\ h1.end + 1 >= r.start)
        BY <1>1, <2>2, <2>4, <2>7, MergeRightOutcomes
      <3>2. e # r
        BY <1>2, <1>3, <2>2, <3>1
      <3>3. Len(s) + 2 <= turns
        BY <1>4, <1>13, <3>2
      <3> DEFINE t == ReplaceAt(s, i, h1)
      <3>4. \A k \in 1 .. i - 1 : s[k].start < h1.start
        BY <1>3, <2>2
      <3>5. HullTakesOver(s, e, I, i, h1)
        BY <1>1, <2>1, <2>2, <3>4, HullInList DEF l, h1
      <3>6. t \in Lists /\ Len(t) = Len(s) /\ t[i] = h1 /\ Agrees(Covered(t), I)
        BY <3>5 DEF HullTakesOver
      <3>7. TripleStep(c) = MovedOn(c, t, h1, i - 1)
        BY <1>9, <1>13, <2>7 DEF h1
      <3> HIDE DEF t
      <3>8. i - 1 \in Nat /\ i - 1 < Len(t) /\ t[(i - 1) + 1] = h1 /\ Len(t) + 1 <= turns - 1
        BY <1>1, <3>3, <3>6
      <3>9. i - 1 <= Len(t) /\ turns - 1 \in Int
        BY <1>1, <3>6
      <3>10. Turning(MovedOn(c, t, h1, i - 1), I, turns - 1)
        BY <1>1, <2>2, <3>6, <3>8, <3>9, TurnGoesOn
      <3>. QED
        BY <3>7, <3>10
    <2>. QED
      BY <1>1, <2>2, <2>4, <2>5, <2>6, <2>7, MergeRightOutcomes
  <1>14. CASE e # l /\ a.kind = "UnMerged"
    <2>1. b = MergeRight(e, r)
      BY <1>14 DEF b
    <2>2. l.start < e.start /\ e.start <= r.start
      BY <1>2, <1>3, <1>4, <1>14
    <2>3. CASE b.kind = "Identity"
      <3>1. e = r
        BY <1>1, <2>1, <2>3, MergeRightOutcomes
      <3>. QED
        BY <1>9, <1>11, <1>14, <2>3, <3>1
    <2>4. CASE b.kind = "Merged"
      <3>1. b.span = Hull(e, r) /\ e # r /\ e.start <= r.start /\ e.end + 1 >= r.start
        BY <1>1, <2>1, <2>4, MergeRightOutcomes
      <3> DEFINE h == b.span
                 t == ReplaceAt(s, i + 1, h)
      <3>2. h \in Spans /\ h.start = e.start
        BY <1>1, <3>1, HullOfTwo
      <3>3. Len(s) + 2 <= turns
        BY <1>4, <1>14, <3>1
      <3>4. TripleStep(c) = MovedOn(c, t, h, i)
        BY <1>9, <1>14, <2>4
      <3>5. \A k \in 1 .. (i + 1) - 1 : s[k].start < h.start
        BY <1>1, <1>2, <1>7, <2>2, <3>2
      <3>6. HullTakesOver(s, e, I, i + 1, h)
        BY <1>1, <3>1, <3>2, <3>5, HullInList DEF r
      <3>7. t \in Lists /\ Len(t) = Len(s) /\ t[i + 1] = h /\ Agrees(Covered(t), I)
        BY <3>6 DEF HullTakesOver
      <3> HIDE DEF t, h
      <3>8. i < Len(t) /\ Len(t) + 1 <= turns - 1
        BY <1>1, <3>3, <3>7
      <3>9. i <= Len(t) /\ turns - 1 \in Int
        BY <1>1, <3>7
      <3>10. Turning(MovedOn(c, t, h, i), I, turns - 1)
        BY <1>1, <3>2, <3>7, <3>8, <3>9, TurnGoesOn
      <3>. QED
        BY <3>4, <3>10
    <2>5. CASE b.kind = "UnMerged"
      <3>1. ~ (e.start <= r.start /\ e.end + 1 >= r.start)
        BY <1>1, <2>1, <2>5, MergeRightOutcomes
      <3>2. e.start < r.start
        BY <1>2, <2>2, <3>1
      <3>3. \A k \in 1 .. i : s[k].start < e.start
        BY <1>2, <1>7, <2>2
      <3>4. \A k \in i + 1 .. Len(s) : e.start < s[k].start
        <4> SUFFICES ASSUME NEW k \in i + 1 .. Len(s) PROVE e.start < s[k].start
          OBVIOUS
        <4>1. k = i + 1 \/ r.start < s[k].start
          BY <1>1 DEF Lists, Ordered, r
        <4>2. s[k].start \in Nat
          BY <1>1 DEF Lists, Spans
        <4>. QED
          BY <1>2, <3>2, <4>1, <4>2 DEF r
      <3> DEFINE t == InsertAt(s, i + 1, e)
      <3>5. /\ t \in Lists /\ Len(t) = Len(s) + 1
            /\ Covered(t) = Covered(s) \cup SpanBytes(e)
        BY <1>1, <3>3, <3>4, InsertBetween
      <3>6. TripleStep(c) = Placed(c, t)
        BY <1>9, <1>14, <2>5
      <3> HIDE DEF t
      <3>7. c.idx <= Len(t) /\ c.idx <= Len(c.spans) /\ Agrees(Covered(t), I)
        BY <1>1, <3>5 DEF i, s
      <3>8. turns - 1 \in Int
        OBVIOUS
      <3>9. Turning(Placed(c, t), I, turns - 1)
        BY <1>1, <3>5, <3>7, <3>8, TurnEnds
      <3>. QED
        BY <3>6, <3>9
    <2>. QED
      BY <1>1, <2>1, <2>3, <2>4, <2>5, MergeRightOutcomes
  <1>15. a.kind = "Identity" => e = l
    BY <1>1, MergeRightOutcomes DEF a
  <1>. QED
    BY <1>1, <1>12, <1>13, <1>14, <1>15, MergeRightOutcomes DEF a

\* A turn of the loop, whichever step it takes.
LEMMA InsertTurn ==
  ASSUME NEW c, NEW I, NEW turns \in Int, Turning(c, I, turns)
  PROVE  Turning(InsertStep(c), I, turns - 1)
  <1>1. /\ c \in Cursors /\ c.spans \in Lists /\ c.elem \in Spans /\ c.idx \in Nat
        /\ Len(c.spans) \in Nat /\ c.done \in BOOLEAN /\ turns - 1 \in Int
        /\ c.idx <= Len(c.spans)
    <2>1. c \in Cursors /\ c.idx <= Len(c.spans)
      BY DEF Turning
    <2>2. c.spans \in Lists /\ c.elem \in Spans /\ c.idx \in Nat /\ c.done \in BOOLEAN
      BY <2>1 DEF Cursors
    <2>. QED
      BY <2>1, <2>2 DEF Lists
  <1>2. CASE c.done
    <2>1. InsertStep(c) = c
      BY <1>2 DEF InsertStep
    <2>. QED
      BY <1>1, <1>2, <2>1 DEF Turning
  <1>3. CASE ~ c.done /\ c.spans = <<>>
    <2> DEFINE t == <<c.elem>>
    <2>1. InsertStep(c) = Placed(c, t)
      BY <1>3 DEF InsertStep
    <2>2. t \in Seq(Spans) /\ Len(t) = 1 /\ t[1] = c.elem /\ DOMAIN t = 1 .. 1
      BY <1>1
    <2>3. Len(c.spans) = 0 /\ DOMAIN c.spans = 1 .. 0
      BY <1>3
    <2> HIDE DEF t
    <2>4. t \in Lists
      <3>1. Ordered(t)
        BY <2>2 DEF Ordered
      <3>. QED
        BY <2>2, <3>1 DEF Lists
    <2>5. Covered(t) = Covered(c.spans) \cup SpanBytes(c.elem)
      <3>1. \A b : b \in Covered(t) <=> b \in SpanBytes(c.elem)
        BY <2>2, CoveredBy
      <3>2. \A b : b \notin Covered(c.spans)
        BY <2>3, CoveredBy
      <3>. QED
        BY <3>1, <3>2
    <2>6. Agrees(Covered(t), I)
      BY <1>3, <2>5 DEF Turning
    <2>7. c.idx <= Len(t)
      BY <1>1, <2>2, <2>3
    <2>. QED
      BY <1>1, <2>1, <2>4, <2>6, <2>7, TurnEnds
  <1>4. CASE ~ c.done /\ c.spans # <<>> /\ c.idx = 0
    <2>1. InsertStep(c) = PairStep(c, 1)
      BY <1>4 DEF InsertStep
    <2>2. Len(c.spans) > 0
      BY <1>1, <1>4 DEF Lists
    <2>. QED
      BY <1>4, <2>1, <2>2, PairTurn
  <1>5. CASE ~ c.done /\ c.spans # <<>> /\ c.idx # 0 /\ c.idx = Len(c.spans)
    <2>1. InsertStep(c) = PairStep(c, c.idx)
      BY <1>5 DEF InsertStep
    <2>2. Len(c.spans) > 0
      BY <1>1, <1>5 DEF Lists
    <2>. QED
      BY <1>5, <2>1, <2>2, PairTurn
  <1>6. CASE ~ c.done /\ c.spans # <<>> /\ c.idx # 0 /\ c.idx # Len(c.spans)
    <2>1. InsertStep(c) = TripleStep(c)
      BY <1>6 DEF InsertStep
    <2>2. c.idx > 0 /\ c.idx < Len(c.spans)
      BY <1>1, <1>6
    <2>. QED
      BY <1>6, <2>1, <2>2, TripleTurn
  <1>. QED
    BY <1>2, <1>3, <1>4, <1>5, <1>6

---------------------------------------------------------------------------
(* The loop.  It is a fold over the turns 1 .. n, which the library        *)
(* defines by a recursive function over the sets of turns.                 *)

Turns(g, n, first) ==
    g = [s \in SUBSET (1 .. n) |-> IF s = {} THEN first
                                   ELSE Eagerly(InsertStep, g[s \ {Max(s)}])]

LEMMA RunIsFold ==
  ASSUME NEW s, NEW e
  PROVE  InsertRun(s, e) =
           (CHOOSE g : Turns(g, Len(s) + 3, Placing(s, e, InsertionPoint(s, e))))[1 .. Len(s) + 3]
  <1> DEFINE first == Placing(s, e, InsertionPoint(s, e))
             D == 1 .. Len(s) + 3
  <1>1. /\ DOMAIN [turn \in D |-> turn] = D
        /\ DOMAIN [i \in DOMAIN [turn \in D |-> turn] |-> i] = D
        /\ [i \in DOMAIN [turn \in D |-> turn] |-> i] = [turn \in D |-> turn]
    OBVIOUS
  <1> HIDE DEF first
  <1>2. InsertRun(s, e) = FoldLeft(LAMBDA c, turn : Eagerly(InsertStep, c), first, [turn \in D |-> turn])
    BY <1>1 DEF InsertRun, FoldLeftDomain, first
  <1>3. FoldLeft(LAMBDA c, turn : Eagerly(InsertStep, c), first, [turn \in D |-> turn])
          = (CHOOSE g : g = [t \in SUBSET D |-> IF t = {} THEN first
                                   ELSE Eagerly(InsertStep, g[t \ {Max(t)}])])[D]
    BY <1>1 DEF FoldLeft, MapThenFoldSet
  <1>. QED
    BY <1>2, <1>3 DEF Turns, first

LEMMA LastTurn ==
  ASSUME NEW n \in Nat, NEW s \in SUBSET (1 .. n), n \in s
  PROVE  Max(s) = n
  <1>1. \A x \in s : x \in Nat /\ n >= x
    OBVIOUS
  <1>2. Max(s) \in s /\ \A y \in s : Max(s) >= y
    <2>1. \E x \in s : \A y \in s : x >= y
      BY <1>1
    <2>. QED
      BY <2>1 DEF Max
  <1>3. Max(s) \in Nat /\ n >= Max(s) /\ Max(s) >= n
    BY <1>1, <1>2
  <1> HIDE DEF Max
  <1>. QED
    BY <1>3

LEMMA TurnsExist ==
  ASSUME NEW first, NEW n \in Nat
  PROVE  \E g : Turns(g, n, first)
  <1> DEFINE Bad == {k \in Nat : ~ \E g : Turns(g, k, first)}
  <1>1. Bad = {}
    <2> SUFFICES ASSUME Bad # {} PROVE FALSE
      OBVIOUS
    <2>0. Bad \in SUBSET Nat
      OBVIOUS
    <2> HIDE DEF Bad
    <2>1. PICK k \in Bad : \A m \in Bad : k <= m
      BY <2>0, SmallestNumber
    <2> USE DEF Bad
    <2>2. CASE k = 0
      <3>1. \A s \in SUBSET (1 .. 0) : s = {}
        OBVIOUS
      <3>2. Turns([s \in SUBSET (1 .. 0) |-> first], 0, first)
        BY <3>1 DEF Turns
      <3>. QED
        BY <2>1, <2>2, <3>2
    <2>3. CASE k > 0
      <3> HIDE DEF Bad
      <3>1. k \in Nat /\ k - 1 \in Nat /\ k - 1 \notin Bad
        BY <2>0, <2>1, <2>3
      <3> USE DEF Bad
      <3>2. PICK g : Turns(g, k - 1, first)
        BY <3>1
      <3> DEFINE h == [s \in SUBSET (1 .. k) |->
                          IF s = {} THEN first
                          ELSE IF k \in s THEN Eagerly(InsertStep, g[s \ {k}]) ELSE g[s]]
      <3>3. \A s \in SUBSET (1 .. k - 1) : s \in SUBSET (1 .. k) /\ k \notin s
        BY <3>1
      <3>4. \A s \in SUBSET (1 .. k) : /\ s \ {k} \in SUBSET (1 .. k - 1)
                                       /\ k \notin s => s \in SUBSET (1 .. k - 1)
        BY <3>1
      <3>5. \A s \in SUBSET (1 .. k - 1) :
               g[s] = IF s = {} THEN first ELSE Eagerly(InsertStep, g[s \ {Max(s)}])
        BY <3>2 DEF Turns
      <3>6. \A s \in SUBSET (1 .. k - 1) : h[s] = g[s]
        BY <3>3, <3>5
      <3>7. ASSUME NEW s \in SUBSET (1 .. k), s # {}
            PROVE  h[s] = Eagerly(InsertStep, h[s \ {Max(s)}])
        <4>1. CASE k \in s
          <5>1. Max(s) = k
            BY <3>1, <4>1, LastTurn
          <5>2. h[s] = Eagerly(InsertStep, g[s \ {k}])
            BY <3>7, <4>1
          <5>. QED
            BY <3>4, <3>6, <5>1, <5>2
        <4>2. CASE k \notin s
          <5>1. s \in SUBSET (1 .. k - 1) /\ s \ {Max(s)} \in SUBSET (1 .. k - 1)
            BY <3>4, <4>2
          <5> HIDE DEF h
          <5>. QED
            BY <3>5, <3>6, <3>7, <5>1
        <4>. QED
          BY <4>1, <4>2
      <3>8. h = [s \in SUBSET (1 .. k) |-> IF s = {} THEN first
                                           ELSE Eagerly(InsertStep, h[s \ {Max(s)}])]
        <4>1. \A s \in SUBSET (1 .. k) :
                 h[s] = IF s = {} THEN first ELSE Eagerly(InsertStep, h[s \ {Max(s)}])
          BY <3>7
        <4>2. h = [s \in SUBSET (1 .. k) |-> h[s]]
          OBVIOUS
        <4> HIDE DEF h
        <4>. QED
          BY <4>1, <4>2
      <3>. QED
        BY <2>1, <3>8 DEF Turns
    <2>. QED
      BY <2>1, <2>2, <2>3
  <1>. QED
    BY <1>1

LEMMA TurnOfTurns ==
  ASSUME NEW g, NEW n, NEW first, Turns(g, n, first), NEW s \in SUBSET (1 .. n)
  PROVE  g[s] = IF s = {} THEN first ELSE InsertStep(g[s \ {Max(s)}])
  <1>1. \A x : Eagerly(InsertStep, x) = InsertStep(x)
    BY DEF Eagerly
  <1>2. g[s] = IF s = {} THEN first ELSE Eagerly(InsertStep, g[s \ {Max(s)}])
    BY DEF Turns
  <1>. QED
    BY <1>1, <1>2

\* After k turns the loop has n - k left.
LEMMA LoopTurns ==
  ASSUME NEW first, NEW I, NEW n \in Nat, Turning(first, I, n), NEW g, Turns(g, n, first)
  PROVE  Turning(g[1 .. n], I, 0)
  <1> DEFINE Bad == {k \in Nat : k <= n /\ ~ Turning(g[1 .. k], I, n - k)}
  <1>0. \A s \in SUBSET (1 .. n) :
           g[s] = IF s = {} THEN first ELSE InsertStep(g[s \ {Max(s)}])
    BY TurnOfTurns
  <1>1. Bad = {}
    <2> SUFFICES ASSUME Bad # {} PROVE FALSE
      OBVIOUS
    <2>0. Bad \in SUBSET Nat
      OBVIOUS
    <2> HIDE DEF Bad
    <2>1. PICK k \in Bad : \A m \in Bad : k <= m
      BY <2>0, SmallestNumber
    <2> USE DEF Bad
    <2>2. k \in Nat /\ k <= n /\ ~ Turning(g[1 .. k], I, n - k)
      BY <2>1
    <2>3. CASE k = 0
      <3>1. 1 .. 0 = {} /\ n - 0 = n
        OBVIOUS
      <3>2. g[{}] = first
        BY <1>0
      <3>. QED
        BY <2>2, <2>3, <3>1, <3>2
    <2>4. CASE k > 0
      <3>1. k - 1 \in Nat /\ k - 1 <= n /\ k - 1 \notin Bad
        <4> HIDE DEF Bad
        <4>1. k - 1 \in Bad => k <= k - 1
          BY <2>1
        <4>. QED
          BY <2>2, <2>4, <4>1
      <3>2. Turning(g[1 .. k - 1], I, n - (k - 1))
        BY <3>1
      <3>3. 1 .. k \in SUBSET (1 .. n) /\ 1 .. k # {} /\ k \in 1 .. k
            /\ (1 .. k) \ {k} = 1 .. k - 1
        <4>1. 1 .. k \in SUBSET (1 .. n)
          BY <2>2
        <4>2. k \in 1 .. k
          BY <2>2, <2>4
        <4>3. (1 .. k) \ {k} = 1 .. k - 1
          BY <2>2
        <4>. QED
          BY <4>1, <4>2, <4>3
      <3>4. Max(1 .. k) = k
        BY <2>2, <3>3, LastTurn
      <3>5. g[1 .. k] = InsertStep(g[1 .. k - 1])
        BY <1>0, <3>3, <3>4
      <3>6. n - (k - 1) \in Int /\ (n - (k - 1)) - 1 = n - k
        BY <2>2
      <3>7. Turning(InsertStep(g[1 .. k - 1]), I, (n - (k - 1)) - 1)
        BY <3>2, <3>6, InsertTurn
      <3>. QED
        BY <2>2, <3>5, <3>6, <3>7
    <2>. QED
      BY <2>2, <2>3, <2>4
  <1>2. n \notin Bad
    BY <1>1
  <1>. QED
    BY <1>2

---------------------------------------------------------------------------
(* Inserting a span.                                                       *)

\* partition_point splits an ordered list at the place of the new span.
SplitAt(s, e, k) ==
    /\ k \in 0 .. Len(s)
    /\ \A i \in 1 .. k : s[i].start < e.start
    /\ \A i \in k + 1 .. Len(s) : e.start <= s[i].start

LEMMA PointSplits ==
  ASSUME NEW s \in Lists, NEW e \in Spans
  PROVE  SplitAt(s, e, InsertionPoint(s, e))
  <1>1. Len(s) \in Nat /\ DOMAIN s = 1 .. Len(s) /\ e.start \in Nat
    BY DEF Lists, Spans
  <1>2. \A i \in 1 .. Len(s) : s[i].start \in Nat
    BY DEF Lists, Spans
  <1>3. \A i, j \in 1 .. Len(s) : i < j => s[i].start < s[j].start
    BY DEF Lists, Ordered
  <1> DEFINE T == {n \in Nat : n > Len(s) \/ (n \in 1 .. Len(s) /\ e.start <= s[n].start)}
             Below == {i \in DOMAIN s : e.start > s[i].start}
  <1>4. T \in SUBSET Nat /\ Len(s) + 1 \in T
    <2>1. Len(s) + 1 \in Nat /\ Len(s) + 1 > Len(s)
      BY <1>1
    <2>2. Len(s) + 1 \in T
      BY <1>1, <2>1
    <2>. QED
      BY <2>2
  <1> HIDE DEF T
  <1>5. PICK n \in T : \A m \in T : n <= m
    BY <1>4, SmallestNumber
  <1> USE DEF T
  <1>6. n \in Nat /\ n > 0 /\ n <= Len(s) + 1 /\ (n <= Len(s) => e.start <= s[n].start)
    BY <1>1, <1>4, <1>5
  <1>7. \A i \in 1 .. n - 1 : s[i].start < e.start
    <2> SUFFICES ASSUME NEW i \in 1 .. n - 1 PROVE s[i].start < e.start
      OBVIOUS
    <2>1. i \in 1 .. Len(s) /\ i \in Nat /\ ~ (n <= i)
      BY <1>1, <1>6
    <2>2. i \notin T
      <3> HIDE DEF T
      <3>. QED
        BY <1>5, <2>1
    <2>. QED
      BY <1>1, <1>2, <2>1, <2>2
  <1>8. \A i \in n .. Len(s) : e.start <= s[i].start
    <2> SUFFICES ASSUME NEW i \in n .. Len(s) PROVE e.start <= s[i].start
      OBVIOUS
    <2>1. n \in 1 .. Len(s) /\ i \in 1 .. Len(s) /\ (i = n \/ n < i)
      BY <1>1, <1>6
    <2>. QED
      BY <1>1, <1>2, <1>3, <1>6, <2>1
  <1>9. Below = 1 .. n - 1
    <2>1. \A i \in 1 .. Len(s) : i \in 1 .. n - 1 \/ i \in n .. Len(s)
      BY <1>1, <1>6
    <2>2. \A i \in 1 .. n - 1 : i \in 1 .. Len(s)
      BY <1>1, <1>6
    <2>3. \A i \in 1 .. Len(s) : e.start > s[i].start <=> s[i].start < e.start
      OBVIOUS
    <2>4. \A i \in n .. Len(s) : i \in 1 .. Len(s) => ~ (e.start > s[i].start)
      BY <1>1, <1>2, <1>8
    <2> HIDE DEF T
    <2>. QED
      BY <1>1, <1>7, <2>1, <2>2, <2>3, <2>4
  <1>10. Cardinality(1 .. n - 1) = n - 1
    BY <1>6, FS_Interval
  <1>11. InsertionPoint(s, e) = n - 1
    BY <1>9, <1>10 DEF InsertionPoint
  <1>12. n - 1 \in 0 .. Len(s) /\ (n - 1) + 1 = n
    BY <1>1, <1>6
  <1>. QED
    BY <1>7, <1>8, <1>11, <1>12 DEF SplitAt

\* What insert() promises: an ordered list, of the bytes the old one
\* covered and those of the new span, but for gaps of one.
Keeps(s, e, I) ==
    /\ Insert(s, e) \in Lists
    /\ Agrees(Covered(Insert(s, e)), I)
    /\ InsertRun(s, e).done /\ ~ InsertRun(s, e).panic

LEMMA InsertKeeps ==
  ASSUME NEW s \in Lists, NEW e \in Spans, NEW I, Agrees(Covered(s) \cup SpanBytes(e), I)
  PROVE  Keeps(s, e, I)
  <1> DEFINE k == InsertionPoint(s, e)
             n == Len(s) + 3
             first == Placing(s, e, k)
             end == InsertRun(s, e)
  <1>1. SplitAt(s, e, k)
    BY PointSplits
  <1> HIDE DEF k
  <1>2. Len(s) \in Nat /\ n \in Nat /\ k \in Nat /\ k <= Len(s) /\ Len(s) + 2 <= n
    BY <1>1 DEF SplitAt, Lists
  <1>3. /\ first \in Cursors /\ first.spans = s /\ first.elem = e /\ first.idx = k
        /\ first.done = FALSE
    BY <1>2 DEF Placing, Cursors
  <1>4. Turning(first, I, n)
    <2> HIDE DEF first
    <2>1. Unplaced(first)
      BY <1>1, <1>3 DEF Unplaced, SplitAt
    <2>. QED
      BY <1>2, <1>3, <2>1 DEF Turning
  <1> HIDE DEF first
  <1>5. \E g : Turns(g, n, first)
    BY <1>2, TurnsExist
  <1> DEFINE g == CHOOSE g : Turns(g, n, first)
  <1>6. Turns(g, n, first)
    BY <1>5
  <1>7. end = g[1 .. n]
    BY RunIsFold DEF first, k
  <1> HIDE DEF g, n, end
  <1>8. Turning(end, I, 0)
    BY <1>2, <1>4, <1>6, <1>7, LoopTurns
  <1>9. end \in Cursors /\ end.spans \in Lists /\ end.done \in BOOLEAN /\ end.panic = FALSE
        /\ Len(end.spans) \in Nat /\ end.idx \in Nat /\ end.idx <= Len(end.spans)
    <2>1. end \in Cursors /\ end.idx <= Len(end.spans)
      BY <1>8 DEF Turning
    <2>2. end.spans \in Lists /\ end.done \in BOOLEAN /\ end.panic = FALSE /\ end.idx \in Nat
      BY <2>1 DEF Cursors
    <2>. QED
      BY <2>1, <2>2 DEF Lists
  <1>10. end.done
    <2> SUFFICES ASSUME ~ end.done PROVE FALSE
      BY <1>9
    <2>1. IsLeft(end) /\ Len(end.spans) <= 0
      BY <1>8, <1>9 DEF Turning
    <2>. QED
      BY <1>9, <2>1 DEF IsLeft
  <1>11. Agrees(Covered(end.spans), I)
    BY <1>8, <1>10 DEF Turning
  <1>. QED
    BY <1>9, <1>10, <1>11 DEF Keeps, Insert, end

---------------------------------------------------------------------------
(* Inserting every span of a list: a fold again, over its indices.         *)

Inserts(g, K, elems, first) ==
    g = [s \in SUBSET K |->
            IF s = {} THEN first
            ELSE Eagerly(LAMBDA w : Insert(w, elems[Max(s)]), g[s \ {Max(s)}])]

LEMMA AllIsFold ==
  ASSUME NEW s, NEW elems
  PROVE  InsertAll(s, elems) = (CHOOSE g : Inserts(g, DOMAIN elems, elems, s))[DOMAIN elems]
  BY DEF InsertAll, FoldLeft, MapThenFoldSet, Inserts

LEMMA InsertsExist ==
  ASSUME NEW elems, NEW first, NEW n \in Nat, NEW K \in SUBSET (1 .. n)
  PROVE  \E g : Inserts(g, K, elems, first)
  <1> DEFINE Bad == {k \in Nat : ~ \E g : Inserts(g, 1 .. k, elems, first)}
             Put(v, e) == Eagerly(LAMBDA w : Insert(w, e), v)
  <1>1. Bad = {}
    <2> SUFFICES ASSUME Bad # {} PROVE FALSE
      OBVIOUS
    <2>0. Bad \in SUBSET Nat
      OBVIOUS
    <2> HIDE DEF Bad
    <2>1. PICK k \in Bad : \A m \in Bad : k <= m
      BY <2>0, SmallestNumber
    <2> USE DEF Bad
    <2>2. CASE k = 0
      <3>1. \A s \in SUBSET (1 .. 0) : s = {}
        OBVIOUS
      <3>2. Inserts([s \in SUBSET (1 .. 0) |-> first], 1 .. 0, elems, first)
        BY <3>1 DEF Inserts
      <3>. QED
        BY <2>1, <2>2, <3>2
    <2>3. CASE k > 0
      <3> HIDE DEF Bad
      <3>1. k \in Nat /\ k - 1 \in Nat /\ k - 1 \notin Bad
        BY <2>0, <2>1, <2>3
      <3> USE DEF Bad
      <3>2. PICK g : Inserts(g, 1 .. k - 1, elems, first)
        BY <3>1
      <3> DEFINE h == [s \in SUBSET (1 .. k) |->
                          IF s = {} THEN first
                          ELSE IF k \in s THEN Put(g[s \ {k}], elems[k]) ELSE g[s]]
      <3>3. \A s \in SUBSET (1 .. k - 1) : s \in SUBSET (1 .. k) /\ k \notin s
        BY <3>1
      <3>4. \A s \in SUBSET (1 .. k) : /\ s \ {k} \in SUBSET (1 .. k - 1)
                                       /\ k \notin s => s \in SUBSET (1 .. k - 1)
        BY <3>1
      <3>5. g = [s \in SUBSET (1 .. k - 1) |->
                   IF s = {} THEN first ELSE Put(g[s \ {Max(s)}], elems[Max(s)])]
        BY <3>2 DEF Inserts
      <3> HIDE DEF Put
      <3>6. \A s \in SUBSET (1 .. k - 1) :
               /\ g[s] = IF s = {} THEN first ELSE Put(g[s \ {Max(s)}], elems[Max(s)])
               /\ h[s] = g[s]
        BY <3>3, <3>5
      <3>7. ASSUME NEW s \in SUBSET (1 .. k), s # {}
            PROVE  h[s] = Put(h[s \ {Max(s)}], elems[Max(s)])
        <4>1. CASE k \in s
          <5>1. Max(s) = k
            BY <3>1, <4>1, LastTurn
          <5>2. h[s] = Put(g[s \ {k}], elems[k])
            BY <3>7, <4>1
          <5>. QED
            BY <3>4, <3>6, <5>1, <5>2
        <4>2. CASE k \notin s
          <5>1. s \in SUBSET (1 .. k - 1) /\ s \ {Max(s)} \in SUBSET (1 .. k - 1)
            BY <3>4, <4>2
          <5> HIDE DEF h
          <5>. QED
            BY <3>6, <3>7, <5>1
        <4>. QED
          BY <4>1, <4>2
      <3>8. h = [s \in SUBSET (1 .. k) |->
                   IF s = {} THEN first ELSE Put(h[s \ {Max(s)}], elems[Max(s)])]
        <4>1. \A s \in SUBSET (1 .. k) :
                 h[s] = IF s = {} THEN first ELSE Put(h[s \ {Max(s)}], elems[Max(s)])
          BY <3>7
        <4>2. h = [s \in SUBSET (1 .. k) |-> h[s]]
          OBVIOUS
        <4> HIDE DEF h
        <4>. QED
          BY <4>1, <4>2
      <3> HIDE DEF h
      <3> USE DEF Put
      <3>9. Inserts(h, 1 .. k, elems, first)
        BY <3>8 DEF Inserts
      <3>. QED
        BY <2>1, <3>9
    <2>. QED
      BY <2>1, <2>2, <2>3
  <1>2. n \notin Bad
    BY <1>1
  <1>3. PICK g : Inserts(g, 1 .. n, elems, first)
    BY <1>2
  <1> DEFINE h == [s \in SUBSET K |-> g[s]]
  <1> HIDE DEF Bad
  <1>4. ASSUME NEW s \in SUBSET K
        PROVE  h[s] = IF s = {} THEN first ELSE Put(h[s \ {Max(s)}], elems[Max(s)])
    <2>1. s \in SUBSET (1 .. n) /\ s \ {Max(s)} \in SUBSET K
      OBVIOUS
    <2>2. g[s] = IF s = {} THEN first ELSE Put(g[s \ {Max(s)}], elems[Max(s)])
      BY <1>3, <2>1 DEF Inserts
    <2> HIDE DEF Put
    <2>. QED
      BY <2>1, <2>2
  <1>5. h = [s \in SUBSET K |->
               IF s = {} THEN first ELSE Put(h[s \ {Max(s)}], elems[Max(s)])]
    <2>1. h = [s \in SUBSET K |-> h[s]]
      OBVIOUS
    <2> HIDE DEF h, Put
    <2>. QED
      BY <1>4, <2>1
  <1> HIDE DEF h
  <1>6. Inserts(h, K, elems, first)
    BY <1>5 DEF Inserts
  <1>. QED
    BY <1>6

\* The lists on the way to the last.
Ways(v, s, elems, n) ==
    /\ v[0] = s
    /\ \A k \in 1 .. n : v[k] = Insert(v[k - 1], elems[k])
    /\ v[n] = InsertAll(s, elems)

LEMMA InsertAllSteps ==
  ASSUME NEW s, NEW elems, NEW n \in Nat, DOMAIN elems = 1 .. n
  PROVE  \E v : Ways(v, s, elems, n)
  <1> DEFINE g == CHOOSE g : Inserts(g, 1 .. n, elems, s)
             v == [k \in 0 .. n |-> g[1 .. k]]
  <1>1. Inserts(g, 1 .. n, elems, s)
    BY InsertsExist
  <1>2. InsertAll(s, elems) = g[1 .. n]
    BY AllIsFold
  <1> HIDE DEF g
  <1>3. \A t \in SUBSET (1 .. n) : g[t] = IF t = {} THEN s
                                         ELSE Insert(g[t \ {Max(t)}], elems[Max(t)])
    <2> SUFFICES ASSUME NEW t \in SUBSET (1 .. n)
                 PROVE  g[t] = IF t = {} THEN s ELSE Insert(g[t \ {Max(t)}], elems[Max(t)])
      OBVIOUS
    <2>1. g[t] = IF t = {} THEN s
                 ELSE Eagerly(LAMBDA w : Insert(w, elems[Max(t)]), g[t \ {Max(t)}])
      BY <1>1 DEF Inserts
    <2>2. \A x : Eagerly(LAMBDA w : Insert(w, elems[Max(t)]), x) = Insert(x, elems[Max(t)])
      BY DEF Eagerly
    <2>. QED
      BY <2>1, <2>2
  <1>4. v[0] = s
    <2>1. 1 .. 0 = {} /\ 0 \in 0 .. n
      OBVIOUS
    <2>. QED
      BY <1>3, <2>1
  <1>5. ASSUME NEW k \in 1 .. n PROVE v[k] = Insert(v[k - 1], elems[k])
    <2>1. 1 .. k \in SUBSET (1 .. n) /\ k \in 1 .. k /\ k \in Nat /\ k \in 0 .. n /\ k - 1 \in 0 .. n
      OBVIOUS
    <2>2. (1 .. k) \ {k} = 1 .. k - 1
      OBVIOUS
    <2>3. Max(1 .. k) = k
      BY <2>1, LastTurn
    <2>4. g[1 .. k] = Insert(g[1 .. k - 1], elems[k])
      BY <1>3, <2>1, <2>2, <2>3
    <2>. QED
      BY <2>1, <2>4
  <1>6. v[n] = InsertAll(s, elems)
    BY <1>2
  <1> HIDE DEF v
  <1>. QED
    BY <1>4, <1>5, <1>6 DEF Ways

\* What insert() promises, of a whole list of spans.
AllKept(s, elems, I) ==
    /\ InsertAll(s, elems) \in Lists
    /\ Agrees(Covered(InsertAll(s, elems)), I \cup Covered(elems))

LEMMA InsertAllKeeps ==
  ASSUME NEW s \in Lists, NEW elems \in Seq(Spans), NEW I, Agrees(Covered(s), I)
  PROVE  AllKept(s, elems, I)
  <1> DEFINE n == Len(elems)
             To(k) == I \cup UNION {SpanBytes(elems[i]) : i \in 1 .. k}
  <1>1. n \in Nat /\ DOMAIN elems = 1 .. n /\ \A k \in 1 .. n : elems[k] \in Spans
    OBVIOUS
  <1> HIDE DEF n
  <1>2. PICK v : Ways(v, s, elems, n)
    BY <1>1, InsertAllSteps
  <1> DEFINE Bad == {k \in Nat : k <= n /\ ~ (v[k] \in Lists /\ Agrees(Covered(v[k]), To(k)))}
  <1>3. Bad = {}
    <2> SUFFICES ASSUME Bad # {} PROVE FALSE
      OBVIOUS
    <2>0. Bad \in SUBSET Nat
      OBVIOUS
    <2> HIDE DEF Bad
    <2>1. PICK k \in Bad : \A m \in Bad : k <= m
      BY <2>0, SmallestNumber
    <2> USE DEF Bad
    <2>2. k \in Nat /\ k <= n /\ ~ (v[k] \in Lists /\ Agrees(Covered(v[k]), To(k)))
      BY <2>1
    <2>3. CASE k = 0
      <3>1. To(0) = I
        OBVIOUS
      <3>2. v[0] = s
        BY <1>2 DEF Ways
      <3>. QED
        BY <2>2, <2>3, <3>1, <3>2
    <2>4. CASE k > 0
      <3>1. k - 1 \in Nat /\ k - 1 <= n /\ k - 1 \notin Bad /\ k \in 1 .. n
        <4> HIDE DEF Bad
        <4>1. k - 1 \in Bad => k <= k - 1
          BY <2>1
        <4>. QED
          BY <1>1, <2>2, <2>4, <4>1
      <3>2. v[k - 1] \in Lists /\ Agrees(Covered(v[k - 1]), To(k - 1))
        BY <3>1
      <3>3. v[k] = Insert(v[k - 1], elems[k]) /\ elems[k] \in Spans
        BY <1>1, <1>2, <3>1 DEF Ways
      <3>4. To(k) = To(k - 1) \cup SpanBytes(elems[k])
        <4>1. \A i : i \in 1 .. k <=> i \in 1 .. k - 1 \/ i = k
          BY <3>1
        <4>. QED
          BY <4>1
      <3> HIDE DEF To
      <3>5. Agrees(Covered(v[k - 1]) \cup SpanBytes(elems[k]), To(k))
        BY <3>2, <3>4 DEF Agrees
      <3>6. Keeps(v[k - 1], elems[k], To(k))
        BY <3>2, <3>3, <3>5, InsertKeeps
      <3>. QED
        BY <2>2, <3>3, <3>6 DEF Keeps
    <2>. QED
      BY <2>2, <2>3, <2>4
  <1>4. v[n] \in Lists /\ Agrees(Covered(v[n]), To(n))
    <2>1. n <= n
      BY <1>1
    <2>2. n \notin Bad
      BY <1>3
    <2>. QED
      BY <1>1, <2>1, <2>2
  <1>5. To(n) = I \cup Covered(elems)
    BY <1>1 DEF Covered
  <1>. QED
    BY <1>2, <1>4, <1>5 DEF Ways, AllKept
---------------------------------------------------------------------------
(* Lists that cover whole lines.                                           *)

\* Every byte of the file is on a line of two bytes or more.
LinesOfTwo(lines) == \A b \in Nat : \E l \in lines : b \in l /\ (b - 1 \in l \/ b + 1 \in l)
WholeLines(lines, B) == \A l \in lines : l \subseteq B \/ l \cap B = {}

\* In a file without empty lines every line has two bytes or more, and the
\* merge of two lists of whole lines bridges nothing: what InsertAll covers
\* is then what the two lists cover.
THEOREM AbsorbAddsNothing ==
  ASSUME NEW lines, LinesOfTwo(lines), NEW v \in Lists, NEW w \in Lists,
         WholeLines(lines, Covered(v)), WholeLines(lines, Covered(w))
  PROVE  /\ InsertAll(v, w) \in Lists
         /\ Covered(InsertAll(v, w)) = Covered(v) \cup Covered(w)
         /\ WholeLines(lines, Covered(InsertAll(v, w)))
  <1> DEFINE I == Covered(v) \cup Covered(w)
             C == Covered(InsertAll(v, w))
  <1>1. w \in Seq(Spans) /\ Agrees(Covered(v), Covered(v))
    BY DEF Lists, Agrees
  <1>2. InsertAll(v, w) \in Lists /\ Agrees(C, I)
    BY <1>1, InsertAllKeeps DEF AllKept
  <1>3. ASSUME NEW b \in C PROVE b \in Nat
    <2>1. DOMAIN InsertAll(v, w) = 1 .. Len(InsertAll(v, w)) /\ Len(InsertAll(v, w)) \in Nat
          /\ \A i \in 1 .. Len(InsertAll(v, w)) : InsertAll(v, w)[i] \in Spans
      BY <1>2 DEF Lists
    <2>2. PICK i \in 1 .. Len(InsertAll(v, w)) : b \in SpanBytes(InsertAll(v, w)[i])
      BY <2>1, CoveredBy
    <2>. QED
      BY <2>1, <2>2 DEF SpanBytes, Spans
  <1>4. WholeLines(lines, I)
    BY DEF WholeLines
  <1> HIDE DEF C, I
  <1>5. ASSUME NEW b \in C, b \notin I PROVE FALSE
    <2>1. b - 1 \in I /\ b + 1 \in I
      BY <1>2, <1>5 DEF Agrees
    <2>2. PICK l \in lines : b \in l /\ (b - 1 \in l \/ b + 1 \in l)
      BY <1>3, <1>5 DEF LinesOfTwo
    <2>. QED
      BY <1>4, <1>5, <2>1, <2>2 DEF WholeLines
  <1>6. C = I
    BY <1>2, <1>5 DEF Agrees
  <1>. QED
    BY <1>2, <1>4, <1>6 DEF C, I

---------------------------------------------------------------------------
(* A SpanVec under any sequence of inserts.                                *)

SpansInv == spans \in Lists /\ Agrees(Covered(spans), inserted)

LEMMA InitSpans == NewList => SpansInv
  <1> SUFFICES ASSUME NewList PROVE SpansInv
    OBVIOUS
  <1>1. spans = <<>> /\ Len(spans) = 0 /\ DOMAIN spans = 1 .. 0 /\ spans \in Seq(Spans)
    BY DEF NewList
  <1>2. spans \in Lists
    BY <1>1 DEF Lists, Ordered
  <1>3. \A b : b \notin Covered(spans)
    BY <1>1, CoveredBy
  <1>. QED
    BY <1>2, <1>3 DEF SpansInv, Agrees, NewList

LEMMA SpansKept == SpansInv /\ [InsertAny]_listVars => SpansInv'
  <1> SUFFICES ASSUME SpansInv, [InsertAny]_listVars PROVE SpansInv'
    OBVIOUS
  <1>1. CASE UNCHANGED listVars
    BY <1>1 DEF listVars, SpansInv
  <1>2. ASSUME NEW x \in SpansUpTo(MaxOffset), InsertSpan(x) PROVE SpansInv'
    <2>1. x \in Spans
      BY MaxOffsetAssumption DEF SpansUpTo, Spans
    <2>2. Agrees(Covered(spans) \cup SpanBytes(x), inserted \cup SpanBytes(x))
      BY DEF SpansInv, Agrees
    <2>3. Keeps(spans, x, inserted \cup SpanBytes(x))
      BY <2>1, <2>2, InsertKeeps DEF SpansInv
    <2>. QED
      BY <1>2, <2>3 DEF InsertSpan, Keeps, SpansInv
  <1>. QED
    BY <1>1, <1>2 DEF InsertAny

\* The list stays ordered by start, as partition_point needs it, whatever
\* spans insert() merges, in whatever order, for files of any length.
THEOREM ListStaysOrdered == ListSpec => []StartsAscend
  <1>1. SpansInv => StartsAscend
    <2> SUFFICES ASSUME SpansInv, NEW i \in 1 .. Len(spans) - 1
                 PROVE  spans[i].start < spans[i + 1].start
      BY DEF StartsAscend
    <2>1. Len(spans) \in Nat
      BY DEF SpansInv, Lists
    <2>2. i \in 1 .. Len(spans) /\ i + 1 \in 1 .. Len(spans) /\ i < i + 1
      BY <2>1
    <2>. QED
      BY <2>2 DEF SpansInv, Lists, Ordered
  <1>. QED
    BY <1>1, InitSpans, SpansKept, PTL DEF ListSpec

\* Merging loses no byte that was acknowledged, and covers no other than
\* those of the gaps of one byte that merge_right bridges.
THEOREM MergingKeepsBytes == ListSpec => []CoversWhatWasInserted
  <1>1. SpansInv => CoversWhatWasInserted
    BY DEF SpansInv, Agrees, CoversWhatWasInserted
  <1>. QED
    BY <1>1, InitSpans, SpansKept, PTL DEF ListSpec
=============================================================================
