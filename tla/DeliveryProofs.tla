---------------------------- MODULE DeliveryProofs ----------------------------
(***************************************************************************)
(* The lines of a file on their way to the service, for any number of      *)
(* lines, batches, failures, reloads and restarts: what is delivered       *)
(* again has a cause, and the composition of the parts keeps the promise   *)
(* of DeliveryPromise.                                                     *)
(***************************************************************************)
EXTENDS Delivery, SpanVecProofs
---------------------------------------------------------------------------
(* A list of one span, and another span that meets it.                     *)

\* The loop of insert() may end in its first turn.
FirstTurn(s, e) == InsertStep(Placing(s, e, InsertionPoint(s, e)))
OneTurn(s, e) == Len(s) \in {0, 1} /\ FirstTurn(s, e).done

LEMMA EndsAtOnce ==
  ASSUME NEW s, NEW e, OneTurn(s, e)
  PROVE  Insert(s, e) = FirstTurn(s, e).spans
  <1> DEFINE c == FirstTurn(s, e)
             first == Placing(s, e, InsertionPoint(s, e))
             n == Len(s) + 3
             g == CHOOSE g : Turns(g, n, first)
  <1>1. n \in Nat /\ n \in {3, 4}
    <2>1. Len(s) = 0 \/ Len(s) = 1
      BY Zenon DEF OneTurn
    <2> DEFINE len == Len(s)
    <2>2. len = 0 \/ len = 1
      BY <2>1
    <2> HIDE DEF len
    <2>3. len + 3 \in Nat /\ len + 3 \in {3, 4}
      BY <2>2
    <2>. QED
      BY <2>3 DEF len
  <1>2. Turns(g, n, first)
    <2> HIDE DEF n, first
    <2>. QED
      BY <1>1, TurnsExist
  <1>3. InsertRun(s, e) = g[1 .. n]
    BY RunIsFold
  <1>4. c = InsertStep(first)
    BY DEF FirstTurn
  <1>5. InsertStep(c) = c
    <2> HIDE DEF c
    <2>1. c.done
      BY DEF c, OneTurn
    <2>. QED
      BY <2>1 DEF InsertStep
  <1> HIDE DEF g, first, n, c
  <1>6. g[{}] = first
    BY <1>2, TurnOfTurns
  <1>7. ASSUME NEW k \in 1 .. n
        PROVE  g[1 .. k] = InsertStep(g[1 .. k - 1])
    <2>1. 1 .. k \in SUBSET (1 .. n) /\ k \in 1 .. k /\ k \in Nat
      BY <1>1
    <2>2. (1 .. k) \ {k} = 1 .. k - 1
      BY <2>1
    <2>3. Max(1 .. k) = k
      BY <2>1, LastTurn
    <2>4. g[1 .. k] = IF 1 .. k = {} THEN first
                      ELSE InsertStep(g[(1 .. k) \ {Max(1 .. k)}])
      BY <1>2, <2>1, TurnOfTurns
    <2>. QED
      BY <2>1, <2>2, <2>3, <2>4
  <1>8. g[1 .. 1] = c
    <2>1. 1 .. 1 - 1 = {} /\ 1 \in 1 .. n
      BY <1>1
    <2>. QED
      BY <1>4, <1>6, <1>7, <2>1
  <1>9. g[1 .. 2] = c
    <2>1. 2 - 1 = 1 /\ 2 \in 1 .. n
      BY <1>1
    <2>. QED
      BY <1>5, <1>7, <1>8, <2>1
  <1>10. g[1 .. 3] = c
    <2>1. 3 - 1 = 2 /\ 3 \in 1 .. n
      BY <1>1
    <2>. QED
      BY <1>5, <1>7, <1>9, <2>1
  <1>11. g[1 .. n] = c
    <2>1. CASE n = 3
      BY <1>10, <2>1
    <2>2. CASE n = 4
      <3>1. 4 - 1 = 3 /\ 4 \in 1 .. n
        BY <2>2
      <3>. QED
        BY <1>5, <1>7, <1>10, <2>2, <3>1
    <2>. QED
      BY <1>1, <2>1, <2>2
  <1>. QED
    BY <1>3, <1>11 DEF Insert, c

LEMMA InsertFirst ==
  ASSUME NEW e
  PROVE  Insert(<<>>, e) = <<e>>
  <1> DEFINE first == Placing(<<>>, e, InsertionPoint(<<>>, e))
  <1>1. first.spans = <<>> /\ first.elem = e /\ first.done = FALSE
    BY DEF Placing
  <1>2. InsertStep(first) = Placed(first, <<e>>)
    BY <1>1 DEF InsertStep
  <1>3. InsertStep(first).done = TRUE /\ InsertStep(first).spans = <<e>>
    BY <1>2 DEF Placed, Placing
  <1>4. Len(<<>>) = 0
    OBVIOUS
  <1>5. InsertStep(first) = FirstTurn(<<>>, e)
    BY DEF FirstTurn
  <1> HIDE DEF first
  <1>. QED
    BY <1>3, <1>4, <1>5, EndsAtOnce DEF OneTurn

\* Two spans of which one starts no later than the other, and reaches it.
LEMMA InsertMeeting ==
  ASSUME NEW a \in Nat, NEW p \in Nat, NEW b \in Nat, NEW q \in Nat, a <= p, b <= q,
         (a <= b /\ p + 1 >= b) \/ (b <= a /\ q + 1 >= a)
  PROVE  Insert(<<Span(a, p)>>, Span(b, q))
            = <<Span(IF a <= b THEN a ELSE b, IF p >= q THEN p ELSE q)>>
  <1> DEFINE l == Span(a, p)
             e == Span(b, q)
             s == <<l>>
             k == InsertionPoint(s, e)
             first == Placing(s, e, k)
             h == Span(IF a <= b THEN a ELSE b, IF p >= q THEN p ELSE q)
  <1>1. l.start = a /\ l.end = p /\ e.start = b /\ e.end = q
    BY DEF Span
  <1>2. Hull(l, e) = h /\ Hull(e, l) = h
    <2>1. /\ Min({a, b}) = IF a <= b THEN a ELSE b
          /\ Min({b, a}) = IF b <= a THEN b ELSE a
      BY MinOfTwo
    <2>2. /\ Max({p, q}) = IF p >= q THEN p ELSE q
          /\ Max({q, p}) = IF q >= p THEN q ELSE p
      BY MaxOfTwo
    <2>3. Hull(l, e) = Span(Min({a, b}), Max({p, q})) /\ Hull(e, l) = Span(Min({b, a}), Max({q, p}))
      BY <1>1 DEF Hull
    <2>4. Min({b, a}) = (IF a <= b THEN a ELSE b) /\ Max({q, p}) = IF p >= q THEN p ELSE q
      BY <2>1, <2>2
    <2>. QED
      BY <2>1, <2>2, <2>3, <2>4
  <1>3. k \in {0, 1}
    <2>1. {i \in DOMAIN s : e.start > s[i].start} = {} \/ {i \in DOMAIN s : e.start > s[i].start} = {1}
      OBVIOUS
    <2>2. Cardinality({}) = 0 /\ Cardinality({1}) = 1
      BY FS_EmptySet, FS_Singleton
    <2>. QED
      BY <2>1, <2>2 DEF InsertionPoint
  <1> HIDE DEF k
  <1>4. first.spans = s /\ first.elem = e /\ first.done = FALSE /\ first.idx = k
    BY DEF Placing
  <1>5. s # <<>> /\ Len(s) = 1 /\ s[1] = l
    OBVIOUS
  <1>6. InsertStep(first) = PairStep(first, 1)
    <2> HIDE DEF first, s
    <2>1. CASE k = 0
      BY <1>4, <1>5, <2>1 DEF InsertStep
    <2>2. CASE k = 1
      BY <1>4, <1>5, <2>2 DEF InsertStep
    <2>. QED
      BY <1>3, <2>1, <2>2
  <1> DEFINE m == Merge(l, e)
  <1>7. \/ m.kind = "Identity" /\ l = e
        \/ m.kind = "Merged" /\ m.span = h
    <2>1. CASE l = e
      BY <2>1 DEF Merge, MergeRight
    <2>2. CASE l # e /\ a <= b /\ p + 1 >= b
      <3>1. MergeRight(l, e) = [kind |-> "Merged", span |-> h]
        BY <1>1, <1>2, <2>2 DEF MergeRight
      <3> HIDE DEF l, e, h
      <3>2. m = MergeRight(l, e)
        BY <3>1 DEF Merge
      <3>. QED
        BY <3>1, <3>2
    <2>3. CASE l # e /\ ~ (a <= b /\ p + 1 >= b)
      <3>1. MergeRight(l, e) = [kind |-> "UnMerged", span |-> l]
        BY <1>1, <2>3 DEF MergeRight
      <3>2. MergeRight(e, l) = [kind |-> "Merged", span |-> h]
        BY <1>1, <1>2, <2>3 DEF MergeRight
      <3> HIDE DEF l, e, h
      <3>3. m = MergeRight(e, l)
        BY <3>1, <3>2 DEF Merge
      <3>. QED
        BY <3>2, <3>3
    <2>. QED
      BY <2>1, <2>2, <2>3
  <1>8. l = e => h = l
    <2>1. l = e => a = b /\ p = q
      BY <1>1
    <2>. QED
      BY <2>1
  <1>9. ReplaceAt(s, 1, h) = <<h>>
    BY DEF ReplaceAt
  <1>10. PairStep(first, 1) = Placed(first, <<h>>)
    <2>1. Merge(first.spans[1], first.elem) = m
      BY <1>4, <1>5
    <2> HIDE DEF first, m, l, e, h
    <2>2. CASE m.kind = "Identity" /\ l = e
      BY <1>4, <1>8, <2>1, <2>2 DEF PairStep
    <2>3. CASE m.kind = "Merged" /\ m.span = h
      BY <1>4, <1>9, <2>1, <2>3 DEF PairStep
    <2>. QED
      BY <1>7, <2>2, <2>3
  <1>11. Placed(first, <<h>>).done = TRUE /\ Placed(first, <<h>>).spans = <<h>>
    BY DEF Placed, Placing
  <1>12. InsertStep(first) = FirstTurn(s, e)
    BY DEF FirstTurn, k
  <1> HIDE DEF first, h, l, e, s
  <1>13. Insert(s, e) = <<h>>
    BY <1>5, <1>6, <1>10, <1>11, <1>12, EndsAtOnce DEF OneTurn
  <1>. QED
    BY <1>13 DEF s, l, e, h
---------------------------------------------------------------------------
(* Loading.  Of the stored words a single span comes back, or nothing.     *)

OneSpan(k, M) == k = <<>> \/ \E a, p \in 0 .. M : a <= p /\ k = <<Span(a, p)>>

\* The pairs are a chain: each one starts where the one before it ends.
Chain(pairs, n, M) ==
    /\ n \in Nat /\ DOMAIN pairs = 1 .. n
    /\ \A i \in 1 .. n : /\ pairs[i].start \in 0 .. M /\ pairs[i].end \in 0 .. M
                         /\ pairs[i] = Span(pairs[i].start, pairs[i].end)
    /\ \A i \in 1 .. n : i > 1 => pairs[i - 1].end = pairs[i].start

LEMMA PairsChain ==
  ASSUME NEW M \in Nat, NEW words \in Seq(0 .. M)
  PROVE  \E n : Chain(Pairs(words), n, M)
  <1>1. Len(words) \in Nat /\ \A i \in 1 .. Len(words) : words[i] \in 0 .. M
    OBVIOUS
  <1>2. CASE Len(words) = 1
    <2>1. Pairs(words) = <<Span(0, words[1])>>
      BY <1>2 DEF Pairs
    <2>2. words[1] \in 0 .. M /\ 0 \in 0 .. M
      BY <1>1, <1>2
    <2>3. Chain(Pairs(words), 1, M)
      <3> DEFINE x == Span(0, words[1])
      <3>1. x = Span(x.start, x.end) /\ x.start \in 0 .. M /\ x.end \in 0 .. M
        BY <2>2 DEF Span
      <3> HIDE DEF x
      <3>2. DOMAIN <<x>> = 1 .. 1 /\ <<x>>[1] = x
        OBVIOUS
      <3>3. \A i \in 1 .. 1 : i = 1
        OBVIOUS
      <3>4. Pairs(words) = <<x>>
        BY <2>1 DEF x
      <3>. QED
        BY <3>1, <3>2, <3>3, <3>4 DEF Chain
    <2>. QED
      BY <2>3
  <1>3. CASE Len(words) # 1
    <2> DEFINE n == IF Len(words) < 2 THEN 0 ELSE Len(words) - 2
               pairs == [i \in 1 .. Len(words) - 2 |-> Span(words[i + 1], words[i + 2])]
    <2>1. Pairs(words) = pairs
      BY <1>3 DEF Pairs
    <2>2. n \in Nat /\ 1 .. Len(words) - 2 = 1 .. n
      BY <1>1
    <2>3. ASSUME NEW i \in 1 .. n
          PROVE  /\ words[i + 1] \in 0 .. M /\ words[i + 2] \in 0 .. M
                 /\ pairs[i] = Span(words[i + 1], words[i + 2])
      <3>1. i + 1 \in 1 .. Len(words) /\ i + 2 \in 1 .. Len(words) /\ i \in 1 .. Len(words) - 2
        BY <1>1
      <3>. QED
        BY <1>1, <3>1
    <2>4. ASSUME NEW i \in 1 .. n
          PROVE  /\ pairs[i].start = words[i + 1] /\ pairs[i].end = words[i + 2]
                 /\ pairs[i] = Span(pairs[i].start, pairs[i].end)
      <3> DEFINE x == words[i + 1]
                 y == words[i + 2]
      <3>1. pairs[i] = Span(x, y)
        BY <2>3
      <3> HIDE DEF pairs, n, x, y
      <3>2. pairs[i].start = x /\ pairs[i].end = y
        BY <3>1 DEF Span
      <3>. QED
        BY <3>1, <3>2 DEF x, y
    <2>5. ASSUME NEW i \in 1 .. n, i > 1 PROVE pairs[i - 1].end = pairs[i].start
      <3>1. i - 1 \in 1 .. n /\ (i - 1) + 2 = i + 1
        BY <2>2, <2>5
      <3> HIDE DEF pairs, n
      <3>. QED
        BY <2>4, <3>1
    <2>6. DOMAIN pairs = 1 .. n
      BY <2>2
    <2> HIDE DEF pairs, n
    <2>7. Chain(pairs, n, M)
      BY <2>2, <2>3, <2>4, <2>5, <2>6 DEF Chain
    <2>. QED
      BY <2>1, <2>7
  <1>. QED
    BY <1>2, <1>3

LEMMA LoadedIsOneSpan ==
  ASSUME NEW M \in Nat, NEW words \in Seq(0 .. M)
  PROVE  OneSpan(Loaded(words), M)
  <1> DEFINE pairs == Pairs(words)
  <1>1. PICK n : Chain(pairs, n, M)
    BY PairsChain
  <1>2. CASE ~ Loadable(words)
    BY <1>2 DEF Loaded, OneSpan
  <1>3. CASE Loadable(words)
    <2>1. Loaded(words) = InsertAll(<<>>, pairs)
      BY <1>3 DEF Loaded
    <2>2. /\ n \in Nat /\ DOMAIN pairs = 1 .. n
          /\ \A i \in 1 .. n : /\ pairs[i].start \in 0 .. M /\ pairs[i].end \in 0 .. M
                               /\ pairs[i] = Span(pairs[i].start, pairs[i].end)
                               /\ pairs[i].start <= pairs[i].end
          /\ \A i \in 1 .. n : i > 1 => pairs[i - 1].end = pairs[i].start
      BY <1>1, <1>3 DEF Chain, Loadable
    <2> HIDE DEF pairs
    <2>3. PICK v : Ways(v, <<>>, pairs, n)
      BY <2>2, InsertAllSteps
    <2> DEFINE Good(k) == /\ pairs[1].start <= pairs[k].end
                          /\ v[k] = <<Span(pairs[1].start, pairs[k].end)>>
               Bad == {k \in Nat : k \in 1 .. n /\ ~ Good(k)}
    <2>4. Bad = {}
      <3> SUFFICES ASSUME Bad # {} PROVE FALSE
        OBVIOUS
      <3>0. Bad \in SUBSET Nat
        OBVIOUS
      <3> HIDE DEF Bad
      <3>1. PICK k \in Bad : \A m \in Bad : k <= m
        BY <3>0, SmallestNumber
      <3>2. k \in Nat /\ k \in 1 .. n /\ ~ Good(k)
        BY <3>1 DEF Bad
      <3>3. v[k] = Insert(v[k - 1], pairs[k])
        BY <2>3, <3>2 DEF Ways
      <3>4. CASE k = 1
        <4>1. v[k - 1] = <<>>
          BY <2>3, <3>4 DEF Ways
        <4>2. v[k] = <<pairs[1]>>
          BY <3>3, <3>4, <4>1, InsertFirst
        <4>. QED
          BY <2>2, <3>2, <3>4, <4>2
      <3>5. CASE k > 1
        <4>1. k - 1 \in Nat /\ k - 1 \in 1 .. n /\ 1 \in 1 .. n /\ ~ (k <= k - 1)
          BY <2>2, <3>2, <3>5
        <4>2. k - 1 \notin Bad
          BY <3>1, <4>1
        <4>3. Good(k - 1)
          BY <4>1, <4>2 DEF Bad
        <4> DEFINE a == pairs[1].start
                   p == pairs[k - 1].end
                   q == pairs[k].end
        <4>4. /\ a \in Nat /\ p \in Nat /\ q \in Nat /\ a <= p /\ p <= q
              /\ pairs[k] = Span(p, q) /\ v[k - 1] = <<Span(a, p)>>
          BY <2>2, <3>2, <3>5, <4>1, <4>3
        <4>5. v[k] = Insert(<<Span(a, p)>>, Span(p, q))
          BY <3>3, <4>4
        <4> HIDE DEF a, p, q
        <4>6. p + 1 >= p /\ (IF a <= p THEN a ELSE p) = a /\ (IF p >= q THEN p ELSE q) = q
          BY <4>4
        <4>7. Insert(<<Span(a, p)>>, Span(p, q))
                = <<Span(IF a <= p THEN a ELSE p, IF p >= q THEN p ELSE q)>>
          BY <4>4, <4>6, InsertMeeting
        <4>8. v[k] = <<Span(a, q)>> /\ a <= q
          BY <4>4, <4>5, <4>6, <4>7
        <4>. QED
          BY <3>2, <4>8 DEF a, q
      <3>. QED
        BY <3>2, <3>4, <3>5
    <2>5. CASE n = 0
      <3>1. Loaded(words) = <<>>
        BY <2>1, <2>3, <2>5 DEF Ways
      <3>. QED
        BY <3>1 DEF OneSpan
    <2>6. CASE n > 0
      <3>1. n \in 1 .. n /\ 1 \in 1 .. n
        BY <2>2, <2>6
      <3>2. Good(n)
        BY <2>2, <2>4, <3>1
      <3>3. Loaded(words) = <<Span(pairs[1].start, pairs[n].end)>>
        BY <2>1, <2>3, <3>2 DEF Ways
      <3>. QED
        BY <2>2, <3>1, <3>2, <3>3 DEF OneSpan
    <2>. QED
      BY <2>2, <2>5, <2>6
  <1>. QED
    BY <1>2, <1>3

\* The stored words are offsets of the list they stand for.
Flattens(f, ss, n) == f = [i \in 1 .. n |-> IF i = 1 THEN ss[i] ELSE f[i - 1] \o ss[i]]

LEMMA FlattenExists ==
  ASSUME NEW ss, NEW n \in Nat
  PROVE  \E f : Flattens(f, ss, n)
  <1> DEFINE Bad == {k \in Nat : ~ \E f : Flattens(f, ss, k)}
  <1>1. Bad = {}
    <2> SUFFICES ASSUME Bad # {} PROVE FALSE
      OBVIOUS
    <2>0. Bad \in SUBSET Nat
      OBVIOUS
    <2> HIDE DEF Bad
    <2>1. PICK k \in Bad : \A m \in Bad : k <= m
      BY <2>0, SmallestNumber
    <2> USE DEF Bad
    <2>2. CASE k = 0
      <3>1. Flattens([i \in 1 .. 0 |-> ss], ss, 0)
        BY DEF Flattens
      <3>. QED
        BY <2>1, <2>2, <3>1
    <2>3. CASE k > 0
      <3> HIDE DEF Bad
      <3>1. k \in Nat /\ k - 1 \in Nat /\ k - 1 \notin Bad
        BY <2>0, <2>1, <2>3
      <3>2. PICK f : Flattens(f, ss, k - 1)
        BY <3>1 DEF Bad
      <3> DEFINE h == [i \in 1 .. k |-> IF i = 1 THEN ss[i] ELSE f[i - 1] \o ss[i]]
      <3>3. \A i \in 1 .. k - 1 : f[i] = IF i = 1 THEN ss[i] ELSE f[i - 1] \o ss[i]
        BY <3>2 DEF Flattens
      <3>4. \A i \in 1 .. k - 1 : h[i] = f[i]
        BY <3>1, <3>3
      <3>5. \A i \in 1 .. k : i # 1 => i - 1 \in 1 .. k - 1
        BY <3>1
      <3>6. \A i \in 1 .. k : h[i] = IF i = 1 THEN ss[i] ELSE h[i - 1] \o ss[i]
        BY <3>4, <3>5
      <3>7. h = [i \in 1 .. k |-> h[i]]
        OBVIOUS
      <3> HIDE DEF h
      <3>8. Flattens(h, ss, k)
        BY <3>6, <3>7 DEF Flattens
      <3>. QED
        BY <2>1, <3>8 DEF Bad
    <2>. QED
      BY <2>1, <2>2, <2>3
  <1>. QED
    BY <1>1

LEMMA FlattenTyped ==
  ASSUME NEW T, NEW ss \in Seq(Seq(T))
  PROVE  FlattenSeq(ss) \in Seq(T)
  <1> DEFINE n == Len(ss)
             f == CHOOSE f : Flattens(f, ss, n)
  <1>1. n \in Nat /\ \A i \in 1 .. n : ss[i] \in Seq(T)
    OBVIOUS
  <1>2. CASE n = 0
    <2>1. FlattenSeq(ss) = ss /\ ss = <<>>
      BY <1>2 DEF FlattenSeq
    <2>. QED
      BY <2>1
  <1>3. CASE n # 0
    <2>1. FlattenSeq(ss) = f[n]
      BY <1>3 DEF FlattenSeq, Flattens
    <2> HIDE DEF n
    <2>2. Flattens(f, ss, n)
      BY <1>1, FlattenExists
    <2> HIDE DEF f
    <2>3. \A i \in 1 .. n : f[i] = IF i = 1 THEN ss[i] ELSE f[i - 1] \o ss[i]
      BY <2>2 DEF Flattens
    <2> DEFINE Bad == {k \in Nat : k \in 1 .. n /\ f[k] \notin Seq(T)}
    <2>4. Bad = {}
      <3> SUFFICES ASSUME Bad # {} PROVE FALSE
        OBVIOUS
      <3>0. Bad \in SUBSET Nat
        OBVIOUS
      <3> HIDE DEF Bad
      <3>1. PICK k \in Bad : \A m \in Bad : k <= m
        BY <3>0, SmallestNumber
      <3>2. k \in Nat /\ k \in 1 .. n /\ f[k] \notin Seq(T)
        BY <3>1 DEF Bad
      <3>3. CASE k = 1
        BY <1>1, <2>3, <3>2, <3>3
      <3>4. CASE k # 1
        <4>1. k - 1 \in Nat /\ k - 1 \in 1 .. n /\ ~ (k <= k - 1)
          BY <1>1, <3>2, <3>4
        <4>2. k - 1 \notin Bad
          BY <3>1, <4>1
        <4>3. f[k - 1] \in Seq(T)
          BY <4>1, <4>2 DEF Bad
        <4>4. f[k] = f[k - 1] \o ss[k] /\ ss[k] \in Seq(T)
          BY <1>1, <2>3, <3>2, <3>4
        <4>5. f[k - 1] \o ss[k] \in Seq(T)
          BY <4>3, <4>4
        <4>. QED
          BY <3>2, <4>4, <4>5
      <3>. QED
        BY <3>3, <3>4
    <2>5. n \in Nat /\ n \in 1 .. n
      BY <1>1, <1>3
    <2>. QED
      BY <2>1, <2>4, <2>5
  <1>. QED
    BY <1>2, <1>3

\* Lists within the first M bytes.
Within(s, M) == s \in Lists /\ Covered(s) \subseteq 0 .. M - 1

LEMMA WithinEnds ==
  ASSUME NEW M \in Nat, NEW s, Within(s, M), NEW i \in 1 .. Len(s)
  PROVE  s[i].start \in 0 .. M /\ s[i].end \in 0 .. M
  <1>1. s[i] \in Spans /\ DOMAIN s = 1 .. Len(s) /\ Len(s) \in Nat
    BY DEF Within, Lists
  <1>2. s[i].start \in Nat /\ s[i].end \in Nat /\ s[i].start < s[i].end
    BY <1>1 DEF Spans
  <1>3. s[i].end - 1 \in SpanBytes(s[i])
    BY <1>2 DEF SpanBytes
  <1>4. s[i].end - 1 \in Covered(s)
    BY <1>1, <1>3, CoveredBy
  <1>5. s[i].end - 1 \in 0 .. M - 1
    BY <1>4 DEF Within
  <1>. QED
    BY <1>2, <1>5

LEMMA EncodeWithin ==
  ASSUME NEW M \in Nat, NEW s, Within(s, M)
  PROVE  Encode(s) \in Seq(0 .. M)
  <1> DEFINE ss == [i \in DOMAIN s |-> <<s[i].start, s[i].end>>]
             T == 0 .. M
  <1>1. s \in Seq(Spans) /\ Len(s) \in Nat /\ DOMAIN s = 1 .. Len(s)
    BY DEF Within, Lists
  <1>2. CASE s = <<>>
    BY <1>2 DEF Encode
  <1>3. CASE s # <<>>
    <2>1. Encode(s) = <<s[1].end>> \o FlattenSeq(ss)
      BY <1>3 DEF Encode
    <2>2. \A i \in 1 .. Len(s) : s[i].start \in T /\ s[i].end \in T
      BY WithinEnds
    <2> HIDE DEF T
    <2>3. \A i \in 1 .. Len(s) : <<s[i].start, s[i].end>> \in Seq(T)
      BY <2>2
    <2>4. ss \in Seq(Seq(T))
      BY <1>1, <2>3
    <2> HIDE DEF ss
    <2>5. FlattenSeq(ss) \in Seq(T)
      BY <2>4, FlattenTyped
    <2>6. 1 \in 1 .. Len(s)
      BY <1>1, <1>3
    <2>7. <<s[1].end>> \in Seq(T)
      BY <2>2, <2>6
    <2>8. <<s[1].end>> \o FlattenSeq(ss) \in Seq(T)
      BY <2>5, <2>7
    <2>. QED
      BY <2>1, <2>8 DEF T
  <1>. QED
    BY <1>2, <1>3


\* The offsets of a batch cover the bytes of its lines.
LinesBytes(S) == UNION {SpanBytes(LineSpan(l)) : l \in S}

LEMMA LineIsSpan ==
  ASSUME NEW l \in Nat, l > 0
  PROVE  /\ LineSpan(l) \in Spans
         /\ LineSpan(l) = Span(2 * (l - 1), 2 * l)
         /\ SpanBytes(LineSpan(l)) = 2 * (l - 1) .. 2 * l - 1
  <1>1. LineSpan(l) = Span(2 * (l - 1), 2 * l)
    BY DEF LineSpan, LineBytes
  <1>2. 2 * (l - 1) \in Nat /\ 2 * l \in Nat /\ 2 * (l - 1) < 2 * l
    OBVIOUS
  <1> DEFINE a == 2 * (l - 1)
             b == 2 * l
  <1> HIDE DEF a, b
  <1>3. Span(a, b).start = a /\ Span(a, b).end = b
    BY DEF Span
  <1>4. Span(a, b) \in Spans
    BY <1>2 DEF Span, Spans, a, b
  <1>. QED
    BY <1>1, <1>3, <1>4 DEF a, b, SpanBytes

LEMMA OffsetsIsFold ==
  ASSUME NEW S
  PROVE  Offsets(S) = (CHOOSE g : g = [s \in SUBSET S |->
            IF s = {} THEN <<>>
            ELSE Eagerly(LAMBDA w : Insert(w, LineSpan(Max(s))), g[s \ {Max(s)}])])[S]
  BY DEF Offsets, MapThenFoldSet

OffsetsRight(S) == Offsets(S) \in Lists /\ Agrees(Covered(Offsets(S)), LinesBytes(S))

LEMMA OffsetsCover ==
  ASSUME NEW n \in Nat, NEW S \in SUBSET (1 .. n)
  PROVE  OffsetsRight(S)
  <1> DEFINE elems == [l \in 1 .. n |-> LineSpan(l)]
             Put(v, e) == Eagerly(LAMBDA w : Insert(w, e), v)
             g == CHOOSE g : g = [s \in SUBSET S |->
                     IF s = {} THEN <<>> ELSE Put(g[s \ {Max(s)}], LineSpan(Max(s)))]
  <1>0. ASSUME NEW s \in SUBSET S, s # {}, NEW k \in Nat, s \in SUBSET (1 .. k), k \in s
        PROVE  Max(s) = k
    BY <1>0, LastTurn
  <1>1. PICK f : Inserts(f, S, elems, <<>>)
    BY InsertsExist
  <1>2. f = [s \in SUBSET S |-> IF s = {} THEN <<>> ELSE Put(f[s \ {Max(s)}], elems[Max(s)])]
    BY <1>1 DEF Inserts
  <1> HIDE DEF Put
  <1>3. ASSUME NEW s \in SUBSET S, s # {} PROVE elems[Max(s)] = LineSpan(Max(s))
    <2>1. Max(s) \in s
      <3> DEFINE T == {x \in Nat : \A y \in s : x >= y}
      <3>1. n \in T
        OBVIOUS
      <3> HIDE DEF T
      <3>2. T \in SUBSET Nat /\ T # {}
        BY <3>1 DEF T
      <3>3. PICK m \in T : \A y \in T : m <= y
        BY <3>2, SmallestNumber
      <3>4. m \in Nat /\ \A y \in s : m >= y
        BY <3>2, <3>3 DEF T
      <3>5. m \in s
        <4> SUFFICES ASSUME m \notin s PROVE FALSE
          OBVIOUS
        <4>1. \A y \in s : y \in Nat /\ m >= y /\ m # y /\ y > 0
          BY <3>4
        <4>0. PICK z \in s : TRUE
          BY <1>3
        <4>2. m - 1 \in Nat /\ \A y \in s : m - 1 >= y
          <5>1. m > 0 /\ m \in Nat
            BY <3>4, <4>0, <4>1
          <5>2. \A y \in s : m - 1 >= y
            BY <4>1, <5>1
          <5>. QED
            BY <5>1, <5>2
        <4>3. m - 1 \in T
          BY <4>2 DEF T
        <4>4. m <= m - 1
          BY <3>3, <4>3
        <4>. QED
          BY <3>4, <4>4
      <3>6. \E x \in s : \A y \in s : x >= y
        BY <3>4, <3>5
      <3>. QED
        BY <3>6 DEF Max
    <2>. QED
      BY <2>1
  <1>4. f = [s \in SUBSET S |-> IF s = {} THEN <<>> ELSE Put(f[s \ {Max(s)}], LineSpan(Max(s)))]
    <2>1. \A s \in SUBSET S :
             f[s] = IF s = {} THEN <<>> ELSE Put(f[s \ {Max(s)}], LineSpan(Max(s)))
      BY <1>2, <1>3
    <2>2. f = [s \in SUBSET S |-> f[s]]
      BY <1>2
    <2>. QED
      BY <2>1, <2>2
  <1>5. g = [s \in SUBSET S |-> IF s = {} THEN <<>> ELSE Put(g[s \ {Max(s)}], LineSpan(Max(s)))]
    BY <1>4
  <1>6. Offsets(S) = g[S]
    BY OffsetsIsFold DEF Put
  <1> HIDE DEF g, elems
  <1>7. ASSUME NEW s \in SUBSET S
        PROVE  g[s] = IF s = {} THEN <<>> ELSE Insert(g[s \ {Max(s)}], LineSpan(Max(s)))
    <2>1. g[s] = IF s = {} THEN <<>> ELSE Put(g[s \ {Max(s)}], LineSpan(Max(s)))
      BY <1>5
    <2>2. \A v, e : Put(v, e) = Insert(v, e)
      BY DEF Put, Eagerly
    <2>. QED
      BY <2>1, <2>2
  <1> DEFINE Fine(s) == g[s] \in Lists /\ Agrees(Covered(g[s]), LinesBytes(s))
             Bad == {k \in Nat : \E s \in SUBSET S : s \in SUBSET (1 .. k) /\ ~ Fine(s)}
  <1>8. Bad = {}
    <2> SUFFICES ASSUME Bad # {} PROVE FALSE
      OBVIOUS
    <2>0. Bad \in SUBSET Nat
      OBVIOUS
    <2> HIDE DEF Bad
    <2>1. PICK k \in Bad : \A m \in Bad : k <= m
      BY <2>0, SmallestNumber
    <2> HIDE DEF Fine
    <2>2. PICK s \in SUBSET S : s \in SUBSET (1 .. k) /\ ~ Fine(s) /\ k \in Nat
      BY <2>1 DEF Bad
    <2>3. CASE s = {}
      <3>1. g[s] = <<>>
        BY <1>7, <2>3
      <3>2. <<>> \in Lists
        <4>1. <<>> \in Seq(Spans) /\ Len(<<>>) = 0
          OBVIOUS
        <4>. QED
          BY <4>1 DEF Lists, Ordered
      <3>3. \A b : b \notin Covered(<<>>)
        BY CoveredBy
      <3>4. LinesBytes(s) = {}
        BY <2>3 DEF LinesBytes
      <3>. QED
        BY <2>2, <3>1, <3>2, <3>3, <3>4 DEF Agrees, Fine
    <2>4. CASE s # {} /\ k \notin s
      <3>1. k - 1 \in Nat /\ s \in SUBSET (1 .. k - 1) /\ ~ (k <= k - 1)
        <4>1. \A y \in s : y \in Nat /\ y > 0 /\ y <= k /\ y # k
          BY <2>2, <2>4
        <4>2. PICK z \in s : TRUE
          BY <2>4
        <4>3. k > 0 /\ k \in Nat
          BY <2>2, <4>1, <4>2
        <4>4. \A y \in s : y \in 1 .. k - 1
          BY <4>1, <4>3
        <4>. QED
          BY <4>3, <4>4
      <3>2. k - 1 \in Bad
        BY <2>2, <3>1 DEF Bad
      <3>. QED
        BY <2>1, <3>1, <3>2
    <2>5. CASE k \in s
      <3>1. Max(s) = k /\ k > 0
        BY <2>2, <2>5, LastTurn
      <3> DEFINE r == s \ {k}
      <3>2. k - 1 \in Nat /\ r \in SUBSET S /\ r \in SUBSET (1 .. k - 1) /\ ~ (k <= k - 1)
        <4>1. \A y \in r : y \in Nat /\ y > 0 /\ y <= k /\ y # k
          BY <2>2
        <4>. QED
          BY <2>2, <3>1, <4>1
      <3>3. Fine(r)
        <4>1. k - 1 \notin Bad
          BY <2>1, <3>2
        <4>. QED
          BY <3>2, <4>1 DEF Bad
      <3>4. g[s] = Insert(g[r], LineSpan(k))
        BY <1>7, <2>5, <3>1
      <3>5. LinesBytes(s) = LinesBytes(r) \cup SpanBytes(LineSpan(k))
        BY <2>5 DEF LinesBytes
      <3>6. LineSpan(k) \in Spans
        BY <2>2, <3>1, LineIsSpan
      <3> HIDE DEF r
      <3>7. Agrees(Covered(g[r]) \cup SpanBytes(LineSpan(k)), LinesBytes(s)) /\ g[r] \in Lists
        BY <3>3, <3>5 DEF Fine, Agrees
      <3>8. Keeps(g[r], LineSpan(k), LinesBytes(s))
        BY <3>6, <3>7, InsertKeeps
      <3>. QED
        BY <2>2, <3>4, <3>8 DEF Keeps, Fine
    <2>. QED
      BY <2>3, <2>4, <2>5
  <1>9. Fine(S)
    <2>1. n \notin Bad
      BY <1>8
    <2> HIDE DEF Fine
    <2>. QED
      BY <2>1
  <1>. QED
    BY <1>6, <1>9 DEF OffsetsRight

\* A flush keeps the list of the store within the lines there are.
LEMMA AgreesWithin ==
  ASSUME NEW M \in Nat, NEW C, NEW I, Agrees(C, I), I \subseteq 0 .. M - 1, C \subseteq Int
  PROVE  C \subseteq 0 .. M - 1
  <1> SUFFICES ASSUME NEW b \in C, b \notin I PROVE b \in 0 .. M - 1
    OBVIOUS
  <1>1. b - 1 \in 0 .. M - 1 /\ b + 1 \in 0 .. M - 1 /\ b \in Int
    BY DEF Agrees
  <1>. QED
    BY <1>1

LEMMA CoveredIsNat ==
  ASSUME NEW s \in Lists
  PROVE  Covered(s) \subseteq Nat
  <1> SUFFICES ASSUME NEW b \in Covered(s) PROVE b \in Nat
    OBVIOUS
  <1>1. DOMAIN s = 1 .. Len(s) /\ Len(s) \in Nat /\ \A i \in 1 .. Len(s) : s[i] \in Spans
    BY DEF Lists
  <1>2. PICK i \in 1 .. Len(s) : b \in SpanBytes(s[i])
    BY <1>1, CoveredBy
  <1>. QED
    BY <1>1, <1>2 DEF SpanBytes, Spans

LEMMA FlushWithin ==
  ASSUME NEW n \in Nat, NEW v, Within(v, 2 * n), NEW S \in SUBSET (1 .. n)
  PROVE  Within(InsertAll(v, Offsets(S)), 2 * n)
  <1> DEFINE o == Offsets(S)
             M == 2 * n
             I == Covered(v) \cup Covered(o)
  <1>1. o \in Lists /\ Agrees(Covered(o), LinesBytes(S))
    BY OffsetsCover DEF OffsetsRight
  <1>2. M \in Nat /\ LinesBytes(S) \subseteq 0 .. M - 1
    <2>1. ASSUME NEW l \in S PROVE SpanBytes(LineSpan(l)) \subseteq 0 .. M - 1
      <3>1. l \in Nat /\ l > 0 /\ l <= n
        OBVIOUS
      <3>2. SpanBytes(LineSpan(l)) = 2 * (l - 1) .. 2 * l - 1
        BY <3>1, LineIsSpan
      <3>. QED
        BY <3>1, <3>2
    <2>2. M \in Nat
      OBVIOUS
    <2> HIDE DEF M
    <2>. QED
      BY <2>1, <2>2 DEF LinesBytes
  <1> HIDE DEF o, M
  <1>3. Covered(o) \subseteq Int
    <2>1. Covered(o) \subseteq Nat
      BY <1>1, CoveredIsNat
    <2>. QED
      BY <2>1
  <1>4. Covered(o) \subseteq 0 .. M - 1
    BY <1>1, <1>2, <1>3, AgreesWithin
  <1>5. v \in Lists /\ Covered(v) \subseteq 0 .. M - 1
    BY DEF Within, M
  <1>6. o \in Seq(Spans) /\ Agrees(Covered(v), Covered(v))
    BY <1>1 DEF Lists, Agrees
  <1>7. InsertAll(v, o) \in Lists /\ Agrees(Covered(InsertAll(v, o)), I)
    BY <1>5, <1>6, InsertAllKeeps DEF AllKept
  <1>8. I \subseteq 0 .. M - 1
    BY <1>4, <1>5
  <1>9. Covered(InsertAll(v, o)) \subseteq Int
    <2>1. Covered(InsertAll(v, o)) \subseteq Nat
      BY <1>7, CoveredIsNat
    <2>. QED
      BY <2>1
  <1> HIDE DEF I
  <1>10. Covered(InsertAll(v, o)) \subseteq 0 .. M - 1
    BY <1>2, <1>7, <1>8, <1>9, AgreesWithin
  <1>. QED
    BY <1>7, <1>10 DEF Within, o, M
---------------------------------------------------------------------------
(* The reader.  It has read the lines before a position, and the tailer    *)
(* knows a span of the file that ends there, or it has read nothing.       *)

ReaderAt(o, k, p) ==
    /\ p \in Nat
    /\ \/ p = 0 /\ o = <<>> /\ k = <<>>
       \/ o = <<Span(0, p)>> /\ \E a \in 0 .. p : k = <<Span(a, p)>>

LEMMA GapAt ==
  ASSUME NEW o, NEW k, NEW p, ReaderAt(o, k, p)
  PROVE  FirstGap(o).start = p
  <1>1. CASE p = 0 /\ o = <<>>
    BY <1>1 DEF FirstGap, Span
  <1>2. CASE o = <<Span(0, p)>>
    <2>1. o # <<>> /\ Len(o) = 1 /\ o[1].start = 0 /\ o[1].end = p
      BY <1>2 DEF Span
    <2>2. FirstGap(o) = Span(p, NoEnd)
      BY <2>1 DEF FirstGap
    <2>. QED
      BY <2>2 DEF Span
  <1>. QED
    BY <1>1, <1>2 DEF ReaderAt

\* A reload of the tailer puts the reader where it was.
LEMMA ReloadKeepsPlace ==
  ASSUME NEW o, NEW k, NEW p, ReaderAt(o, k, p)
  PROVE  InitialOffset(k) = o
  <1>1. CASE o = <<>> /\ k = <<>>
    <2>1. Len(<<>>) # 1
      OBVIOUS
    <2>. QED
      BY <1>1, <2>1 DEF InitialOffset
  <1>2. CASE o = <<Span(0, p)>> /\ \E a \in 0 .. p : k = <<Span(a, p)>>
    <2>1. PICK a \in 0 .. p : k = <<Span(a, p)>>
      BY <1>2
    <2>2. p \in Nat /\ a \in Nat /\ a <= p
      BY DEF ReaderAt
    <2>3. Len(k) = 1 /\ k[1].start = a
      BY <2>1 DEF Span
    <2>4. InitialOffset(k) = Insert(<<Span(a, p)>>, Span(0, a))
      BY <2>1, <2>3 DEF InitialOffset
    <2>5. 0 \in Nat /\ 0 <= a /\ a + 1 >= a
          /\ (IF a <= 0 THEN a ELSE 0) = 0 /\ (IF p >= a THEN p ELSE a) = p
      BY <2>2
    <2>6. Insert(<<Span(a, p)>>, Span(0, a))
            = <<Span(IF a <= 0 THEN a ELSE 0, IF p >= a THEN p ELSE a)>>
      BY <2>2, <2>5, InsertMeeting
    <2>. QED
      BY <1>2, <2>4, <2>5, <2>6
  <1>. QED
    BY <1>1, <1>2 DEF ReaderAt

\* A restart puts it where the loaded span ends.
LEMMA RestartPlaces ==
  ASSUME NEW M \in Nat, NEW k, OneSpan(k, M)
  PROVE  \E p \in 0 .. M : ReaderAt(InitialOffset(k), k, p)
  <1>1. CASE k = <<>>
    <2>1. ReaderAt(<<>>, k, 0)
      BY <1>1 DEF ReaderAt
    <2>2. InitialOffset(k) = <<>>
      BY <2>1, ReloadKeepsPlace
    <2>3. 0 \in 0 .. M
      OBVIOUS
    <2>. QED
      BY <2>1, <2>2, <2>3
  <1>2. CASE k # <<>>
    <2>1. PICK a, p \in 0 .. M : a <= p /\ k = <<Span(a, p)>>
      BY <1>2 DEF OneSpan
    <2>2. a \in 0 .. p /\ p \in Nat
      BY <2>1
    <2>3. ReaderAt(<<Span(0, p)>>, k, p)
      BY <2>1, <2>2 DEF ReaderAt
    <2>4. InitialOffset(k) = <<Span(0, p)>>
      BY <2>3, ReloadKeepsPlace
    <2>. QED
      BY <2>1, <2>3, <2>4
  <1>. QED
    BY <1>1, <1>2

\* A line read moves it to the end of the line.
LEMMA ReadMoves ==
  ASSUME NEW o, NEW k, NEW p, ReaderAt(o, k, p), NEW l, l = p \div 2 + 1
  PROVE  ReaderAt(Insert(o, LineSpan(l)), <<LineSpan(l)>>, 2 * l)
  <1>1. p \in Nat /\ l \in Nat /\ l > 0 /\ 2 * (l - 1) <= p /\ p < 2 * l
    <2>1. p \in Nat
      BY DEF ReaderAt
    <2>2. p \div 2 \in Nat /\ 2 * (p \div 2) <= p /\ p < 2 * (p \div 2) + 2
      BY <2>1
    <2> DEFINE h == p \div 2
    <2> HIDE DEF h
    <2>3. h \in Nat /\ 2 * h <= p /\ p < 2 * h + 2 /\ l = h + 1
      BY <2>2 DEF h
    <2>. QED
      BY <2>1, <2>3
  <1> DEFINE a == 2 * (l - 1)
             q == 2 * l
  <1>2. LineSpan(l) = Span(a, q)
    BY <1>1, LineIsSpan
  <1>3. a \in Nat /\ q \in Nat /\ a <= q /\ a <= p /\ p < q /\ a \in 0 .. q
    BY <1>1
  <1> HIDE DEF a, q
  <1>4. Insert(o, LineSpan(l)) = <<Span(0, q)>>
    <2>1. CASE p = 0 /\ o = <<>>
      <3>1. a = 0
        BY <1>3, <2>1
      <3>. QED
        BY <1>2, <2>1, <3>1, InsertFirst
    <2>2. CASE o = <<Span(0, p)>>
      <3>1. 0 \in Nat /\ 0 <= p /\ 0 <= a /\ p + 1 >= a /\ p \in Nat
            /\ (IF 0 <= a THEN 0 ELSE a) = 0 /\ (IF p >= q THEN p ELSE q) = q
        BY <1>1, <1>3
      <3>2. Insert(<<Span(0, p)>>, Span(a, q))
              = <<Span(IF 0 <= a THEN 0 ELSE a, IF p >= q THEN p ELSE q)>>
        BY <1>3, <3>1, InsertMeeting
      <3>. QED
        BY <1>2, <2>2, <3>1, <3>2
    <2>. QED
      BY <2>1, <2>2 DEF ReaderAt
  <1>5. ReaderAt(Insert(o, LineSpan(l)), <<LineSpan(l)>>, q)
    BY <1>2, <1>3, <1>4 DEF ReaderAt
  <1>. QED
    BY <1>5 DEF q
---------------------------------------------------------------------------
(* The states of the composition.                                          *)

Places == {"free", "ready", "staged", "accepted", "spilling", "stored"}
SlotStates == [at : Places, lines : SUBSET (1 .. written), live : BOOLEAN]

Typed ==
    /\ written \in 0 .. LineCount
    /\ building \in SUBSET (1 .. written)
    /\ slot \in [Slots -> SlotStates]
    /\ delivered \in [Lines -> Nat]
    /\ failures \in Nat /\ reloads \in Nat /\ restarts \in Nat /\ drops \in Nat

(* A line that is not written is not delivered, a free slot holds none,    *)
(* and the lines of an accepted batch are delivered.                       *)
SlotsTell ==
    /\ \A l \in Lines : l > written => delivered[l] = 0
    /\ \A s \in Slots : slot[s].at = "free" => slot[s].lines = {}
    /\ \A s \in Slots : slot[s].at = "accepted" => \A l \in slot[s].lines : delivered[l] > 0

(* The reader is within the file, and so are the lists of the store.       *)
ReaderInv == \E p \in 0 .. 2 * written : ReaderAt(offsets, known, p)
StoreInv == Within(mem, 2 * written) /\ db \in Seq(0 .. 2 * written)

DeliveryInv == Typed /\ SlotsTell /\ ReaderInv /\ StoreInv

LEMMA InitDelivery == Init => DeliveryInv
  <1> SUFFICES ASSUME Init PROVE DeliveryInv
    OBVIOUS
  <1>1. Free \in SlotStates
    BY DEF Free, SlotStates, Places
  <1>2. Typed
    BY <1>1, DeliveryAssumption DEF Init, Typed
  <1>3. SlotsTell
    BY DEF Init, SlotsTell, Free
  <1>4. ReaderInv
    <2>1. ReaderAt(offsets, known, 0) /\ 0 \in 0 .. 2 * written
      BY DEF Init, ReaderAt
    <2>. QED
      BY <2>1 DEF ReaderInv
  <1>5. StoreInv
    <2>1. mem = <<>> /\ db = <<>> /\ 2 * written = 0
      BY DEF Init
    <2>2. <<>> \in Lists
      <3>1. <<>> \in Seq(Spans) /\ Len(<<>>) = 0
        OBVIOUS
      <3>. QED
        BY <3>1 DEF Lists, Ordered
    <2>3. Covered(<<>>) = {}
      <3>1. \A b : b \notin Covered(<<>>)
        BY CoveredBy
      <3>. QED
        BY <3>1
    <2>. QED
      BY <2>1, <2>2, <2>3 DEF StoreInv, Within
  <1>. QED
    BY <1>2, <1>3, <1>4, <1>5 DEF DeliveryInv

\* One slot changes.
LEMMA OneSlot ==
  ASSUME Typed, NEW s \in Slots, NEW b \in SlotStates, Becomes(s, b)
  PROVE  /\ slot' \in [Slots -> SlotStates]
         /\ slot'[s] = b
         /\ \A u \in Slots : u # s => slot'[u] = slot[u]
  BY DEF Typed, Becomes

LEMMA BatchTyped ==
  ASSUME NEW at \in Places, NEW L \in SUBSET (1 .. written), NEW live \in BOOLEAN
  PROVE  /\ Batch(at, L, live) \in SlotStates
         /\ Batch(at, L, live).at = at /\ Batch(at, L, live).lines = L
  BY DEF Batch, SlotStates

\* The line after the first gap.
LEMMA NextLineAt ==
  ASSUME NEW p, ReaderAt(offsets, known, p)
  PROVE  /\ NextLine = p \div 2 + 1 /\ NextLine \in Nat /\ NextLine > 0
         /\ \A n \in Nat : p <= 2 * n => NextLine <= n + 1
  <1>1. p \in Nat /\ FirstGap(offsets).start = p
    BY GapAt DEF ReaderAt
  <1>2. NextLine = p \div 2 + 1
    BY <1>1 DEF NextLine, LineBytes
  <1> DEFINE h == p \div 2
  <1>3. h \in Nat /\ 2 * h <= p
    BY <1>1
  <1> HIDE DEF h
  <1>4. NextLine = h + 1
    BY <1>2 DEF h
  <1>. QED
    BY <1>1, <1>2, <1>3, <1>4

LEMMA NextLineBound ==
  ASSUME DeliveryInv
  PROVE  NextLine \in Nat /\ NextLine > 0 /\ NextLine <= written + 1
  <1>1. PICK p \in 0 .. 2 * written : ReaderAt(offsets, known, p)
    BY DEF DeliveryInv, ReaderInv
  <1>2. written \in Nat /\ p <= 2 * written
    BY DEF DeliveryInv, Typed
  <1>. QED
    BY <1>1, <1>2, NextLineAt

\* What an action that moves one slot on leaves as it was.
Others == <<written, offsets, known, building, mem, db, reloads, restarts>>

LEMMA SlotMoves ==
  ASSUME DeliveryInv, UNCHANGED Others, NEW s \in Slots, NEW b \in SlotStates, Becomes(s, b),
         delivered' \in [Lines -> Nat], \A l \in Lines : delivered'[l] >= delivered[l],
         \A l \in Lines : l > written => delivered'[l] = 0,
         failures' \in Nat, drops' \in Nat,
         b.at = "free" => b.lines = {},
         b.at = "accepted" => \A l \in b.lines : delivered'[l] > 0
  PROVE  DeliveryInv'
  <1>1. /\ slot' \in [Slots -> SlotStates] /\ slot'[s] = b
        /\ \A u \in Slots : u # s => slot'[u] = slot[u]
    BY OneSlot DEF DeliveryInv
  <1>2. Typed'
    BY <1>1 DEF DeliveryInv, Typed, Others, SlotStates
  <1>3. SlotsTell'
    <2>1. \A u \in Slots : slot'[u].at = "free" => slot'[u].lines = {}
      BY <1>1 DEF DeliveryInv, SlotsTell
    <2>2. ASSUME NEW u \in Slots, slot'[u].at = "accepted", NEW l \in slot'[u].lines
          PROVE  delivered'[l] > 0
      <3>1. CASE u = s
        BY <1>1, <2>2, <3>1
      <3>2. CASE u # s
        <4>1. delivered[l] > 0
          BY <1>1, <2>2, <3>2 DEF DeliveryInv, SlotsTell
        <4>2. l \in Lines
          BY <1>1, <2>2, <3>2, DeliveryAssumption DEF DeliveryInv, Typed, SlotStates, Lines
        <4>3. delivered[l] \in Nat /\ delivered'[l] \in Nat /\ delivered'[l] >= delivered[l]
          BY <4>2 DEF DeliveryInv, Typed
        <4>. QED
          BY <4>1, <4>3
      <3>. QED
        BY <3>1, <3>2
    <2>. QED
      BY <2>1, <2>2 DEF SlotsTell, Others
  <1>4. ReaderInv' /\ StoreInv'
    BY DEF DeliveryInv, ReaderInv, StoreInv, Others, Within
  <1>. QED
    BY <1>2, <1>3, <1>4 DEF DeliveryInv

LEMMA WriteKeeps ==
  ASSUME DeliveryInv, WriteLine
  PROVE  DeliveryInv'
  <1>1. /\ written \in Nat /\ written' = written + 1 /\ written' \in 0 .. LineCount
        /\ UNCHANGED <<offsets, known, building, slot, mem, db, delivered, counters>>
    BY DeliveryAssumption DEF DeliveryInv, Typed, WriteLine, store
  <1>2. 1 .. written \subseteq 1 .. written' /\ 0 .. 2 * written \subseteq 0 .. 2 * written'
        /\ 0 .. 2 * written - 1 \subseteq 0 .. 2 * written' - 1
    BY <1>1
  <1>3. Typed'
    <2>1. slot' \in [Slots -> SlotStates']
      BY <1>1, <1>2 DEF DeliveryInv, Typed, SlotStates
    <2>. QED
      BY <1>1, <1>2, <2>1 DEF DeliveryInv, Typed, counters
  <1>4. SlotsTell'
    <2>1. \A l \in Lines : l > written' => l > written
      BY <1>1 DEF Lines
    <2>. QED
      BY <1>1, <2>1 DEF DeliveryInv, SlotsTell
  <1>5. ReaderInv'
    BY <1>1, <1>2 DEF DeliveryInv, ReaderInv
  <1>6. StoreInv'
    <2> DEFINE S == 0 .. 2 * written
               T == 0 .. 2 * written'
    <2>1. db \in Seq(S) /\ S \subseteq T
      BY <1>2 DEF DeliveryInv, StoreInv
    <2> HIDE DEF S, T
    <2>2. db \in Seq(T)
      BY <2>1
    <2>3. Covered(mem) \subseteq 0 .. 2 * written' - 1
      BY <1>2 DEF DeliveryInv, StoreInv, Within
    <2>. QED
      BY <1>1, <2>2, <2>3 DEF T, DeliveryInv, StoreInv, Within
  <1>. QED
    BY <1>3, <1>4, <1>5, <1>6 DEF DeliveryInv

LEMMA ReadKeeps ==
  ASSUME DeliveryInv, ReadLine
  PROVE  DeliveryInv' /\ NextLine' = NextLine + 1
  <1> DEFINE l == NextLine
  <1>1. PICK p \in 0 .. 2 * written : ReaderAt(offsets, known, p)
    BY DEF DeliveryInv, ReaderInv
  <1>2. /\ l = p \div 2 + 1 /\ l \in Nat /\ l > 0 /\ l <= written /\ written \in Nat
    BY <1>1, NextLineAt DEF ReadLine, DeliveryInv, Typed
  <1>3. /\ offsets' = Insert(offsets, LineSpan(l)) /\ known' = <<LineSpan(l)>>
        /\ building' = building \cup {l}
        /\ UNCHANGED <<written, slot, mem, db, delivered, counters>>
    BY DEF ReadLine, store
  <1> HIDE DEF l
  <1>4. ReaderAt(offsets', known', 2 * l)
    BY <1>1, <1>2, <1>3, ReadMoves
  <1>5. ReaderInv'
    <2>1. 2 * l \in 0 .. 2 * written
      BY <1>2
    <2>. QED
      BY <1>3, <1>4, <2>1 DEF ReaderInv
  <1>6. Typed'
    <2>1. l \in 1 .. written
      BY <1>2
    <2>. QED
      BY <1>3, <2>1 DEF DeliveryInv, Typed, SlotStates, counters
  <1>7. SlotsTell' /\ StoreInv'
    BY <1>3 DEF DeliveryInv, SlotsTell, StoreInv, Within
  <1>8. NextLine' = l + 1
    <2>1. FirstGap(offsets').start = 2 * l
      BY <1>4, GapAt
    <2>2. (2 * l) \div 2 = l
      BY <1>2
    <2>3. NextLine' = FirstGap(offsets').start \div 2 + 1
      BY DEF NextLine, LineBytes
    <2>. QED
      BY <2>1, <2>2, <2>3
  <1>. QED
    BY <1>5, <1>6, <1>7, <1>8 DEF DeliveryInv, l

LEMMA ReloadKeeps ==
  ASSUME DeliveryInv, Reload
  PROVE  /\ DeliveryInv' /\ offsets' = offsets
         /\ \A s \in Slots : slot'[s].at = slot[s].at /\ slot'[s].lines = slot[s].lines
  <1>1. PICK p \in 0 .. 2 * written : ReaderAt(offsets, known, p)
    BY DEF DeliveryInv, ReaderInv
  <1>2. /\ offsets' = offsets /\ reloads' = reloads + 1
        /\ UNCHANGED <<written, known, building, mem, db, delivered, failures, restarts, drops>>
    BY <1>1, ReloadKeepsPlace DEF Reload, store
  <1>3. slot' = [s \in Slots |-> [slot[s] EXCEPT !.live = FALSE]]
    BY DEF Reload, StagedCleared
  <1>4. slot \in [Slots -> SlotStates]
    BY DEF DeliveryInv, Typed
  <1>5. /\ slot' \in [Slots -> SlotStates]
        /\ \A s \in Slots : slot'[s].at = slot[s].at /\ slot'[s].lines = slot[s].lines
    BY <1>3, <1>4 DEF SlotStates
  <1>6. Typed'
    BY <1>2, <1>5 DEF DeliveryInv, Typed, SlotStates
  <1>7. SlotsTell'
    BY <1>2, <1>5 DEF DeliveryInv, SlotsTell
  <1>8. ReaderInv' /\ StoreInv'
    BY <1>2 DEF DeliveryInv, ReaderInv, StoreInv, Within
  <1>. QED
    BY <1>2, <1>5, <1>6, <1>7, <1>8 DEF DeliveryInv

LEMMA LossKeeps ==
  ASSUME DeliveryInv, LoseBatch
  PROVE  DeliveryInv'
  <1>1. /\ building' = {} /\ failures' = failures + 1 /\ drops' = drops + 1
        /\ UNCHANGED <<written, offsets, known, slot, mem, db, delivered, reloads, restarts>>
    BY DEF LoseBatch, store
  <1>2. Typed'
    BY <1>1 DEF DeliveryInv, Typed, SlotStates
  <1>3. SlotsTell' /\ ReaderInv' /\ StoreInv'
    BY <1>1 DEF DeliveryInv, SlotsTell, ReaderInv, StoreInv, Within
  <1>. QED
    BY <1>2, <1>3 DEF DeliveryInv

LEMMA RestartKeeps ==
  ASSUME DeliveryInv, Restart
  PROVE  DeliveryInv'
  <1>1. /\ known' = Loaded(db) /\ offsets' = InitialOffset(known') /\ building' = {}
        /\ mem' = <<>> /\ restarts' = restarts + 1
        /\ UNCHANGED <<written, db, delivered, failures, reloads, drops>>
    BY DEF Restart
  <1>2. slot' = [s \in Slots |-> IF slot[s].at = "stored" THEN slot[s] ELSE Free]
    BY DEF Restart
  <1>3. slot \in [Slots -> SlotStates] /\ Free \in SlotStates /\ written \in Nat
    BY DEF DeliveryInv, Typed, Free, SlotStates, Places
  <1>4. slot' \in [Slots -> SlotStates]
    BY <1>2, <1>3
  <1>5. Typed'
    BY <1>1, <1>4 DEF DeliveryInv, Typed, SlotStates
  <1>6. SlotsTell'
    <2>1. \A s \in Slots : slot'[s].at # "accepted" /\ (slot'[s].at = "free" => slot'[s].lines = {})
      BY <1>2, <1>3 DEF Free
    <2>. QED
      BY <1>1, <2>1 DEF DeliveryInv, SlotsTell
  <1>7. ReaderInv'
    <2>1. db \in Seq(0 .. 2 * written) /\ 2 * written \in Nat
      BY <1>3 DEF DeliveryInv, StoreInv
    <2>2. OneSpan(known', 2 * written)
      BY <1>1, <2>1, LoadedIsOneSpan
    <2>3. \E p \in 0 .. 2 * written : ReaderAt(offsets', known', p)
      BY <1>1, <2>1, <2>2, RestartPlaces
    <2>. QED
      BY <1>1, <2>3 DEF ReaderInv
  <1>8. StoreInv'
    <2>1. <<>> \in Lists
      <3>1. <<>> \in Seq(Spans) /\ Len(<<>>) = 0
        OBVIOUS
      <3>. QED
        BY <3>1 DEF Lists, Ordered
    <2>2. Covered(<<>>) = {}
      <3>1. \A b : b \notin Covered(<<>>)
        BY CoveredBy
      <3>. QED
        BY <3>1
    <2>. QED
      BY <1>1, <2>1, <2>2 DEF DeliveryInv, StoreInv, Within
  <1>. QED
    BY <1>5, <1>6, <1>7, <1>8 DEF DeliveryInv

LEMMA SlotTyped ==
  ASSUME DeliveryInv, NEW s \in Slots
  PROVE  /\ slot[s].at \in Places /\ slot[s].lines \in SUBSET (1 .. written)
         /\ slot[s].live \in BOOLEAN /\ slot[s] \in SlotStates
         /\ slot[s].lines \subseteq Lines
         /\ delivered \in [Lines -> Nat] /\ failures \in Nat /\ drops \in Nat
         /\ written \in Nat
         /\ \A l \in Lines : l > written => delivered[l] = 0
  <1>1. slot[s] \in SlotStates /\ written \in 0 .. LineCount
    BY DEF DeliveryInv, Typed
  <1>2. 1 .. written \subseteq Lines
    BY <1>1, DeliveryAssumption DEF Lines
  <1>3. slot[s].at \in Places /\ slot[s].lines \in SUBSET (1 .. written) /\ slot[s].live \in BOOLEAN
    BY <1>1 DEF SlotStates
  <1>. QED
    BY <1>1, <1>2, <1>3, DeliveryAssumption DEF DeliveryInv, Typed, SlotsTell

LEMMA SlotsKeep ==
  ASSUME DeliveryInv, NEW s \in Slots, Progress(s) \/ RequestFails(s) \/ GiveUp(s)
  PROVE  DeliveryInv'
  <1>1. /\ slot[s].lines \in SUBSET (1 .. written) /\ slot[s].lines \subseteq Lines
        /\ slot[s].at \in Places /\ slot[s].live \in BOOLEAN /\ slot[s] \in SlotStates
        /\ delivered \in [Lines -> Nat] /\ failures \in Nat /\ drops \in Nat
        /\ written \in Nat /\ building \in SUBSET (1 .. written)
        /\ \A l \in Lines : delivered[l] >= delivered[l] /\ (l > written => delivered[l] = 0)
    BY SlotTyped DEF DeliveryInv, Typed
  <1>2. Free \in SlotStates /\ Free.at = "free" /\ Free.lines = {}
    BY DEF Free, SlotStates, Places
  <1>3. CASE CutBatch(s)
    <2>1. /\ Becomes(s, Batch("ready", building, FALSE)) /\ building' = {}
          /\ UNCHANGED <<written, offsets, known, mem, db, delivered, counters>>
      BY <1>3 DEF CutBatch, store
    <2>2. /\ Batch("ready", building, FALSE) \in SlotStates
          /\ Batch("ready", building, FALSE).at = "ready"
      BY <1>1, BatchTyped DEF Places
    <2> DEFINE b == Batch("ready", building, FALSE)
    <2> HIDE DEF b
    <2>3. /\ slot' \in [Slots -> SlotStates] /\ slot'[s] = b
          /\ \A u \in Slots : u # s => slot'[u] = slot[u]
      BY <2>1, <2>2, OneSlot DEF DeliveryInv, b
    <2>4. Typed'
      BY <1>1, <2>1, <2>3 DEF DeliveryInv, Typed, SlotStates, counters
    <2>5. SlotsTell'
      BY <2>1, <2>2, <2>3 DEF DeliveryInv, SlotsTell, b
    <2>6. ReaderInv' /\ StoreInv'
      BY <2>1 DEF DeliveryInv, ReaderInv, StoreInv, Within
    <2>. QED
      BY <2>4, <2>5, <2>6 DEF DeliveryInv
  <1>4. CASE Stage(s)
    <2> DEFINE b == Batch("staged", slot[s].lines, TRUE)
    <2>1. b \in SlotStates /\ b.at = "staged"
      BY <1>1, BatchTyped DEF Places
    <2>2. Becomes(s, b) /\ UNCHANGED Others /\ UNCHANGED <<delivered, failures, drops>>
      BY <1>4 DEF Stage, Others, store, counters
    <2> HIDE DEF b
    <2>. QED
      BY <1>1, <2>1, <2>2, SlotMoves
  <1>5. CASE Spill(s)
    <2> DEFINE b == Batch("stored", slot[s].lines, FALSE)
    <2>1. b \in SlotStates /\ b.at = "stored"
      BY <1>1, BatchTyped DEF Places
    <2>2. Becomes(s, b) /\ UNCHANGED Others /\ UNCHANGED <<delivered, failures, drops>>
      BY <1>5 DEF Spill, Others, store, counters
    <2> HIDE DEF b
    <2>. QED
      BY <1>1, <2>1, <2>2, SlotMoves
  <1>6. CASE TakeStored(s)
    <2> DEFINE b == Batch("ready", slot[s].lines, FALSE)
    <2>1. b \in SlotStates /\ b.at = "ready"
      BY <1>1, BatchTyped DEF Places
    <2>2. Becomes(s, b) /\ UNCHANGED Others /\ UNCHANGED <<delivered, failures, drops>>
      BY <1>6 DEF TakeStored, Others, store, counters
    <2> HIDE DEF b
    <2>. QED
      BY <1>1, <2>1, <2>2, SlotMoves
  <1>7. CASE RequestFails(s)
    <2> DEFINE b == Batch("spilling", slot[s].lines, FALSE)
    <2>1. b \in SlotStates /\ b.at = "spilling"
      BY <1>1, BatchTyped DEF Places
    <2>2. Becomes(s, b) /\ UNCHANGED Others /\ UNCHANGED <<delivered, drops>> /\ failures' = failures + 1
      BY <1>7 DEF RequestFails, Others, store
    <2>3. failures' \in Nat
      BY <1>1, <2>2
    <2> HIDE DEF b
    <2>. QED
      BY <1>1, <2>1, <2>2, <2>3, SlotMoves
  <1>8. CASE GiveUp(s)
    <2>1. Becomes(s, Free) /\ UNCHANGED Others /\ UNCHANGED delivered
          /\ failures' = failures + 1 /\ drops' = drops + 1
      BY <1>8 DEF GiveUp, Others, store
    <2>2. failures' \in Nat /\ drops' \in Nat
      BY <1>1, <2>1
    <2>. QED
      BY <1>1, <1>2, <2>1, <2>2, SlotMoves
  <1>9. CASE ServiceAccepts(s)
    <2> DEFINE b == [slot[s] EXCEPT !.at = "accepted"]
    <2>1. b \in SlotStates /\ b.at = "accepted" /\ b.lines = slot[s].lines
      BY <1>1 DEF SlotStates, Places
    <2>2. Becomes(s, b) /\ UNCHANGED Others /\ UNCHANGED <<failures, drops>>
          /\ delivered' = [l \in Lines |-> IF l \in slot[s].lines THEN delivered[l] + 1
                                          ELSE delivered[l]]
      BY <1>9 DEF ServiceAccepts, Others, store, counters
    <2> HIDE DEF b
    <2>3. /\ delivered' \in [Lines -> Nat] /\ \A l \in Lines : delivered'[l] >= delivered[l]
          /\ \A l \in b.lines : delivered'[l] > 0
      BY <1>1, <2>1, <2>2
    <2>4. \A l \in Lines : l > written => delivered'[l] = 0
      <3>1. \A l \in slot[s].lines : l \in Nat /\ ~ (l > written)
        BY <1>1
      <3>. QED
        BY <1>1, <2>2, <3>1
    <2>. QED
      BY <1>1, <2>1, <2>2, <2>3, <2>4, SlotMoves
  <1>10. CASE Confirm(s)
    <2>1. /\ Becomes(s, Free)
          /\ UNCHANGED <<written, offsets, known, building, delivered, failures, reloads, restarts, drops>>
      BY <1>10 DEF Confirm, counters
    <2>2. /\ slot' \in [Slots -> SlotStates] /\ slot'[s] = Free
          /\ \A u \in Slots : u # s => slot'[u] = slot[u]
      BY <1>2, <2>1, OneSlot DEF DeliveryInv
    <2>3. Typed'
      BY <2>1, <2>2 DEF DeliveryInv, Typed, SlotStates
    <2>4. SlotsTell'
      BY <1>2, <2>1, <2>2 DEF DeliveryInv, SlotsTell
    <2>5. ReaderInv'
      BY <2>1 DEF DeliveryInv, ReaderInv
    <2>6. CASE slot[s].live
      <3>1. mem' = InsertAll(mem, Offsets(slot[s].lines)) /\ db' = Encode(mem')
        BY <1>10, <2>6 DEF Confirm
      <3>2. Within(mem', 2 * written)
        BY <1>1, <3>1, FlushWithin DEF DeliveryInv, StoreInv
      <3>3. db' \in Seq(0 .. 2 * written)
        <4>1. 2 * written \in Nat
          BY <1>1
        <4>. QED
          BY <3>1, <3>2, <4>1, EncodeWithin
      <3>4. StoreInv'
        BY <2>1, <3>2, <3>3 DEF StoreInv, Within
      <3>. QED
        BY <2>3, <2>4, <2>5, <3>4 DEF DeliveryInv
    <2>7. CASE ~ slot[s].live
      <3>1. UNCHANGED <<mem, db>>
        BY <1>10, <2>7 DEF Confirm, store
      <3>2. StoreInv'
        BY <2>1, <3>1 DEF DeliveryInv, StoreInv, Within
      <3>. QED
        BY <2>3, <2>4, <2>5, <3>2 DEF DeliveryInv
    <2>. QED
      BY <2>6, <2>7
  <1>. QED
    BY <1>3, <1>4, <1>5, <1>6, <1>7, <1>8, <1>9, <1>10 DEF Progress

LEMMA DeliveryKept == DeliveryInv /\ [Next]_vars => DeliveryInv'
  <1> SUFFICES ASSUME DeliveryInv, [Next]_vars PROVE DeliveryInv'
    OBVIOUS
  <1>1. CASE UNCHANGED vars
    BY <1>1 DEF vars, DeliveryInv, Typed, SlotStates, SlotsTell, ReaderInv, StoreInv, Within
  <1>. QED
    BY <1>1, WriteKeeps, ReadKeeps, SlotsKeep, LossKeeps, ReloadKeeps, RestartKeeps DEF Next
---------------------------------------------------------------------------
(* A line is copied only with a cause.  The copies of a line are counted   *)
(* wherever they may come from: delivered, in a batch that will be sent,   *)
(* with the batcher, and in the part of the file still to be read.         *)

One(P) == IF P THEN 1 ELSE 0
Held(s, l) == l \in slot[s].lines /\ slot[s].at \notin {"free", "accepted"}
Waiting(l) == {s \in Slots : Held(s, l)}
Copies(l) ==
    delivered[l] + Cardinality(Waiting(l)) + One(l \in building) + One(l >= NextLine)

CopiesInv ==
    \A l \in Lines : IsFiniteSet(Waiting(l)) /\ Copies(l) <= 1 + failures + restarts

LEMMA CopiesBound ==
  ASSUME DeliveryInv, CopiesInv
  PROVE  DuplicatesHaveCauses
  <1> SUFFICES ASSUME NEW l \in Lines PROVE delivered[l] <= 1 + failures + restarts
    BY DEF DuplicatesHaveCauses
  <1>1. Cardinality(Waiting(l)) \in Nat
    BY FS_CardinalityType DEF CopiesInv
  <1>2. delivered[l] \in Nat /\ failures \in Nat /\ restarts \in Nat
    BY DEF DeliveryInv, Typed
  <1>3. One(l \in building) \in Nat /\ One(l >= NextLine) \in Nat
    BY DEF One
  <1>4. Copies(l) <= 1 + failures + restarts
    BY DEF CopiesInv
  <1> DEFINE c == Cardinality(Waiting(l))
             b == One(l \in building)
             r == One(l >= NextLine)
  <1>5. delivered[l] + c + b + r <= 1 + failures + restarts
    BY <1>4 DEF Copies
  <1>6. c \in Nat /\ b \in Nat /\ r \in Nat
    BY <1>1, <1>3
  <1> HIDE DEF c, b, r
  <1>. QED
    BY <1>2, <1>5, <1>6

LEMMA InitCopies ==
  ASSUME Init
  PROVE  CopiesInv
  <1> SUFFICES ASSUME NEW l \in Lines
               PROVE  IsFiniteSet(Waiting(l)) /\ Copies(l) <= 1 + failures + restarts
    BY DEF CopiesInv
  <1>1. Waiting(l) = {}
    BY DEF Init, Waiting, Held, Free
  <1>2. IsFiniteSet(Waiting(l)) /\ Cardinality(Waiting(l)) = 0
    BY <1>1, FS_EmptySet
  <1>3. delivered[l] = 0 /\ failures = 0 /\ restarts = 0 /\ One(l \in building) = 0
    BY DEF Init, One
  <1>4. One(l >= NextLine) \in 0 .. 1
    BY DEF One
  <1>. QED
    BY <1>2, <1>3, <1>4 DEF Copies

\* When one slot changes, the set of the slots that wait with a line changes by it.
LEMMA WaitingMoves ==
  ASSUME NEW l, NEW s \in Slots, \A u \in Slots : u # s => slot'[u] = slot[u],
         IsFiniteSet(Waiting(l))
  PROVE  /\ IsFiniteSet(Waiting(l)')
         /\ Cardinality(Waiting(l)') \in Nat /\ Cardinality(Waiting(l)) \in Nat
         /\ Cardinality(Waiting(l)') + One(Held(s, l))
                = Cardinality(Waiting(l)) + One(Held(s, l)')
  <1> DEFINE W == Waiting(l)
             V == Waiting(l)'
             R == W \ {s}
  <1>1. R = V \ {s}
    BY DEF Waiting, Held
  <1>2. (s \in W <=> Held(s, l)) /\ (s \in V <=> Held(s, l)')
    BY DEF Waiting
  <1>3. IsFiniteSet(W)
    OBVIOUS
  <1> HIDE DEF W, V
  <1>4. /\ IsFiniteSet(R) /\ Cardinality(R) = IF s \in W THEN Cardinality(W) - 1 ELSE Cardinality(W)
    BY <1>3, FS_RemoveElement
  <1>5. V = R \/ V = R \cup {s}
    BY <1>1
  <1>6. IsFiniteSet(V)
    <2>1. IsFiniteSet(R \cup {s})
      BY <1>4, FS_AddElement
    <2>. QED
      BY <1>4, <1>5, <2>1
  <1>7. Cardinality(R) = IF s \in V THEN Cardinality(V) - 1 ELSE Cardinality(V)
    BY <1>1, <1>6, FS_RemoveElement
  <1>8. Cardinality(W) \in Nat /\ Cardinality(V) \in Nat
    BY <1>3, <1>6, FS_CardinalityType
  <1>9. Cardinality(V) + One(s \in W) = Cardinality(W) + One(s \in V)
    BY <1>4, <1>7, <1>8 DEF One
  <1>10. One(s \in W) = One(Held(s, l)) /\ One(s \in V) = One(Held(s, l)')
    BY <1>2 DEF One
  <1>. QED
    BY <1>6, <1>8, <1>9, <1>10 DEF W, V

\* An action that moves one slot on: what the slot and the deliveries gain
\* of a line is paid for by a failure.
LEMMA SlotCopies ==
  ASSUME DeliveryInv, CopiesInv, DeliveryInv', NEW s \in Slots,
         \A u \in Slots : u # s => slot'[u] = slot[u],
         offsets' = offsets, restarts' = restarts,
         \A l \in Lines :
            delivered'[l] + One(Held(s, l)') + One(l \in building') + failures
                <= delivered[l] + One(Held(s, l)) + One(l \in building) + failures'
  PROVE  CopiesInv'
  <1> SUFFICES ASSUME NEW l \in Lines
               PROVE  IsFiniteSet(Waiting(l)') /\ Copies(l)' <= 1 + failures' + restarts'
    BY DEF CopiesInv
  <1>1. IsFiniteSet(Waiting(l)) /\ Copies(l) <= 1 + failures + restarts
    BY DEF CopiesInv
  <1> DEFINE w == Cardinality(Waiting(l))
             v == Cardinality(Waiting(l)')
             h == One(Held(s, l))
             g == One(Held(s, l)')
             b == One(l \in building)
             a == One(l \in building')
             r == One(l >= NextLine)
  <1>2. IsFiniteSet(Waiting(l)') /\ v \in Nat /\ w \in Nat /\ v + h = w + g
    BY <1>1, WaitingMoves
  <1>3. h \in Nat /\ g \in Nat /\ b \in Nat /\ a \in Nat /\ r \in Nat
    BY DEF One
  <1>4. One(l >= NextLine)' = r
    BY DEF NextLine, One
  <1>5. Copies(l) = delivered[l] + w + b + r /\ Copies(l)' = delivered'[l] + v + a + r
    BY <1>4 DEF Copies, One
  <1>6. delivered'[l] + g + a + failures <= delivered[l] + h + b + failures'
    OBVIOUS
  <1>7. /\ delivered[l] \in Nat /\ delivered'[l] \in Nat /\ failures \in Nat
        /\ failures' \in Nat /\ restarts \in Nat
    BY DEF DeliveryInv, Typed
  <1> HIDE DEF w, v, h, g, b, a, r
  <1>8. delivered'[l] + v + a + r <= 1 + failures' + restarts
    BY <1>1, <1>2, <1>3, <1>5, <1>6, <1>7
  <1>. QED
    BY <1>2, <1>5, <1>8

\* What the actions of one slot do: the other slots stay, and a line gains a
\* copy only for a failure.
Paid(s) ==
    /\ \A u \in Slots : u # s => slot'[u] = slot[u]
    /\ offsets' = offsets /\ restarts' = restarts
    /\ \A l \in Lines :
          delivered'[l] + One(Held(s, l)') + One(l \in building') + failures
              <= delivered[l] + One(Held(s, l)) + One(l \in building) + failures'

LEMMA SlotsPay ==
  ASSUME DeliveryInv, NEW s \in Slots, Progress(s) \/ RequestFails(s) \/ GiveUp(s)
  PROVE  Paid(s)
  <1>1. /\ slot[s].lines \in SUBSET (1 .. written) /\ slot[s].at \in Places
        /\ slot[s].live \in BOOLEAN /\ slot[s] \in SlotStates
        /\ delivered \in [Lines -> Nat] /\ failures \in Nat
        /\ building \in SUBSET (1 .. written)
    BY SlotTyped DEF DeliveryInv, Typed
  <1>2. Free \in SlotStates /\ Free.at = "free"
    BY DEF Free, SlotStates, Places
  <1> DEFINE Goes(b) ==
        /\ Becomes(s, b) /\ b \in SlotStates
        /\ offsets' = offsets /\ restarts' = restarts
        /\ \A l \in Lines :
              delivered'[l] + One(l \in b.lines /\ b.at \notin {"free", "accepted"})
                      + One(l \in building') + failures
                  <= delivered[l] + One(Held(s, l)) + One(l \in building) + failures'
  <1>3. ASSUME NEW b, Goes(b) PROVE Paid(s)
    <2>1. /\ slot'[s] = b /\ \A u \in Slots : u # s => slot'[u] = slot[u]
      BY <1>3, OneSlot DEF DeliveryInv
    <2>2. \A l \in Lines : Held(s, l)' <=> l \in b.lines /\ b.at \notin {"free", "accepted"}
      BY <2>1 DEF Held
    <2>3. \A l \in Lines : One(Held(s, l)') = One(l \in b.lines /\ b.at \notin {"free", "accepted"})
      BY <2>2 DEF One
    <2>. QED
      BY <1>3, <2>1, <2>3 DEF Paid
  <1>4. \A P : One(P) \in 0 .. 1
    BY DEF One
  <1>5. CASE CutBatch(s)
    <2> DEFINE b == Batch("ready", building, FALSE)
    <2>1. b \in SlotStates /\ b.at = "ready" /\ b.lines = building
      <3>1. "ready" \in Places /\ building \in SUBSET (1 .. written) /\ FALSE \in BOOLEAN
        BY <1>1 DEF Places
      <3>. QED
        BY <3>1, BatchTyped
    <2>2. /\ Becomes(s, b) /\ building' = {} /\ slot[s] = Free
          /\ UNCHANGED <<offsets, restarts, delivered, failures>>
      BY <1>5 DEF CutBatch, counters
    <2> HIDE DEF b
    <2>3. ASSUME NEW l \in Lines
          PROVE  delivered'[l] + One(l \in b.lines /\ b.at \notin {"free", "accepted"})
                      + One(l \in building') + failures
                  <= delivered[l] + One(Held(s, l)) + One(l \in building) + failures'
      BY <1>1, <1>2, <2>1, <2>2 DEF One, Held
    <2>4. Goes(b)
      BY <2>1, <2>2, <2>3
    <2>. QED
      BY <1>3, <2>4
  <1>6. CASE Stage(s) \/ Spill(s) \/ TakeStored(s)
    <2>1. PICK at \in {"staged", "stored", "ready"}, live \in BOOLEAN :
             Becomes(s, Batch(at, slot[s].lines, live))
      BY <1>6 DEF Stage, Spill, TakeStored
    <2> DEFINE b == Batch(at, slot[s].lines, live)
    <2>2. b \in SlotStates /\ b.at = at /\ b.lines = slot[s].lines
      BY <1>1, BatchTyped DEF Places
    <2>3. /\ slot[s].at \notin {"free", "accepted"}
          /\ UNCHANGED <<building, offsets, restarts, delivered, failures>>
      BY <1>6 DEF Stage, Spill, TakeStored, counters
    <2>4. Becomes(s, b)
      BY <2>1
    <2> HIDE DEF b
    <2>5. ASSUME NEW l \in Lines
          PROVE  delivered'[l] + One(l \in b.lines /\ b.at \notin {"free", "accepted"})
                      + One(l \in building') + failures
                  <= delivered[l] + One(Held(s, l)) + One(l \in building) + failures'
      BY <1>1, <2>2, <2>3 DEF One, Held
    <2>6. Goes(b)
      BY <2>2, <2>3, <2>4, <2>5
    <2>. QED
      BY <1>3, <2>6
  <1>7. CASE RequestFails(s)
    <2> DEFINE b == Batch("spilling", slot[s].lines, FALSE)
    <2>1. b \in SlotStates /\ b.at = "spilling" /\ b.lines = slot[s].lines
      BY <1>1, BatchTyped DEF Places
    <2>2. /\ Becomes(s, b) /\ failures' = failures + 1
          /\ UNCHANGED <<building, offsets, restarts, delivered>>
      BY <1>7 DEF RequestFails
    <2> HIDE DEF b
    <2>3. ASSUME NEW l \in Lines
          PROVE  delivered'[l] + One(l \in b.lines /\ b.at \notin {"free", "accepted"})
                      + One(l \in building') + failures
                  <= delivered[l] + One(Held(s, l)) + One(l \in building) + failures'
      BY <1>1, <2>1, <2>2 DEF One
    <2>4. Goes(b)
      BY <2>1, <2>2, <2>3
    <2>. QED
      BY <1>3, <2>4
  <1>8. CASE GiveUp(s) \/ Confirm(s)
    <2>1. /\ Becomes(s, Free) /\ failures' \in {failures, failures + 1}
          /\ UNCHANGED <<building, offsets, restarts, delivered>>
      BY <1>8 DEF GiveUp, Confirm, counters
    <2>2. ASSUME NEW l \in Lines
          PROVE  delivered'[l] + One(l \in Free.lines /\ Free.at \notin {"free", "accepted"})
                      + One(l \in building') + failures
                  <= delivered[l] + One(Held(s, l)) + One(l \in building) + failures'
      BY <1>1, <1>2, <2>1 DEF One
    <2>3. Goes(Free)
      BY <1>2, <2>1, <2>2
    <2>. QED
      BY <1>3, <2>3
  <1>9. CASE ServiceAccepts(s)
    <2> DEFINE b == [slot[s] EXCEPT !.at = "accepted"]
    <2>1. b \in SlotStates /\ b.at = "accepted"
      BY <1>1 DEF SlotStates, Places
    <2>2. /\ Becomes(s, b) /\ slot[s].at = "staged"
          /\ UNCHANGED <<building, offsets, restarts, failures>>
          /\ delivered' = [l \in Lines |-> IF l \in slot[s].lines THEN delivered[l] + 1
                                          ELSE delivered[l]]
      BY <1>9 DEF ServiceAccepts, counters
    <2> HIDE DEF b
    <2>3. ASSUME NEW l \in Lines
          PROVE  delivered'[l] + One(l \in b.lines /\ b.at \notin {"free", "accepted"})
                      + One(l \in building') + failures
                  <= delivered[l] + One(Held(s, l)) + One(l \in building) + failures'
      BY <1>1, <2>1, <2>2 DEF One, Held
    <2>4. Goes(b)
      BY <2>1, <2>2, <2>3
    <2>. QED
      BY <1>3, <2>4
  <1>. QED
    BY <1>5, <1>6, <1>7, <1>8, <1>9 DEF Progress

LEMMA ReadCopies ==
  ASSUME DeliveryInv, CopiesInv, ReadLine
  PROVE  CopiesInv'
  <1> SUFFICES ASSUME NEW l \in Lines
               PROVE  IsFiniteSet(Waiting(l)') /\ Copies(l)' <= 1 + failures' + restarts'
    BY DEF CopiesInv
  <1>1. /\ building' = building \cup {NextLine}
        /\ UNCHANGED <<slot, delivered, failures, restarts>>
    BY DEF ReadLine, counters
  <1>2. NextLine' = NextLine + 1 /\ NextLine \in Nat
    BY ReadKeeps, NextLineBound
  <1>3. Waiting(l)' = Waiting(l)
    BY <1>1 DEF Waiting, Held
  <1>4. IsFiniteSet(Waiting(l)) /\ Copies(l) <= 1 + failures + restarts
    BY DEF CopiesInv
  <1> DEFINE n == NextLine
             w == Cardinality(Waiting(l))
  <1>5. w \in Nat
    BY <1>4, FS_CardinalityType
  <1>6. delivered[l] \in Nat /\ failures \in Nat /\ restarts \in Nat /\ l \in Nat
    BY DEF DeliveryInv, Typed, Lines
  <1>7. /\ Copies(l) = delivered[l] + w + One(l \in building) + One(l >= n)
        /\ Copies(l)' = delivered[l] + w + One(l \in building \cup {n}) + One(l >= n + 1)
    BY <1>1, <1>2, <1>3 DEF Copies
  <1>8. n \in Nat
    BY <1>2
  <1> HIDE DEF n, w
  <1>9. One(l \in building \cup {n}) + One(l >= n + 1) <= One(l \in building) + One(l >= n)
    BY <1>6, <1>8 DEF One
  <1> DEFINE a == One(l \in building \cup {n}) + One(l >= n + 1)
             b == One(l \in building) + One(l >= n)
  <1>10. a \in Nat /\ b \in Nat /\ a <= b
    BY <1>9 DEF One
  <1>11. Copies(l) = delivered[l] + w + b /\ Copies(l)' = delivered[l] + w + a
    BY <1>5, <1>6, <1>7 DEF One
  <1> HIDE DEF a, b
  <1>. QED
    BY <1>1, <1>3, <1>4, <1>5, <1>6, <1>10, <1>11

\* Lines that wait after a restart waited before it, and the file may be read again.
LEMMA RestartCopies ==
  ASSUME DeliveryInv, CopiesInv, Restart
  PROVE  CopiesInv'
  <1> SUFFICES ASSUME NEW l \in Lines
               PROVE  IsFiniteSet(Waiting(l)') /\ Copies(l)' <= 1 + failures' + restarts'
    BY DEF CopiesInv
  <1>1. /\ building' = {} /\ restarts' = restarts + 1 /\ UNCHANGED <<delivered, failures>>
        /\ slot' = [s \in Slots |-> IF slot[s].at = "stored" THEN slot[s] ELSE Free]
    BY DEF Restart
  <1>2. Waiting(l)' \subseteq Waiting(l)
    BY <1>1 DEF Waiting, Held, Free
  <1>3. IsFiniteSet(Waiting(l)) /\ Copies(l) <= 1 + failures + restarts
    BY DEF CopiesInv
  <1> DEFINE w == Cardinality(Waiting(l))
             v == Cardinality(Waiting(l)')
             b == One(l \in building)
             r == One(l >= NextLine)
             t == One(l >= NextLine)'
  <1>4. IsFiniteSet(Waiting(l)') /\ v <= w /\ v \in Nat /\ w \in Nat
    BY <1>2, <1>3, FS_Subset, FS_CardinalityType
  <1>5. b \in 0 .. 1 /\ r \in 0 .. 1 /\ t \in 0 .. 1 /\ One(l \in building') = 0
    BY <1>1 DEF One
  <1>6. delivered[l] \in Nat /\ failures \in Nat /\ restarts \in Nat
    BY DEF DeliveryInv, Typed
  <1>7. Copies(l) = delivered[l] + w + b + r
    BY DEF Copies
  <1>8. Copies(l)' = delivered[l] + v + 0 + t
    BY <1>1, <1>5 DEF Copies, One
  <1> HIDE DEF w, v, b, r, t
  <1>. QED
    BY <1>1, <1>3, <1>4, <1>5, <1>6, <1>7, <1>8

\* A batch that is lost leaves fewer copies of its lines.
LEMMA LossCopies ==
  ASSUME DeliveryInv, CopiesInv, LoseBatch
  PROVE  CopiesInv'
  <1> SUFFICES ASSUME NEW l \in Lines
               PROVE  IsFiniteSet(Waiting(l)') /\ Copies(l)' <= 1 + failures' + restarts'
    BY DEF CopiesInv
  <1>1. /\ building' = {} /\ failures' = failures + 1
        /\ UNCHANGED <<offsets, slot, delivered, restarts>>
    BY DEF LoseBatch
  <1>2. IsFiniteSet(Waiting(l)) /\ Copies(l) <= 1 + failures + restarts
    BY DEF CopiesInv
  <1>3. Waiting(l)' = Waiting(l)
    BY <1>1 DEF Waiting, Held
  <1> DEFINE w == Cardinality(Waiting(l))
             b == One(l \in building)
             r == One(l >= NextLine)
  <1>4. w \in Nat /\ b \in Nat /\ r \in Nat
    BY <1>2, FS_CardinalityType DEF One
  <1>5. Copies(l) = delivered[l] + w + b + r /\ Copies(l)' = delivered[l] + w + 0 + r
    BY <1>1, <1>3 DEF Copies, NextLine, One
  <1>6. delivered[l] \in Nat /\ failures \in Nat /\ restarts \in Nat
    BY DEF DeliveryInv, Typed
  <1> HIDE DEF w, b, r
  <1>. QED
    BY <1>1, <1>2, <1>3, <1>4, <1>5, <1>6

LEMMA CopiesKept == DeliveryInv /\ CopiesInv /\ [Next]_vars => CopiesInv'
  <1> SUFFICES ASSUME DeliveryInv, CopiesInv, [Next]_vars PROVE CopiesInv'
    OBVIOUS
  <1>1. CASE UNCHANGED vars \/ WriteLine
    <2>1. UNCHANGED <<offsets, building, slot, delivered, failures, restarts>>
      BY <1>1 DEF vars, WriteLine, counters
    <2>2. \A l \in Lines : Waiting(l)' = Waiting(l) /\ Copies(l)' = Copies(l)
      BY <2>1 DEF Waiting, Held, Copies, NextLine, One
    <2>. QED
      BY <2>1, <2>2 DEF CopiesInv
  <1>2. CASE Reload
    <2>1. UNCHANGED <<building, delivered, failures, restarts>>
      BY <1>2 DEF Reload
    <2>2. offsets' = offsets
          /\ \A s \in Slots : slot'[s].at = slot[s].at /\ slot'[s].lines = slot[s].lines
      BY <1>2, ReloadKeeps
    <2>3. \A l \in Lines : Waiting(l)' = Waiting(l)
      BY <2>2 DEF Waiting, Held
    <2>4. \A l \in Lines : Copies(l)' = Copies(l)
      BY <2>1, <2>2, <2>3 DEF Copies, NextLine, One
    <2>. QED
      BY <2>1, <2>3, <2>4 DEF CopiesInv
  <1>3. ASSUME NEW s \in Slots, Progress(s) \/ RequestFails(s) \/ GiveUp(s) PROVE CopiesInv'
    <2>1. Paid(s)
      BY <1>3, SlotsPay
    <2>2. DeliveryInv'
      BY <1>3, SlotsKeep
    <2>. QED
      BY <2>1, <2>2, SlotCopies DEF Paid
  <1>. QED
    BY <1>1, <1>2, <1>3, ReadCopies, LossCopies, RestartCopies DEF Next

(* A line reaches the service at most once more than there were failed     *)
(* requests and restarts of the process, whatever the batches, the order   *)
(* of the answers and the reloads of the tailer (Client::send, the retry   *)
(* directory and the offsets that RestartingTailer hands on).              *)
THEOREM RepeatsHaveCauses == Spec => []DuplicatesHaveCauses
  <1>1. DeliveryInv /\ CopiesInv => DuplicatesHaveCauses
    BY CopiesBound
  <1>2. Init => DeliveryInv /\ CopiesInv
    BY InitDelivery, InitCopies
  <1>. QED
    BY <1>1, <1>2, DeliveryKept, CopiesKept, PTL DEF Spec
---------------------------------------------------------------------------
(* The composition keeps the promise: each of its steps is a step of       *)
(* DeliveryPromise, or leaves the status of every line as it was.          *)

Statuses == {"absent", "owed", "delivered", "forfeited"}
StatusKept(l) == Status(l)' = Status(l)
Stays(l) ==
    /\ delivered'[l] = delivered[l]
    /\ InHand(l)' <=> InHand(l)

\* The status of a line hangs on its deliveries, on who holds it and on the reader.
LEMMA SameStatus ==
  ASSUME NEW l, written' = written, offsets' = offsets, Stays(l)
  PROVE  StatusKept(l)
  BY DEF StatusKept, Stays, Status, Skipped, NextLine

LEMMA StatusTyped ==
  ASSUME NEW l
  PROVE  Status(l) \in Statuses /\ Status(l)' \in Statuses
  BY DEF Status, Statuses

\* Only the slot that moves decides whether a line is still in hand.
LEMMA HandMoves ==
  ASSUME NEW s \in Slots, \A u \in Slots : u # s => slot'[u] = slot[u],
         slot'[s].lines = slot[s].lines, building' = building, NEW l
  PROVE  InHand(l)' <=> InHand(l)
  <1>1. \A u \in Slots : slot'[u].lines = slot[u].lines
    OBVIOUS
  <1>. QED
    BY <1>1 DEF InHand

\* When nothing of a line changes, neither does its status in the abstraction.
LEMMA Stutters ==
  ASSUME \A l \in Lines : StatusKept(l), UNCHANGED <<restarts, drops>>
  PROVE  UNCHANGED Promise!vars
  <1>1. [l \in Lines |-> Status(l)]' = [l \in Lines |-> Status(l)]
    BY DEF StatusKept
  <1>. QED
    BY <1>1 DEF Promise!vars

LEMMA WriteRefines ==
  ASSUME DeliveryInv, WriteLine
  PROVE  Promise!Next
  <1>0. written + 1 \in Nat
    BY DEF DeliveryInv, Typed
  <1> PICK n \in Nat : n = written + 1
    BY <1>0
  <1>1. /\ written \in Nat /\ n \in Lines /\ written' = n /\ n = written + 1
        /\ UNCHANGED <<offsets, building, slot, delivered, restarts, drops>>
    BY DeliveryAssumption DEF DeliveryInv, Typed, WriteLine, counters, Lines
  <1>2. delivered[n] = 0
    BY <1>1 DEF DeliveryInv, SlotsTell
  <1>3. NextLine \in Nat /\ NextLine <= n
    BY NextLineBound
  <1>4. Status(n) = "absent"
    BY <1>1 DEF Status
  <1>5. ~ Skipped(n)' /\ delivered'[n] = 0
    <2>1. NextLine' = NextLine
      BY <1>1 DEF NextLine
    <2>2. ~ (n < NextLine)
      BY <1>1, <1>3
    <2>. QED
      BY <1>1, <1>2, <2>1, <2>2 DEF Skipped
  <1>6. Status(n)' = "owed"
    <2>1. ~ (n > written')
      BY <1>1
    <2>2. ~ (delivered'[n] > 0)
      BY <1>5
    <2>. QED
      BY <1>5, <2>1, <2>2 DEF Status
  <1>7. \A k \in 1 .. n - 1 : Status(k) # "absent"
    <2>1. \A k \in 1 .. n - 1 : ~ (k > written)
      BY <1>1
    <2>. QED
      BY <2>1 DEF Status
  <1>8. ASSUME NEW l \in Lines, l # n PROVE Status(l)' = Status(l)
    <2>1. l > written' <=> l > written
      BY <1>1, <1>8 DEF Lines
    <2>2. Skipped(l)' <=> Skipped(l)
      BY <1>1 DEF Skipped, NextLine, InHand
    <2>. QED
      BY <1>1, <2>1, <2>2 DEF Status
  <1> DEFINE st == [l \in Lines |-> Status(l)]
             tt == [l \in Lines |-> Status(l)']
  <1>9. tt = [st EXCEPT ![n] = "owed"]
    <2>1. ASSUME NEW l \in Lines PROVE tt[l] = IF l = n THEN "owed" ELSE st[l]
      BY <1>6, <1>8
    <2>. QED
      BY <2>1
  <1>10. st[n] = "absent" /\ \A k \in 1 .. n - 1 : st[k] # "absent"
    <2>1. \A k \in 1 .. n - 1 : k \in Lines
      BY <1>1, DeliveryAssumption DEF Lines
    <2>. QED
      BY <1>1, <1>4, <1>7, <2>1
  <1>11. Promise!Write(n)
    BY <1>1, <1>9, <1>10 DEF Promise!Write
  <1>. QED
    BY <1>1, <1>11 DEF Promise!Next, Promise!Lines, Lines

\* Typing of the two mapped states, for the steps that change more than one line.
LEMMA Mapped ==
  LET st == [l \in Lines |-> Status(l)]
      tt == [l \in Lines |-> Status(l)']
  IN  /\ tt \in [Promise!Lines -> Statuses]
      /\ \A l \in Promise!Lines : st[l] = Status(l) /\ tt[l] = Status(l)'
  BY StatusTyped DEF Promise!Lines, Lines

\* The service accepts a batch: its lines were owed, those that had not arrived before.
LEMMA DeliverRefines ==
  ASSUME DeliveryInv, NEW s \in Slots, ServiceAccepts(s)
  PROVE  Promise!Next
  <1> DEFINE b == [slot[s] EXCEPT !.at = "accepted"]
  <1>1. /\ slot[s] \in SlotStates /\ slot[s].lines \in SUBSET (1 .. written)
        /\ delivered \in [Lines -> Nat] /\ written \in Nat
    BY SlotTyped
  <1>2. b \in SlotStates /\ b.lines = slot[s].lines
    BY <1>1 DEF SlotStates, Places
  <1>3. /\ Becomes(s, b)
        /\ UNCHANGED <<written, offsets, building, restarts, drops>>
        /\ delivered' = [l \in Lines |-> IF l \in slot[s].lines THEN delivered[l] + 1
                                        ELSE delivered[l]]
    BY DEF ServiceAccepts, counters
  <1> HIDE DEF b
  <1>4. /\ slot'[s].lines = slot[s].lines /\ \A u \in Slots : u # s => slot'[u] = slot[u]
    BY <1>2, <1>3, OneSlot DEF DeliveryInv
  <1>5. ASSUME NEW l \in Lines, l \notin slot[s].lines PROVE Status(l)' = Status(l)
    <2>1. delivered'[l] = delivered[l]
      BY <1>3, <1>5
    <2>2. InHand(l)' <=> InHand(l)
      BY <1>3, <1>4, HandMoves
    <2>. QED
      BY <1>3, <2>1, <2>2, SameStatus DEF Stays, StatusKept
  <1>6. ASSUME NEW l \in Lines, l \in slot[s].lines
        PROVE  Status(l)' = "delivered" /\ Status(l) \in {"owed", "delivered"}
    <2>1. ~ (l > written) /\ ~ (l > written')
      BY <1>1, <1>3, <1>6
    <2>2. delivered[l] \in Nat /\ delivered'[l] = delivered[l] + 1
      BY <1>1, <1>3, <1>6
    <2>3. delivered'[l] > 0
      BY <2>2
    <2>4. ~ Skipped(l)
      BY <1>6 DEF Skipped, InHand
    <2>. QED
      BY <2>1, <2>3, <2>4 DEF Status
  <1> DEFINE st == [l \in Lines |-> Status(l)]
             tt == [l \in Lines |-> Status(l)']
  <1>7. /\ tt \in [Promise!Lines -> Statuses]
        /\ \A l \in Promise!Lines : st[l] = Status(l) /\ tt[l] = Status(l)'
    BY Mapped
  <1>8. \A l \in Promise!Lines : tt[l] # st[l] => st[l] = "owed" /\ tt[l] = "delivered"
    BY <1>5, <1>6, <1>7 DEF Promise!Lines, Lines
  <1>9. UNCHANGED <<restarts, drops>>
    BY <1>3
  <1>10. Promise!Deliver
    BY <1>7, <1>8, <1>9 DEF Promise!Deliver, Promise!StatusChanges, Promise!Changes, Statuses
  <1>. QED
    BY <1>10 DEF Promise!Next

\* What an interruption can do to a line: nothing that was not written or not delivered changes.
LEMMA Interrupted ==
  ASSUME DeliveryInv, UNCHANGED <<written, delivered>>, restarts' + drops' = restarts + drops + 1
  PROVE  Promise!Next
  <1>1. ASSUME NEW l \in Lines, Status(l)' # Status(l)
        PROVE  {Status(l), Status(l)'} = {"owed", "forfeited"}
    BY <1>1 DEF Status
  <1> DEFINE st == [l \in Lines |-> Status(l)]
             tt == [l \in Lines |-> Status(l)']
  <1>2. /\ tt \in [Promise!Lines -> Statuses]
        /\ \A l \in Promise!Lines : st[l] = Status(l) /\ tt[l] = Status(l)'
    BY Mapped
  <1>3. \A l \in Promise!Lines : tt[l] # st[l] => {st[l], tt[l]} = {"owed", "forfeited"}
    BY <1>1, <1>2 DEF Promise!Lines, Lines
  <1>4. Promise!Interrupt
    BY <1>2, <1>3 DEF Promise!Interrupt, Promise!StatusChanges, Promise!Changes, Statuses
  <1>. QED
    BY <1>4 DEF Promise!Next

LEMMA RestartRefines ==
  ASSUME DeliveryInv, Restart
  PROVE  Promise!Next
  <1>1. /\ UNCHANGED <<written, delivered, drops>> /\ restarts' = restarts + 1
        /\ restarts \in Nat /\ drops \in Nat
    BY DEF Restart, DeliveryInv, Typed
  <1>2. restarts' + drops' = restarts + drops + 1
    BY <1>1
  <1>. QED
    BY <1>1, <1>2, Interrupted

LEMMA GiveUpRefines ==
  ASSUME DeliveryInv, NEW s \in Slots, GiveUp(s)
  PROVE  Promise!Next
  <1>1. /\ UNCHANGED <<written, delivered, restarts>> /\ drops' = drops + 1
        /\ restarts \in Nat /\ drops \in Nat
    BY DEF GiveUp, DeliveryInv, Typed
  <1>2. restarts' + drops' = restarts + drops + 1
    BY <1>1
  <1>. QED
    BY <1>1, <1>2, Interrupted

LEMMA LossRefines ==
  ASSUME DeliveryInv, LoseBatch
  PROVE  Promise!Next
  <1>1. /\ UNCHANGED <<written, delivered, restarts>> /\ drops' = drops + 1
        /\ restarts \in Nat /\ drops \in Nat
    BY DEF LoseBatch, DeliveryInv, Typed
  <1>2. restarts' + drops' = restarts + drops + 1
    BY <1>1
  <1>. QED
    BY <1>1, <1>2, Interrupted

\* The line that is read goes from the file to the batcher.
LEMMA ReadStutters ==
  ASSUME DeliveryInv, ReadLine
  PROVE  UNCHANGED Promise!vars
  <1>1. NextLine \in Nat /\ NextLine' = NextLine + 1
    BY NextLineBound, ReadKeeps
  <1>2. /\ building' = building \cup {NextLine}
        /\ UNCHANGED <<written, slot, delivered, restarts, drops>>
    BY DEF ReadLine, counters
  <1> PICK n \in Nat : n = NextLine
    BY <1>1
  <1>3. ASSUME NEW l \in Lines PROVE StatusKept(l)
    <2>1. l \in Nat
      BY DEF Lines
    <2>2. InHand(l)' <=> (InHand(l) \/ l = n)
      BY <1>2 DEF InHand
    <2>3. l < NextLine' <=> (l < NextLine \/ l = n)
      BY <1>1, <2>1
    <2>4. Skipped(l)' <=> delivered[l] = 0 /\ (l < NextLine \/ l = n) /\ ~ (InHand(l) \/ l = n)
      BY <1>2, <2>2, <2>3 DEF Skipped
    <2>5. l = n => ~ (l < NextLine)
      BY <2>1
    <2>6. Skipped(l)' <=> Skipped(l)
      BY <2>4, <2>5 DEF Skipped
    <2>. QED
      BY <1>2, <2>6 DEF StatusKept, Status
  <1>. QED
    BY <1>2, <1>3, Stutters

LEMMA ReloadStutters ==
  ASSUME DeliveryInv, Reload
  PROVE  UNCHANGED Promise!vars
  <1>1. UNCHANGED <<written, building, delivered, restarts, drops>>
    BY DEF Reload
  <1>2. offsets' = offsets /\ \A s \in Slots : slot'[s].lines = slot[s].lines
    BY ReloadKeeps
  <1>3. \A l \in Lines : Stays(l)
    BY <1>1, <1>2 DEF Stays, InHand
  <1>4. \A l \in Lines : StatusKept(l)
    BY <1>1, <1>2, <1>3, SameStatus
  <1>. QED
    BY <1>1, <1>4, Stutters

\* A batch that is cut holds what the batcher held.
LEMMA CutStutters ==
  ASSUME DeliveryInv, NEW s \in Slots, CutBatch(s)
  PROVE  UNCHANGED Promise!vars
  <1>1. /\ Becomes(s, Batch("ready", building, FALSE)) /\ building' = {} /\ slot[s] = Free
        /\ UNCHANGED <<written, offsets, delivered, restarts, drops>>
    BY DEF CutBatch, counters
  <1>2. /\ slot'[s] = Batch("ready", building, FALSE)
        /\ \A u \in Slots : u # s => slot'[u] = slot[u]
    BY <1>1 DEF Becomes, DeliveryInv, Typed
  <1>3. slot'[s].lines = building /\ slot[s].lines = {}
    BY <1>1, <1>2 DEF Batch, Free
  <1>4. ASSUME NEW l \in Lines PROVE Stays(l)
    BY <1>1, <1>2, <1>3 DEF Stays, InHand
  <1>5. \A l \in Lines : StatusKept(l)
    BY <1>1, <1>4, SameStatus
  <1>. QED
    BY <1>1, <1>5, Stutters

\* The lines of a batch that moves on stay in hand.
LEMMA MoveStutters ==
  ASSUME DeliveryInv, NEW s \in Slots,
         Stage(s) \/ Spill(s) \/ TakeStored(s) \/ RequestFails(s)
  PROVE  UNCHANGED Promise!vars
  <1>1. UNCHANGED <<written, offsets, building, delivered, restarts, drops>>
    BY DEF Stage, Spill, TakeStored, RequestFails, counters
  <1>2. PICK at \in {"staged", "stored", "ready", "spilling"}, live \in BOOLEAN :
           Becomes(s, Batch(at, slot[s].lines, live))
    BY DEF Stage, Spill, TakeStored, RequestFails
  <1>3. /\ slot'[s] = Batch(at, slot[s].lines, live)
        /\ \A u \in Slots : u # s => slot'[u] = slot[u]
    BY <1>2 DEF Becomes, DeliveryInv, Typed
  <1>4. slot'[s].lines = slot[s].lines
    BY <1>3 DEF Batch
  <1>5. \A l \in Lines : Stays(l)
    BY <1>1, <1>3, <1>4, HandMoves DEF Stays
  <1>6. \A l \in Lines : StatusKept(l)
    BY <1>1, <1>5, SameStatus
  <1>. QED
    BY <1>1, <1>6, Stutters

\* The lines of a batch that is confirmed have been delivered.
LEMMA ConfirmStutters ==
  ASSUME DeliveryInv, NEW s \in Slots, Confirm(s)
  PROVE  UNCHANGED Promise!vars
  <1>1. /\ Becomes(s, Free) /\ slot[s].at = "accepted"
        /\ UNCHANGED <<written, offsets, building, delivered, restarts, drops>>
    BY DEF Confirm, counters
  <1>2. slot'[s] = Free /\ \A u \in Slots : u # s => slot'[u] = slot[u]
    BY <1>1 DEF Becomes, DeliveryInv, Typed
  <1>3. ASSUME NEW l \in Lines PROVE StatusKept(l)
    <2>1. CASE l \in slot[s].lines
      <3>1. delivered[l] > 0 /\ delivered'[l] > 0
        BY <1>1, <2>1 DEF DeliveryInv, SlotsTell
      <3>. QED
        BY <1>1, <3>1 DEF StatusKept, Status
    <2>2. CASE l \notin slot[s].lines
      <3>1. slot'[s].lines = {}
        BY <1>2 DEF Free
      <3>2. \A u \in Slots : l \in slot'[u].lines <=> l \in slot[u].lines
        BY <1>2, <2>2, <3>1
      <3>3. Stays(l)
        BY <1>1, <3>2 DEF Stays, InHand
      <3>. QED
        BY <1>1, <3>3, SameStatus
    <2>. QED
      BY <2>1, <2>2
  <1>. QED
    BY <1>1, <1>3, Stutters

LEMMA StepRefines == DeliveryInv /\ [Next]_vars => [Promise!Next]_(Promise!vars)
  <1> SUFFICES ASSUME DeliveryInv, [Next]_vars PROVE Promise!Next \/ UNCHANGED Promise!vars
    OBVIOUS
  <1>1. CASE UNCHANGED vars
    <2>1. UNCHANGED <<written, offsets, building, slot, delivered, restarts, drops>>
      BY <1>1 DEF vars, counters
    <2>2. \A l \in Lines : Stays(l)
      BY <2>1 DEF Stays, InHand
    <2>3. \A l \in Lines : StatusKept(l)
      BY <2>1, <2>2, SameStatus
    <2>. QED
      BY <2>1, <2>3, Stutters
  <1>2. CASE WriteLine
    BY <1>2, WriteRefines
  <1>3. CASE ReadLine
    BY <1>3, ReadStutters
  <1>4. CASE Reload
    BY <1>4, ReloadStutters
  <1>5. CASE Restart
    BY <1>5, RestartRefines
  <1>6. ASSUME NEW s \in Slots, Progress(s) \/ RequestFails(s) \/ GiveUp(s)
        PROVE  Promise!Next \/ UNCHANGED Promise!vars
    BY <1>6, CutStutters, MoveStutters, DeliverRefines, ConfirmStutters, GiveUpRefines
       DEF Progress
  <1>. QED
    BY <1>1, <1>2, <1>3, <1>4, <1>5, <1>6, LossRefines DEF Next

LEMMA InitRefines ==
  ASSUME Init
  PROVE  Promise!Init
  <1>1. \A l \in Lines : Status(l) = "absent"
    BY DEF Init, Status, Lines
  <1>2. [l \in Lines |-> Status(l)] = [l \in Promise!Lines |-> "absent"]
    BY <1>1 DEF Promise!Lines, Lines
  <1>3. restarts + drops = 0
    BY DEF Init
  <1>. QED
    BY <1>2, <1>3 DEF Promise!Init

(* The parts that _main.rs connects implement DeliveryPromise: a written   *)
(* line stays owed through reading, batching, sending, failing, retrying   *)
(* and reloading until the service has it, and only a restart or a lost    *)
(* or given up batch can pass over it.                                     *)
THEOREM PromiseIsKept == Spec => PromiseKept
  <1>1. Init => DeliveryInv
    BY InitDelivery
  <1>2. Init => Promise!Init
    BY InitRefines
  <1>. QED
    BY <1>1, <1>2, DeliveryKept, StepRefines, PTL DEF Spec, PromiseKept, Promise!Spec
=============================================================================
