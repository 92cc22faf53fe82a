------------------------------- MODULE SpanVec -------------------------------
(***************************************************************************)
(* The offset bookkeeping type of common/state/src/span.rs: a Span is a    *)
(* half-open range of byte offsets of a tailed file, and a SpanVec is the  *)
(* list of the ranges already handled.  insert() keeps the list ordered by *)
(* `start` and merges a new range with its neighbours; it runs the merge   *)
(* step in a loop whose cursor starts at the insertion point.              *)
(*                                                                         *)
(* Sequences of TLA+ are indexed from 1 and the code's vectors from 0: the *)
(* cursor `idx` below is the code's `insert_idx`, so the code's            *)
(* spans[insert_idx - 1] is spans[idx] here and spans[insert_idx] is       *)
(* spans[idx + 1].                                                         *)
(***************************************************************************)
EXTENDS Integers, FiniteSets, SequencesExt

Span(start, end) == [start |-> start, end |-> end]

(* The spans that fit a file of n bytes and hold at least one byte.        *)
SpansUpTo(n) == {x \in [start : 0..n, end : 0..n] : x.start < x.end}

(* What a span, and a list of spans, stands for: a set of byte offsets.    *)
SpanBytes(x) == x.start .. x.end - 1
Covered(spans) == UNION {SpanBytes(spans[i]) : i \in DOMAIN spans}

(* Faulty variant: the right end always wins.                              *)
HullRightEnd(l, r) == Span(Min({l.start, r.start}), r.end)

Hull(l, r) == Span(Min({l.start, r.start}), Max({l.end, r.end}))

---------------------------------------------------------------------------
(* Merging.  The result of merge_right says what happened to the pair and, *)
(* unless the two stay apart, which span stands for both.                  *)

(* Faulty variant: gaps of two bytes are bridged as well.                  *)
MergeRightWide(l, r) ==
    IF l = r
    THEN [kind |-> "Identity", span |-> l]
    ELSE IF l.start <= r.start /\ l.end + 2 >= r.start
    THEN [kind |-> "Merged", span |-> Hull(l, r)]
    ELSE [kind |-> "UnMerged", span |-> l]

MergeRight(l, r) ==
    IF l = r
    THEN [kind |-> "Identity", span |-> l]
    ELSE IF l.start <= r.start /\ l.end + 1 >= r.start
    THEN [kind |-> "Merged", span |-> Hull(l, r)]
    ELSE [kind |-> "UnMerged", span |-> l]

Merge(l, r) ==
    IF MergeRight(l, r).kind = "UnMerged" /\ MergeRight(r, l).kind = "Merged"
    THEN MergeRight(r, l)
    ELSE MergeRight(l, r)

(* coalesce: the new span against its left neighbour, then what came of it *)
(* against the right one.                                                  *)
Coalesce(elem, left, right) ==
    LET l == MergeRight(left, elem)
        r == MergeRight(IF l.kind = "UnMerged" THEN elem ELSE l.span, right)
    IN  [left |-> l, right |-> r]

---------------------------------------------------------------------------
(* One turn of the merge loop.  The cursor state holds the list, the span  *)
(* being placed, where it goes, and whether the loop has ended; `panic` is *)
(* set when the code would index or remove past the end of the list.       *)

Placing(spans, elem, idx) ==
    [spans |-> spans, elem |-> elem, idx |-> idx, done |-> FALSE, panic |-> FALSE]

Placed(c, spans) == [c EXCEPT !.spans = spans, !.done = TRUE]
MovedOn(c, spans, elem, idx) ==
    [c EXCEPT !.spans = spans, !.elem = elem, !.idx = idx]

(* Window::Pair: the cursor is at an end of the list; l is its neighbour.  *)
PairStep(c, l) ==
    LET m == Merge(c.spans[l], c.elem)
    IN  Placed(c, CASE m.kind = "Identity" -> c.spans
                    [] m.kind = "Merged"   -> ReplaceAt(c.spans, l, m.span)
                    [] m.kind = "UnMerged" -> InsertAt(c.spans, c.idx + 1, c.elem))

(* SpanCoalesced::IdentityOverlap: the two removals of the code, of which  *)
(* the second shifts by one and may run off the list.                      *)
DuplicateStep(c) ==
    LET once == RemoveAt(c.spans, c.idx + 1)
    IN  IF c.idx + 2 > Len(once)
        THEN [c EXCEPT !.panic = TRUE, !.done = TRUE]
        ELSE MovedOn(c, RemoveAt(once, c.idx + 2), c.elem, c.idx + 1)

(* Window::Triple: the cursor is between spans[idx] and spans[idx + 1].    *)
TripleStep(c) ==
    LET i == c.idx
        m == Coalesce(c.elem, c.spans[i], c.spans[i + 1])
        absorbed == RemoveAt(ReplaceAt(c.spans, i, m.right.span), i + 1)
    IN  CASE m.left.kind = "Merged" /\ m.right.kind = "Merged" ->
                MovedOn(c, absorbed, m.right.span, i)
          [] m.left.kind = "Merged" /\ m.right.kind = "UnMerged" ->
                MovedOn(c, ReplaceAt(c.spans, i, m.left.span), m.left.span, i - 1)
          [] m.left.kind = "UnMerged" /\ m.right.kind = "Merged" ->
                MovedOn(c, ReplaceAt(c.spans, i + 1, m.right.span), m.right.span, i)
          [] m.left.kind = "UnMerged" /\ m.right.kind = "UnMerged" ->
                Placed(c, InsertAt(c.spans, i + 1, c.elem))
          [] m.left.kind = "Identity" /\ m.right.kind = "Identity" ->
                DuplicateStep(c)
          [] \/ m.left.kind = "Identity" /\ m.right.kind = "Merged"
             \/ m.left.kind = "Merged" /\ m.right.kind = "Identity" ->
                MovedOn(c, absorbed, m.right.span, i)
          [] OTHER -> Placed(c, c.spans)

InsertStep(c) ==
    CASE c.done -> c
      [] ~c.done /\ c.spans = <<>> -> Placed(c, <<c.elem>>)
      [] ~c.done /\ c.spans # <<>> /\ c.idx = 0 -> PairStep(c, 1)
      [] ~c.done /\ c.spans # <<>> /\ c.idx = Len(c.spans) -> PairStep(c, c.idx)
      [] OTHER -> TripleStep(c)

(* Faulty variant: the place is found by the ends of the spans.            *)
InsertionPointByEnd(spans, elem) ==
    Cardinality({i \in DOMAIN spans : elem.start > spans[i].end})

(* partition_point(|x| elem.start > x.start) of a list ordered by start.   *)
InsertionPoint(spans, elem) ==
    Cardinality({i \in DOMAIN spans : elem.start > spans[i].start})

(* op(x).  TLC evaluates x once here, and at each use in op otherwise.      *)
Eagerly(op(_), x) == CHOOSE y \in {op(v) : v \in {x}} : TRUE

(* The loop, unrolled: every turn but the first two shortens the list, so  *)
(* Len(spans) + 3 turns are enough.                                        *)
InsertRun(spans, elem) ==
    FoldLeftDomain(LAMBDA c, turn : Eagerly(InsertStep, c),
                   Placing(spans, elem, InsertionPoint(spans, elem)),
                   [turn \in 1 .. Len(spans) + 3 |-> turn])

Insert(spans, elem) == InsertRun(spans, elem).spans

(* Inserting every span of a list, as collect() and the flush loop do.     *)
InsertAll(spans, elems) ==
    FoldLeft(LAMBDA v, elem : Eagerly(LAMBDA w : Insert(w, elem), v), spans, elems)

---------------------------------------------------------------------------
(* first_gap: where reading should resume.  An open gap has no end; the    *)
(* code's Option::None is written NoEnd.                                   *)
NoEnd == -1

FirstGap(spans) ==
    IF spans = <<>> THEN Span(0, NoEnd)
    ELSE IF spans[1].start # 0 THEN Span(0, spans[1].start - 1)
    ELSE Span(spans[1].end, IF Len(spans) = 1 THEN NoEnd ELSE spans[2].start - 1)

---------------------------------------------------------------------------
(* contains: one span of the list holds all of x.                          *)
ContainsSpan(spans, x) ==
    \E i \in DOMAIN spans : spans[i].start <= x.start /\ spans[i].end >= x.end

(* partition_point(|s| x.end >= s.start && x.start <= s.end).  The list    *)
(* need not be partitioned that way, so the steps of the library's binary  *)
(* search are what matters: the size halves, the base moves up to the      *)
(* middle when that meets x.                                               *)
MeetingPoint(spans, x) ==
    LET meets(i) == x.end >= spans[i].start /\ x.start <= spans[i].end
        halve(c) == LET half == c.size \div 2
                    IN  [base |-> IF half > 0 /\ meets(c.base + half)
                                  THEN c.base + half ELSE c.base,
                         size |-> c.size - half]
        end == FoldLeft(LAMBDA c, s : halve(c), [base |-> 1, size |-> Len(spans)], spans)
    IN  IF spans = <<>> THEN 0 ELSE end.base - (IF meets(end.base) THEN 0 ELSE 1)

(* remove() walks the list from the element before that point.  For each   *)
(* element: split it, swallow it whole, cut its right or its left end, or, *)
(* at the first that x does not meet, stop.                                *)
RemoveStep(w, x, at, first) ==
    LET s == w.spans[at]
        meets == x.end > s.start
    IN  CASE ~w.stop /\ meets /\ s.start < x.start /\ x.end < s.end ->
                [w EXCEPT !.drain = {at - first}, !.stop = TRUE,
                          !.back = <<Span(s.start, x.start), Span(x.end, s.end)>>]
          [] ~w.stop /\ meets /\ s.start >= x.start /\ x.end >= s.end ->
                [w EXCEPT !.drain = @ \cup {at - first}]
          [] ~w.stop /\ meets /\ s.start < x.start /\ x.end >= s.end ->
                [w EXCEPT !.spans[at].end = x.start - 1]
          [] ~w.stop /\ meets /\ s.start >= x.start /\ x.end < s.end ->
                [w EXCEPT !.spans[at].start = x.end, !.stop = TRUE]
          [] OTHER -> [w EXCEPT !.stop = TRUE]

RemoveWalk(spans, x, first) ==
    FoldLeftDomain(LAMBDA c, at : IF at < first THEN c ELSE RemoveStep(c, x, at, first),
                   [spans |-> spans, drain |-> {}, back |-> <<>>, stop |-> FALSE], spans)

(* The indices to drain count from where the walk began, and are drained   *)
(* from the start of the list; what was split off is put back.             *)
Drained(w) ==
    IF w.drain = {} THEN w.spans
    ELSE InsertAll(SubSeq(w.spans, 1, Min(w.drain))
                       \o SubSeq(w.spans, Max(w.drain) + 2, Len(w.spans)),
                   w.back)

RemoveSpan(spans, x) == Drained(RemoveWalk(spans, x, Max({1, MeetingPoint(spans, x)})))
=============================================================================
