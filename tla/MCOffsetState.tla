---------------------------- MODULE MCOffsetState ----------------------------
(***************************************************************************)
(* OffsetState over real span lists: one file and the batches below.       *)
(* MCAbsorb and MCBytesOf are the operators of SpanVec and MCSpanVecs is   *)
(* every ordered list of spans whose ends are those of the lines of the    *)
(* batches, so TLC checks OffsetStateAssumption about the real insertion.  *)
(***************************************************************************)
EXTENDS OffsetState, TLC

CONSTANTS f1, b1, b2, t1, t2

EmptyList == <<>>

SV == INSTANCE SpanVec

MCAbsorb(v, w) == SV!InsertAll(v, w)
MCBytesOf(v) == SV!Covered(v)

LineSpans == {x \in [start : {0, 3, 6}, end : {2, 4, 7}] : x.start < x.end}
OnePerStart(S) == \A x, y \in S : x.start = y.start => x = y
MCSpanVecs ==
    {SV!SetToSortSeq(S, LAMBDA x, y : x.start < y.start) :
        S \in {T \in SUBSET LineSpans : OnePerStart(T)}}

(* b1 is the first line of f1 and b2 two empty ones.  The empty line       *)
(* between b1 and b2 is in neither, and the merge of the two bridges it;   *)
(* the two bytes between those of b2 stay a gap.  The batches reach the    *)
(* loop in any order.                                                      *)
MCContent ==
    b1 :> (f1 :> <<SV!Span(0, 2)>>) @@ b2 :> (f1 :> <<SV!Span(3, 4), SV!Span(6, 7)>>)
=============================================================================
