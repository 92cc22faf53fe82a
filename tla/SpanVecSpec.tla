----------------------------- MODULE SpanVecSpec -----------------------------
(***************************************************************************)
(* A SpanVec under any sequence of insert() calls, next to the set of      *)
(* bytes it was told about.  Inserts arrive in any order: batches are      *)
(* acknowledged out of order and a file may be read again after a restart. *)
(***************************************************************************)
EXTENDS SpanVec

CONSTANT MaxOffset  \* the length of the modelled file
ASSUME MaxOffsetAssumption == MaxOffset \in Nat \ {0}

VARIABLES
    spans,     \* the SpanVec
    inserted   \* history: every byte of every span inserted so far

listVars == <<spans, inserted>>

NewList == spans = <<>> /\ inserted = {}

InsertSpan(x) ==
    /\ spans' = Insert(spans, x)
    /\ inserted' = inserted \cup SpanBytes(x)

InsertAny == \E x \in SpansUpTo(MaxOffset) : InsertSpan(x)

ListSpec == NewList /\ [][InsertAny]_listVars
---------------------------------------------------------------------------
(* insert() finds its place by partition_point, a binary search that means *)
(* something only while the list is ordered by start; no sequence of       *)
(* merges may break the order, or two elements of the same start appear.   *)
StartsAscend ==
    \A i \in 1 .. Len(spans) - 1 : spans[i].start < spans[i + 1].start

(* Merging forgets nothing: a byte that was acknowledged once stays        *)
(* covered whatever is merged with it later.  And it invents nothing but   *)
(* the one-byte gaps that merge_right bridges on purpose                   *)
(* (end + 1 >= start): a covered byte that nobody inserted has inserted    *)
(* bytes on both sides.                                                    *)
CoversWhatWasInserted ==
    /\ inserted \subseteq Covered(spans)
    /\ \A b \in Covered(spans) \ inserted : {b - 1, b + 1} \subseteq inserted
=============================================================================
