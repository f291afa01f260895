-------------------------- MODULE DiagnosticCollector --------------------------
(***************************************************************************)
(* packages/core/src/features/diagnostics/collector.ts: a heap of the      *)
(* least diagnostics of a stream, with the last of them at its root, and a *)
(* saturating count of the whole stream.                                   *)
(***************************************************************************)
LOCAL INSTANCE Integers
LOCAL INSTANCE Sequences
LOCAL INSTANCE TLC

CONSTANTS
    Retained,        \* retainedLimit
    MaximumOmitted,
    Before(_, _)     \* compareDiagnostics, on different diagnostics

After(a, b) == Before(b, a)
Heap == INSTANCE BinaryHeap WITH Before <- After

Empty == [heap |-> <<>>, count |-> 0]

CountCeiling == Retained - 1 + MaximumOmitted

Counted(count) == IF count < CountCeiling THEN count + 1 ELSE count

\* A full heap exchanges its last diagnostic for one that is before it.
Kept(heap, d) ==
    IF Len(heap) < Retained THEN Heap!Push(heap, d)
    ELSE IF Before(d, Heap!Root(heap)) THEN Heap!Sink(heap, d)
    ELSE heap

AddUnique(c, d) == [heap |-> Kept(c.heap, d), count |-> Counted(c.count)]

Truncated(omitted) == [code |-> "diagnostics.truncated", omitted |-> omitted]

\* The record of the overflow takes the place of one more diagnostic.
Finish(c) ==
    LET sorted == SortSeq(c.heap, Before)
        kept == SubSeq(sorted, 1, Retained - 1)
    IN  IF c.count > Retained THEN Append(kept, Truncated(c.count - Len(kept)))
        ELSE sorted
=============================================================================
