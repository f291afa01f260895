------------------------------- MODULE BinaryHeap -------------------------------
(***************************************************************************)
(* The array heap that the ready queue and the diagnostic collector keep,  *)
(* with the element that is before all others at its root.                 *)
(***************************************************************************)
LOCAL INSTANCE Integers
LOCAL INSTANCE Sequences

CONSTANT Before(_, _)

\* The places from i up to the root.
PathTo(i) ==
    LET path[k \in 0..i] == IF k = 0 THEN {} ELSE {k} \cup path[k \div 2]
    IN  path[i]

\* v rises from a new last place until its parent is not behind it.
Push(items, v) ==
    LET end == Len(items) + 1
        rise[i \in 1..end] ==
            IF i > 1 /\ Before(v, items[i \div 2]) THEN rise[i \div 2] ELSE i
        place == rise[end]
    IN  [i \in 1..end |-> IF i = place THEN v
                          ELSE IF i \in PathTo(end) /\ i > place THEN items[i \div 2]
                          ELSE items[i]]

\* Variant: always the left child.
UpperLeft(items, i) == 2 * i

\* The child of i that goes up, the left one unless the right one is before it.
Upper(items, i) ==
    IF 2 * i < Len(items) /\ Before(items[2 * i + 1], items[2 * i])
    THEN 2 * i + 1 ELSE 2 * i

\* v replaces the root and sinks until no child is before it.
Sink(items, v) ==
    LET fall[i \in 1..Len(items)] ==
            IF 2 * i <= Len(items) /\ Before(items[Upper(items, i)], v)
            THEN fall[Upper(items, i)] ELSE i
        place == fall[1]
    IN  [i \in 1..Len(items) |-> IF i = place THEN v
                                 ELSE IF i \in PathTo(place) THEN items[Upper(items, i)]
                                 ELSE items[i]]

Root(items) == items[1]

\* The last item takes the place of the root.
Take(items) ==
    LET rest == SubSeq(items, 1, Len(items) - 1)
    IN  IF rest = <<>> THEN rest ELSE Sink(rest, items[Len(items)])
=============================================================================
