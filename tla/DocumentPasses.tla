----------------------------- MODULE DocumentPasses -----------------------------
(***************************************************************************)
(* packages/core/src/features/input-admission: the passes over one document *)
(* after it was scanned.  raw-duplicate-replay names the keys that repeat   *)
(* in the part of it that was read, raw-numeric-admission the numbers that  *)
(* are no integers, object-resource-meter what plain data costs and where   *)
(* it is not plain.                                                         *)
(***************************************************************************)
EXTENDS DocumentView

CONSTANTS
    ValueLimit,  \* jsonValueOccurrences left for this document
    StringLimit, \* aggregateStringBytes left for it
    DepthLimit   \* jsonDepth

ASSUME LimitAssumption == {ValueLimit, StringLimit, DepthLimit} \subseteq Nat

Capped(limit, n) == IF n > limit THEN limit + 1 ELSE n
Concat(streams) == FlattenSeq(streams)
Distinct(s) == FoldLeft(LAMBDA seen, x : IF x \in ToSet(seen) THEN seen ELSE Append(seen, x), <<>>, s)
-----------------------------------------------------------------------------
(* Duplicates.  All values that share a path are one group, visited         *)
(* together; a group that the path cannot name is folded into its owner.    *)

Texts(d, p) == [k \in DOMAIN KeysAt(d, p) |-> Text(d, KeysAt(d, p)[k])]
Values(d, p, key) ==
    SelectSeq([k \in DOMAIN KeysAt(d, p) |->
                  IF Texts(d, p)[k] = key THEN ValueOf(d, KeysAt(d, p)[k]) ELSE 0], LAMBDA q : q # 0)
RepeatsKey(d, p, key) == Cardinality({k \in DOMAIN Texts(d, p) : Texts(d, p)[k] = key}) > 1

\* fold: a key repeats in one of the records of the value.
FoldsDuplicate(d, p) ==
    \E q \in p..End(d, p) : IsRecord(d, q) /\ \E key \in ToSet(Texts(d, q)) : RepeatsKey(d, q, key)

\* collectRecord: of one record of the group at a time.
RepeatedIn(d, records, key) == \E k \in DOMAIN records : RepeatsKey(d, records[k], key)

\* What a group reports for itself, beyond what was known when it was collected.
OwnDuplicate(d, path, records, arrays) ==
    \/ \E k \in DOMAIN records : \E key \in ToSet(Texts(d, records[k])) :
          /\ ~Admits(path, Key(key))
          /\ \/ RepeatsKey(d, records[k], key)
             \/ \E p \in ToSet(Values(d, records[k], key)) : FoldsDuplicate(d, p)
    \/ \E k \in DOMAIN arrays : \E n \in DOMAIN ItemsAt(d, arrays[k]) :
          ~Admits(path, Index(n - 1)) /\ FoldsDuplicate(d, ItemsAt(d, arrays[k])[n])

RECURSIVE DuplicatePaths(_, _, _, _)

\* visit: fields first, then what the arrays have at each index, then itself.
DuplicatePaths(d, path, spans, duplicate) ==
    LET records == SelectSeq(spans, LAMBDA p : IsRecord(d, p))
        arrays == SelectSeq(spans, LAMBDA p : IsArray(d, p))
        keys == SelectSeq(Distinct(Concat([k \in DOMAIN records |-> Texts(d, records[k])])),
                          LAMBDA key : Admits(path, Key(key)))
        lengths == {Len(ItemsAt(d, arrays[k])) : k \in DOMAIN arrays} \cup {0}
        indexes == SelectSeq([n \in 1..Max(lengths) |-> n - 1], LAMBDA n : Admits(path, Index(n)))
        OfKey(key) == DuplicatePaths(d, Append(path, Key(key)),
                          Concat([k \in DOMAIN records |-> Values(d, records[k], key)]),
                          RepeatedIn(d, records, key))
        OfIndex(n) == DuplicatePaths(d, Append(path, Index(n)),
                          Concat([k \in DOMAIN arrays |->
                              LET items == ItemsAt(d, arrays[k])
                              IN  IF n < Len(items) THEN <<items[n + 1]>> ELSE <<>>]), FALSE)
        Itself(found) == IF duplicate \/ found THEN <<path>> ELSE <<>>
    IN  IF Len(path) = PathCapacity
        THEN Itself(\E k \in DOMAIN spans : FoldsDuplicate(d, spans[k])) \* foldTerminalGroup
        ELSE Concat([k \in DOMAIN keys |-> OfKey(keys[k])])
             \o Concat([k \in DOMAIN indexes |-> OfIndex(indexes[k])])
             \o Itself(OwnDuplicate(d, path, records, arrays))

\* visitRawDuplicatePaths: of the tokens that were committed.
Duplicates(d) == IF d.tokens = <<>> THEN <<>> ELSE DuplicatePaths(d, <<>>, <<1>>, FALSE)
-----------------------------------------------------------------------------
(* Numbers: each reason once for each path that can be shown.              *)

IntegerMask(d, p) ==
    IF Kind(d, p) = "number" THEN {RawInteger(d.tokens[p].number).verdict} \ {"admitted"} ELSE {}

StoppedMask(d, p) == UNION {IntegerMask(d, q) : q \in p..End(d, p)}

\* Variant: what lies below the last segment that can be shown is not read.
OwnerMaskShallow(d, p, path) ==
    IF Len(path) = PathCapacity THEN IntegerMask(d, p)
    ELSE UNION {StoppedMask(d, m.at) : m \in {n \in ToSet(Members(d, p)) : ~Admits(path, n.segment)}}
         \cup IntegerMask(d, p)

\* ownerMask: the number itself, and all that no longer path of its own can name.
OwnerMask(d, p, path) ==
    IF Len(path) = PathCapacity THEN StoppedMask(d, p)
    ELSE UNION {StoppedMask(d, m.at) : m \in {n \in ToSet(Members(d, p)) : ~Admits(path, n.segment)}}
         \cup IntegerMask(d, p)

\* The value at a path, 0 if there is none.
At(d, path) ==
    LET Step(p, segment) ==
            LET there == IF p = 0 THEN {} ELSE {m \in ToSet(Members(d, p)) : m.segment = segment}
            IN  IF there = {} THEN 0 ELSE (CHOOSE m \in there : TRUE).at
    IN  FoldLeft(Step, 1, path)

\* numericFailureMask
FailureMask(d, path) ==
    IF Len(path) > PathCapacity \/ SafePath(path) # path \/ At(d, path) = 0 THEN {}
    ELSE OwnerMask(d, At(d, path), path)

RECURSIVE NumericFailures(_, _, _)

\* visitRawNumericFailures: <<path, reason>>, children before their owner.
NumericFailures(d, p, path) ==
    LET members == IF Len(path) = PathCapacity THEN <<>>
                   ELSE SelectSeq(Members(d, p), LAMBDA m : Admits(path, m.segment))
        mask == OwnerMask(d, p, path)
        Bit(reason) == IF reason \in mask THEN <<<<path, reason>>>> ELSE <<>>
    IN  Concat([k \in DOMAIN members |->
                   NumericFailures(d, members[k].at, Append(path, members[k].segment))])
        \o Bit("invalid-type") \o Bit("invalid-format")
-----------------------------------------------------------------------------
(* Plain data, measured.  The state has the counts, the deepest container,  *)
(* what stopped the measure, and the paths that are not plain.              *)

Fresh == [values |-> 0, bytes |-> 0, depth |-> 0, stopped |-> "", nonPlain |-> <<>>]

CountValues(st, n) ==
    LET values == Capped(ValueLimit, st.values + n)
    IN  [st EXCEPT !.values = values,
                   !.stopped = IF values > ValueLimit THEN "jsonValueOccurrences" ELSE @]
CountString(st, units) ==
    LET bytes == Capped(StringLimit, st.bytes + CountedBytes(units))
    IN  [st EXCEPT !.bytes = bytes,
                   !.stopped = IF bytes > StringLimit THEN "aggregateStringBytes" ELSE @]
NotPlain(st, path) == [st EXCEPT !.nonPlain = Append(@, path)]

\* A container: its depth, its prototype, its items all at once, its members, its keys.
Deepen(st, depth) ==
    [st EXCEPT !.depth = IF depth > @ THEN depth ELSE @,
               !.stopped = IF depth > DepthLimit THEN "jsonDepth" ELSE @]
NotPlainIf(odd, st, path) == IF odd /\ st.stopped = "" THEN NotPlain(st, path) ELSE st
Prepay(st, n) == IF st.stopped = "" THEN CountValues(st, n) ELSE st
Named(st, segment) ==
    IF IsKey(segment) /\ st.stopped = "" THEN CountString(st, segment[2]) ELSE st

RECURSIVE Enter(_, _, _, _, _)

VisitMembers(d, p, path, st) ==
    LET Visit(before, m) ==
            LET Member(state) ==
                    IF state.stopped # "" THEN state
                    ELSE IF Kind(d, m.at) = "accessor" THEN NotPlain(state, path)
                    ELSE Enter(d, m.at, IsArray(d, p), Append(path, m.segment), state)
            IN  Member(Named(before, m.segment))
    IN  IF st.stopped = "" THEN FoldLeft(Visit, st, Members(d, p)) ELSE st

\* What is entered once it is paid for.
EnterPaid(d, p, path, st) ==
    CASE st.stopped # "" -> st
      [] st.stopped = "" /\ Kind(d, p) = "string" -> CountString(st, Text(d, p))
      [] st.stopped = "" /\ Kind(d, p) \in {"invalid", "reference"} -> NotPlain(st, path)
      [] st.stopped = "" /\ Kind(d, p) = "number" ->
            NotPlainIf(Overflows(d.tokens[p].number), st, path)
      [] st.stopped = "" /\ Begins(d.tokens[p]) ->
            LET odd == d.tokens[p].odd
                looked == NotPlainIf(odd = "prototype", Deepen(st, Len(path) + 1), path)
                items == IF IsArray(d, p) THEN Len(ItemsAt(d, p)) ELSE 0
            IN  NotPlainIf(odd = "members", VisitMembers(d, p, path, Prepay(looked, items)), path)
      [] OTHER -> st

\* enter and the loop over the keys of a frame; items are paid for by their array.
Enter(d, p, prepaid, path, before) ==
    EnterPaid(d, p, path, IF prepaid THEN before ELSE CountValues(before, 1))

Measure(d) == Enter(d, 1, FALSE, <<>>, Fresh)

\* lastByDepth: a path is told again only if another of its length came between.
FreshPaths(paths) ==
    LET told(k) == \E i \in 1..k - 1 :
                       /\ paths[i] = paths[k]
                       /\ \A j \in i + 1..k - 1 : Len(paths[j]) # Len(paths[k])
        kept == SelectSeq([k \in DOMAIN paths |-> k], LAMBDA k : ~told(k))
    IN  [k \in DOMAIN kept |-> paths[kept[k]]]
=============================================================================
