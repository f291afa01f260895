------------------------------ MODULE DocumentView ------------------------------
(***************************************************************************)
(* packages/core/src/features/input-admission: what the passes over one    *)
(* document see of it.  A value is the position of the token it begins     *)
(* with; a text may end before what it began has ended.                    *)
(*                                                                         *)
(* A path is a sequence of segments <<"key", units>> and <<"index", n>>.   *)
(***************************************************************************)
EXTENDS JsonText

CONSTANTS
    Schema,      \* the shapes: name -> [type, fields, item, variants, expected, min, max, portable]
    RootShape,   \* its name for this kind of document
    FieldOrder,  \* the fields of all records, in the order in which they are checked
    VersionField, TagField, MinField, MaxField, ManyTag, \* that the checks name
    IdentifierLimit, \* identifierBytes
    IndexLimit,  \* the last index that a path can show (65535)
    PathCapacity \* the segments of a path after the prefix of the invocation (30 or 31)

ASSUME PathAssumption == IndexLimit \in Nat /\ PathCapacity \in Nat \ {0}

Key(units) == <<"key", units>>
Index(n) == <<"index", n>>
IsKey(segment) == segment[1] = "key"

Begins(token) == token.kind \in Openings
Ends(token) == token.kind \in Closings

\* A document read once: the container of each token; a closing one is in its own.
View(t) ==
    LET Read(state, p) ==
            [parents |-> Append(state.parents, IF state.open = <<>> THEN 0 ELSE Last(state.open)),
             open |-> IF Begins(t[p]) THEN Append(state.open, p)
                      ELSE IF Ends(t[p]) /\ state.open # <<>> THEN Front(state.open) ELSE state.open]
        read == FoldLeft(Read, [parents |-> <<>>, open |-> <<>>], [p \in DOMAIN t |-> p])
    IN  [tokens |-> t, parent |-> read.parents]

Kind(d, p) == d.tokens[p].kind
Text(d, p) == d.tokens[p].units
Within(d, p) == SelectSeq([q \in DOMAIN d.tokens |-> q], LAMBDA q : d.parent[q] = p)

\* valueEnd, capture: the last position of the value at p, which the text may not reach.
End(d, p) ==
    LET closing == SelectSeq(Within(d, p), LAMBDA q : Ends(d.tokens[q]))
    IN  IF ~Begins(d.tokens[p]) THEN p
        ELSE IF closing = <<>> THEN Len(d.tokens) ELSE closing[1]

AfterSeparator(d, p, q) == q = p + 1 \/ Kind(d, q - 1) = "comma"

\* recordOf: where the keys are; and the value of a key, 0 if the text ends before.
KeysAt(d, p) == SelectSeq(Within(d, p), LAMBDA q : Kind(d, q) = "string" /\ AfterSeparator(d, p, q))
ValueOf(d, q) == IF q + 2 <= Len(d.tokens) THEN q + 2 ELSE 0

\* arrayOf
ItemsAt(d, p) ==
    SelectSeq(Within(d, p), LAMBDA q : /\ Kind(d, q) \notin Closings \cup {"comma"}
                                       /\ AfterSeparator(d, p, q))

IsRecord(d, p) == Kind(d, p) = "object-start"
IsArray(d, p) == Kind(d, p) = "array-start"

\* own: of a decoded document, where no key repeats.
Own(d, p, key) ==
    LET found == IF IsRecord(d, p) THEN SelectSeq(KeysAt(d, p), LAMBDA q : Text(d, q) = key) ELSE <<>>
    IN  IF found = <<>> THEN 0 ELSE ValueOf(d, found[1])

\* The members of a value, in order: segments and positions.
Members(d, p) ==
    LET keys == KeysAt(d, p)
        items == ItemsAt(d, p)
    IN  IF IsRecord(d, p)
        THEN [k \in DOMAIN keys |-> [segment |-> Key(Text(d, keys[k])), at |-> ValueOf(d, keys[k])]]
        ELSE IF IsArray(d, p)
        THEN [k \in DOMAIN items |-> [segment |-> Index(k - 1), at |-> items[k]]]
        ELSE <<>>
-----------------------------------------------------------------------------
(* Paths that may be shown: of fields that the schema knows.               *)

\* projectedShapes: all variants contribute, whatever the document says.
Projected(shapes, segment) ==
    UNION {LET shape == Schema[name]
           IN  CASE shape.type = "record" /\ IsKey(segment) ->
                        {shape.fields[f] : f \in {g \in DOMAIN shape.fields : g = segment[2]}}
                 [] shape.type = "array" /\ ~IsKey(segment) ->
                        IF segment[2] <= IndexLimit THEN {shape.item} ELSE {}
                 [] shape.type = "cardinality" /\ IsKey(segment) ->
                        UNION {LET fields == Schema[shape.variants[tag]].fields
                               IN  {fields[f] : f \in {g \in DOMAIN fields : g = segment[2]}}
                               : tag \in DOMAIN shape.variants}
                 [] OTHER -> {}
           : name \in shapes}

Representable(segment, next) == IF IsKey(segment) THEN next # {} ELSE segment[2] <= IndexLimit

Goes(state, segment, next) ==
    IF state.stopped \/ ~Representable(segment, next) THEN [state EXCEPT !.stopped = TRUE]
    ELSE [path |-> Append(state.path, segment), stopped |-> FALSE,
          shapes |-> IF next = {} THEN state.shapes ELSE next]
Project(state, segment) == Goes(state, segment, Projected(state.shapes, segment))

\* schemaSafeLocalPath
SafePath(segments) ==
    FoldLeft(Project, [path |-> <<>>, shapes |-> {RootShape}, stopped |-> FALSE], segments).path

Admits(path, segment) == Len(SafePath(Append(path, segment))) = Len(path) + 1

\* documentPath: the prefix of the invocation takes its segments of the 32.
Shown(path) == SubSeq(path, 1, IF Len(path) < PathCapacity THEN Len(path) ELSE PathCapacity)
-----------------------------------------------------------------------------
(* The schema.  A diagnostic is <<rule, path>>.                             *)

\* What the numeric reader of the entry says of the value at p.
Verdict(d, p, entry) ==
    IF p = 0 \/ Kind(d, p) # "number" THEN [verdict |-> "admitted", value |-> 0]
    ELSE IF entry = "raw" THEN RawInteger(d.tokens[p].number)
    ELSE ObjectInteger(d.tokens[p].number)

RuleOf(verdict) == IF verdict = "invalid-type" THEN "integer" ELSE "range"

Fails(condition, rule, path) == IF condition THEN <<<<rule, path>>>> ELSE <<>>

\* checkLiteral, checkInteger, checkIdentity: of a value whose number is admitted.
LeafFailures(d, p, shape, path, entry) ==
    LET number == Verdict(d, p, entry).value
        length == Len(Utf16(Text(d, p)))
        format == MatchesFormat(shape.portable, Text(d, p))
    IN  CASE shape.type = "literal" /\ Kind(d, p) = shape.kind ->
                Fails(IF shape.kind = "number" THEN number # shape.min ELSE Text(d, p) # shape.expected,
                      "constant", path)
          [] shape.type = "integer" /\ Kind(d, p) = "number" ->
                Fails(number \notin shape.min..shape.max, "range", path)
          [] shape.type = "identity" /\ Kind(d, p) = "string" ->
                IF ~WellFormed(Text(d, p)) THEN <<<<"unicode", path>>>>
                ELSE Fails(format /\ length > IdentifierLimit, "limit.identifierBytes", path)
                     \o Fails(~format \/ length \notin shape.min..shape.max, "identity", path)
          [] OTHER -> <<<<"type", path>>>>

RECURSIVE Check(_, _, _, _, _)

\* checkRecord
RecordFailures(d, p, fields, path, entry) ==
    LET OfField(f) ==
            LET at == Own(d, p, f)
                next == Append(path, Key(f))
            IN  IF at = 0 THEN <<<<"required", next>>>> ELSE Check(d, at, fields[f], next, entry)
    IN  IF ~IsRecord(d, p) THEN <<<<"type", path>>>>
        ELSE Fails(\E q \in ToSet(KeysAt(d, p)) : Text(d, q) \notin DOMAIN fields, "closed", path)
             \o FlattenSeq([k \in DOMAIN FieldOrder |->
                    IF FieldOrder[k] \in DOMAIN fields THEN OfField(FieldOrder[k]) ELSE <<>>])

\* checkArray
ArrayFailures(d, p, shape, path, entry) ==
    LET items == ItemsAt(d, p)
    IN  IF ~IsArray(d, p) THEN <<<<"type", path>>>>
        ELSE Fails(shape.limited /\ Len(items) > shape.max, "limit.items", path)
             \o IF Len(items) \notin shape.min..shape.max THEN <<<<"size", path>>>>
                ELSE FlattenSeq([k \in DOMAIN items |->
                        Check(d, items[k], shape.item, Append(path, Index(k - 1)), entry)])

\* checkCardinality: the tag decides which record it must be.
CardinalityFailures(d, p, shape, path, entry) ==
    LET at == Own(d, p, TagField)
        next == Append(path, Key(TagField))
        Bound(f) == LET q == Own(d, p, f)
                    IN  IF q # 0 /\ Kind(d, q) = "number" THEN Check(d, q, Schema[shape.variants[ManyTag]].fields[f], <<>>, entry) = <<>>
                        ELSE FALSE
        Amount(f) == Verdict(d, Own(d, p, f), entry).value
    IN  IF ~IsRecord(d, p) THEN <<<<"type", path>>>>
        ELSE IF at = 0 THEN <<<<"required", next>>>>
        ELSE IF Kind(d, at) = "string" /\ Text(d, at) \in DOMAIN shape.variants
        THEN RecordFailures(d, p, Schema[shape.variants[Text(d, at)]].fields, path, entry)
             \o Fails(/\ Text(d, at) = ManyTag
                      /\ Bound(MinField) /\ Bound(MaxField) /\ Amount(MinField) > Amount(MaxField),
                      "range", path)
        ELSE IF Verdict(d, at, entry).verdict # "admitted"
        THEN <<<<RuleOf(Verdict(d, at, entry).verdict), next>>>>
        ELSE <<<<IF Kind(d, at) = "string" THEN "constant" ELSE "type", next>>>>

\* check: whether a number is one at all comes before what its field wants.
Check(d, p, name, path, entry) ==
    LET shape == Schema[name]
        verdict == Verdict(d, p, entry).verdict
    IN  IF verdict # "admitted" THEN <<<<RuleOf(verdict), path>>>>
        ELSE CASE shape.type = "record" -> RecordFailures(d, p, shape.fields, path, entry)
               [] shape.type = "array" -> ArrayFailures(d, p, shape, path, entry)
               [] shape.type = "cardinality" -> CardinalityFailures(d, p, shape, path, entry)
               [] OTHER -> LeafFailures(d, p, shape, path, entry)

\* validateDeclarationView, validateProfileView: another version is not read further.
ShapeFailures(d, entry) ==
    LET at == Own(d, 1, VersionField)
        version == Verdict(d, at, entry)
    IN  IF at # 0 /\ Kind(d, at) = "number" /\ version.verdict = "admitted" /\ version.value # 1
        THEN <<<<"unsupported-version", <<Key(VersionField)>>>>>>
        ELSE Check(d, 1, RootShape, <<>>, entry)

\* projection: what is kept of an admitted document.
RECURSIVE Snapshot(_, _, _, _)
Snapshot(d, p, name, entry) ==
    LET shape == Schema[name]
        tag == Own(d, p, TagField)
        fields == IF shape.type = "record" THEN shape.fields ELSE Schema[shape.variants[Text(d, tag)]].fields
    IN  CASE shape.type \in {"record", "cardinality"} ->
                [f \in DOMAIN fields |-> Snapshot(d, Own(d, p, f), fields[f], entry)]
          [] shape.type = "array" ->
                [k \in DOMAIN ItemsAt(d, p) |-> Snapshot(d, ItemsAt(d, p)[k], shape.item, entry)]
          [] OTHER -> <<Text(d, p), Verdict(d, p, entry).value>>
=============================================================================
