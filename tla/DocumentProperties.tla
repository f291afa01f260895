-------------------------- MODULE DocumentProperties --------------------------
(***************************************************************************)
(* What the passes over a document owe one another.  The definitions here   *)
(* that say what is right are written from the JSON grammar and from the    *)
(* tree of the document, without the scan, the groups or the masks.         *)
(***************************************************************************)
EXTENDS DocumentAdmission

-----------------------------------------------------------------------------
(* The grammar.  Where a value that begins at p may end, 0 if nowhere.     *)

RECURSIVE ValueFrom(_, _)

KindAt(t, p) == IF p \in DOMAIN t THEN t[p].kind ELSE "end"

\* One member or item, and what may follow it.
RECURSIVE MembersFrom(_, _, _)
MembersFrom(t, p, object) ==
    LET start == IF ~object THEN p
                 ELSE IF KindAt(t, p) = "string" /\ KindAt(t, p + 1) = "colon" THEN p + 2 ELSE 0
        end == IF start = 0 THEN 0 ELSE ValueFrom(t, start)
    IN  CASE end = 0 -> 0
          [] KindAt(t, end + 1) = "comma" -> MembersFrom(t, end + 2, object)
          [] KindAt(t, end + 1) = (IF object THEN "object-end" ELSE "array-end") -> end + 1
          [] OTHER -> 0

ValueFrom(t, p) ==
    CASE KindAt(t, p) \in {"string", "number", "literal"} -> p
      [] KindAt(t, p) = "object-start" ->
            IF KindAt(t, p + 1) = "object-end" THEN p + 1 ELSE MembersFrom(t, p + 1, TRUE)
      [] KindAt(t, p) = "array-start" ->
            IF KindAt(t, p + 1) = "array-end" THEN p + 1 ELSE MembersFrom(t, p + 1, FALSE)
      [] OTHER -> 0

IsJson(t) == t # <<>> /\ ValueFrom(t, 1) = Len(t)
-----------------------------------------------------------------------------
(* The tree.                                                                *)

IsKeyAt(d, p) ==
    d.parent[p] # 0 /\ IsRecord(d, d.parent[p]) /\ p \in ToSet(KeysAt(d, d.parent[p]))
ValuesOf(d) == {p \in DOMAIN d.tokens : Kind(d, p) \in ValueKinds /\ ~IsKeyAt(d, p)}

RECURSIVE PathTo(_, _)
PathTo(d, p) ==
    LET parent == d.parent[p]
    IN  IF parent = 0 THEN <<>>
        ELSE Append(PathTo(d, parent),
                    IF IsRecord(d, parent)
                    THEN Key(Text(d, IF IsKeyAt(d, p) THEN p ELSE p - 2))
                    ELSE Index(Cardinality({q \in ValuesOf(d) : d.parent[q] = parent /\ q < p})))

\* A key that its record had before.
Repeated(d) ==
    {p \in DOMAIN d.tokens : IsKeyAt(d, p) /\ \E q \in 1..p - 1 :
        d.parent[q] = d.parent[p] /\ IsKeyAt(d, q) /\ Text(d, q) = Text(d, p)}

Sums(s) == FoldLeft(+, 0, s)
Scanned == entry = "raw" /\ stage # "scan"
-----------------------------------------------------------------------------
(* Lexemes, by what they mean.                                              *)

IsLocal(units) ==
    /\ units # <<>> /\ units[1] \in Letters /\ Last(units) # "-"
    /\ \A k \in DOMAIN units : /\ units[k] \in Letters \cup Digits \cup {"-"}
                               /\ units[k] = "-" => units[k + 1] # "-"
IsPortable(units) ==
    LET cuts == {0, Len(units) + 1} \cup {k \in DOMAIN units : units[k] = "/"}
        Next0(c) == Min({e \in cuts : e > c})
    IN  Cardinality(cuts) > 2 /\ \A c \in cuts \ {Len(units) + 1} : IsLocal(SubSeq(units, c + 1, Next0(c) - 1))

\* A coefficient times a power of ten, exactly.
OfDecimal(negative, coefficient, power) ==
    CASE coefficient = 0 -> Bounded(negative, 0)
      [] coefficient # 0 /\ power >= 0 ->
            IF power > Width THEN Refused("invalid-format")
            ELSE Bounded(negative, coefficient * 10 ^ power)
      [] OTHER -> IF coefficient % 10 ^ (-power) # 0 THEN Refused("invalid-type")
                  ELSE Bounded(negative, coefficient \div 10 ^ (-power))

\* A number that JavaScript has, so that the object entry sees the number of the text.
IsDouble(n) ==
    ~Overflows(n) /\ LET power == UnitPower(n)
                     IN  Significand(n) * PowerOf(2, power) * Below(n) = Over(n) * PowerOf(2, -power)

\* The one-pass readers of the lexemes decide what their definitions say: the
\* automaton the identity grammar, the surrogate state the bytes and the
\* well-formedness of what is decoded, the digits the value of the number.
LexemesAreExact ==
    Scanned => \A k \in DOMAIN text :
        LET token == text[k]
        IN  /\ token.kind = "string" =>
                  /\ MatchesFormat(TRUE, token.units) <=> IsPortable(token.units)
                  /\ MatchesFormat(FALSE, token.units) <=> IsLocal(token.units)
                  /\ RawString(token.units).bytes = CountedBytes(token.units)
                  /\ RawString(token.units).wellFormed = WellFormed(token.units)
            /\ token.kind = "number" =>
                  RawInteger(token.number) =
                      OfDecimal(token.number.negative, Magnitude(token.number), TenPower(token.number))
-----------------------------------------------------------------------------
(* The passes.                                                              *)

\* The scan that nests no call accepts the texts of the grammar and no others,
\* and what it counted on the way is what the document has: its values, the
\* bytes of all its strings, its deepest container, whether a key repeats.  A
\* limit stops it only where that limit is passed, with all before it committed.
StructureIsExact ==
    Scanned =>
        LET d == View(text)
            strings == SelectSeq(text, LAMBDA token : token.kind = "string")
            bytes == Sums([k \in DOMAIN strings |-> RawString(strings[k].units).bytes])
            depths == {Len(PathTo(d, p)) + 1 : p \in {q \in DOMAIN text : Begins(text[q])}} \cup {0}
        IN  IF scan.stopped = ""
            THEN /\ scan.invalid <=> ~IsJson(text)
                 /\ ~scan.invalid => /\ scan.values = Cardinality(ValuesOf(d)) /\ scan.bytes = bytes
                                     /\ scan.depth = Max(depths) /\ committed = Len(text)
                                     /\ scan.duplicate <=> Repeated(d) # {}
            ELSE /\ committed = Len(text) - 1 /\ ~scan.invalid
                 /\ scan.stopped = "jsonValueOccurrences" <=> Cardinality(ValuesOf(d)) > ValueLimit
                 /\ scan.stopped = "aggregateStringBytes" => bytes > StringLimit
                 /\ scan.stopped = "jsonDepth" => Max(depths) > DepthLimit
                                                  /\ depthPath = PathTo(d, Len(text))

\* Structure and lexemes together are what the scan decides.
ScanIsExact == StructureIsExact /\ LexemesAreExact

\* Of a text that may break off anywhere, the replay reports each key that
\* repeats in what was committed at the part of its path that may be shown,
\* and it reports each such path once, though many records and many items of
\* unknown fields may share it.
DuplicatesAreExact ==
    (Scanned /\ stage # "report") =>
        LET d == View(SubSeq(text, 1, committed))
            told == SelectSeq(emitted, LAMBDA e : e[1] = "decode.duplicate-key")
        IN  /\ {told[k][3] : k \in DOMAIN told} = {Shown(SafePath(PathTo(d, p))) : p \in Repeated(d)}
            /\ Cardinality(ToSet(told)) = Len(told)

\* Every number that is no integer, wherever it is, is told by its reason at the
\* part of its path that may be shown; and the schema pass, which also saw some of
\* these numbers, knows by its probe which of its complaints that makes redundant.
NumbersAreExact ==
    (entry = "raw" /\ stage = "finished" /\ Decoded) =>
        LET d == View(text)
            failures == {<<Shown(SafePath(PathTo(d, p))), reason>> :
                            <<p, reason>> \in {<<q, r>> \in (ValuesOf(d) \X {"invalid-type", "invalid-format"}) :
                                                  r \in IntegerMask(d, q)}}
        IN  \A <<path, reason>> \in failures \cup ToSet(NumericFailures(d, 1, <<>>)) :
                /\ <<path, reason>> \in failures /\ reason \in FailureMask(d, path)
                /\ \E k \in DOMAIN emitted : emitted[k] = <<"schema.invalid-value", reason, path>>

\* Admission takes a diagnostic once, and the collector does not compare what it
\* is given: no document may produce one twice.
DiagnosticsAreUnique == Cardinality(ToSet(emitted)) = Len(emitted)

\* Faults are told where they are, and once.
FaultsAreLocated == DuplicatesAreExact /\ NumbersAreExact /\ DiagnosticsAreUnique

ChargedAlike(measured) ==
    /\ (scan.stopped = "") <=> (measured.stopped = "")
    /\ Decoded => <<measured.values, measured.bytes, measured.depth>>
                  = <<scan.values, scan.bytes, scan.depth>>
\* Numbers that JavaScript would round are told by the raw entry alone.
JudgedAlike(outcome) ==
    (\A k \in DOMAIN text : text[k].kind = "number" => IsDouble(text[k].number)) =>
        /\ outcome.valid => valid
        /\ Decoded => ToSet(outcome.told) \subseteq ToSet(emitted)

\* What the raw entry admits the object entry admits, what is kept of it is the
\* same, and both charge the same for a document.  If all numbers of the document
\* are ones that JavaScript has, both entries admit it or neither does, and what
\* the object entry has to say of it the raw entry says too.
EntriesAgree ==
    (entry = "raw" /\ stage = "finished" /\ IsJson(text) /\ ~scan.duplicate) =>
        /\ ChargedAlike(Measure(View(text)))
        /\ valid => /\ Object(View(text)).valid
                    /\ Snapshot(View(text), 1, RootShape, "raw") = Snapshot(View(text), 1, RootShape, "object")
        /\ JudgedAlike(Object(View(text)))
=============================================================================
