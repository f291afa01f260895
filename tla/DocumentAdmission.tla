--------------------------- MODULE DocumentAdmission ---------------------------
(***************************************************************************)
(* packages/core/src/features/input-admission: one document, from its first *)
(* token to the verdict on it.                                              *)
(*                                                                         *)
(* The raw entry reads tokens, which nobody has seen before: each is drawn  *)
(* from what the script allows at its place, and the text may end anywhere. *)
(* scanRawDocument counts and checks them one by one; the other passes then *)
(* read the same text again.  The object entry gets the data as a whole.    *)
(***************************************************************************)
EXTENDS DocumentPasses

CONSTANTS
    Scripts,   \* the texts to read: sequences of sets of tokens
    ObjectData \* the data of the object entry, written as complete texts

VARIABLES
    entry,    \* "raw" or "object"
    rest,     \* the script that is left
    text,     \* the tokens read
    frames,   \* the open containers: [container, segment, keys, state, key, next]
    scan,     \* [values, bytes, depth, invalid, duplicate, stopped, rootSeen]
    depthPath, \* where the depth limit was met
    committed, \* the tokens that passed all checks
    stage,    \* "scan", "report", "validate", "finished"
    emitted,  \* the diagnostics of the document: <<code, reason, path>>
    valid     \* whether the document is admitted

vars == <<entry, rest, text, frames, scan, depthPath, committed, stage, emitted, valid>>

Init ==
    /\ \/ entry = "raw" /\ rest \in Scripts /\ text = <<>> /\ stage = "scan"
       \/ entry = "object" /\ rest = <<>> /\ text \in ObjectData /\ stage = "report"
    /\ frames = <<>> /\ depthPath = <<>> /\ committed = 0 /\ emitted = <<>> /\ valid = FALSE
    /\ scan = [values |-> 0, bytes |-> 0, depth |-> 0, invalid |-> FALSE, duplicate |-> FALSE,
               stopped |-> "", rootSeen |-> FALSE]
-----------------------------------------------------------------------------
Top == Last(frames)
InObject == frames # <<>> /\ Top.container = "object-start"
InArray == frames # <<>> /\ Top.container = "array-start"
State == IF frames # <<>> THEN Top.state ELSE IF scan.rootSeen THEN "ended" ELSE "value"

\* What handleObjectFrame and handleArrayFrame admit next.
ExpectsKey == State \in {"first-key", "key"}
ExpectsValue == State \in {"value", "first-value"}
ExpectsClosing == State \in {"first-key", "first-value", "after-value"}

\* Variant: either bracket closes either container.
ClosesAny(token) == token.kind \in Closings

Closes(token) == token.kind = IF InObject THEN "object-end" ELSE "array-end"

Admissible(token) ==
    \/ ExpectsKey /\ token.kind = "string"
    \/ ExpectsValue /\ token.kind \in ValueKinds
    \/ ExpectsClosing /\ Closes(token)
    \/ State = "colon" /\ token.kind = "colon"
    \/ State = "after-value" /\ token.kind = "comma"

WithTop(frame) == Front(frames) \o <<frame>>

\* duplicatePath
PathOfFrames(segment) ==
    Concat([k \in DOMAIN frames |-> frames[k].segment]) \o <<segment>>
Segment == IF InObject THEN Key(Top.key) ELSE Index(Top.next)

Charged(s, token) ==
    LET bytes == Capped(StringLimit, s.bytes + RawString(token.units).bytes)
    IN  [s EXCEPT !.bytes = bytes,
                  !.stopped = IF bytes > StringLimit THEN "aggregateStringBytes" ELSE @]

\* chargeValue: the value, then its bytes or its depth.
ChargedFor(token, counted) ==
    IF token.kind = "string" /\ counted.stopped = "" THEN Charged(counted, token)
    ELSE IF Begins(token) /\ counted.stopped = "" THEN Deepen(counted, Len(frames) + 1)
    ELSE counted
ChargedValue(token) == ChargedFor(token, CountValues(scan, 1))

\* A token is read; it is committed unless it broke off the scan.
Reads(token) ==
    /\ stage = "scan" /\ rest # <<>> /\ token \in Head(rest)
    /\ text' = Append(text, token) /\ rest' = Tail(rest)
    /\ UNCHANGED <<entry, emitted, valid>>
Commits ==
    IF scan'.stopped = "" THEN committed' = committed + 1 /\ UNCHANGED stage
    ELSE stage' = "report" /\ UNCHANGED committed

Punctuation(token) ==
    /\ Reads(token) /\ Admissible(token) /\ token.kind \in {"colon", "comma"}
    /\ frames' = WithTop([Top EXCEPT !.state = IF token.kind = "comma" /\ InObject THEN "key" ELSE "value"])
    /\ UNCHANGED <<scan, depthPath>> /\ Commits

CloseContainer(token) ==
    /\ Reads(token) /\ ExpectsClosing /\ frames # <<>> /\ Closes(token)
    /\ frames' = Front(frames)
    /\ UNCHANGED <<scan, depthPath>> /\ Commits

ReadKey(token) ==
    LET charged == Charged(scan, token)
        repeated == token.units \in Top.keys
    IN  /\ Reads(token) /\ ExpectsKey /\ token.kind = "string"
        /\ IF charged.stopped # "" THEN scan' = charged /\ UNCHANGED frames
           ELSE /\ scan' = [charged EXCEPT !.duplicate = @ \/ repeated]
                /\ frames' = WithTop([Top EXCEPT !.keys = @ \cup {token.units}, !.key = token.units,
                                                 !.state = "colon"])
        /\ UNCHANGED depthPath /\ Commits

\* commitValue: the parent goes on before the container opens.
After == IF frames = <<>> THEN <<>>
         ELSE WithTop([Top EXCEPT !.state = "after-value", !.key = <<>>,
                                  !.next = IF InArray THEN @ + 1 ELSE @])

TakeValue(token, charged) ==
    LET opened == [container |-> token.kind, segment |-> IF frames = <<>> THEN <<>> ELSE <<Segment>>,
                   keys |-> {}, key |-> <<>>, next |-> 0,
                   state |-> IF token.kind = "object-start" THEN "first-key" ELSE "first-value"]
    IN  /\ scan' = [charged EXCEPT !.rootSeen = @ \/ (frames = <<>> /\ charged.stopped = "")]
        /\ depthPath' = IF charged.stopped = "jsonDepth" THEN PathOfFrames(Segment) ELSE depthPath
        /\ frames' = IF charged.stopped # "" THEN frames
                     ELSE IF Begins(token) THEN Append(After, opened) ELSE After

ReadValue(token) ==
    /\ Reads(token) /\ ExpectsValue /\ token.kind \in ValueKinds
    /\ TakeValue(token, ChargedValue(token)) /\ Commits

Break(invalid) ==
    /\ scan' = [scan EXCEPT !.invalid = invalid] /\ stage' = "report"
    /\ UNCHANGED <<frames, depthPath, committed>>

\* An invalid lexeme, or a token out of place.
Refuse(token) == Reads(token) /\ ~Admissible(token) /\ Break(TRUE)

EndOfText ==
    /\ stage = "scan" /\ Break(~scan.rootSeen \/ frames # <<>>)
    /\ UNCHANGED <<entry, rest, text, emitted, valid>>
-----------------------------------------------------------------------------
Tokens == IF rest = <<>> THEN {} ELSE Head(rest)
Decoded == ~scan.invalid /\ ~scan.duplicate /\ scan.stopped = ""
Diagnostic(code, reason, path) == <<code, reason, Shown(path)>>

\* schemaDiagnostic; and the limits that a document breaks by itself.
OfRule(rule, path) ==
    CASE rule \in {"type", "required", "integer"} -> Diagnostic("schema.invalid-value", "invalid-type", path)
      [] rule \in {"constant", "range", "size", "unicode"} ->
            Diagnostic("schema.invalid-value", "invalid-format", path)
      [] rule = "closed" -> Diagnostic("schema.unknown-field", "", path)
      [] rule = "identity" -> Diagnostic("identity.invalid", "", path)
      [] rule = "unsupported-version" -> Diagnostic("schema.unsupported-version", "", path)
      [] OTHER -> Diagnostic(rule, "", path)

IsLimit(rule) == rule \in {"limit.items", "limit.identifierBytes"}
ShapeDiagnostics(failures) == [k \in DOMAIN failures |-> OfRule(failures[k][1], failures[k][2])]
ShapeValid(failures) == \A k \in DOMAIN failures : IsLimit(failures[k][1])

\* resourceDiagnostic, at the document if only one is concerned.
OfStop(stopped, path) == IF stopped = "" THEN <<>> ELSE <<Diagnostic("resource.limit", stopped, path)>>

\* scanRawEntry
ScanDiagnostics ==
    LET repeated == IF scan.duplicate THEN Duplicates(View(SubSeq(text, 1, committed))) ELSE <<>>
    IN  [k \in DOMAIN repeated |-> Diagnostic("decode.duplicate-key", "", repeated[k])]
        \o (IF scan.invalid THEN <<Diagnostic("decode.invalid-json", "", <<>>)>> ELSE <<>>)
        \o OfStop(scan.stopped, SafePath(depthPath))

\* Variant: whatever the numeric pass says of a path hides all complaints there.
ShownByShapeNowhere(d, failure) ==
    OfRule(failure[1], failure[2])[1] = "schema.invalid-value" => FailureMask(d, failure[2]) = {}

\* validateRawDocument: not what the numeric pass will say of the same path.
ShownByShape(d, failure) ==
    LET told == OfRule(failure[1], failure[2])
    IN  told[1] = "schema.invalid-value" => told[2] \notin FailureMask(d, failure[2])

RawOutcome(d, shape, numbers) ==
    [valid |-> ShapeValid(shape) /\ numbers = <<>>,
     told |-> ShapeDiagnostics(SelectSeq(shape, LAMBDA f : ShownByShape(d, f)))
              \o [k \in DOMAIN numbers |->
                     Diagnostic("schema.invalid-value", numbers[k][2], numbers[k][1])]]
Raw(d) == RawOutcome(d, ShapeFailures(d, "raw"), NumericFailures(d, 1, <<>>))

NonPlainDiagnostics(paths) == [k \in DOMAIN paths |-> Diagnostic("schema.non-plain-value", "", paths[k])]
ToShow(paths) == FreshPaths([k \in DOMAIN paths |-> Shown(SafePath(paths[k]))])

\* validateObjectDocument: data that is not plain is not compared with the schema.
ObjectOutcome(measured, shape) ==
    CASE measured.stopped # "" -> [valid |-> FALSE, told |-> <<>>]
      [] measured.stopped = "" /\ measured.nonPlain # <<>> ->
            [valid |-> FALSE, told |-> NonPlainDiagnostics(ToShow(measured.nonPlain))]
      [] OTHER -> [valid |-> ShapeValid(shape), told |-> ShapeDiagnostics(shape)]
Object(d) == ObjectOutcome(Measure(d), ShapeFailures(d, "object"))

\* scanRawEntry or scanObjectDocument has its result.
Report ==
    /\ stage = "report" /\ stage' = "validate"
    /\ emitted' = IF entry = "raw" THEN ScanDiagnostics ELSE OfStop(Measure(View(text)).stopped, <<>>)
    /\ UNCHANGED <<entry, rest, text, frames, scan, depthPath, committed, valid>>

Conclude(outcome) == emitted' = emitted \o outcome.told /\ valid' = outcome.valid

Validate ==
    /\ stage = "validate" /\ stage' = "finished"
    /\ CASE entry = "object" -> Conclude(Object(View(text)))
         [] entry = "raw" /\ Decoded -> Conclude(Raw(View(text)))
         [] OTHER -> UNCHANGED <<emitted, valid>>
    /\ UNCHANGED <<entry, rest, text, frames, scan, depthPath, committed>>

Next ==
    \/ \E token \in Tokens :
          \/ Punctuation(token) \/ CloseContainer(token) \/ ReadKey(token) \/ ReadValue(token)
          \/ Refuse(token)
    \/ EndOfText \/ Report \/ Validate

Spec == Init /\ [][Next]_vars
=============================================================================
