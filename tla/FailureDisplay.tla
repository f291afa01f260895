----------------------------- MODULE FailureDisplay -----------------------------
(***************************************************************************)
(* packages/assembly/.../format-failure.ts and failure-text.ts: a failure  *)
(* of the compiler or of prepare as a text for people; and what, by        *)
(* packages/core/.../authoring/diagnostic-types.ts, the diagnostics have    *)
(* that it shows.                                                          *)
(*                                                                         *)
(* A line of the text `is` something, `shows` values and says how many     *)
(* more there are; its length is the number of all that.  The wording of   *)
(* hints, the escaping of labels and the paths of diagnostics are left     *)
(* out, and so are values that the library has not made.                   *)
(***************************************************************************)
EXTENDS CompositionCensus

CONSTANTS
    MaximumItems,    \* maximumItems, of diagnostics and of items
    MaximumMembers,  \* maximumMembers, of a list
    MaximumText      \* maximumText

ASSUME DisplayAssumption ==
    MaximumItems \in Nat \ {0} /\ MaximumMembers \in Nat \ {0} /\ MaximumText \in Nat \ {0, 1}
-----------------------------------------------------------------------------
(* Diagnostics: tuples of a code, its coordinates and its details.  All    *)
(* limits have the code "input.limit-exceeded" and differ in their name;   *)
(* "schema" is one code for all that a schema says of a document.          *)

DecodeCodes == {"input.invalid-byte-carrier", "decode.invalid-json", "decode.duplicate-key"}
SchemaCodes == {"schema.non-plain-value", "schema", "schema.size"}

DeclarationLimits == {"limit.declarations", "limit.totalCapabilities", "limit.totalSlots"}
GraphLimits == {"limit.graphEdges", "limit.selectedGraphDepth"}
DecodeLimits == {"limit.rawDocumentBytes", "limit.aggregateRawBytes", "limit.jsonDepth", "limit.bytes"}
SchemaLimits == {"limit.values"}
BindingLimits == {"limit.providersPerManySlot"}
Limits == DeclarationLimits \cup GraphLimits \cup DecodeLimits \cup SchemaLimits \cup BindingLimits

PhaseOfLimit(name) ==
    CASE name \in SchemaLimits -> "schema"
      [] name \in DeclarationLimits -> "declaration"
      [] name \in BindingLimits -> "binding"
      [] name \in GraphLimits -> "graph"
      [] OTHER -> "decode"

OfModule == {"profile.duplicate-root", "profile.unknown-root", "profile.duplicate-selection",
             "profile.unknown-module", "profile.missing-selection"}
OfChoice == {"profile.unknown-implementation", "profile.implementation-mismatch",
             "profile.unreachable-selection"}
OfImplementation == {"declaration.duplicate-implementation", "declaration.duplicate-capability",
                     "binding.unknown-consumer"}
OfSlot == {"declaration.duplicate-slot", "binding.duplicate-record", "binding.missing",
           "binding.unknown-slot", "binding.cardinality"}
OfProvider == {"binding.duplicate", "binding.unknown-provider", "binding.provider-not-selected",
               "binding.capability-missing", "binding.compatibility-mismatch"}

\* The codes that the text has a hint for.
Codes ==
    Limits \cup DecodeCodes \cup SchemaCodes \cup {"graph.cycle", "diagnostics.truncated"}
    \cup OfModule \cup OfChoice \cup OfImplementation \cup OfSlot \cup OfProvider

PhaseOf(code) ==
    CASE code \in Limits -> PhaseOfLimit(code)
      [] code \in DecodeCodes -> "decode"
      [] code \in SchemaCodes -> "schema"
      [] code \in {"declaration.duplicate-implementation", "declaration.duplicate-capability",
                   "declaration.duplicate-slot"} -> "declaration"
      [] code \in {"profile.unreachable-selection", "graph.cycle"} -> "graph"
      [] code \in OfModule \cup OfChoice -> "profile"
      [] code = "diagnostics.truncated" -> "output"
      [] OTHER -> "binding"

\* The coordinate of a code, in the order of the text.
CoordinateOf(code) ==
    CASE code \in Limits \cup DecodeCodes \cup SchemaCodes \cup {"graph.cycle", "diagnostics.truncated"} -> <<>>
      [] code \in OfModule -> <<"moduleId">>
      [] code \in OfImplementation -> <<"implementationId">>
      [] code \in OfChoice -> <<"moduleId", "implementationId">>
      [] code \in OfSlot -> <<"implementationId", "slotId">>
      [] OTHER -> <<"implementationId", "slotId", "providerImplementationId">>

\* What it details beyond a reason; of a component the model knows the least member.
DetailsOf(d) ==
    CASE d[1] = "binding.cardinality" -> <<<<"cardinality">>, <<"actual providers", d[4]>>>>
      [] d[1] = "binding.compatibility-mismatch" -> <<<<"expected compatibility">>, <<"actual compatibility">>>>
      [] d[1] = "graph.cycle" -> <<<<"component", d[2]>>>>
      [] d[1] \in Limits -> <<<<"limit", d[1]>>, <<"allowed and observed">>>>
      [] OTHER -> <<>>
-----------------------------------------------------------------------------
(* The text: whole lines as long as they fit with the notice that others   *)
(* do not, which is a line too.                                            *)

Line(is, shows) == [is |-> is, shows |-> shows, more |-> 0]
Shortened == Line("shortened", <<>>)

Length(line) == 1 + Len(line.shows) + (IF line.more > 0 THEN 1 ELSE 0)

EmptyText == [lines |-> <<>>, length |-> 0, full |-> FALSE]

Add(text, line) ==
    LET next == text.length + Length(line) + (IF text.lines = <<>> THEN 0 ELSE 1)
    IN  IF text.full THEN text
        ELSE IF next > MaximumText - Length(Shortened) - 1 THEN [text EXCEPT !.full = TRUE]
        ELSE [text EXCEPT !.lines = Append(@, line), !.length = next]

Finish(text) == text.lines \o IF text.full THEN <<Shortened>> ELSE <<>>

TextOf(lines) == Finish(FoldLeft(Add, EmptyText, lines))

\* A line that ends with the members of a list.
Members(is, shows, s) ==
    [is |-> is, shows |-> shows \o SubSeq(s, 1, Min({Len(s), MaximumMembers})),
     more |-> Max({0, Len(s) - MaximumMembers})]

Omitted(is, s, maximum) ==
    IF Len(s) > maximum THEN <<Line(is, <<Len(s) - maximum>>)>> ELSE <<>>

FirstItems(s) == SubSeq(s, 1, Min({Len(s), MaximumItems}))
-----------------------------------------------------------------------------
(* Diagnostics: what Core has left out comes first.                        *)

DiagnosticLines(d) ==
    LET fields == CoordinateOf(d[1])
    IN  IF d[1] \notin Codes THEN <<Line("unsupported", <<>>)>>
        ELSE <<Line("diagnostic", <<d[1], PhaseOf(d[1])>>)>>
             \o [k \in DOMAIN fields |-> Line(fields[k], <<d[k + 1]>>)]
             \o Map(DetailsOf(d), LAMBDA detail : Line(detail[1], Tail(detail)))
             \o <<Line("hint", <<d[1]>>)>>

CoreLines(diagnostics) ==
    Map(SelectSeq(diagnostics, LAMBDA d : d[1] = "diagnostics.truncated"),
        LAMBDA d : Line("Core diagnostics omitted", <<d[2]>>))
    \o FlatMap(FirstItems(diagnostics), DiagnosticLines)
    \o Omitted("display diagnostics omitted", diagnostics, MaximumItems)
-----------------------------------------------------------------------------
(* The causes of a failure of prepare, shown on request only: they may be  *)
(* secret.                                                                 *)

UnresolvedLines(u) ==
    <<Line("consumer", <<u.consumer, u.slot, u.kind>>),
      Members("capability", <<u.capability>>, u.groupPath),
      Members("candidates", <<>>, u.candidates)>>

DuplicateLines(d) ==
    <<Members("implementation", <<d.id>>, d.inputs)>>
    \o Map(SubSeq(d.paths, 1, Min({Len(d.paths), MaximumMembers})),
           LAMBDA path : Members("groups", <<>>, path))
    \o Omitted("group paths omitted", d.paths, MaximumMembers)

AuthoringItem(code, item) ==
    IF code = "unresolved-binding" THEN UnresolvedLines(item) ELSE DuplicateLines(item)

AuthoringLines(code, cause, include) ==
    <<Line("reported items", <<Len(cause)>>)>>
    \o IF ~include THEN <<Line("hidden", <<>>)>>
       ELSE <<Line("not validated", <<>>)>>
            \o FlatMap(FirstItems(cause), LAMBDA item : AuthoringItem(code, item))
            \o Omitted("display items omitted", cause, MaximumItems)

PreparationCodes ==
    {"invalid-input", "limit", "handles", "roots", "core-rejected", "plan-mismatch",
     "input-handles", "unresolved-binding", "duplicate-module"}

FailureLines(failure, include) ==
    IF failure.code \notin PreparationCodes THEN <<Line("unsupported", <<>>)>>
    ELSE <<Line("code", <<failure.code>>), Line("hint", <<failure.code>>)>>
         \o CASE failure.code = "core-rejected" -> CoreLines(failure.diagnostics)
              [] failure.code \in {"unresolved-binding", "duplicate-module"} ->
                   AuthoringLines(failure.code, failure.cause, include)
              [] OTHER -> <<>>

\* formatFailure, of a failed compilation and of a failed preparation.
CompilationText(diagnostics) == TextOf(CoreLines(diagnostics))
PreparationText(failure, include) == TextOf(FailureLines(failure, include))
=============================================================================
