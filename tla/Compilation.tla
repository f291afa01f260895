------------------------------ MODULE Compilation ------------------------------
(***************************************************************************)
(* One call of compileComposition ("object") or compileCompositionJson     *)
(* ("raw"), compiler-facade/factory.ts: input-admission reads the batch of *)
(* documents under budgets they share, and composition-semantics analyses  *)
(* what it admits.                                                         *)
(*                                                                         *)
(* A document has the content its author meant, what reading it costs      *)
(* (`size` in bytes, `values`, `bytes` of strings; up to the place where   *)
(* it stops the reader) and the `flaw` that is found in it.  The profile   *)
(* is document 0 in diagnostics.                                           *)
(***************************************************************************)
EXTENDS CompositionCensus

CONSTANTS
    Batches,       \* invocations: the wrapper's flaws, the declarations, the profile
    Amended(_),    \* the invocations that the authors may make of one of them
    DocumentLimit, \* admissionLimits.declarations
    SizeLimit, BatchSizeLimit, \* raw bytes of a document and of all
    ValueLimit, StringLimit,   \* jsonValueOccurrences, aggregateStringBytes
    CapabilityLimit, SlotLimit \* totalCapabilities, totalSlots

Entries == {"object", "raw"}

\* What is found in a document: it is no usable byte carrier, no JSON, repeats a
\* key; is not plain data; too deep; violates the schema, in rows of selections
\* or elsewhere, or is of another version.
CarrierFlaws == {"carrier"}
DecodeFlaws == {"syntax", "repeat"}
PlainFlaws == {"plain"}
ShapeFlaws == {"shape", "rows", "version"}
FlawsOf(entry) ==
    {"none", "deep"} \cup ShapeFlaws
    \cup IF entry = "raw" THEN CarrierFlaws \cup DecodeFlaws ELSE PlainFlaws

\* The roots of the invocation record that are found missing, or unusable.
WrapperFlaws == {{}, {"declarations"}, {"profile"}, {"declarations", "profile"}}

ASSUME BatchAssumption ==
    \A b \in Batches : b.wrapper \in WrapperFlaws

VARIABLES
    entry, batch,
    stage,
    ordinal,    \* the document to be scanned next, after the last the profile
    used,       \* values and string bytes that the scans have charged
    emitted,    \* the diagnostics, in the order in which they are given
    blocked,    \* batchBlocked: aggregate limits of the structure are exceeded
    w           \* the input of the analysis

vars == <<entry, batch, stage, ordinal, used, emitted, blocked, w>>

Count == Len(batch.declarations)
Document(k) == IF k = 0 THEN batch.profile ELSE batch.declarations[k]
Documents == 0..Count

Emit(diagnostics) == emitted' = emitted \o diagnostics

\* empty(): nothing is admitted, and the semantic passes find nothing to say.
Nothing == [declarations |-> <<>>, allAdmitted |-> FALSE, hasProfile |-> FALSE,
            facts |-> "none", profile |-> batch.profile]

Init ==
    /\ entry \in Entries /\ \E b \in Batches : batch \in Amended(b)
    /\ \A k \in Documents : Document(k).flaw \in FlawsOf(entry)
    /\ stage = "capture" /\ ordinal = 1
    /\ used = [values |-> 0, bytes |-> 0]
    /\ emitted = <<>> /\ blocked = FALSE
    /\ w = Nothing
-----------------------------------------------------------------------------
(* The wrapper, and the byte carriers of the raw entry.                    *)

At(from, to) ==
    /\ stage = from /\ stage' = to
    /\ UNCHANGED <<entry, batch>>

Rejected(k) == Document(k).flaw \in CarrierFlaws
Oversized(k) == ~Rejected(k) /\ Document(k).size > SizeLimit

\* null bytes: the carrier is rejected or its document too long.
Unread(k) == entry = "raw" /\ (Rejected(k) \/ Oversized(k))

InWrapper(code) == FlatMap(<<"declarations", "profile">>,
    LAMBDA root : When(root \in batch.wrapper, <<code, root>>))

RejectWrapper ==
    /\ At("capture", "declarations")
    /\ \/ batch.wrapper # {}
          /\ Emit(InWrapper(IF entry = "raw" THEN "input.invalid-byte-carrier"
                                             ELSE "schema.non-plain-value"))
       \/ batch.wrapper = {} /\ Count > DocumentLimit
          /\ Emit(<<<<"limit.declarations">>>>)
    /\ UNCHANGED <<ordinal, used, blocked, w>>

OfCarrier(k) ==
    When(Rejected(k), <<"input.invalid-byte-carrier", k>>)
    \o When(Oversized(k), <<"limit.rawDocumentBytes", k>>)

\* Rejected carriers have no length to count; oversized ones count.
BatchSize == MapThenSumSet(LAMBDA k : Document(k).size, {k \in Documents : ~Rejected(k)})

AllDocuments(F(_)) == FlatMap([k \in 1..Count + 1 |-> IF k > Count THEN 0 ELSE k], F)

\* captureRawInput: all carriers are classified before anything is reported.
CaptureBytes ==
    /\ entry = "raw" /\ batch.wrapper = {} /\ Count <= DocumentLimit
    /\ IF BatchSize > BatchSizeLimit
       THEN /\ At("capture", "declarations")
            /\ Emit(AllDocuments(OfCarrier) \o <<<<"limit.aggregateRawBytes">>>>)
       ELSE At("capture", "scan") /\ Emit(AllDocuments(OfCarrier))
    /\ UNCHANGED <<ordinal, used, blocked, w>>

CaptureObjects ==
    /\ entry = "object" /\ batch.wrapper = {} /\ Count <= DocumentLimit
    /\ At("capture", "count")
    /\ UNCHANGED <<ordinal, used, emitted, blocked, w>>
-----------------------------------------------------------------------------
(* The scans, in order, charge the values and strings of all documents.    *)

Decoded(k) == ~Unread(k) /\ Document(k).flaw \notin {"deep"} \cup DecodeFlaws

Listed(F(_)) ==
    MapThenSumSet(LAMBDA k : F(Document(k)),
                  {k \in 1..Count : entry = "object" \/ Decoded(k)})

OverCapabilities == Listed(LAMBDA d : Len(d.provides)) > CapabilityLimit
OverSlots == Listed(LAMBDA d : Len(d.slots)) > SlotLimit

\* The totals of all declarations, read ahead of the scans (shallowCounts), or
\* of those that the scans have decoded (createRawViews).
CountTotals ==
    /\ IF entry = "object" THEN At("count", "scan") ELSE At("count", "admit")
    /\ Emit(When(OverCapabilities, <<"limit.totalCapabilities">>)
            \o When(OverSlots, <<"limit.totalSlots">>))
    /\ blocked' = (OverCapabilities \/ OverSlots)
    /\ UNCHANGED <<ordinal, used, w>>

Current == IF ordinal > Count THEN 0 ELSE ordinal
Scanned == IF entry = "object" THEN "admit" ELSE "count"

\* Variant: each document has the budget for itself.
ExceededAlone ==
    {b \in {"values", "bytes"} :
        Document(Current)[b] > IF b = "values" THEN ValueLimit ELSE StringLimit}

\* The budgets that run out in this document.
Exceeded ==
    {b \in {"values", "bytes"} :
        used[b] + Document(Current)[b] > IF b = "values" THEN ValueLimit ELSE StringLimit}

Scan ==
    /\ Unread(Current) \/ Exceeded = {}
    /\ At("scan", IF Current = 0 THEN Scanned ELSE "scan")
    /\ IF Unread(Current) THEN UNCHANGED <<used, emitted>>
       ELSE LET d == Document(Current)
            IN  /\ used' = [values |-> used.values + d.values, bytes |-> used.bytes + d.bytes]
                /\ Emit(CASE d.flaw = "deep" -> <<<<"limit.jsonDepth", Current>>>>
                          [] d.flaw = "syntax" -> <<<<"decode.invalid-json", Current>>>>
                          [] d.flaw = "repeat" -> <<<<"decode.duplicate-key", Current>>>>
                          [] OTHER -> <<>>)
    /\ ordinal' = ordinal + 1
    /\ UNCHANGED <<blocked, w>>

\* Whichever budget is found exhausted first stops the batch.
ScanStops ==
    /\ At("scan", "declarations")
    /\ ~Unread(Current)
    /\ \E b \in Exceeded : Emit(<<<<"limit." \o b>>>>)
    /\ UNCHANGED <<ordinal, used, blocked, w>>
-----------------------------------------------------------------------------
(* What is admitted.                                                       *)

\* A row with more providers than a slot of many may have is outside the schema.
RowsFit == \A row \in ToSet(batch.profile.bindings) : Len(row.providers) <= ProviderLimit

Plain(k) == Decoded(k) /\ Document(k).flaw \notin PlainFlaws
Valid(k) == Plain(k) /\ Document(k).flaw = "none" /\ (k = 0 => RowsFit)

OfShape(k) ==
    When(Decoded(k) /\ ~Plain(k), <<"schema.non-plain-value", k>>)
    \o When(Plain(k) /\ Document(k).flaw \in ShapeFlaws, <<"schema", k>>)
    \o When(k = 0 /\ Plain(0) /\ Document(0).flaw # "version" /\ ~RowsFit, <<"schema.size", 0>>)

Facts ==
    IF blocked \/ ~Plain(0) \/ Document(0).flaw = "version" THEN "none"
    ELSE IF Document(0).flaw = "rows" THEN "incomplete" ELSE "complete"

Content(d) == [id |-> d.id, module |-> d.module, provides |-> d.provides, slots |-> d.slots]

AllAdmitted == ~blocked /\ \A k \in 1..Count : Valid(k)

Admit ==
    /\ At("admit", "declarations")
    /\ Emit(AllDocuments(OfShape))
    /\ w' = [declarations |-> IF blocked THEN <<>>
                ELSE Map(SelectSeq([k \in 1..Count |-> k], Valid), LAMBDA k : Content(Document(k))),
             allAdmitted |-> AllAdmitted,
             hasProfile |-> ~blocked /\ Valid(0),
             facts |-> Facts,
             profile |-> batch.profile]
    /\ UNCHANGED <<ordinal, used, blocked>>
-----------------------------------------------------------------------------
(* The analysis of what was admitted, pass by pass.                        *)

Pass(from, to, diagnostics) ==
    /\ At(from, to) /\ Emit(diagnostics)
    /\ UNCHANGED <<ordinal, used, blocked, w>>

WithProfile(diagnostics) == IF w.hasProfile THEN diagnostics ELSE <<>>

AnalyseDeclarations == Pass("declarations", "resources", DeclarationDiagnostics(w))
AnalyseResources == Pass("resources", "profile", ResourceDiagnostics(w))
AnalyseProfile == Pass("profile", "bindings", WithProfile(ProfileDiagnostics(w)))
AnalyseBindings == Pass("bindings", "graph", WithProfile(BindingDiagnostics(w)))
AnalyseGraph == Pass("graph", "finished", WithProfile(GraphDiagnostics(w)))

\* The promise is resolved with the plan, or with the diagnostics.
Resolved == stage = "finished" /\ UNCHANGED vars

Next ==
    \/ RejectWrapper \/ CaptureBytes \/ CaptureObjects
    \/ CountTotals \/ Scan \/ ScanStops \/ Admit
    \/ AnalyseDeclarations \/ AnalyseResources \/ AnalyseProfile
    \/ AnalyseBindings \/ AnalyseGraph
    \/ Resolved

Spec == Init /\ [][Next]_vars

Planned == stage = "finished" /\ emitted = <<>>
=============================================================================
