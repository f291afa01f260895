------------------------- MODULE CompilationProperties -------------------------
(***************************************************************************)
(* What a compilation promises of its batch: a plan exactly for what can   *)
(* be planned, never a failure without a reason, no reason twice, and no   *)
(* claim about what is absent that the batch refutes.                      *)
(***************************************************************************)
EXTENDS Compilation, FailureDisplay

Supplied == ToSet(batch.declarations)
SuppliedRows == ToSet(batch.profile.bindings)

\* What the roots need along all rows that were supplied, valid or not.
NeededAsSupplied ==
    Closure(UNION {{<<p, row.consumer>> : p \in ToSet(row.providers)} : row \in SuppliedRows},
            Selected(batch),
            {row.id : row \in {r \in ToSet(batch.profile.selections) :
                                  r.module \in ToSet(batch.profile.roots)}})

\* Diagnostics that say something is absent speak about the batch as the caller
\* supplied it, not about the part that admission let through.
AbsenceIsEvident ==
    \A d \in ToSet(emitted) :
        CASE d[1] = "profile.unknown-implementation" -> \A s \in Supplied : s.id # d[3]
          [] d[1] \in {"binding.unknown-consumer"} -> \A s \in Supplied : s.id # d[2]
          [] d[1] = "binding.unknown-provider" -> \A s \in Supplied : s.id # d[4]
          [] d[1] \in {"profile.unknown-module", "profile.unknown-root"} ->
                \A s \in Supplied : s.module # d[2]
          [] d[1] = "binding.unknown-slot" ->
                \A s \in Supplied : s.id = d[2] => \A e \in ToSet(s.slots) : e.slot # d[3]
          [] d[1] = "binding.missing" ->
                \A row \in SuppliedRows : row.consumer # d[2] \/ row.slot # d[3]
          [] d[1] = "profile.unreachable-selection" -> d[3] \notin NeededAsSupplied
          [] OTHER -> TRUE

\* What the judge of the qualification suite reads of a batch: the documents it
\* can decode, none of them if together they are too many values or too long;
\* and of those what the schema admits.
Oracle == INSTANCE QualificationOracle

decodeStaticJson(k) == Document(k).size <= SizeLimit /\ Decoded(k)

\* The budgets that documents exceed together.
meterStaticJsonResources(documents) ==
    {b \in {"values", "bytes"} :
        MapThenSumSet(LAMBDA k : Document(k)[b], documents)
            > IF b = "values" THEN ValueLimit ELSE StringLimit}

staticInputDocuments ==
    LET decoded == {k \in Documents :
            entry = "object" \/ (BatchSize <= BatchSizeLimit /\ decodeStaticJson(k))}
    IN  IF decoded = Documents /\ meterStaticJsonResources(decoded) # {} THEN {} ELSE decoded

OracleContext ==
    LET valid == {k \in staticInputDocuments : Valid(k)}
        listed == SelectSeq([k \in 1..Count |-> k], LAMBDA k : k \in valid)
        declarations == Map(listed, LAMBDA k : Content(Document(k)))
    IN  [declarations |-> declarations,
         profile |-> IF 0 \in valid THEN <<batch.profile>> ELSE <<>>,
         moduleCensusComplete |-> Len(listed) = Count,
         identityCensusComplete |->
             Len(listed) = Count /\ ~Oracle!hasDuplicate(Map(declarations, LAMBDA d : d.id))]

\* The judge counts positions in the lists as they are written, the compiler in
\* the order of ids: they speak of the same ones if a list is written in order.
InOrder(s) == \A k, l \in DOMAIN s : k < l => s[k] <= s[l]
WrittenInOrder ==
    /\ entry = "object"
    /\ \A d \in Supplied : /\ InOrder(Map(d.provides, LAMBDA p : p.capability))
                           /\ InOrder(Map(d.slots, LAMBDA e : e.slot))
Comparable(d) ==
    d[1] \in {"declaration.duplicate-capability", "declaration.duplicate-slot"} => WrittenInOrder

\* The judge finds a witness in the documents for everything that the compiler
\* says about them, claims of an absence only under a complete census, and misses
\* nothing that needs no other document.  (It takes no batch in which two rows
\* have one coordinate.)
JudgedTruthful ==
    LET c == OracleContext
    IN  Oracle!CoordinatesAreUnique(c) =>
            /\ \A d \in ToSet(emitted) :
                  d[1] \in Oracle!SemanticCodes /\ Comparable(d) =>
                      Oracle!CensusSuffices(c, d) /\ Oracle!staticSemanticDiagnosticHasWitness(c, d)
            /\ w # Nothing /\ ~blocked =>
                  \A d \in Oracle!staticIndependentSemanticDiagnostics(c) :
                      Comparable(d) => d \in ToSet(emitted)

\* Of a batch of texts it knows what must be said before any schema: only that
\* they are too long together; else what stops each of them; and if nothing does,
\* the budgets they exceed.
staticRawDecodeDiagnostics ==
    LET CodeOf(d) == CASE d.size > SizeLimit -> {"limit.rawDocumentBytes"}
                       [] d.flaw = "deep" -> {"limit.jsonDepth"}
                       [] d.flaw = "syntax" -> {"decode.invalid-json"}
                       [] d.flaw = "repeat" -> {"decode.duplicate-key"}
                       [] OTHER -> {}
        found == UNION {{<<code, k>> : code \in CodeOf(Document(k))} : k \in Documents}
    IN  IF BatchSize > BatchSizeLimit THEN {<<"limit.aggregateRawBytes">>}
        ELSE IF found # {} THEN found
        ELSE {<<"limit." \o b>> : b \in meterStaticJsonResources(Documents)}

Budgets == {<<"limit.values">>, <<"limit.bytes">>}
RawCodes == {"limit.rawDocumentBytes", "limit.aggregateRawBytes", "limit.jsonDepth",
             "limit.values", "limit.bytes", "decode.invalid-json", "decode.duplicate-key"}

\* The compiler says the same.  Two differences: it still names the single texts
\* that are too long if all are too long together; and it stops reading where a
\* budget runs out, which it says as well if a text before has been refused, but
\* then of one budget only and without the texts after.
JudgedRaw ==
    LET said == {d \in ToSet(emitted) : d[1] \in RawCodes}
        expected == staticRawDecodeDiagnostics
        stopped == said \cap Budgets
    IN  entry = "raw" /\ batch.wrapper = {} /\ Count <= DocumentLimit
        /\ (\A k \in Documents : ~Rejected(k)) =>
            IF BatchSize > BatchSizeLimit
            THEN expected = {d \in said : d[1] # "limit.rawDocumentBytes"}
            ELSE IF stopped = {} THEN expected = said
            ELSE /\ Cardinality(stopped) = 1 /\ said \ Budgets \subseteq expected
                 /\ stopped \subseteq expected \/ expected \cap Budgets = {}

\* A report of n diagnostics at most: of more, the collector (DiagnosticCollector)
\* leaves n - 1 and says how many it leaves out.
Report(n) ==
    IF Len(emitted) <= n THEN emitted
    ELSE Append(SubSeq(emitted, 1, n - 1), <<"diagnostics.truncated", Len(emitted) - (n - 1)>>)

\* What a reader finds in a text: the diagnostics, each with the coordinate that
\* is named between it and the next, and the numbers of those not shown.
Heads(text) == SelectSeq([k \in DOMAIN text |-> k], LAMBDA k : text[k].is = "diagnostic")
Names == {"moduleId", "implementationId", "slotId", "providerImplementationId"}

Coordinates(text, heads, n) ==
    LET end == IF n = Len(heads) THEN Len(text) ELSE heads[n + 1] - 1
    IN  Map(SelectSeq(SubSeq(text, heads[n], end), LAMBDA line : line.is \in Names),
            LAMBDA line : line.shows[1])

Numbers(text, is) ==
    MapThenSumSet(LAMBDA k : text[k].shows[1], {k \in DOMAIN text : text[k].is = is})

\* The text of a report is short enough, and shows its diagnostics from the first
\* on, each with its whole coordinate.  What it shows and what it counts is all that was
\* emitted; and if it is shortened it says so, but has said before how many Core
\* has left out ("normally last, beyond the local display cap").
ToldInText(report) ==
    LET text == CompilationText(report)
        heads == Heads(text)
        shortened == text # <<>> /\ Last(text) = Shortened
        codes == Map(heads, LAMBDA k : text[k].shows[1])
        markers == {k \in DOMAIN report : report[k][1] = "diagnostics.truncated"}
        omitted == Numbers(text, "Core diagnostics omitted")
    IN  /\ MapThenSumSet(LAMBDA k : Length(text[k]), DOMAIN text) + Len(text) - 1 <= MaximumText
        /\ codes = Map(SubSeq(report, 1, Len(heads)), LAMBDA d : d[1])
        /\ \A n \in 1..Len(heads) - (IF shortened THEN 1 ELSE 0) :
              Coordinates(text, heads, n) = SubSeq(report[n], 2, 1 + Len(CoordinateOf(report[n][1])))
        /\ omitted + Len(report) - Cardinality(markers) = Len(emitted)
        /\ ~shortened =>
              Len(heads) + Numbers(text, "display diagnostics omitted") = Len(report)

\* Nothing is said that is not so: no absence that the batch refutes, nothing the
\* judge has no witness for, and nothing else in the text that is made of it.
TruthfulDiagnostics ==
    /\ AbsenceIsEvident
    /\ stage = "finished" => JudgedRaw /\ JudgedTruthful /\ \A n \in 2..4 : ToldInText(Report(n))

\* A plan is what the judge makes of the profile.
JudgedPlan ==
    LET c == OracleContext
        plan == PlanOf(w)
        edges == UNION {{<<p, b.row.consumer>> : p \in ToSet(b.row.providers)} : b \in ToSet(plan.bindings)}
    IN  /\ Oracle!validateNormalizationProfileSemantics(c, batch.profile)
        /\ plan.bindings = Oracle!normalizedProfileBindings(c, batch.profile)
        /\ <<plan.order>> = Oracle!minimumDependencyOrder(Selected(batch), edges)

\* A batch that can be planned, said of the batch itself: flawless documents
\* within the limits, in which every name means one thing and every slot is
\* bound as it asks to selected providers of its capability and token; the
\* selections are what the roots need, without cycles and not too deep.
Flawless ==
    /\ batch.wrapper = {} /\ Count <= DocumentLimit
    /\ \A k \in Documents : Document(k).flaw = "none"
    /\ entry = "raw" => /\ BatchSize <= BatchSizeLimit
                        /\ \A k \in Documents : Document(k).size <= SizeLimit
    /\ MapThenSumSet(LAMBDA k : Document(k).values, Documents) <= ValueLimit
    /\ MapThenSumSet(LAMBDA k : Document(k).bytes, Documents) <= StringLimit
    /\ MapThenSumSet(LAMBDA k : Len(Document(k).provides), 1..Count) <= CapabilityLimit
    /\ MapThenSumSet(LAMBDA k : Len(Document(k).slots), 1..Count) <= SlotLimit

OneEach(s, F(_)) == Cardinality({F(s[k]) : k \in DOMAIN s}) = Len(s)

NamesAreUnique ==
    /\ OneEach(batch.declarations, LAMBDA d : d.id)
    /\ \A d \in Supplied : /\ OneEach(d.provides, LAMBDA p : p.capability)
                           /\ OneEach(d.slots, LAMBDA e : e.slot)
    /\ OneEach(batch.profile.roots, LAMBDA m : m)
    /\ OneEach(batch.profile.selections, LAMBDA row : row.module)
    /\ OneEach(batch.profile.bindings, LAMBDA row : <<row.consumer, row.slot>>)
    /\ \A row \in SuppliedRows : OneEach(row.providers, LAMBDA p : p)

Selects(row, d) == row.module = d.module /\ row.id = d.id
InUse == {d \in Supplied : \E row \in ToSet(batch.profile.selections) : Selects(row, d)}

SlotIsBound(d, e) ==
    \E row \in SuppliedRows :
        /\ row.consumer = d.id /\ row.slot = e.slot
        /\ Len(row.providers) \in (IF e.kind = "many" THEN e.min..e.max
                                   ELSE IF e.kind = "required" THEN {1} ELSE {0, 1})
        /\ Len(row.providers) <= ProviderLimit
        /\ \A p \in ToSet(row.providers) :
              \E s \in InUse : s.id = p /\ \E c \in ToSet(s.provides) :
                                      c.capability = e.capability /\ c.token = e.token

\* A row is of a known consumer, and of one of its slots if that is selected.
RowIsKnown(row) ==
    \E d \in Supplied : /\ d.id = row.consumer
                        /\ d \in InUse => \E e \in ToSet(d.slots) : e.slot = row.slot

CanBePlanned ==
    LET ids == {d.id : d \in InUse}
        rows == {row \in SuppliedRows : row.consumer \in ids}
        edges == UNION {{<<p, row.consumer>> : p \in ToSet(row.providers)} : row \in rows}
    IN  /\ Flawless /\ NamesAreUnique
        /\ \A row \in ToSet(batch.profile.selections) : \E d \in Supplied : Selects(row, d)
        /\ \A m \in ToSet(batch.profile.roots) : \E d \in InUse : d.module = m
        /\ \A d \in InUse : \A e \in ToSet(d.slots) : SlotIsBound(d, e)
        /\ \A row \in SuppliedRows : RowIsKnown(row) /\ Len(row.providers) <= ProviderLimit
        /\ MapThenSumSet(LAMBDA row : Len(row.providers), rows) <= EdgeLimit
        /\ NeededAsSupplied = ids
        /\ CyclesOf(edges, ids) = {}
        /\ DepthOf(edges, ids) <= DepthLimit

\* And assertPrerequisites, which throws "Semantic prerequisites are incomplete
\* without diagnostic evidence" where a pass has failed and none has said so,
\* never does.
PlanIffValid ==
    /\ stage = "finished" => (Planned <=> CanBePlanned)
    /\ Planned => Prerequisites(w) /\ JudgedPlan

\* "never the caller's registration order" (declaration-census.ts:68): documents
\* and rows in another order have the same diagnostics, but for the positions of
\* rows, and the same plan.  (The analysis does not know the entry.)
Reordered ==
    [w EXCEPT !.declarations = Map(Reverse(@), LAMBDA d :
                  [d EXCEPT !.provides = Reverse(@), !.slots = Reverse(@)]),
              !.profile = [@ EXCEPT !.roots = Reverse(@), !.selections = Reverse(@),
                                    !.bindings = Reverse(@)]]

Analysis(v) ==
    DeclarationDiagnostics(v)
    \o IF v.hasProfile
       THEN ProfileDiagnostics(v) \o BindingDiagnostics(v) \o GraphDiagnostics(v)
       ELSE <<>>

OrderIsImmaterial ==
    stage = "declarations" /\ entry = "object" =>
        LET found == ToSet(Analysis(w))
        IN  /\ found = ToSet(Analysis(Reordered))
            /\ found = {} /\ w.hasProfile => PlanOf(w) = PlanOf(Reordered)
=============================================================================
