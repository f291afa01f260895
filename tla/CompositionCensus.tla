--------------------------- MODULE CompositionCensus ---------------------------
(***************************************************************************)
(* packages/core/src/features/composition-semantics: the passes in front   *)
(* of the graph.  Each reads what admission let through and gives          *)
(* diagnostics; none stops an independent one.                             *)
(*                                                                         *)
(* An input w of the analysis has `declarations`, `allAdmitted`,           *)
(* `hasProfile` and `profile`, and `facts`: whether the rows of the        *)
(* profile may be counted ("none", "incomplete", "complete").  Ids are     *)
(* numbers, in their order.  A diagnostic is a tuple of its code and       *)
(* coordinates.                                                            *)
(***************************************************************************)
EXTENDS Integers, SequencesExt, FiniteSetsExt

CONSTANTS
    ProviderLimit,   \* semanticResourceLimits.providersPerManySlot
    EdgeLimit,       \* semanticResourceLimits.graphEdges
    DepthLimit       \* selectedGraphDepthLimit

ASSUME LimitAssumption ==
    ProviderLimit \in Nat \ {0} /\ EdgeLimit \in Nat \ {0} /\ DepthLimit \in Nat \ {0}

Map(s, F(_)) == [k \in DOMAIN s |-> F(s[k])]
FlatMap(s, F(_)) == FlattenSeq(Map(s, F))
When(condition, diagnostic) == IF condition THEN <<diagnostic>> ELSE <<>>

\* The keys of a Map that is filled from s: each once, in the order of insertion.
Keys(s) ==
    LET Insert(keys, k) == IF Contains(keys, k) THEN keys ELSE Append(keys, k)
    IN  FoldLeft(Insert, <<>>, s)

\* The values that occur more than once in a sequence.
Repeated(s) == {s[i] : i \in {k \in DOMAIN s : \E l \in DOMAIN s : l < k /\ s[l] = s[k]}}
-----------------------------------------------------------------------------
(* Declarations.                                                           *)

Named(w, i) == SelectSeq(w.declarations, LAMBDA d : d.id = i)
Absent(w, i) == Named(w, i) = <<>>
Known(w, i) == Len(Named(w, i)) = 1
Declaration(w, i) == Named(w, i)[1]

HasModule(w, m) == \E k \in DOMAIN w.declarations : w.declarations[k].module = m

\* Variant: the ids of what was admitted, as if nothing else had been supplied.
IdentityCensusOfAdmitted(w) ==
    \A k \in DOMAIN w.declarations : Known(w, w.declarations[k].id)

IdentityCensusComplete(w) ==
    w.allAdmitted /\ \A k \in DOMAIN w.declarations : Known(w, w.declarations[k].id)

\* What a lookup by id finds in a list: exactly one entry, or none usable.
Capabilities(w, i, c) == SelectSeq(Declaration(w, i).provides, LAMBDA p : p.capability = c)
Slots(w, i, s) == SelectSeq(Declaration(w, i).slots, LAMBDA e : e.slot = s)

UniqueSlots(w, i) ==
    SelectSeq(Declaration(w, i).slots, LAMBDA e : Len(Slots(w, i, e.slot)) = 1)

\* Variant: positions in the list as it is written.
RepeatsAsWritten(ids) ==
    SelectSeq([k \in DOMAIN ids |-> k - 1], LAMBDA k : \E l \in 1..k : ids[l] = ids[k + 1])

\* The positions in the sorted list (from 0) of an id that equals the one before.
RepeatsAt(ids) ==
    LET sorted == SortSeq(ids, <)
    IN  SelectSeq([k \in DOMAIN ids |-> k - 1], LAMBDA k : k > 0 /\ sorted[k] = sorted[k + 1])

RepeatsOf(i, d) ==
    LET slots == SortSeq(Map(d.slots, LAMBDA e : e.slot), <)
    IN  Map(RepeatsAt(Map(d.provides, LAMBDA p : p.capability)),
            LAMBDA k : <<"declaration.duplicate-capability", i, k>>)
        \o Map(RepeatsAt(slots), LAMBDA k : <<"declaration.duplicate-slot", i, slots[k + 1], k>>)

\* Documents that declare the same implementation report a position once.
GroupRepeats(w, i) == Keys(FlatMap(Named(w, i), LAMBDA d : RepeatsOf(i, d)))

DeclarationDiagnostics(w) ==
    FlatMap(Keys(Map(w.declarations, LAMBDA d : d.id)),
            LAMBDA i : When(~Known(w, i), <<"declaration.duplicate-implementation", i>>)
                       \o GroupRepeats(w, i))
-----------------------------------------------------------------------------
(* Resources: counted on the rows, also when the profile is not admitted.  *)

Selected(w) == {w.profile.selections[k].id : k \in DOMAIN w.profile.selections}

ProviderCount(w, k) == Len(w.profile.bindings[k].providers)

CountedRows(w) ==
    {k \in DOMAIN w.profile.bindings : w.profile.bindings[k].consumer \in Selected(w)}

\* Saturates above the limit; counted only for a complete census of selections.
EdgesCounted(w) == w.facts = "complete"
EdgesExceeded(w) ==
    EdgesCounted(w) /\ MapThenSumSet(LAMBDA k : ProviderCount(w, k), CountedRows(w)) > EdgeLimit

\* A row of a known consumer, at a slot that is unique and takes many.
IsManyRow(w, row) ==
    /\ Known(w, row.consumer)
    /\ LET slots == Slots(w, row.consumer, row.slot)
       IN  Len(slots) = 1 /\ slots[1].kind = "many"

ResourceDiagnostics(w) ==
    IF w.facts = "none" THEN <<>>
    ELSE FlatMap([k \in DOMAIN w.profile.bindings |-> k],
            LAMBDA k : When(/\ k \in CountedRows(w)
                            /\ ProviderCount(w, k) > ProviderLimit
                            /\ IsManyRow(w, w.profile.bindings[k]),
                            <<"limit.providersPerManySlot", k - 1>>))
         \o When(EdgesExceeded(w), <<"limit.graphEdges">>)
-----------------------------------------------------------------------------
(* The profile: selections and roots.                                      *)

Rows(w, m) == SelectSeq(w.profile.selections, LAMBDA row : row.module = m)

\* The one implementation selected for m, if it is known and one of m's.
Chosen(w, m) ==
    LET rows == Rows(w, m)
    IN  IF Len(rows) = 1 /\ Known(w, rows[1].id) /\ Declaration(w, rows[1].id).module = m
        THEN {rows[1].id} ELSE {}

SelectionDiagnostics(w, m) ==
    LET Mismatch(i) == Known(w, i) /\ Declaration(w, i).module # m
        OfRow(i) == IF ~IdentityCensusComplete(w) THEN <<>>
                    ELSE When(Absent(w, i), <<"profile.unknown-implementation", m, i>>)
                         \o When(Mismatch(i), <<"profile.implementation-mismatch", m, i>>)
    IN  When(Len(Rows(w, m)) > 1, <<"profile.duplicate-selection", m>>)
        \o When(w.allAdmitted /\ ~HasModule(w, m), <<"profile.unknown-module", m>>)
        \o FlatMap(Keys(Map(Rows(w, m), LAMBDA row : row.id)), OfRow)

RootDiagnostics(w, m) ==
    When(m \in Repeated(w.profile.roots), <<"profile.duplicate-root", m>>)
    \o When(w.allAdmitted /\ ~HasModule(w, m), <<"profile.unknown-root", m>>)
    \o When(w.allAdmitted /\ HasModule(w, m) /\ Rows(w, m) = <<>>,
            <<"profile.missing-selection", m>>)

ProfileDiagnostics(w) ==
    FlatMap(Keys(Map(w.profile.selections, LAMBDA row : row.module)),
            LAMBDA m : SelectionDiagnostics(w, m))
    \o FlatMap(Keys(w.profile.roots), LAMBDA m : RootDiagnostics(w, m))

NodesResolved(w) == \A i \in Selected(w) : Known(w, i)

\* Every selection must resolve, also those no root needs.
RootsResolved(w) ==
    /\ NodesResolved(w)
    /\ \A k \in DOMAIN w.profile.selections : Chosen(w, w.profile.selections[k].module) # {}
    /\ \A k \in DOMAIN w.profile.roots : Chosen(w, w.profile.roots[k]) # {}
    /\ Repeated(w.profile.roots) = {}

RootNodes(w) == IF RootsResolved(w) THEN UNION {Chosen(w, m) : m \in ToSet(w.profile.roots)} ELSE {}
-----------------------------------------------------------------------------
(* Bindings.                                                               *)

Allowed(slot, count) ==
    CASE slot.kind = "many" -> slot.min <= count /\ count <= slot.max
      [] slot.kind = "required" -> count = 1
      [] slot.kind = "optional" -> count <= 1

ProviderDiagnostics(w, row, slot, p) ==
    LET At(code) == <<code, row.consumer, row.slot, p>>
        found == IF Known(w, p) THEN Capabilities(w, p, slot.capability) ELSE <<>>
    IN  When(p \in Repeated(row.providers), At("binding.duplicate"))
        \o When(Absent(w, p) /\ IdentityCensusComplete(w), At("binding.unknown-provider"))
        \o When(Known(w, p) /\ p \notin Selected(w), At("binding.provider-not-selected"))
        \o When(Known(w, p) /\ found = <<>>, At("binding.capability-missing"))
        \o When(Len(found) = 1 /\ found[1].token # slot.token, At("binding.compatibility-mismatch"))

RecordDiagnostics(w, row, slot) ==
    When(~Allowed(slot, Len(row.providers)),
         <<"binding.cardinality", row.consumer, row.slot, Len(row.providers)>>)
    \o FlatMap(Keys(row.providers), LAMBDA p : ProviderDiagnostics(w, row, slot, p))

\* What is unknown or ambiguous makes a row invalid, reported or not.
RecordValid(w, row, slot) ==
    /\ RecordDiagnostics(w, row, slot) = <<>>
    /\ \A p \in ToSet(row.providers) : Known(w, p) /\ Len(Capabilities(w, p, slot.capability)) = 1

Records(w, i, s) == SelectSeq(w.profile.bindings, LAMBDA row : row.consumer = i /\ row.slot = s)
SlotsBound(w, i) ==
    Keys(Map(SelectSeq(w.profile.bindings, LAMBDA row : row.consumer = i), LAMBDA row : row.slot))

SuppliedDiagnostics(w, i) ==
    LET OfSlot(s) ==
            LET slots == Slots(w, i, s)
            IN  CASE slots = <<>> -> When(IdentityCensusComplete(w), <<"binding.unknown-slot", i, s>>)
                  [] Len(slots) > 1 -> <<>>
                  [] OTHER -> Keys(FlatMap(Records(w, i, s),
                                           LAMBDA row : RecordDiagnostics(w, row, slots[1])))
    IN  FlatMap(SlotsBound(w, i), LAMBDA s : When(Len(Records(w, i, s)) > 1,
                                                  <<"binding.duplicate-record", i, s>>))
        \o When(Absent(w, i) /\ IdentityCensusComplete(w), <<"binding.unknown-consumer", i>>)
        \o IF Known(w, i) /\ i \in Selected(w) THEN FlatMap(SlotsBound(w, i), OfSlot) ELSE <<>>

MissingDiagnostics(w, i) ==
    IF ~Known(w, i) THEN <<>>
    ELSE FlatMap(UniqueSlots(w, i), LAMBDA e : When(Records(w, i, e.slot) = <<>>,
                                                    <<"binding.missing", i, e.slot>>))

\* In the order of their ids.
SelectedList(w) == SortSeq(Keys(Map(w.profile.selections, LAMBDA row : row.id)), <)

BindingDiagnostics(w) ==
    FlatMap(Keys(Map(w.profile.bindings, LAMBDA row : row.consumer)),
            LAMBDA i : SuppliedDiagnostics(w, i))
    \o FlatMap(SelectedList(w), LAMBDA i : MissingDiagnostics(w, i))

\* The rows that become edges: alone at their slot, and valid.
IsValidRow(w, row) ==
    /\ row.consumer \in Selected(w) /\ Known(w, row.consumer)
    /\ Len(Records(w, row.consumer, row.slot)) = 1
    /\ LET slots == Slots(w, row.consumer, row.slot)
       IN  Len(slots) = 1 /\ RecordValid(w, row, slots[1])

ValidRows(w) == SelectSeq(w.profile.bindings, LAMBDA row : IsValidRow(w, row))

\* All that i needs is in valid rows: each of its slots once, no other row.
FrontierComplete(w, i) ==
    /\ Known(w, i) /\ Len(UniqueSlots(w, i)) = Len(Declaration(w, i).slots)
    /\ \A e \in ToSet(UniqueSlots(w, i)) : Records(w, i, e.slot) # <<>>
    /\ \A row \in ToSet(w.profile.bindings) : row.consumer = i => IsValidRow(w, row)
-----------------------------------------------------------------------------
(* The graph of the valid rows: what analyzeSelectedGraph makes of it (the *)
(* module SelectedGraph shows how), and the selections no root needs.      *)

ProviderEdges(w) ==
    UNION {{<<p, row.consumer>> : p \in ToSet(row.providers)} : row \in ToSet(ValidRows(w))}

\* What the members of A need, themselves included.
Closure(edges, nodes, A) ==
    LET within[k \in 0..Cardinality(nodes)] ==
            IF k = 0 THEN A
            ELSE LET nearer == within[k - 1]
                 IN  nearer \cup {e[1] : e \in {f \in edges : f[2] \in nearer}}
    IN  within[Cardinality(nodes)]

\* The classes of nodes that provide for one another, cycles only.
CyclesOf(edges, nodes) ==
    LET above == [n \in nodes |-> Closure(edges, nodes, {e[1] : e \in {f \in edges : f[2] = n}})]
    IN  {{m \in nodes : m \in above[n] /\ n \in above[m]} : n \in nodes} \ {{}}

\* The longest chain of nodes on no cycle, saturated.
DepthOf(edges, nodes) ==
    LET acyclic == nodes \ UNION CyclesOf(edges, nodes)
        ends[k \in 1..DepthLimit + 1] ==
            IF k = 1 THEN acyclic
            ELSE LET shorter == ends[k - 1]
                 IN  {n \in acyclic : \E m \in shorter : <<m, n>> \in edges}
    IN  Cardinality({k \in 1..DepthLimit + 1 : ends[k] # {}})

GraphBuilt(w) == NodesResolved(w) /\ EdgesCounted(w) /\ ~EdgesExceeded(w)

Reached(w) == Closure(ProviderEdges(w), Selected(w), RootNodes(w))

GraphDiagnostics(w) ==
    IF ~GraphBuilt(w) THEN <<>>
    ELSE LET edges == ProviderEdges(w)
             reached == Reached(w)
             evident == RootsResolved(w) /\ \A i \in reached : FrontierComplete(w, i)
         IN  When(DepthOf(edges, Selected(w)) > DepthLimit, <<"limit.selectedGraphDepth">>)
             \o FlatMap(SelectedList(w), LAMBDA i :
                    When(i \in {Min(c) : c \in CyclesOf(edges, Selected(w))}, <<"graph.cycle", i>>))
             \o FlatMap(SelectedList(w), LAMBDA i :
                    When(evident /\ i \notin reached,
                         <<"profile.unreachable-selection", Declaration(w, i).module, i>>))

\* assertPrerequisites: without diagnostics, all of this must hold or it throws.
Prerequisites(w) ==
    /\ w.allAdmitted /\ w.hasProfile
    /\ DeclarationDiagnostics(w) = <<>>
    /\ ProfileDiagnostics(w) = <<>> /\ BindingDiagnostics(w) = <<>>
    /\ RootsResolved(w)
    /\ GraphBuilt(w) /\ CyclesOf(ProviderEdges(w), Selected(w)) = {}

\* The construction order: of the nodes with all providers listed, the least.
OrderOf(edges, nodes) ==
    LET listed[k \in 0..Cardinality(nodes)] ==
            IF k = 0 THEN <<>>
            ELSE LET before == ToSet(listed[k - 1])
                     ready == {n \in nodes \ before : \A e \in edges : e[2] = n => e[1] \in before}
                 IN  IF ready = {} THEN listed[k - 1] ELSE Append(listed[k - 1], Min(ready))
    IN  listed[Cardinality(nodes)]

\* createPlan: the rows with the capability and token of their slot.
PlanOf(w) ==
    [roots |-> SortSeq(w.profile.roots, <),
     selections |-> SortSeq(w.profile.selections, LAMBDA a, b : a.module < b.module),
     order |-> OrderOf(ProviderEdges(w), Selected(w)),
     bindings |-> SortSeq(Map(ValidRows(w), LAMBDA row :
                        LET slot == Slots(w, row.consumer, row.slot)[1]
                        IN  [row |-> row, capability |-> slot.capability, token |-> slot.token]),
                    LAMBDA a, b : \/ a.row.consumer < b.row.consumer
                                  \/ a.row.consumer = b.row.consumer /\ a.row.slot < b.row.slot)]
=============================================================================
