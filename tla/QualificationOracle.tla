-------------------------- MODULE QualificationOracle --------------------------
(***************************************************************************)
(* architecture/checks/v1-qualification.mjs: the judge of the compiler's   *)
(* answers, written without the compiler.  It says what must be true of    *)
(* the documents for a diagnostic to be truthful, which diagnostics must   *)
(* not be missing, and how a profile becomes a plan.                       *)
(*                                                                         *)
(* A context c is what the judge reads: `declarations`, those of the       *)
(* schema, `profile` (a sequence, empty if the profile is not of the       *)
(* schema), and whether the censuses of modules and of identities are      *)
(* complete.  A diagnostic d is a tuple of its code and coordinates.       *)
(***************************************************************************)
EXTENDS Integers, SequencesExt, FiniteSetsExt
-----------------------------------------------------------------------------
(* Its two graph algorithms: other algorithms than the compiler's own, on  *)
(* plain lists of nodes and edges <<provider, consumer>>.                  *)

EdgeBefore(e, f) == e[1] < f[1] \/ (e[1] = f[1] /\ e[2] < f[2])

\* Nodes and edges in the order of their names.
Sorted(s, Before(_, _)) ==
    LET Insert(x, list) == SelectSeq(list, LAMBDA y : Before(y, x)) \o <<x>>
                           \o SelectSeq(list, LAMBDA y : Before(x, y))
    IN  FoldSet(Insert, <<>>, s)
NodeList(nodes) == Sorted(nodes, <)
EdgeList(edges) == Sorted(edges, EdgeBefore)

\* The depth-first search along the edges, in the orders given: two steps per
\* node, in which it is entered and finished.
FinishOrder(nodeOrder, edgeOrder) ==
    LET Enter(s, n) == [s EXCEPT !.visited = @ \cup {n}, !.stack = Append(@, n)]
        Finish(s) == [s EXCEPT !.finished = Append(@, Last(s.stack)), !.stack = Front(@)]
        Roots(s) == SelectSeq(nodeOrder, LAMBDA n : n \notin s.visited)
        Onward(s) == SelectSeq(edgeOrder,
                               LAMBDA e : e[1] = Last(s.stack) /\ e[2] \notin s.visited)
        after[k \in 0..2 * Len(nodeOrder)] ==
            IF k = 0 THEN [visited |-> {}, stack |-> <<>>, finished |-> <<>>]
            ELSE LET s == after[k - 1]
                 IN  IF s.stack = <<>> THEN Enter(s, Roots(s)[1])
                     ELSE IF Onward(s) = <<>> THEN Finish(s) ELSE Enter(s, Onward(s)[1][2])
    IN  after[2 * Len(nodeOrder)].finished

\* The nodes from which root is reached through nodes of `open`.
Upstream(edges, open, root) ==
    LET within[k \in 0..Cardinality(open)] ==
            IF k = 0 THEN {root}
            ELSE within[k - 1] \cup {e[1] : e \in {f \in edges : f[1] \in open /\ f[2] \in within[k - 1]}}
    IN  within[Cardinality(open)]

\* Against the edges, from the last node finished to the first.
deriveCyclicSccs(nodeOrder, edgeOrder) ==
    LET edges == ToSet(edgeOrder)
        Take(s, root) ==
            IF root \notin s.open THEN s
            ELSE LET component == Upstream(edges, s.open, root)
                 IN  [open |-> s.open \ component, found |-> s.found \cup {component}]
        all == FoldLeft(Take, [open |-> ToSet(nodeOrder), found |-> {}],
                        Reverse(FinishOrder(nodeOrder, edgeOrder)))
    IN  {c \in all.found : Cardinality(c) > 1 \/ \E n \in c : <<n, n>> \in edges}

\* A node is ready when its count of providers is down to zero, and the least
\* comes first.  If some never are: no order.
minimumDependencyOrder(nodes, edges) ==
    LET Providers(n) == {e[1] : e \in {f \in edges : f[2] = n}}
        indegree == [n \in nodes |-> Cardinality(Providers(n))]
        Shift(s) ==
            LET provider == Min(s.ready)
                left == [n \in nodes |-> s.indegree[n] - Cardinality({e \in edges : e = <<provider, n>>})]
            IN  [result |-> Append(s.result, provider),
                 indegree |-> left,
                 ready |-> (s.ready \ {provider})
                           \cup {n \in nodes : left[n] = 0 /\ s.indegree[n] > 0}]
        after[k \in 0..Cardinality(nodes)] ==
            IF k = 0 THEN [result |-> <<>>, indegree |-> indegree,
                           ready |-> {n \in nodes : indegree[n] = 0}]
            ELSE IF after[k - 1].ready = {} THEN after[k - 1] ELSE Shift(after[k - 1])
        result == after[Cardinality(nodes)].result
    IN  IF Len(result) = Cardinality(nodes) THEN <<result>> ELSE <<>>
-----------------------------------------------------------------------------
(* The documents.                                                          *)

Times(s, x) == Cardinality({k \in DOMAIN s : s[k] = x})
hasDuplicate(s) == Cardinality(ToSet(s)) # Len(s)

Each(s, F(_)) == [k \in DOMAIN s |-> F(s[k])]
Ids(c) == Each(c.declarations, LAMBDA d : d.id)

\* The declaration, if there is exactly one of that name.
uniqueDeclaration(c, i) ==
    {d \in ToSet(c.declarations) : d.id = i /\ Times(Ids(c), i) = 1}

DeclaresModule(c, m) == \E d \in ToSet(c.declarations) : d.module = m

Of(list, F(_)) == UNION {ToSet(F(p)) : p \in ToSet(list)}
Roots(c) == Of(c.profile, LAMBDA p : p.roots)
Selections(c) == Of(c.profile, LAMBDA p : p.selections)
Bindings(c) == Of(c.profile, LAMBDA p : p.bindings)

Selects(c, m, i) == \E row \in Selections(c) : row.module = m /\ row.id = i
selectedImplementationIds(c) == {row.id : row \in Selections(c)}

profileBindingRows(c, i, s) == {row \in Bindings(c) : row.consumer = i /\ row.slot = s}
RowsWithProvider(c, d) ==
    {row \in profileBindingRows(c, d[2], d[3]) : Contains(row.providers, d[4])}

SlotsOf(declaration, s) == SelectSeq(declaration.slots, LAMBDA e : e.slot = s)

\* The slot of a diagnostic, if its name says which.
slotForDiagnostic(c, d) ==
    UNION {ToSet(SlotsOf(x, d[3])) :
              x \in {y \in uniqueDeclaration(c, d[2]) : Len(SlotsOf(y, d[3])) = 1}}

cardinalityMatchesSlot(slot, count) ==
    \/ slot.kind = "required" /\ count = 1
    \/ slot.kind = "optional" /\ count <= 1
    \/ slot.kind = "many" /\ count >= slot.min /\ count <= slot.max
-----------------------------------------------------------------------------
(* What a diagnostic of each phase needs for a witness.                    *)

\* The member at position k (from 0) repeats one before it.
Repeats(ids, k) == k + 1 \in DOMAIN ids /\ \E l \in 1..k : ids[l] = ids[k + 1]

DeclarationWitness(c, d) ==
    \/ d[1] = "declaration.duplicate-implementation" /\ Times(Ids(c), d[2]) > 1
    \/ /\ d[1] = "declaration.duplicate-capability"
       /\ \E x \in ToSet(c.declarations) :
             x.id = d[2] /\ Repeats(Each(x.provides, LAMBDA p : p.capability), d[3])
    \/ /\ d[1] = "declaration.duplicate-slot"
       /\ \E x \in ToSet(c.declarations) :
             /\ x.id = d[2] /\ Repeats(Each(x.slots, LAMBDA e : e.slot), d[4])
             /\ x.slots[d[4] + 1].slot = d[3]

ProfileWitness(c, d) ==
    \E p \in ToSet(c.profile) :
        \/ d[1] = "profile.duplicate-root" /\ Times(p.roots, d[2]) > 1
        \/ d[1] = "profile.unknown-root" /\ d[2] \in Roots(c) /\ ~DeclaresModule(c, d[2])
        \/ /\ d[1] = "profile.duplicate-selection"
           /\ Times(Each(p.selections, LAMBDA row : row.module), d[2]) > 1
        \/ /\ d[1] = "profile.unknown-module" /\ ~DeclaresModule(c, d[2])
           /\ \E row \in Selections(c) : row.module = d[2]
        \/ /\ d[1] = "profile.unknown-implementation"
           /\ Selects(c, d[2], d[3]) /\ uniqueDeclaration(c, d[3]) = {}
        \/ /\ d[1] = "profile.implementation-mismatch" /\ Selects(c, d[2], d[3])
           /\ \E x \in uniqueDeclaration(c, d[3]) : x.module # d[2]
        \/ /\ d[1] = "profile.missing-selection" /\ d[2] \in Roots(c)
           /\ \A row \in Selections(c) : row.module # d[2]

BindingWitness(c, d) ==
    \/ /\ d[1] = "binding.duplicate" /\ slotForDiagnostic(c, d) # {}
       /\ \E row \in RowsWithProvider(c, d) : Times(row.providers, d[4]) > 1
    \/ /\ d[1] = "binding.missing" /\ slotForDiagnostic(c, d) # {}
       /\ d[2] \in selectedImplementationIds(c) /\ profileBindingRows(c, d[2], d[3]) = {}
    \/ /\ d[1] = "binding.unknown-consumer" /\ uniqueDeclaration(c, d[2]) = {}
       /\ \E row \in Bindings(c) : row.consumer = d[2]
    \/ /\ d[1] = "binding.unknown-slot" /\ profileBindingRows(c, d[2], d[3]) # {}
       /\ \E x \in uniqueDeclaration(c, d[2]) : SlotsOf(x, d[3]) = <<>>
    \/ /\ d[1] = "binding.unknown-provider" /\ RowsWithProvider(c, d) # {}
       /\ slotForDiagnostic(c, d) # {} /\ uniqueDeclaration(c, d[4]) = {}
    \/ /\ d[1] = "binding.provider-not-selected" /\ RowsWithProvider(c, d) # {}
       /\ uniqueDeclaration(c, d[4]) # {} /\ d[4] \notin selectedImplementationIds(c)
    \/ /\ d[1] = "binding.cardinality"
       /\ \E slot \in slotForDiagnostic(c, d), row \in profileBindingRows(c, d[2], d[3]) :
             Len(row.providers) = d[4] /\ ~cardinalityMatchesSlot(slot, d[4])
    \/ /\ d[1] = "binding.capability-missing" /\ RowsWithProvider(c, d) # {}
       /\ \E slot \in slotForDiagnostic(c, d), x \in uniqueDeclaration(c, d[4]) :
             \A p \in ToSet(x.provides) : p.capability # slot.capability
    \/ /\ d[1] = "binding.compatibility-mismatch" /\ RowsWithProvider(c, d) # {}
       /\ \E slot \in slotForDiagnostic(c, d), x \in uniqueDeclaration(c, d[4]) :
             \E p \in ToSet(x.provides) : p.capability = slot.capability /\ p.token # slot.token
-----------------------------------------------------------------------------
(* The selected graph.                                                     *)

\* The declarations that one selection resolves, of a module and a name that
\* no other selection has.
positivelyResolved(c) ==
    UNION {UNION {{d \in uniqueDeclaration(c, row.id) :
                      /\ d.module = row.module
                      /\ Times(Each(p.selections, LAMBDA r : r.module), row.module) = 1
                      /\ Times(Each(p.selections, LAMBDA r : r.id), row.id) = 1}
                  : row \in ToSet(p.selections)} : p \in ToSet(c.profile)}

\* Every selection is so resolved.
AllResolved(c) ==
    /\ c.profile # <<>>
    /\ Cardinality(positivelyResolved(c)) = Len(c.profile[1].selections)

Satisfies(provider, slot) ==
    LET offers == SelectSeq(provider.provides, LAMBDA p : p.capability = slot.capability)
    IN  Len(offers) = 1 /\ offers[1].token = slot.token

\* The providers of a row: all of them, or none if anything is wrong with it.
bindingPositiveProviders(c, row, consumer) ==
    LET slots == SlotsOf(consumer, row.slot)
        Suits(i) == \E d \in positivelyResolved(c) : d.id = i /\ Satisfies(d, slots[1])
    IN  IF /\ Len(slots) = 1 /\ ~hasDuplicate(row.providers)
           /\ cardinalityMatchesSlot(slots[1], Len(row.providers))
           /\ \A i \in ToSet(row.providers) : Suits(i)
        THEN ToSet(row.providers) ELSE {}

\* All that a consumer binds is right: each slot in one row, no row without slot.
FrontierIsRight(c, consumer) ==
    LET rows == {row \in Bindings(c) : row.consumer = consumer.id}
    IN  /\ ~hasDuplicate(Each(consumer.slots, LAMBDA e : e.slot))
        /\ \A row \in rows : SlotsOf(consumer, row.slot) # <<>>
        /\ \A e \in ToSet(consumer.slots) :
              \E row \in rows :
                  /\ row.slot = e.slot /\ \A other \in rows : other.slot = e.slot => other = row
                  /\ cardinalityMatchesSlot(e, Len(row.providers))
                  /\ ~hasDuplicate(row.providers)
                  /\ bindingPositiveProviders(c, row, consumer) = ToSet(row.providers)

PositiveEdges(c) ==
    UNION {UNION {{<<i, d.id>> : i \in bindingPositiveProviders(c, row, d)}
                  : row \in {r \in Bindings(c) : r.consumer = d.id}}
           : d \in positivelyResolved(c)}

\* The implementations that the roots reach, or nothing if that is not evident.
reachableSelectedImplementations(c) ==
    LET selected == positivelyResolved(c)
        roots == {d.id : d \in {e \in selected : e.module \in Roots(c)}}
        reached == UNION {Upstream(PositiveEdges(c), {d.id : d \in selected}, i) : i \in roots}
    IN  IF /\ AllResolved(c) /\ ~hasDuplicate(c.profile[1].roots)
           /\ \A m \in Roots(c) : \E d \in selected : d.module = m
           /\ \A d \in selected : d.id \in reached => FrontierIsRight(c, d)
        THEN <<reached>> ELSE <<>>

cyclicSelectedComponents(c) ==
    deriveCyclicSccs(NodeList({d.id : d \in positivelyResolved(c)}), EdgeList(PositiveEdges(c)))

GraphWitness(c, d) ==
    \/ /\ d[1] = "profile.unreachable-selection" /\ Selects(c, d[2], d[3])
       /\ \E reached \in ToSet(reachableSelectedImplementations(c)) : d[3] \notin reached
    \/ d[1] = "graph.cycle" /\ \E component \in cyclicSelectedComponents(c) : d[2] = Min(component)

staticSemanticDiagnosticHasWitness(c, d) ==
    DeclarationWitness(c, d) \/ ProfileWitness(c, d) \/ BindingWitness(c, d) \/ GraphWitness(c, d)

SemanticCodes ==
    {"declaration." \o x : x \in {"duplicate-implementation", "duplicate-capability", "duplicate-slot"}}
    \cup {"profile." \o x : x \in {"duplicate-root", "unknown-root", "duplicate-selection",
            "unknown-module", "unknown-implementation", "implementation-mismatch",
            "missing-selection", "unreachable-selection"}}
    \cup {"binding." \o x : x \in {"duplicate", "missing", "unknown-consumer", "unknown-slot",
            "unknown-provider", "provider-not-selected", "cardinality", "capability-missing",
            "compatibility-mismatch"}}
    \cup {"graph.cycle"}

\* The codes that claim an absence, by the census they need.
NeedsIdentities ==
    {"profile.unknown-implementation", "profile.implementation-mismatch",
     "binding.unknown-consumer", "binding.unknown-slot", "binding.unknown-provider"}
NeedsModules == {"profile.unknown-root", "profile.unknown-module", "profile.missing-selection"}

CensusSuffices(c, d) ==
    /\ d[1] \in NeedsIdentities => c.identityCensusComplete
    /\ d[1] \in NeedsModules => c.moduleCensusComplete

\* The rows of a profile have each their own coordinate.
CoordinatesAreUnique(c) ==
    \A p \in ToSet(c.profile) : ~hasDuplicate(Each(p.bindings, LAMBDA row : <<row.consumer, row.slot>>))
-----------------------------------------------------------------------------
(* The diagnostics that need no other document than their own.             *)

staticIndependentSemanticDiagnostics(c) ==
    LET RepeatsIn(ids) == {k \in 0..Len(ids) - 1 : Repeats(ids, k)}
        OfDeclaration(x) ==
            LET slots == Each(x.slots, LAMBDA e : e.slot)
            IN  {<<"declaration.duplicate-capability", x.id, k>> :
                    k \in RepeatsIn(Each(x.provides, LAMBDA p : p.capability))}
                \cup {<<"declaration.duplicate-slot", x.id, slots[k + 1], k>> : k \in RepeatsIn(slots)}
        Twice(code, s) == {<<code, x>> : x \in {y \in ToSet(s) : Times(s, y) > 1}}
    IN  UNION {OfDeclaration(x) : x \in ToSet(c.declarations)}
        \cup Twice("declaration.duplicate-implementation", Ids(c))
        \cup UNION {Twice("profile.duplicate-root", p.roots)
                    \cup Twice("profile.duplicate-selection",
                               Each(p.selections, LAMBDA row : row.module)) : p \in ToSet(c.profile)}
-----------------------------------------------------------------------------
(* From a profile to the parts of its plan.                                *)

\* A row of a selected consumer is right; a row of another is left alone.
RowNormalizes(c, p, row) ==
    /\ \E d \in ToSet(c.declarations) : d.id = row.consumer
    /\ \A d \in ToSet(c.declarations) :
          d.id = row.consumer /\ d.id \in selectedImplementationIds(c) =>
              /\ SlotsOf(d, row.slot) # <<>>
              /\ Times(Each(p.bindings, LAMBDA r : <<r.consumer, r.slot>>), <<row.consumer, row.slot>>) = 1
              /\ ~hasDuplicate(row.providers)
              /\ LET slot == SlotsOf(d, row.slot)[1]
                 IN  /\ cardinalityMatchesSlot(slot, Len(row.providers))
                     /\ \A i \in ToSet(row.providers) :
                           /\ i \in selectedImplementationIds(c)
                           /\ \E x \in ToSet(c.declarations) :
                                 /\ x.id = i
                                 /\ \E o \in ToSet(x.provides) :
                                       o.capability = slot.capability /\ o.token = slot.token

validateNormalizationProfileSemantics(c, p) ==
    LET ids == selectedImplementationIds(c)
        roots == {row.id : row \in {r \in Selections(c) : r.module \in Roots(c)}}
        edges == UNION {{<<i, row.consumer>> : i \in ToSet(row.providers)} :
                           row \in {r \in Bindings(c) : r.consumer \in ids}}
    IN  /\ ~hasDuplicate(Ids(c))
        /\ \A d \in ToSet(c.declarations) :
              /\ ~hasDuplicate(Each(d.slots, LAMBDA e : e.slot))
              /\ ~hasDuplicate(Each(d.provides, LAMBDA o : o.capability))
        /\ \A row \in Selections(c) : \E d \in uniqueDeclaration(c, row.id) : d.module = row.module
        /\ ~hasDuplicate(Each(p.selections, LAMBDA row : row.id))
        /\ ~hasDuplicate(Each(p.selections, LAMBDA row : row.module))
        /\ ~hasDuplicate(p.roots)
        /\ \A m \in Roots(c) : \E row \in Selections(c) : row.module = m
        /\ \A row \in Bindings(c) : RowNormalizes(c, p, row)
        /\ \A d \in ToSet(c.declarations) :
              d.id \in ids => \A e \in ToSet(d.slots) : profileBindingRows(c, d.id, e.slot) # {}
        /\ UNION {Upstream(edges, ids, i) : i \in roots} = ids

\* The rows of selected consumers, in the order of their coordinates.
normalizedProfileBindings(c, p) ==
    LET rows == SelectSeq(p.bindings, LAMBDA row : row.consumer \in selectedImplementationIds(c))
        Before(a, b) == \/ a.row.consumer < b.row.consumer
                        \/ a.row.consumer = b.row.consumer /\ a.row.slot < b.row.slot
        Normal(row) ==
            LET d == CHOOSE x \in ToSet(c.declarations) : x.id = row.consumer
                slot == SlotsOf(d, row.slot)[1]
            IN  [row |-> row, capability |-> slot.capability, token |-> slot.token]
    IN  SortSeq(Each(rows, Normal), Before)
=============================================================================
