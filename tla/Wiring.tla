-------------------------------- MODULE Wiring --------------------------------
(***************************************************************************)
(* packages/conformance: what tests do with declarations.  checkWiring      *)
(* (wiring/check.ts) compares a completed plan with oracle parts that a    *)
(* test wrote by hand, and with the declarations of what was selected.     *)
(* isolate (harness/isolate.ts) builds one module alone, of which this is  *)
(* the part up to the run: what the test supplies for the slots is made a  *)
(* composition of the module and of fakes that provide it.                 *)
(*                                                                         *)
(* A part has `providers`, a function from the capabilities it pins to      *)
(* lists of ids, `roots`, and `rows`.  A difference is a tuple of its rule  *)
(* and subject.  Plans, declarations and rows are those of the compiler.    *)
(***************************************************************************)
EXTENDS Preparation

\* Lists of ids, of oracles and plans, and the index of declarations: a list that
\* repeats an id is refused.
Distinct(ids) == Cardinality(ToSet(ids)) = Len(ids)

\* readPlan.
ReadablePlan(plan) == \A k \in DOMAIN plan.bindings : Distinct(plan.bindings[k].row.providers)

Readable(oracles, declarations) ==
    /\ Distinct([k \in DOMAIN declarations |-> declarations[k].id])
    /\ \A k \in DOMAIN oracles :
          /\ Distinct(oracles[k].roots)
          /\ \A c \in DOMAIN oracles[k].providers : Distinct(oracles[k].providers[c])
          /\ \A j \in DOMAIN oracles[k].rows : Distinct(oracles[k].rows[j].providers)
-----------------------------------------------------------------------------
(* mergeOracles: the first part that pins a capability, or lists a row,     *)
(* decides, and a later one that says otherwise is a difference.            *)

Pinning(oracles, c) == {k \in DOMAIN oracles : c \in DOMAIN oracles[k].providers}

Pins(oracles) ==
    [c \in UNION {DOMAIN oracles[k].providers : k \in DOMAIN oracles} |->
        oracles[Min(Pinning(oracles, c))].providers[c]]

ProviderConflicts(oracles) ==
    {<<"oracle-provider-conflict", c>> : c \in
        {c \in DOMAIN Pins(oracles) : \E k \in Pinning(oracles, c) :
            ToSet(oracles[k].providers[c]) # ToSet(Pins(oracles)[c])}}

OracleRoots(oracles) == UNION {ToSet(oracles[k].roots) : k \in DOMAIN oracles}

AllRows(oracles) == FlattenSeq([k \in DOMAIN oracles |-> oracles[k].rows])
ListedRows(oracles, i, s) ==
    SelectSeq(AllRows(oracles), LAMBDA row : row.consumer = i /\ row.slot = s)

RowConflicts(oracles) ==
    {<<"oracle-row-conflict", row.consumer, row.slot>> : row \in
        {row \in ToSet(AllRows(oracles)) :
            row.providers # ListedRows(oracles, row.consumer, row.slot)[1].providers}}
-----------------------------------------------------------------------------
(* Selections and roots.                                                    *)

SelectedIds(plan) == {plan.selections[k].id : k \in DOMAIN plan.selections}

RootIds(plan) ==
    {plan.selections[k].id : k \in {k \in DOMAIN plan.selections :
        Contains(plan.roots, plan.selections[k].module)}}

SelectionDifferences(plan, oracles) ==
    LET pins == Pins(oracles)
        pinned == UNION {ToSet(pins[c]) : c \in DOMAIN pins}
    IN  {d \in {<<"selection">>} : SelectedIds(plan) # pinned \cup OracleRoots(oracles)}
        \cup {d \in {<<"root">>} : RootIds(plan) # OracleRoots(oracles)}
        \cup {<<"capability-provider", c>> : c \in
                {c \in DOMAIN pins : ~(ToSet(pins[c]) \subseteq SelectedIds(plan))}}
-----------------------------------------------------------------------------
(* checkDeclarations.                                                       *)

Provided(d) == {d.provides[k].capability : k \in DOMAIN d.provides}

DeclarationDifferences(plan, oracles, declarations) ==
    LET pins == Pins(oracles)
        declared == ToSet(declarations)
        selected == {d \in declared : d.id \in SelectedIds(plan)}
        Pinned(c) == IF c \in DOMAIN pins THEN ToSet(pins[c]) ELSE {}
    IN  {d \in {<<"declaration-selection">>} : {e.id : e \in declared} # SelectedIds(plan)}
        \cup {<<"pinned-provider", c>> : c \in
                {c \in DOMAIN pins : \E d \in selected : d.id \in Pinned(c) /\ c \notin Provided(d)}}
        \cup UNION {{<<"provided-capability", c>> : c \in
                        {c \in Provided(d) : d.id \notin Pinned(c)}} : d \in selected}
-----------------------------------------------------------------------------
(* checkRows.                                                               *)

\* readDeclarations: the slots of a declaration by name; the last one, should a name
\* repeat.
SlotFacts(d) ==
    [s \in {d.slots[k].slot : k \in DOMAIN d.slots} |->
        Last(SelectSeq(d.slots, LAMBDA e : e.slot = s))]

\* The slot of the declaration with that id, if it has it.
SlotNamed(declarations, i, s) ==
    {SlotFacts(d)[s] : d \in {d \in ToSet(declarations) : d.id = i /\ s \in DOMAIN SlotFacts(d)}}

\* Variant: the order of providers is not compared.
SameAsSet(listed, actual) == ToSet(listed) = ToSet(actual)

SameIds(listed, actual) == listed = actual

\* The weakening: a required slot need not be listed if its capability has one
\* pinned provider and the row binds it.
Accepted(binding, slots, pins) ==
    /\ \E slot \in slots : slot.kind = "required"
    /\ binding.capability \in DOMAIN pins
    /\ Len(pins[binding.capability]) = 1
    /\ SameIds(pins[binding.capability], binding.row.providers)

BindingDifferences(binding, oracles, declarations) ==
    LET row == binding.row
        pins == Pins(oracles)
        slots == SlotNamed(declarations, row.consumer, row.slot)
        listed == ListedRows(oracles, row.consumer, row.slot)
        declared == \E k \in DOMAIN declarations : declarations[k].id = row.consumer
        If(condition, rule) == IF condition THEN {<<rule, row.consumer, row.slot>>} ELSE {}
    IN  If(binding.capability \notin DOMAIN pins /\ row.providers # <<>>, "capability-provider")
        \cup If(declared /\ slots = {}, "row-slot")
        \cup If(\E slot \in slots : slot.capability # binding.capability, "row-capability")
        \cup IF listed = <<>>
             THEN If(~Accepted(binding, slots, pins), "unlisted-row")
             ELSE If(~SameIds(listed[1].providers, row.providers),
                       IF SameAsSet(listed[1].providers, row.providers) THEN "row-order" ELSE "row")

AbsentRows(plan, oracles) ==
    {<<"row", row.consumer, row.slot>> : row \in
        {row \in ToSet(AllRows(oracles)) : \A k \in DOMAIN plan.bindings :
            \/ plan.bindings[k].row.consumer # row.consumer
            \/ plan.bindings[k].row.slot # row.slot}}

RowDifferences(plan, oracles, declarations) ==
    UNION {BindingDifferences(plan.bindings[k], oracles, declarations) : k \in DOMAIN plan.bindings}
    \cup AbsentRows(plan, oracles)

\* Every difference is collected; the check throws if there is one.
Differences(plan, oracles, declarations) ==
    ProviderConflicts(oracles) \cup RowConflicts(oracles)
    \cup SelectionDifferences(plan, oracles)
    \cup DeclarationDifferences(plan, oracles, declarations)
    \cup RowDifferences(plan, oracles, declarations)

PassesWiring(plan, oracles, declarations) ==
    /\ Readable(oracles, declarations) /\ ReadablePlan(plan)
    /\ Differences(plan, oracles, declarations) = {}
-----------------------------------------------------------------------------
(* isolate.  What a test supplies for a slot is nothing (undefined), `one` *)
(* value, or a `list` of values, with `holes` or not.                      *)

\* Ids from here on are in the namespace of the fakes.
Synthetic == 100

One(v) == [is |-> "one", values |-> <<v>>]
Undefined == [is |-> "undefined", values |-> <<>>]

NamesIn(d) ==
    {d.id, d.module} \cup {d.provides[k].capability : k \in DOMAIN d.provides}
    \cup {d.slots[k].capability : k \in DOMAIN d.slots}

WireFault(d, supplies) ==
    First(<<FaultIf(\E i \in NamesIn(d) : i >= Synthetic, "reserved")>>
          \o Map(d.slots, LAMBDA e :
                CASE e.slot \notin DOMAIN supplies -> "absent"
                  [] e.kind = "many" /\ supplies[e.slot].is # "list" -> "no dense array"
                  [] OTHER -> "none"))

\* A fake for each value: of a list for each of its own, of an optional slot for
\* what is not undefined, of a required one for anything.
ValuesOf(e, supplied) ==
    IF e.kind = "many" THEN Map(supplied.values, One)
    ELSE IF e.kind = "optional" /\ supplied = Undefined THEN <<>> ELSE <<supplied>>

Fakes(d, supplies) ==
    LET wanted == FlatMap(d.slots, LAMBDA e :
                    Map(ValuesOf(e, supplies[e.slot]), LAMBDA v : [slot |-> e, value |-> v]))
    IN  [k \in DOMAIN wanted |->
            [slot |-> wanted[k].slot, value |-> wanted[k].value,
             declaration |-> [id |-> Synthetic + k, module |-> Synthetic + k,
                              provides |-> <<[capability |-> wanted[k].slot.capability,
                                              token |-> wanted[k].slot.token]>>,
                              slots |-> <<>>]]]

\* The last slot of a name has its providers.
ProvidersFor(fakes, e) ==
    Map(SelectSeq(fakes, LAMBDA fake : fake.slot = e), LAMBDA fake : fake.declaration.id)

IsolatedInput(d, fakes) ==
    LET declarations == <<d>> \o Map(fakes, LAMBDA fake : fake.declaration)
    IN  CoreInput(declarations,
            [roots |-> <<d.module>>,
             selections |-> Map(declarations, LAMBDA e : [module |-> e.module, id |-> e.id]),
             bindings |-> Map(d.slots, LAMBDA e :
                [consumer |-> d.id, slot |-> e.slot, providers |-> ProvidersFor(fakes, SlotFacts(d)[e.slot])])])

\* What is passed to prepare: the module is its own root.
IsolatedAsk(d, fakes, plan) ==
    [composition |-> <<[digest |-> plan, plan |-> plan]>>, profile |-> FALSE, bindings |-> <<>>,
     modules |-> SetToSeq(Implement(d, 1)), roots |-> SetToSeq(Implement(d, 1)),
     inputs |-> FlatMap(fakes, LAMBDA fake : SetToSeq(Input(fake.declaration, 1)))]

\* What the run of the program injects into the module.
Injected(d, fakes, program) ==
    LET step == CHOOSE step \in ToSet(program.steps) : step.id = d.id
    IN  Map(step.injections, LAMBDA injection :
            Map(injection.providers, LAMBDA p : fakes[p - Synthetic].value))

Isolate(d, supplies) ==
    IF WireFault(d, supplies) # "none" THEN [status |-> "invalid"]
    ELSE LET fakes == Fakes(d, supplies)
             v == IsolatedInput(d, fakes)
         IN  IF CoreDiagnostics(v) # <<>> THEN [status |-> "not composed"]
             ELSE LET a == IsolatedAsk(d, fakes, PlanOf(v))
                  IN  IF Refusal(a) # "none" \/ AnswerOf(a).status # "prepared"
                      THEN [status |-> "not prepared"]
                      ELSE [status |-> "built", injected |-> Injected(d, fakes, AnswerOf(a).program)]
=============================================================================
