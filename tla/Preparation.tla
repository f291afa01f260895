------------------------------ MODULE Preparation ------------------------------
(***************************************************************************)
(* packages/assembly/src/features/construction/prepare.ts: a host that has *)
(* the composition of a batch prepares its construction, from entries that *)
(* hold the declarations and in one of two modes: with the composition     *)
(* ("explicit"), or with the rows it wants, the rest derived.  Both await  *)
(* Core, and meanwhile the host may change what it passed.                 *)
(*                                                                         *)
(* An entry has its `kind` ("module", "input" or "foreign", which implement*)
(* and input have not made), its declaration, and a `copy` that tells      *)
(* entries of one declaration apart; a group, which lists entries and      *)
(* groups, has the kind "group".  Optional fields are sequences of at most *)
(* one.  The digest of a plan is the plan; the alias of an input or of a   *)
(* root is its place.                                                      *)
(***************************************************************************)
EXTENDS Compilation

CONSTANTS
    Asks(_),         \* what a host may ask for that has this plan
    Changes(_),      \* and what it may change that into
    HandleLimit,     \* limits.handles, of entries and groups
    AliasLimit,      \* limits.roots, of roots and of inputs
    GroupDepth,      \* MAXIMUM_GROUP_DEPTH
    RowLimit,        \* limits.bindings
    OccurrenceLimit  \* limits.providerOccurrences

VARIABLES
    phase,    \* of the call: "idle", "compiling", "done"
    asked,    \* the host's object
    called,   \* as it was when the call was made
    answer

prepareVars == <<phase, asked, called, answer>>

Unasked == [modules |-> <<>>]
NoAnswer == [status |-> "none"]

\* A failure with its cause, and with Core's diagnostics.
Failed(code, cause, diagnostics) ==
    [status |-> "failed", code |-> code, cause |-> cause, diagnostics |-> diagnostics]

\* The first fault of a sequence of checks.
First(faults) ==
    LET found == {k \in DOMAIN faults : faults[k] # "none"}
    IN  IF found = {} THEN "none" ELSE faults[Min(found)]

FaultIf(condition, code) == IF condition THEN code ELSE "none"

\* denseArray, of arrays that are dense.
TooLong(s, maximum) == Len(s) > maximum
-----------------------------------------------------------------------------
(* What a host passes it has made before: entries, of declarations that    *)
(* are captured, and groups.  What is refused is not made.                 *)

Implement(d, copy) == {[kind |-> "module", declaration |-> d, copy |-> copy]}

\* An input has no slots.
Input(d, copy) == {e \in {[kind |-> "input", declaration |-> d, copy |-> copy]} : d.slots = <<>>}

\* The levels of groups in an item.
RECURSIVE Height(_)
Height(item) ==
    IF item.kind # "group" THEN 0
    ELSE 1 + Max({0} \cup {Height(item.members[k]) : k \in DOMAIN item.members})

GroupFault(g) ==
    FaultIf(\/ g.name = "" \/ TooLong(g.members, HandleLimit)
            \/ \E k \in DOMAIN g.members : g.members[k].kind \notin {"module", "group"}
            \/ Height(g) > GroupDepth, "invalid-group")

Group(name, members) ==
    {g \in {[kind |-> "group", name |-> name, members |-> members]} : GroupFault(g) = "none"}

\* walkModules: entries and groups, depth first, each with the names of the
\* groups around it.
RECURSIVE Nodes(_, _)
Nodes(items, path) ==
    FlatMap(items, LAMBDA item :
        <<[item |-> item, path |-> path]>>
        \o IF item.kind = "group" THEN Nodes(item.members, Append(path, item.name)) ELSE <<>>)

Walked(a) == Nodes(a.modules, <<>>)
-----------------------------------------------------------------------------
(* What is read of the arguments, before anything is awaited.              *)

IsExplicit(a) == a.composition # <<>>

\* preparationMode.
ModeFault(a) ==
    FaultIf((IsExplicit(a) <=> a.profile) \/ (IsExplicit(a) /\ a.bindings # <<>>), "invalid-input")

TooManyRows(rows) ==
    \/ TooLong(rows, RowLimit)
    \/ \E k \in DOMAIN rows : TooLong(rows[k].providers, ProviderLimit)
    \/ MapThenSumSet(LAMBDA k : Len(rows[k].providers), DOMAIN rows) > OccurrenceLimit

RowsOf(plan) == Map(plan.bindings, LAMBDA b : b.row)

\* rootKeys, of roots and of inputs.
TooManyAliases(entries) == Len(entries) > AliasLimit

\* inspectPlan.
TooManyInPlan(plan) ==
    \/ TooLong(plan.roots, AliasLimit) \/ TooLong(plan.selections, HandleLimit)
    \/ TooLong(plan.order, HandleLimit) \/ TooManyRows(RowsOf(plan))

\* Counts come before copies.
LimitFault(a) ==
    FaultIf(\/ TooLong(a.modules, HandleLimit)
            \/ TooManyAliases(a.roots) \/ TooManyAliases(a.inputs)
            \/ IsExplicit(a) /\ TooManyInPlan(a.composition[1].plan), "limit")

\* collectMetadata: all entries, with the groups they are in, and what they
\* declare together.
HandleFault(a) ==
    LET OfNode(k) == IF k > HandleLimit THEN "limit"
                     ELSE CASE Walked(a)[k].item.kind = "input" -> "input-handles"
                            [] Walked(a)[k].item.kind = "foreign" -> "handles"
                            [] OTHER -> "none"
    IN  First([k \in DOMAIN Walked(a) |-> OfNode(k)]
              \o Map(a.inputs, LAMBDA e : FaultIf(e.kind # "input", "input-handles")))

ModuleNodes(a) == SelectSeq(Walked(a), LAMBDA n : n.item.kind # "group")
EntriesOf(a) == Map(ModuleNodes(a), LAMBDA n : n.item) \o a.inputs

Declarations(a) == Map(EntriesOf(a), LAMBDA e : e.declaration)

TotalFault(a) ==
    FaultIf(\/ Len(FlatMap(Declarations(a), LAMBDA d : d.provides)) > CapabilityLimit
            \/ Len(FlatMap(Declarations(a), LAMBDA d : d.slots)) > SlotLimit, "limit")

\* The ids of more than one entry, in order, with all their places.
DuplicateModule(i, paths, inputs) == [id |-> i, paths |-> paths, inputs |-> inputs]

Ids(a) == Map(EntriesOf(a), LAMBDA e : e.declaration.id)

PathsOf(a, i) ==
    Map(SelectSeq(ModuleNodes(a), LAMBDA n : n.item.declaration.id = i), LAMBDA n : n.path)

DuplicatesOf(a) ==
    Map(SetToSortSeq(Repeated(Ids(a)), <), LAMBDA i :
        DuplicateModule(i, PathsOf(a, i),
            SelectSeq([k \in DOMAIN a.inputs |-> k], LAMBDA k : a.inputs[k].declaration.id = i)))

DuplicateFault(a) == FaultIf(DuplicatesOf(a) # <<>>, "duplicate-module")

\* rootModuleIds.
RootFault(a, k) ==
    LET e == a.roots[k]
    IN  IF ~Contains(EntriesOf(a), e) THEN "roots"
        ELSE IF e.kind = "input" THEN "input-handles"
        ELSE FaultIf(\E l \in 1..k - 1 : a.roots[l].declaration.module = e.declaration.module, "roots")

RootsFault(a) == First([k \in DOMAIN a.roots |-> RootFault(a, k)])
-----------------------------------------------------------------------------
(* deriveProfile.                                                          *)

GivenRows(a) == IF a.bindings = <<>> THEN <<>> ELSE a.bindings[1]

Candidates(a, d, e) ==
    {p.id : p \in {p \in ToSet(Declarations(a)) \ {d} :
        \E c \in ToSet(p.provides) : c.capability = e.capability}}

Unbound(a, d) ==
    SelectSeq(d.slots, LAMBDA e :
        \A row \in ToSet(GivenRows(a)) : row.consumer # d.id \/ row.slot # e.slot)

Inferable(a, d, e) == e.kind = "required" /\ Cardinality(Candidates(a, d, e)) = 1

InferredRows(a) ==
    FlatMap(Declarations(a), LAMBDA d :
        Map(Unbound(a, d), LAMBDA e :
            [consumer |-> d.id, slot |-> e.slot,
             providers |-> <<CHOOSE i \in Candidates(a, d, e) : TRUE>>]))

\* compareRows.
RowBefore(r, s) == r.consumer < s.consumer \/ (r.consumer = s.consumer /\ r.slot < s.slot)

\* What one needs to know of a slot to write its row.  (An input is in no group, and
\* has no slots.)
UnresolvedBinding(a, d, e) ==
    [consumer |-> d.id, slot |-> e.slot, capability |-> e.capability, kind |-> e.kind,
     groupPath |-> FlattenSeq(PathsOf(a, d.id)),
     candidates |-> SetToSortSeq(Candidates(a, d, e), <)]

\* All the slots without a row that are not guessed.
UnresolvedOf(a) ==
    SortSeq(FlatMap(Declarations(a), LAMBDA d :
        Map(SelectSeq(Unbound(a, d), LAMBDA e : ~Inferable(a, d, e)),
            LAMBDA e : UnresolvedBinding(a, d, e))), RowBefore)

DeriveFault(a) ==
    IF TooManyRows(GivenRows(a)) THEN "limit"
    ELSE IF UnresolvedOf(a) # <<>> THEN "unresolved-binding"
    ELSE FaultIf(TooManyRows(GivenRows(a) \o InferredRows(a)), "limit")

DerivedProfile(a) ==
    [roots |-> SortSeq(Map(a.roots, LAMBDA e : e.declaration.module), <),
     selections |-> SortSeq(Map(Declarations(a), LAMBDA d : [module |-> d.module, id |-> d.id]),
                            LAMBDA r, s : r.id < s.id),
     bindings |-> SortSeq(GivenRows(a) \o InferredRows(a), RowBefore)]
-----------------------------------------------------------------------------
(* What is compared with a plan: the one supplied, before Core is awaited, *)
(* or the one that Core made of the derived profile.                       *)

\* validateSelections.
SelectionFault(a, plan) ==
    FaultIf(\/ Len(plan.selections) # Len(Ids(a))
            \/ {row.id : row \in ToSet(plan.selections)} # ToSet(Ids(a))
            \/ \E row \in ToSet(plan.selections) : \E d \in ToSet(Declarations(a)) :
                  d.id = row.id /\ d.module # row.module, "handles")

\* bindRoots.
BoundRootFault(a, plan, k) ==
    LET e == a.roots[k]
    IN  IF Contains(EntriesOf(a), e) /\ e.kind = "input" THEN "input-handles"
        ELSE FaultIf(\/ ~Contains(EntriesOf(a), e)
                     \/ \E l \in 1..k - 1 : a.roots[l] = e
                     \/ ~Contains(plan.roots, e.declaration.module), "roots")

BoundRootsFault(a, plan) ==
    First(<<FaultIf(Len(a.roots) # Len(plan.roots) \/ Repeated(plan.roots) # {}, "roots")>>
          \o [k \in DOMAIN a.roots |-> BoundRootFault(a, plan, k)])

\* The code of the failure that comes before Core is called, if any.
Refusal(a) ==
    LET early == First(<<ModeFault(a), LimitFault(a), HandleFault(a)>>)
        collected == First(<<TotalFault(a), DuplicateFault(a)>>)
    IN  IF early # "none" THEN early
        ELSE IF collected # "none" THEN collected
        ELSE IF IsExplicit(a)
        THEN First(<<SelectionFault(a, a.composition[1].plan),
                     BoundRootsFault(a, a.composition[1].plan)>>)
        ELSE IF RootsFault(a) # "none" THEN RootsFault(a) ELSE DeriveFault(a)

\* A failure that has something to report has it as its cause.
Refused(a) ==
    LET code == Refusal(a)
    IN  Failed(code, CASE code = "duplicate-module" -> DuplicatesOf(a)
                       [] code = "unresolved-binding" -> UnresolvedOf(a)
                       [] OTHER -> <<>>, <<>>)
-----------------------------------------------------------------------------
(* Core, and what is made of its plan.                                     *)

ProfileFrom(plan) ==
    [roots |-> plan.roots, selections |-> plan.selections, bindings |-> RowsOf(plan)]

\* The input of Core's analysis: the documents are flawless, their number may be
\* too large.
CoreInput(declarations, profile) ==
    [declarations |-> declarations, allAdmitted |-> TRUE, hasProfile |-> TRUE,
     facts |-> "complete", profile |-> profile]

CoreDiagnostics(v) ==
    IF Len(v.declarations) > DocumentLimit THEN <<<<"limit.declarations">>>>
    ELSE DeclarationDiagnostics(v) \o ResourceDiagnostics(v) \o ProfileDiagnostics(v)
         \o BindingDiagnostics(v) \o GraphDiagnostics(v)

\* sameEnvelope and samePlan.
SameComposition(supplied, checked) ==
    supplied.digest = checked.digest /\ supplied.plan = checked.plan

InjectionOf(plan, d, e) ==
    LET rows == SelectSeq(plan.bindings, LAMBDA b : b.row.consumer = d.id /\ b.row.slot = e.slot)
    IN  [slot |-> e.slot, capability |-> Last(rows).capability, kind |-> e.kind,
         providers |-> Last(rows).row.providers]

\* createProgram, of the roots and inputs as they were passed.
ProgramOf(a, plan) ==
    [roots |-> Map(a.roots, LAMBDA e : e.declaration.id),
     inputs |-> Map(a.inputs, LAMBDA e : e.declaration.id),
     steps |-> Map(plan.order, LAMBDA i :
        LET d == CHOOSE d \in ToSet(Declarations(a)) : d.id = i
        IN  [id |-> i, injections |-> Map(d.slots, LAMBDA e : InjectionOf(plan, d, e))])]

\* Variant: the root entries are read again.
LiveRoots == [called EXCEPT !.roots = asked.roots]

\* What was snapshot before Core was called.
OwnArguments == called

AnswerOf(a) ==
    LET profile == IF IsExplicit(a) THEN ProfileFrom(a.composition[1].plan) ELSE DerivedProfile(a)
        v == CoreInput(Declarations(a), profile)
        plan == PlanOf(v)
        composition == [digest |-> plan, plan |-> plan]
    IN  IF CoreDiagnostics(v) # <<>> THEN Failed("core-rejected", <<>>, CoreDiagnostics(v))
        ELSE IF IsExplicit(a) /\ ~SameComposition(a.composition[1], composition)
             THEN Failed("plan-mismatch", <<>>, <<>>)
        ELSE LET late == First(<<SelectionFault(a, plan), BoundRootsFault(a, plan)>>)
             IN  IF late # "none" THEN Failed(late, <<>>, <<>>)
                 ELSE [status |-> "prepared", program |-> ProgramOf(a, plan)]
-----------------------------------------------------------------------------
(* The call.                                                               *)

Prepare ==
    /\ Planned /\ entry = "object" /\ phase = "idle"
    /\ \E a \in Asks(PlanOf(w)) :
          /\ asked' = a /\ called' = a
          /\ \/ Refusal(a) = "none" /\ phase' = "compiling" /\ UNCHANGED answer
             \/ Refusal(a) # "none" /\ phase' = "done" /\ answer' = Refused(a)

Change ==
    /\ phase = "compiling"
    /\ asked' \in Changes(asked)
    /\ UNCHANGED <<phase, called, answer>>

Compiled ==
    /\ phase = "compiling" /\ phase' = "done"
    /\ answer' = AnswerOf(OwnArguments)
    /\ UNCHANGED <<asked, called>>

PrepareInit == Init /\ phase = "idle" /\ asked = Unasked /\ called = Unasked /\ answer = NoAnswer

PrepareNext ==
    \/ Next /\ UNCHANGED prepareVars
    \/ (Prepare \/ Change \/ Compiled) /\ UNCHANGED vars

PrepareSpec == PrepareInit /\ [][PrepareNext]_<<vars, prepareVars>>
=============================================================================
