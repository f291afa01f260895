--------------------------- MODULE ClientProperties ---------------------------
(***************************************************************************)
(* What those who use a plan of Core may rely on: the host that prepares a *)
(* construction with it, and the test that checks its wiring.              *)
(***************************************************************************)
EXTENDS CompilationProperties, Preparation, Wiring

CONSTANTS
    Misread(_),     \* oracles that a test may hold instead of one that is right
    Isolations(_)   \* what tests of single modules supply, with a batch

IsPrepared == answer.status = "prepared"

StepsBefore(steps, k) == {steps[l].id : l \in 1..k - 1}

\* The providers that the host asked for, in a row or by leaving one possibility.
ProvidersAsked(d, e) ==
    LET rows == IF IsExplicit(called) THEN RowsOf(called.composition[1].plan) ELSE GivenRows(called)
        given == {row.providers : row \in {r \in ToSet(rows) : r.consumer = d.id /\ r.slot = e.slot}}
        others == {p \in ToSet(Declarations(called)) :
                      p # d /\ \E c \in ToSet(p.provides) : c.capability = e.capability}
    IN  IF given # {} THEN given
        ELSE IF e.kind = "required" /\ Cardinality(others) = 1 THEN {<<p.id>> : p \in others}
        ELSE {}

\* It builds the declaration of each entry once and after all that is injected
\* into it, injects into each slot what the host asked for, and its roots are the
\* root entries, never inputs.
AsAsked(program) ==
    LET steps == program.steps
    IN  /\ Len(steps) = Len(EntriesOf(called))
        /\ {steps[k].id : k \in DOMAIN steps} = ToSet(Ids(called))
        /\ \A k \in DOMAIN steps : \A d \in ToSet(Declarations(called)) : d.id = steps[k].id =>
              /\ Len(steps[k].injections) = Len(d.slots)
              /\ \A j \in DOMAIN d.slots :
                    LET injected == steps[k].injections[j]
                    IN  /\ injected.slot = d.slots[j].slot
                        /\ injected.capability = d.slots[j].capability
                        /\ ProvidersAsked(d, d.slots[j]) = {injected.providers}
                        /\ ToSet(injected.providers) \subseteq StepsBefore(steps, k)
        /\ program.roots = Map(called.roots, LAMBDA e : e.declaration.id)
        /\ program.inputs = Map(called.inputs, LAMBDA e : e.declaration.id)
        /\ ToSet(program.roots) \cap ToSet(program.inputs) = {}

\* A plan that was derived, handed in as a composition, is prepared as the same
\* program; and so are the rows of a composition, when Core derives the rest again.
ModesAgree ==
    LET plan == IF IsExplicit(called) THEN called.composition[1].plan
                ELSE PlanOf(CoreInput(Declarations(called), DerivedProfile(called)))
        other == [called EXCEPT
            !.composition = IF IsExplicit(called) THEN <<>> ELSE <<[digest |-> plan, plan |-> plan]>>,
            !.bindings = IF IsExplicit(called) THEN <<RowsOf(plan)>> ELSE <<>>,
            !.profile = IsExplicit(called)]
    IN  Refusal(other) = "none" /\ AnswerOf(other) = answer

\* The entries where a path of group names leads.
RECURSIVE Under(_, _)
Under(items, path) ==
    IF path = <<>> THEN {item \in ToSet(items) : item.kind = "module"}
    ELSE UNION {Under(group.members, Tail(path)) :
                    group \in {g \in ToSet(items) : g.kind = "group" /\ g.name = Head(path)}}
Leads(path, i) == \E e \in Under(called.modules, path) : e.declaration.id = i

\* Each id of several entries is told once, in order, with as many places as there
\* are entries, and each place has one; of an id that is not told there is one.
DuplicatesAreTold(cause) ==
    LET ids == Ids(called)
    IN  /\ cause # <<>> /\ \A k, l \in DOMAIN cause : k < l => cause[k].id < cause[l].id
        /\ \A d \in ToSet(cause) :
              /\ Len(d.paths) + Len(d.inputs) > 1
              /\ Len(d.paths) + Len(d.inputs) = Len(SelectSeq(ids, LAMBDA i : i = d.id))
              /\ \A path \in ToSet(d.paths) : Leads(path, d.id)
              /\ \A alias \in ToSet(d.inputs) : called.inputs[alias].declaration.id = d.id
        /\ Cardinality(ToSet(ids)) = Len(ids) - MapThenSumSet(
              LAMBDA k : Len(cause[k].paths) + Len(cause[k].inputs) - 1, DOMAIN cause)

\* The rows that are told missing are those that are: with a row for each of them
\* the profile can be derived, without any one of them it cannot.  Each is told with
\* the way to its consumer and with every provider that a good row could have.
UnresolvedAreTold(cause) ==
    LET RowFor(u) == [consumer |-> u.consumer, slot |-> u.slot, providers |-> <<>>]
        Supplying(us) == [called EXCEPT !.bindings = <<GivenRows(called) \o Map(us, RowFor)>>]
        rows == RowsOf(PlanOf(w))
    IN  /\ Refusal(Supplying(cause)) # "unresolved-binding"
        /\ \A k \in DOMAIN cause :
              Refusal(Supplying(RemoveAt(cause, k))) \in {"unresolved-binding", "limit"}
        /\ \A u \in ToSet(cause) :
              /\ Leads(u.groupPath, u.consumer)
              /\ \A row \in ToSet(rows) : row.consumer = u.consumer /\ row.slot = u.slot =>
                    ToSet(row.providers) \cap ToSet(Ids(called)) \subseteq ToSet(u.candidates)

\* The text of a failure says nothing of its cause but how much of it there is,
\* unless that is asked for: the text of a failure with another cause is the same.
\* It names the code, and on request it shows each item that it counts, or is shortened.
SecretsAreKept ==
    LET other == [answer EXCEPT !.cause = Map(@, LAMBDA item : "secret")]
        shown == PreparationText(answer, TRUE)
        items == SelectSeq(shown, LAMBDA line : line.is \in {"consumer", "implementation"})
    IN  /\ PreparationText(answer, FALSE) = PreparationText(other, FALSE)
        /\ shown[1] = Line("code", <<answer.code>>)
        /\ Last(shown) # Shortened =>
              Len(items) + Numbers(shown, "display items omitted") = Len(answer.cause)

ReasonIsTold ==
    /\ CASE answer.code = "duplicate-module" -> DuplicatesAreTold(answer.cause)
         [] answer.code = "unresolved-binding" -> UnresolvedAreTold(answer.cause)
         [] answer.code = "core-rejected" -> answer.diagnostics # <<>>
         [] OTHER -> answer.cause = <<>>
    /\ SecretsAreKept

\* A prepared program is what was asked when the call was made, whatever has
\* become of the host's object since, and the two modes agree on it.  (A run
\* relies on this: it is the assumption ProgramAssumption of AssemblyRun.)  And if
\* there is none, the answer tells exactly what the host has to repair.
ProgramFits ==
    /\ IsPrepared => AsAsked(answer.program) /\ ModesAgree
    /\ answer.status = "failed" => ReasonIsTold
-----------------------------------------------------------------------------
\* What a test passes as declarations: those of the selected implementations.
Selection == SelectSeq(batch.declarations, LAMBDA d : d \in InUse)

\* The oracle of a plan: who provides each capability, the roots, and the rows
\* that may not be left out.
Owners(c) == SetToSortSeq({d.id : d \in {d \in InUse : c \in Provided(d)}}, <)

Written(plan) ==
    [providers |-> [c \in UNION {Provided(d) : d \in InUse} |-> Owners(c)],
     roots |-> SetToSortSeq(RootIds(plan), <),
     rows |-> SelectSeq(Map(plan.bindings, LAMBDA b : b.row), LAMBDA row :
        LET slot == CHOOSE e \in UNION {ToSet(d.slots) : d \in {d \in InUse : d.id = row.consumer}} :
                        e.slot = row.slot
        IN  slot.kind # "required" \/ Len(Owners(slot.capability)) # 1)]

\* All that the parts say together; they agree if they say one thing of each.
Says(oracles, c) == {ToSet(oracles[k].providers[c]) : k \in Pinning(oracles, c)}
Lists(oracles, i, s) ==
    {row.providers : row \in {r \in UNION {ToSet(oracles[k].rows) : k \in DOMAIN oracles} :
                                 r.consumer = i /\ r.slot = s}}
SaidOf(oracles) == UNION {DOMAIN oracles[k].providers : k \in DOMAIN oracles}

\* The composition that declarations and oracles describe, without a plan: who is
\* selected, which are roots, and the providers of each declared slot, by its
\* row or as the only provider of what it requires.
Described(oracles, declarations) ==
    LET slots == {<<d, e>> \in ToSet(declarations) \X UNION {ToSet(d.slots) : d \in ToSet(declarations)} :
                     e \in ToSet(d.slots)}
    IN  [ids |-> UNION (UNION {Says(oracles, c) : c \in SaidOf(oracles)})
                 \cup UNION {ToSet(oracles[k].roots) : k \in DOMAIN oracles},
         roots |-> UNION {ToSet(oracles[k].roots) : k \in DOMAIN oracles},
         rows |-> {<<d.id, e.slot, e.capability,
                     IF Lists(oracles, d.id, e.slot) # {} THEN Lists(oracles, d.id, e.slot)
                     ELSE IF e.kind = "required" /\ e.capability \in SaidOf(oracles)
                          THEN {<<i>> : i \in UNION Says(oracles, e.capability)}
                          ELSE {}>> : <<d, e>> \in slots}]

AsDescribed(plan) ==
    [ids |-> SelectedIds(plan), roots |-> RootIds(plan),
     rows |-> {<<b.row.consumer, b.row.slot, b.capability, {b.row.providers}>> : b \in ToSet(plan.bindings)}]

\* What a module asks of its test: of each slot what is said by its kind.
Suits(e, supplied) ==
    CASE e.kind = "many" -> supplied.is = "list" /\ Len(supplied.values) \in e.min..e.max
      [] OTHER -> TRUE

MeantFor(e, supplied) ==
    CASE e.kind = "many" -> Map(supplied.values, One)
      [] e.kind = "optional" /\ supplied = Undefined -> <<>>
      [] OTHER -> <<supplied>>

\* A declaration that can be composed at all, apart from what its slots are given.
Composes(d) ==
    /\ OneEach(d.provides, LAMBDA p : p.capability) /\ OneEach(d.slots, LAMBDA e : e.slot)
    /\ ~\E i \in NamesIn(d) : i >= Synthetic

\* isolate(): each slot of the module is given exactly what the test supplied for
\* it, in the order of the test, although the values go through documents, rows
\* and inputs of a composition; and a module is refused only if its declaration or
\* what the test supplies is at fault, or if there are more values than the
\* compiler takes edges or preparation inputs.
IsolationIsTrue ==
    \A <<d, supplies>> \in Isolations(batch) :
        LET r == Isolate(d, supplies)
        IN  IF r.status = "built"
            THEN r.injected = Map(d.slots, LAMBDA e : MeantFor(e, supplies[e.slot]))
            ELSE \/ ~Composes(d)
                 \/ \E e \in ToSet(d.slots) :
                       e.slot \notin DOMAIN supplies \/ ~Suits(e, supplies[e.slot])
                 \/ Len(FlatMap(d.slots, LAMBDA e : MeantFor(e, supplies[e.slot])))
                       > Min({EdgeLimit, AliasLimit, ProviderLimit})

\* "Compares a completed composition with the independent provider oracle": a plan
\* passes with its own oracle, without the rows that may be left out; and with
\* any other oracle, in parts that may contradict each other, it passes only if
\* it is the one composition that these parts and the declarations describe.
\* The check itself looks for no row that a plan lacks: it relies on Core.  (And a
\* module alone gets what its test supplies.)
WiringPins ==
    Planned /\ phase = "idle" =>
        LET plan == PlanOf(w)
            own == Written(plan)
        IN  /\ IsolationIsTrue
            /\ PassesWiring(plan, <<own>>, Selection)
            /\ \A oracles \in Misread(own) :
                  PassesWiring(plan, oracles, Selection) =>
                      AsDescribed(plan) = Described(oracles, Selection)
=============================================================================
