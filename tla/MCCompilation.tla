----------------------------- MODULE MCCompilation -----------------------------
(* One batch that can be planned, and what two slips of its authors make of it. *)
EXTENDS ClientProperties

Slot(s, c, kind, min, max) ==
    [slot |-> s, capability |-> c, token |-> 1, kind |-> kind, min |-> min, max |-> max]
Capability(c) == [capability |-> c, token |-> 1]

Declared(i, m, provides, slots) ==
    [id |-> i, module |-> m, provides |-> provides, slots |-> slots,
     size |-> 1, values |-> 1, bytes |-> 1, flaw |-> "none"]

Bound(i, s, ps) == [consumer |-> i, slot |-> s, providers |-> ps]

\* 1 needs 2, which may need 3; 4 is another implementation of the module of 3.
GoodBatch ==
    [wrapper |-> {},
     declarations |-> <<
        Declared(1, 1, <<>>, <<Slot(1, 1, "required", 1, 1), Slot(2, 2, "many", 0, 2)>>),
        Declared(2, 2, <<Capability(1)>>, <<Slot(1, 2, "optional", 0, 1)>>),
        Declared(3, 3, <<Capability(2)>>, <<>>),
        Declared(4, 3, <<Capability(2), Capability(1)>>, <<>>)>>,
     profile |->
        [roots |-> <<1>>,
         selections |-> <<[module |-> 1, id |-> 1], [module |-> 2, id |-> 2], [module |-> 3, id |-> 3]>>,
         bindings |-> <<Bound(1, 1, <<2>>), Bound(1, 2, <<3>>), Bound(2, 1, <<3>>)>>,
         size |-> 1, values |-> 1, bytes |-> 1, flaw |-> "none"]]

\* Here 2 provides what its own slot needs as well, and 1 binds both providers.
WideBatch ==
    [GoodBatch EXCEPT
        !.declarations[2].provides = <<Capability(1), Capability(2)>>,
        !.profile.bindings[2] = Bound(1, 2, <<3, 2>>)]

Dropped(s) == {RemoveAt(s, k) : k \in DOMAIN s}
Doubled(s) == {Append(s, s[k]) : k \in DOMAIN s}
Changed(s, F(_)) == UNION {{ReplaceAt(s, k, e) : e \in F(s[k])} : k \in DOMAIN s}

Costs(d) ==
    {[d EXCEPT !.size = 3], [d EXCEPT !.values = 4],
     [d EXCEPT !.values = 5], [d EXCEPT !.bytes = 5]}
Flawed(d) ==
    {[d EXCEPT !.flaw = f] : f \in {"carrier", "syntax", "plain", "deep", "shape", "version"}}

SlipsOfSlot(e) ==
    {[e EXCEPT !.slot = 3 - @], [e EXCEPT !.capability = 3 - @], [e EXCEPT !.token = 2],
     [e EXCEPT !.kind = "required"], [e EXCEPT !.max = 1], [e EXCEPT !.kind = "many", !.min = 2]}

SlipsOfDeclaration(d) ==
    (IF d.id = 2 THEN Costs(d) \cup Flawed(d) ELSE {})
    \cup {[d EXCEPT !.id = i] : i \in {2, 3}} \cup {[d EXCEPT !.module = 4]}
    \cup {[d EXCEPT !.provides = p] : p \in Dropped(d.provides) \cup Doubled(d.provides)
            \cup Changed(d.provides, LAMBDA c : {[c EXCEPT !.token = 2]})}
    \cup {[d EXCEPT !.slots = s] : s \in Dropped(d.slots) \cup Doubled(d.slots)
            \cup Changed(d.slots, SlipsOfSlot)}

SlipsOfRow(row) ==
    {[row EXCEPT !.consumer = i] : i \in {2, 4, 5}} \cup {[row EXCEPT !.slot = 3 - @]}
    \cup {[row EXCEPT !.providers = ps] :
            ps \in Dropped(row.providers) \cup Doubled(row.providers)
                   \cup {Append(row.providers, p) : p \in {1, 4}}
                   \cup {<<1>>, <<5>>, <<2, 3, 4>>}}

SlipsOfProfile(p) ==
    Costs(p) \cup Flawed(p) \cup {[p EXCEPT !.flaw = "rows"]}
    \cup {[p EXCEPT !.roots = r] : r \in {<<1, 1>>, <<2>>, <<4>>, <<2, 1>>}}
    \cup {[p EXCEPT !.selections = s] : s \in Dropped(p.selections) \cup Doubled(p.selections)
            \cup Changed(p.selections, LAMBDA row :
                    {[row EXCEPT !.id = 4], [row EXCEPT !.module = 4], [row EXCEPT !.id = 5]})}
    \cup {[p EXCEPT !.bindings = b] : b \in Dropped(p.bindings) \cup Doubled(p.bindings)
            \cup Changed(p.bindings, SlipsOfRow)}

Slips(b) ==
    {[b EXCEPT !.wrapper = {"profile"}]}
    \cup {[b EXCEPT !.declarations = ds] :
            ds \in Dropped(b.declarations) \cup Doubled(b.declarations)
                   \cup Changed(b.declarations, SlipsOfDeclaration)}
    \cup {[b EXCEPT !.profile = p] : p \in SlipsOfProfile(b.profile)}

OneSlip == {GoodBatch, WideBatch} \cup Slips(GoodBatch)
NextSlip(b) == {b} \cup Slips(b)

\* One slip in an oracle, of one or two parts.
SlipsOfList(s) ==
    Dropped(s) \cup {Append(s, i) : i \in {i \in 1..4 : ~Contains(s, i)}} \cup {Reverse(s)}

SlipsOfPart(o) ==
    {[o EXCEPT !.roots = r] : r \in SlipsOfList(o.roots)}
    \cup {[o EXCEPT !.rows = r] : r \in Dropped(o.rows)
            \cup Changed(o.rows, LAMBDA row :
                    {[row EXCEPT !.providers = p] : p \in SlipsOfList(row.providers)})
            \cup {Append(o.rows, Bound(i, s, <<p>>)) : i \in 1..3, s \in 1..2, p \in 2..3}}
    \cup {[o EXCEPT !.providers = [c \in DOMAIN @ \ {lost} |-> @[c]]] : lost \in DOMAIN o.providers}
    \cup UNION {{[o EXCEPT !.providers[c] = p] : p \in SlipsOfList(o.providers[c])} :
                    c \in DOMAIN o.providers}

MisreadOracles(o) ==
    LET none == [providers |-> <<>>, roots |-> <<>>, rows |-> <<>>]
    IN  {<<part>> : part \in SlipsOfPart(o)}
        \cup UNION {{<<o, part>>, <<part, o>>, <<[o EXCEPT !.rows = <<>>], part>>} :
                        part \in SlipsOfPart(o) \cup {none}}

\* What tests of single modules supply: for each slot, or all but one, anything.
Supplied1 == {Undefined, One(7)} \cup {[is |-> k, values |-> <<7, 8>>] : k \in {"list", "holes"}}
             \cup {[is |-> "list", values |-> v] : v \in {<<>>, <<8>>, <<8, 7, 8>>}}

Supplies(d) ==
    LET slots == {e.slot : e \in ToSet(d.slots)}
    IN  UNION {[s -> Supplied1] : s \in {slots} \cup {slots \ {s} : s \in slots}}

SingleModules(b) ==
    IF b \notin {GoodBatch, WideBatch} THEN {}
    ELSE UNION {{<<Content(d), s>> : s \in Supplies(d)} :
                    d \in UNION {{e} \cup SlipsOfDeclaration(e) : e \in ToSet(b.declarations)}
                         \cup {[GoodBatch.declarations[1] EXCEPT !.id = Synthetic + 1]}}

\* What a host may ask for with a plan: both modes, with declarations that need
\* nothing as inputs or not, and one slip.
Made(kind, d) == IF kind = "input" THEN Input(Content(d), 1) ELSE Implement(Content(d), 1)
Entry(kind, d) == CHOOSE e \in Made(kind, d) : TRUE

WithPlan(plan, borrowed) ==
    LET module == SelectSeq(Selection, LAMBDA d : d.id \notin borrowed)
        input == SelectSeq(Selection, LAMBDA d : d.id \in borrowed)
        roots == SelectSeq(Selection, LAMBDA d : Contains(plan.roots, d.module))
    IN  [composition |-> <<[digest |-> plan, plan |-> plan]>>, profile |-> FALSE, bindings |-> <<>>,
         modules |-> Map(module, LAMBDA d : Entry("module", d)),
         inputs |-> Map(input, LAMBDA d : Entry("input", d)),
         roots |-> Map(roots, LAMBDA d : Entry("module", d))]

Derive(a, rows) == [a EXCEPT !.composition = <<>>, !.profile = TRUE, !.bindings = rows]

Rightly(plan) ==
    LET borrowable == {{}} \cup {{d.id} : d \in {d \in InUse : d.slots = <<>>}}
        rows == RowsOf(plan)
    IN  UNION {{WithPlan(plan, b), Derive(WithPlan(plan, b), <<rows>>), Derive(WithPlan(plan, b), <<>>),
                Derive(WithPlan(plan, b), <<SelectSeq(rows, LAMBDA row : row.slot = 2)>>)}
                : b \in borrowable}

SlipsOfEntries(s) ==
    Dropped(s) \cup Doubled(s) \cup {Reverse(s)}
    \cup Changed(s, LAMBDA e : {[e EXCEPT !.copy = 2], [e EXCEPT !.kind = "foreign"]}
                               \cup Input(e.declaration, e.copy))

\* Entries in groups: the first, all, two levels; one entry in two places; levels and
\* members enough to be refused.
InGroups(s) ==
    LET Alone(name) == Group(name, <<s[1]>>)
        Rest(g) == <<g>> \o Tail(s)
    IN  {<<g>> : g \in Group("a", s)}
        \cup {Rest(g) : g \in Alone("a") \cup Alone("")}
        \cup {Rest(g) : g \in UNION {Group("b", <<inner, s[1]>>) : inner \in Alone("a")}}
        \cup {Rest(g) : g \in UNION {Group("b", <<inner>>) : inner \in Alone("a")}}
        \cup {<<g>> : g \in UNION {Group("b", Tail(s) \o <<inner>>) : inner \in Alone("a")}}
        \cup {<<g>> \o s : g \in Alone("b")}
        \cup {<<g, g, g>> : g \in Group("a", <<s[1], s[1]>>)}

SlipsOfPlan(p) ==
    {[p EXCEPT !.order = Reverse(@)], [p EXCEPT !.roots = Append(@, 2)], [p EXCEPT !.selections = Tail(@)],
     [p EXCEPT !.selections[1].module = 4]}
    \cup {[p EXCEPT !.bindings = b] : b \in Dropped(p.bindings) \cup Doubled(p.bindings)
            \cup Changed(p.bindings, LAMBDA b : {[b EXCEPT !.token = 2], [b EXCEPT !.row.providers = <<1>>],
                                                 [b EXCEPT !.row.providers = <<>>]})}

SlipsOfAsk(a) ==
    {[a EXCEPT !.modules = s] : s \in SlipsOfEntries(a.modules) \cup InGroups(a.modules)}
    \cup {[a EXCEPT !.inputs = s] : s \in SlipsOfEntries(a.inputs)
            \cup {Append(a.inputs, e) : e \in UNION {Input(m.declaration, 1) : m \in ToSet(a.modules)}}}
    \cup {[a EXCEPT !.roots = s] : s \in SlipsOfEntries(a.roots) \cup {Append(a.roots, Last(a.modules))}
                                         \cup {Append(a.roots, e) : e \in ToSet(a.inputs)}}
    \cup {[a EXCEPT !.profile = ~@]}
    \cup {[a EXCEPT !.composition = <<[@[1] EXCEPT !.plan = p]>>] :
            p \in UNION {SlipsOfPlan(c.plan) : c \in ToSet(a.composition)}}
    \cup {[a EXCEPT !.bindings = <<rows>>] :
            rows \in UNION {Dropped(b) \cup Doubled(b) \cup Changed(b, SlipsOfRow) : b \in ToSet(a.bindings)}}

\* Those of the two batches in full, of others without slips.
HostAsks(plan) ==
    IF batch \in {GoodBatch, WideBatch}
    THEN UNION {{a} \cup SlipsOfAsk(a) : a \in Rightly(plan)} ELSE Rightly(plan)

\* Every part of the object is written, any number of times.
HostChanges(a) ==
    {[a EXCEPT !.roots = <<Last(a.modules)>>], [a EXCEPT !.roots = Reverse(@)], [a EXCEPT !.modules = Reverse(@)], [a EXCEPT !.inputs = <<>>],
     [a EXCEPT !.composition = <<>>, !.bindings = <<>>]}
=============================================================================
