----------------------------- MODULE MCComposition -----------------------------
(***************************************************************************)
(* What the analysis of the selected graph and its report must satisfy,    *)
(* against definitions that know nothing of stacks, queues and heaps, and  *)
(* against the other algorithms that the qualification suite has for them; *)
(* and an instance for TLC.                                                *)
(***************************************************************************)
EXTENDS SemanticReport

Contract == INSTANCE DependencyOrder
Judge == INSTANCE QualificationOracle

\* The nodes that A needs, itself included, if es were the edges.
Needed(es, A) ==
    LET within[k \in 0..NNodes] ==
            IF k = 0 THEN A
            ELSE LET nearer == within[k - 1]
                 IN  nearer \cup {p \in Nodes : \E n \in nearer : <<p, n>> \in es}
    IN  within[NNodes]

\* The classes of nodes that provide for one another, cycles only.
ReferenceCycles ==
    LET below == [n \in Nodes |-> Contract!Downstream(n)]
    IN  {{m \in Nodes : m \in below[n] /\ n \in below[m]} : n \in Nodes} \ {{}}

\* The longest chain of nodes on no cycle, in nodes.
LongestChain ==
    LET acyclic == Contract!Acyclic
        ends[k \in 1..NNodes] ==
            IF k = 1 THEN acyclic
            ELSE LET shorter == ends[k - 1]
                 IN  {c \in acyclic : Providers(c) \cap shorter # {}}
    IN  Cardinality({k \in 1..NNodes : ends[k] # {}})

\* graphComponents and findCycles: the components that are cycles are exactly the
\* classes of nodes that provide for one another, whatever order the two passes
\* visit neighbours in; and the qualification suite, in any order of the nodes and
\* edges it is given, derives the same.
CyclesAreExact ==
    /\ stage \in {"residual", "close", "done"} => Cycles = ReferenceCycles
    /\ stage = "residual" =>
          \A ns \in {Judge!NodeList(Nodes), Reverse(Judge!NodeList(Nodes))} :
              \A es \in {Judge!EdgeList(edges), Reverse(Judge!EdgeList(edges))} :
                  Judge!deriveCyclicSccs(ns, es) = Cycles

\* The order of construction, as it grows, is that of the contract: every node
\* after its providers, and always the least possible one next.
OrderImplementsContract == Contract!Spec

\* The collector of the qualification suite: a list in order, cut after each
\* insertion, and a count with the same ceiling.
StaticAdd(c, d) ==
    LET before == SelectSeq(c.retained, LAMBDA x : ~Before(d, x))
        after == SelectSeq(c.retained, LAMBDA x : Before(d, x))
        all == before \o <<d>> \o after
    IN  [count |-> Min({Retained - 1 + MaximumOmitted, c.count + 1}),
         retained |-> SubSeq(all, 1, Min({Len(all), Retained}))]

StaticResult ==
    LET c == FoldLeft(StaticAdd, [count |-> 0, retained |-> <<>>], emitted)
        omitted == c.count - (Retained - 1)
    IN  IF c.count <= Retained THEN c.retained
        ELSE Append(SubSeq(c.retained, 1, Retained - 1),
                    Collector!Truncated(Min({MaximumOmitted, omitted})))

\* createDiagnosticCollector: of a longer stream the report keeps the least, in
\* order, and says how many it leaves out, up to its ceiling; and so does the
\* collector of the qualification suite.
ReportIsLeast ==
    report = "finished" =>
        LET sorted == SortSeq(emitted, Before)
            omitted == Len(sorted) - (Retained - 1)
        IN  /\ Cardinality(ToSet(emitted)) = Len(emitted)
            /\ result = IF Len(sorted) <= Retained THEN sorted
                        ELSE Append(SubSeq(sorted, 1, Retained - 1),
                                    Collector!Truncated(Min({omitted, MaximumOmitted})))
            /\ result = StaticResult

\* A plan comes exactly for a complete selection that can be built: no gap, no
\* cycle, nothing that no root needs, no chain above the limit; and its order of
\* construction is the one that the qualification suite derives.
PlanIffBuildable ==
    report = "finished" =>
        /\ Planned <=> /\ gaps = {} /\ roots # {}
                       /\ ReferenceCycles = {}
                       /\ Needed(edges, roots) = Nodes
                       /\ LongestChain <= DepthLimit
        /\ Planned => Judge!minimumDependencyOrder(Nodes, edges) = <<DependencyOrderOf>>

\* A report that ends says both, whether there is a plan and all the reasons, from
\* cycles that are the exact ones.
VerdictIsExact == CyclesAreExact /\ ReportIsLeast /\ PlanIffBuildable
-----------------------------------------------------------------------------
(* The instance: five implementations, and every graph over edges that     *)
(* allow two disjoint cycles, one larger cycle, a self loop, a chain of    *)
(* all five nodes and a queue that is filled out of order.                 *)

Possible == {<<2, 1>>, <<1, 3>>, <<3, 2>>, <<3, 4>>, <<4, 4>>, <<4, 5>>, <<5, 4>>, <<2, 5>>,
             <<5, 3>>, <<1, 4>>}
AllGraphs == SUBSET Possible
SomeRoots == {{}, {4}, {1, 5}}
SomeGaps == {{}, {2}, {3, 5}}
ReversedModules == [n \in 1..5 |-> 6 - n]
================================================================================
