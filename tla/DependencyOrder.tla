---------------------------- MODULE DependencyOrder ----------------------------
(***************************************************************************)
(* What the selected graph promises of the construction order, without     *)
(* indegrees and queues: the nodes that are on no cycle, one after the     *)
(* other, each the least of those whose providers are all listed already.  *)
(***************************************************************************)
EXTENDS Integers, Sequences, FiniteSets, TLAPS

\* A finite set of natural numbers, the ranks of the sorted implementation ids.
CONSTANT Nodes

VARIABLES
    edges,   \* pairs of a provider and one of its consumers
    order    \* the nodes listed so far

vars == <<edges, order>>

Providers(n) == {p \in Nodes : <<p, n>> \in edges}
Consumers(n) == {c \in Nodes : <<n, c>> \in edges}

\* The nodes some path of at least one edge leads to from a.
Downstream(a) ==
    LET steps[k \in 1..Cardinality(Nodes)] ==
            IF k = 1 THEN Consumers(a)
            ELSE LET nearer == steps[k - 1]
                 IN  nearer \cup UNION {Consumers(n) : n \in nearer}
    IN  steps[Cardinality(Nodes)]

OnCycle(n) == n \in Downstream(n)
Acyclic == {n \in Nodes : ~OnCycle(n)}

Listed == {order[i] : i \in DOMAIN order}

\* The nodes left of which every provider that can be listed is listed.
Ready ==
    LET acyclic == Acyclic
    IN  {n \in acyclic \ Listed : Providers(n) \cap acyclic \subseteq Listed}

Init == edges \subseteq Nodes \X Nodes /\ order = <<>>

List(n) ==
    /\ order' = Append(order, n)
    /\ n \in Ready
    /\ \A m \in Ready : n <= m
    /\ UNCHANGED edges

Next == \E n \in Nodes : List(n)

Spec == Init /\ [][Next]_vars
-----------------------------------------------------------------------------
\* A node is listed after every provider of it that is on no cycle, and once.
ProvidersFirst ==
    \A i, j \in DOMAIN order : <<order[i], order[j]>> \in edges => i < j

ListedOnce == \A i, j \in DOMAIN order : order[i] = order[j] => i = j
-----------------------------------------------------------------------------
(* That this holds for every set of nodes and every graph; that the selected *)
(* graph implements the contract is checked by TLC.                          *)

\* The inductive invariant: whatever provides for a listed node, and is on no
\* cycle, was listed before it.
Grounded ==
    /\ order \in Seq(Acyclic)
    /\ \A j \in DOMAIN order : \A p \in Providers(order[j]) \cap Acyclic :
          \E i \in DOMAIN order : i < j /\ order[i] = p
    /\ ListedOnce

\* The nodes that can be listed depend on the edges alone.
LEMMA SameGraph ==
    ASSUME UNCHANGED edges
    PROVE  Acyclic' = Acyclic /\ \A m : Providers(m)' = Providers(m)
BY DEF Acyclic, OnCycle, Downstream, Consumers, Providers

LEMMA InitGrounded == Init => Grounded
BY DEF Init, Grounded, ListedOnce

LEMMA ListGrounded ==
    ASSUME Grounded, NEW n \in Nodes, List(n)
    PROVE  Grounded'
<1>1. n \in Acyclic \ Listed /\ Providers(n) \cap Acyclic \subseteq Listed
    BY DEF List, Ready
<1>2. order \in Seq(Acyclic) /\ order' = Append(order, n)
    BY DEF Grounded, List
<1>3. /\ Len(order') = Len(order) + 1 /\ Len(order) \in Nat
      /\ DOMAIN order = 1..Len(order) /\ DOMAIN order' = 1..Len(order) + 1
      /\ order'[Len(order) + 1] = n
      /\ \A i \in DOMAIN order : order'[i] = order[i]
    BY <1>2
<1>4. Acyclic' = Acyclic /\ \A m : Providers(m)' = Providers(m)
    BY SameGraph DEF List
<1>5. order' \in Seq(Acyclic)
    BY <1>1, <1>2
<1>6. ASSUME NEW j \in DOMAIN order', NEW p \in Providers(order'[j]) \cap Acyclic
      PROVE  \E i \in DOMAIN order' : i < j /\ order'[i] = p
  <2>1. CASE j = Len(order) + 1
    <3>1. PICK i \in DOMAIN order : order[i] = p
        BY <1>1, <1>3, <2>1 DEF Listed
    <3> QED BY <3>1, <1>3, <2>1
  <2>2. CASE j \in DOMAIN order
    <3>1. PICK i \in DOMAIN order : i < j /\ order[i] = p
        BY <2>2, <1>3 DEF Grounded
    <3> QED BY <3>1, <1>3
  <2> QED BY <2>1, <2>2, <1>3
<1>7. ListedOnce'
    BY <1>1, <1>3 DEF Grounded, ListedOnce, Listed
<1> QED BY <1>4, <1>5, <1>6, <1>7 DEF Grounded

LEMMA GroundedAlways == Spec => []Grounded
<1>1. Init => Grounded
    BY InitGrounded
<1>2. Grounded /\ [Next]_vars => Grounded'
  <2>1. ASSUME Grounded, UNCHANGED vars PROVE Grounded'
      BY <2>1, SameGraph DEF vars, Grounded, ListedOnce
  <2> QED BY <2>1, ListGrounded DEF Next
<1> QED BY <1>1, <1>2, PTL DEF Spec

LEMMA GroundedOrders == Grounded => ProvidersFirst
<1> SUFFICES ASSUME Grounded, NEW i \in DOMAIN order, NEW j \in DOMAIN order,
                    <<order[i], order[j]>> \in edges
             PROVE  i < j
    BY DEF ProvidersFirst
<1>1. order[i] \in Acyclic /\ order[i] \in Nodes
    BY DEF Grounded, Acyclic
<1>2. PICK k \in DOMAIN order : k < j /\ order[k] = order[i]
    BY <1>1 DEF Grounded, Providers
<1> QED BY <1>2 DEF Grounded, ListedOnce

\* In the order of construction every node comes after all that provide for it,
\* and once: a factory never runs before the factories of its inputs.
THEOREM OrderIsTopological == Spec => [](ProvidersFirst /\ ListedOnce)
<1>1. Grounded => ProvidersFirst /\ ListedOnce
    BY GroundedOrders DEF Grounded
<1> QED BY <1>1, GroundedAlways, PTL
=============================================================================
