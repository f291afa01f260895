----------------------------- MODULE SelectedGraph -----------------------------
(***************************************************************************)
(* packages/core/src/features/composition-semantics: the analysis of the   *)
(* graph of selected implementations (selected-graph.ts,                   *)
(* graph-components.ts, ready-queue.ts).  An implementation is the rank of *)
(* its id; an edge leads from a provider to its consumer.  The order of an *)
(* adjacency list is the order of the binding rows, so a traversal may     *)
(* visit neighbours in any order.                                          *)
(***************************************************************************)
EXTENDS Integers, SequencesExt, FiniteSetsExt

CONSTANTS
    NNodes,       \* number of selected implementations
    DepthLimit,   \* selectedGraphDepthLimit
    EdgeSets,     \* the graphs to analyse
    RootSets      \* the selections of roots

Nodes == 1..NNodes

ASSUME GraphAssumption ==
    /\ NNodes \in Nat \ {0} /\ DepthLimit \in Nat \ {0}
    /\ EdgeSets \subseteq SUBSET (Nodes \X Nodes)
    /\ RootSets \subseteq SUBSET Nodes

VARIABLES
    edges,      \* the provider edges of the valid binding rows
    stage,      \* the pass that is under way
    seen,       \* finish, collect: vertices met in this pass
    frames,     \* finish: the stack of vertices and the neighbours left of each
    finished,   \* finish, collect: vertices left behind, in that order
    pending,    \* collect, close: vertices whose providers are to be followed
    component,  \* collect: the component under way
    members,    \* the components found
    cyclic,     \* members of the components that are cycles
    indegree,   \* residual: providers of a node not yet listed
    depth,      \* residual: the longest chain known to end at a node
    ready,      \* residual: the heap of nodes without unlisted provider
    consumers,  \* residual: consumers left of the node listed last
    order,      \* residual: the order of construction
    residualDepth,
    roots, reached

passVars == <<seen, frames, finished>>
collectVars == <<component, members>>
residualVars == <<indegree, depth, ready, consumers, order, residualDepth>>
closeVars == <<roots, reached>>
vars == <<edges, stage, passVars, pending, collectVars, cyclic, residualVars, closeVars>>

Queue == INSTANCE BinaryHeap WITH Before <- <

Providers(n) == {p \in Nodes : <<p, n>> \in edges}
Consumers(n) == {c \in Nodes : <<n, c>> \in edges}

\* A set of nodes in the order of their ids.
Ascending(ns) == SelectSeq([n \in Nodes |-> n], LAMBDA n : n \in ns)

Init ==
    /\ edges \in EdgeSets
    /\ stage = "finish"
    /\ seen = {} /\ frames = <<>> /\ finished = <<>>
    /\ pending = {} /\ component = {} /\ members = {} /\ cyclic = {}
    /\ indegree = [n \in Nodes |-> 0] /\ depth = [n \in Nodes |-> 0]
    /\ ready = <<>> /\ consumers = {} /\ order = <<>> /\ residualDepth = 0
    /\ roots = {} /\ reached = {}
-----------------------------------------------------------------------------
(* First pass: the vertices in the order in which a search leaves them.    *)

Frame(n) == [vertex |-> n, rest |-> Consumers(n)]

FinishStep ==
    /\ stage = "finish"
    /\ UNCHANGED <<edges, pending, collectVars, cyclic, residualVars, closeVars>>

\* The search starts again at the least vertex it has not seen.
Start ==
    /\ FinishStep
    /\ frames = <<>> /\ seen # Nodes
    /\ LET root == Min(Nodes \ seen)
       IN  seen' = seen \cup {root} /\ frames' = <<Frame(root)>>
    /\ UNCHANGED <<stage, finished>>

Visit ==
    /\ FinishStep
    /\ frames # <<>>
    /\ \E target \in Last(frames).rest :
          LET left == [frames EXCEPT ![Len(frames)].rest = @ \ {target}]
          IN  /\ seen' = seen \cup {target}
              /\ frames' = IF target \in seen THEN left ELSE Append(left, Frame(target))
    /\ UNCHANGED <<stage, finished>>

Leave ==
    /\ FinishStep
    /\ frames # <<>> /\ Last(frames).rest = {}
    /\ finished' = Append(finished, Last(frames).vertex)
    /\ frames' = Front(frames)
    /\ UNCHANGED <<stage, seen>>

Finished ==
    /\ FinishStep
    /\ frames = <<>> /\ seen = Nodes
    /\ stage' = "collect"
    /\ seen' = {}
    /\ UNCHANGED <<frames, finished>>
-----------------------------------------------------------------------------
(* Second pass: components, against the edges, from the vertex left last.  *)

CollectStep ==
    /\ stage = "collect"
    /\ UNCHANGED <<edges, frames, residualVars, closeVars>>

\* Positions of vertices already in a component are passed over.
NextRoot ==
    /\ CollectStep
    /\ finished # <<>> /\ pending = {} /\ component = {}
    /\ LET root == Last(finished)
       IN  /\ pending' = IF root \in seen THEN {} ELSE {root}
           /\ seen' = seen \cup {root}
    /\ finished' = Front(finished)
    /\ UNCHANGED <<stage, component, members, cyclic>>

Gather ==
    /\ CollectStep
    /\ \E vertex \in pending :
          LET new == Providers(vertex) \ seen
          IN  /\ component' = component \cup {vertex}
              /\ pending' = (pending \ {vertex}) \cup new
              /\ seen' = seen \cup new
    /\ UNCHANGED <<stage, finished, members, cyclic>>

Collected ==
    /\ CollectStep
    /\ pending = {} /\ component # {}
    /\ members' = members \cup {component}
    /\ component' = {}
    /\ UNCHANGED <<stage, seen, finished, pending, cyclic>>

\* Variant: a node that provides for itself is not a cycle.
IsLongCycle(c) == Cardinality(c) > 1

\* One vertex is a cycle only if it is its own provider.
IsCycle(c) == Cardinality(c) > 1 \/ \E n \in c : <<n, n>> \in edges

Cycles == {c \in members : IsCycle(c)}
-----------------------------------------------------------------------------
(* The graph without the cycles: order of construction and depth.          *)

Pushed(queue, ns) == FoldLeft(Queue!Push, queue, Ascending(ns))

\* The members of cycles leave the graph; what no remaining node provides for
\* is ready, in the order of the nodes.
FindCycles ==
    /\ stage = "collect"
    /\ finished = <<>> /\ pending = {} /\ component = {}
    /\ LET bad == UNION Cycles
           left == Nodes \ bad
           count == [n \in Nodes |-> IF n \in left THEN Cardinality(Providers(n) \ bad) ELSE 0]
       IN  /\ cyclic' = bad
           /\ indegree' = count
           /\ depth' = [n \in Nodes |-> IF n \in left THEN 1 ELSE 0]
           /\ ready' = Pushed(<<>>, {n \in left : count[n] = 0})
    /\ stage' = "residual"
    /\ UNCHANGED <<edges, passVars, pending, collectVars, consumers, order,
                   residualDepth, closeVars>>

ResidualStep ==
    /\ stage = "residual"
    /\ UNCHANGED <<edges, passVars, pending, collectVars, cyclic, closeVars>>

TakeReady ==
    /\ ResidualStep
    /\ consumers = {} /\ ready # <<>>
    /\ LET node == Queue!Root(ready)
       IN  /\ order' = Append(order, node)
           /\ residualDepth' = Max({residualDepth, depth[node]})
           /\ consumers' = Consumers(node) \ cyclic
    /\ ready' = Queue!Take(ready)
    /\ UNCHANGED <<stage, indegree, depth>>

\* The depth saturates one above the limit.
Deeper(d, provider) == Min({DepthLimit + 1, Max({d, provider + 1})})

Relax ==
    /\ ResidualStep
    /\ \E c \in consumers :
          /\ depth' = [depth EXCEPT ![c] = Deeper(@, depth[Last(order)])]
          /\ indegree' = [indegree EXCEPT ![c] = @ - 1]
          /\ ready' = IF indegree'[c] = 0 THEN Queue!Push(ready, c) ELSE ready
          /\ consumers' = consumers \ {c}
    /\ UNCHANGED <<stage, order, residualDepth>>

Exhausted == stage = "residual" /\ consumers = {} /\ ready = <<>>
-----------------------------------------------------------------------------
(* What the roots need, cycles included.  The roots are an input that no   *)
(* earlier step reads.                                                     *)

\* The residual must have been listed whole, or the analysis throws.
Complete == Len(order) = Cardinality(Nodes \ cyclic)

FromRoots ==
    /\ Exhausted /\ Complete
    /\ roots' \in RootSets
    /\ reached' = roots' /\ pending' = roots'
    /\ stage' = "close"
    /\ UNCHANGED <<edges, passVars, collectVars, cyclic, residualVars>>

Reach ==
    /\ stage = "close"
    /\ \E node \in pending :
          LET new == Providers(node) \ reached
          IN  /\ reached' = reached \cup new
              /\ pending' = (pending \ {node}) \cup new
    /\ UNCHANGED <<edges, stage, passVars, collectVars, cyclic, residualVars, roots>>

Analysed ==
    /\ stage = "close" /\ pending = {}
    /\ stage' = "done"
    /\ UNCHANGED <<edges, passVars, pending, collectVars, cyclic, residualVars, closeVars>>

Analyse ==
    \/ Start \/ Visit \/ Leave \/ Finished
    \/ NextRoot \/ Gather \/ Collected \/ FindCycles
    \/ TakeReady \/ Relax
    \/ FromRoots \/ Reach \/ Analysed

\* A cyclic graph has no order of construction.
DependencyOrderOf == IF cyclic = {} THEN order ELSE <<>>
=============================================================================
