------------------------------- MODULE MCAssembly -------------------------------
(* Either two runs, with one signal to share, of a program of one borrowed input *)
(* and three factories; or one use of the conformance harness, with a program of *)
(* an input and two factories, on which the code of the user does twice what it  *)
(* should not; or two edits of the layout of one of three source trees.          *)
EXTENDS AssemblyRun

ProgramOrder == <<"config", "log", "db", "app">>
ProgramNeeds == [i \in {"config", "log", "db", "app"} |->
    CASE i = "config" -> {} [] i = "log" -> {"config"}
      [] i = "db" -> {"log", "config"} [] i = "app" -> {"log", "db"}]
-----------------------------------------------------------------------------
SmokeOrder == <<"config", "db", "app">>
SmokeNeeds == [i \in {"config", "db", "app"} |->
    CASE i = "config" -> {} [] i = "db" -> {"config"} [] i = "app" -> {"db"}]

Both == <<"fail", "abort">>
SmokeRequests ==
    {[inject |-> Both, given |-> FALSE, at |-> <<>>],
     [inject |-> <<"abort">>, given |-> TRUE, at |-> <<"app", "db">>],
     [inject |-> <<>>, given |-> FALSE, at |-> <<>>],
     [inject |-> Both, given |-> TRUE, at |-> <<"config">>]}

\* A plain object, an instance of a class, and one of a class without functions of
\* its own that extends a container.
Plain == <<[kind |-> "object", members |-> {"toString"}]>>
Instance == <<[kind |-> "ordinary", members |-> {"get"}]>> \o Plain
Container == <<[kind |-> "ordinary", members |-> {}], [kind |-> "intrinsic", members |-> {"get"}]>> \o Plain

VARIABLES
    smokeAborted, smokeStack, smokePc, smokeSignal, smokeAt, smokeSupplied, smokeJournal,
    smokeReturned, smokeCarrier, smokeOutcome, smokeMade, smokeCalls,
    procedure, stage, request, shape, plans, called, injected, held, steps, surprises
smoke == <<smokeAborted, smokeStack, smokePc, smokeSignal, smokeAt, smokeSupplied, smokeJournal,
           smokeReturned, smokeCarrier, smokeOutcome, smokeMade, smokeCalls,
           procedure, stage, request, shape, plans, called, injected, held, steps, surprises>>

Harness == INSTANCE ConformanceHarness WITH
    Runs <- 1..5, Signals <- 1..5, Fresh <- 0, Order <- SmokeOrder, Needs <- SmokeNeeds,
    Inputs <- {"config"}, Roots <- {"app"}, Commits <- {"append"},
    Requests <- SmokeRequests, Shapes <- {Plain, Instance, Container}, MaxSurprises <- 2,
    aborted <- smokeAborted, stack <- smokeStack, pc <- smokePc, signal <- smokeSignal,
    at <- smokeAt, supplied <- smokeSupplied, journal <- smokeJournal, returned <- smokeReturned,
    carrier <- smokeCarrier, outcome <- smokeOutcome, made <- smokeMade, calls <- smokeCalls

HarnessIsTrue == Harness!HarnessIsTrue
-----------------------------------------------------------------------------
(* Source trees: a feature in a feature, and a module of the host, with the inputs  *)
(* and a use case of a feature, or with a group and two roots.                      *)

Orders == <<"src", "features", "orders">>
Payments == Orders \o <<"features", "payments">>
InFeature(site, stem, kind) == [dirs |-> Append(site, "composition"), stem |-> stem, kind |-> kind]
InHost(stem, kind) == InFeature(<<"src">>, stem, kind)
Edge(f, g) == [from |-> f, to |-> g, mode |-> "value"]
TypeEdge(f, g) == [from |-> f, to |-> g, mode |-> "type"]
CreateOrder == [dirs |-> Orders \o <<"application", "use-cases">>, stem |-> "create-order", kind |-> "source"]
AppRoot == InHost("app", "root")
OwnGroup == InFeature(Orders, "orders", "group")

FeatureFiles(site, name) == <<InFeature(site, name, "declaration"), InFeature(site, name, "module"),
                              InFeature(site, name, "group")>>
FeatureEdges(site, name) == <<Edge(InFeature(site, name, "module"), InFeature(site, name, "declaration")),
                              Edge(InFeature(site, name, "group"), InFeature(site, name, "module"))>>
HostFiles == <<InHost("shared", "contracts"), InHost("shared", "declaration"), InHost("shared", "module")>>
HostEdges == <<TypeEdge(InHost("shared", "declaration"), InHost("shared", "contracts")),
               Edge(InHost("shared", "module"), InHost("shared", "declaration"))>>

Nested ==
    [files |-> FeatureFiles(Orders, "orders") \o FeatureFiles(Payments, "payments") \o <<AppRoot>>,
     imports |-> FeatureEdges(Orders, "orders") \o FeatureEdges(Payments, "payments") \o
                 <<Edge(OwnGroup, InFeature(Payments, "payments", "group")), Edge(AppRoot, OwnGroup),
                   Edge(AppRoot, InFeature(Orders, "orders", "module"))>>,
     exports |-> <<>>]
ByRoot ==
    [files |-> HostFiles \o <<InFeature(Orders, "session", "declaration"), InFeature(Orders, "orders", "inputs"),
                              InFeature(Orders, "orders", "contracts"), CreateOrder, AppRoot>>,
     imports |-> HostEdges \o <<Edge(InFeature(Orders, "orders", "inputs"), InFeature(Orders, "session", "declaration")),
                    TypeEdge(InFeature(Orders, "session", "declaration"), InFeature(Orders, "orders", "contracts")),
                    Edge(AppRoot, InHost("shared", "module"))>>,
     exports |-> [f \in {CreateOrder} |-> <<"function">>]]
ByGroup ==
    [files |-> HostFiles \o FeatureFiles(Orders, "orders") \o <<InHost("runtime", "group"), AppRoot, InHost("other", "root")>>,
     imports |-> HostEdges \o FeatureEdges(Orders, "orders") \o
        <<Edge(InHost("runtime", "group"), InHost("shared", "module")), Edge(AppRoot, InHost("runtime", "group")),
          Edge(AppRoot, OwnGroup), Edge(InHost("other", "root"), InHost("runtime", "group"))>>,
     exports |-> <<>>]

VARIABLES tree, touched, edits
layout == <<tree, touched, edits>>

Checker == INSTANCE Layout WITH Trees <- {Nested, ByRoot, ByGroup}, MaxEdits <- 2

LayoutIsTrue == Checker!LayoutIsTrue
-----------------------------------------------------------------------------
\* As soon as one of the three has begun, the others stay where they are.
ClientIsIdle == aborted = {} /\ \A r \in Runs : pc[r] = "idle"
HarnessIsIdle == stage = "idle"
NothingIsCollected == tree = Checker!NoTree

all == <<vars, smoke, layout>>

MCInit == Init /\ Harness!HarnessInit /\ Checker!LayoutInit

MCNext ==
    \/ HarnessIsIdle /\ NothingIsCollected /\ Next /\ UNCHANGED <<smoke, layout>>
    \/ ClientIsIdle /\ NothingIsCollected /\ Harness!HarnessNext /\ UNCHANGED <<vars, layout>>
    \/ ClientIsIdle /\ HarnessIsIdle /\ Checker!LayoutNext /\ UNCHANGED <<vars, smoke>>

MCSpec ==
    /\ MCInit /\ [][MCNext]_all
    /\ \A r \in Runs : /\ WF_all(Machine(r) /\ UNCHANGED <<smoke, layout>>)
                       /\ WF_all(Factory(r) /\ UNCHANGED <<smoke, layout>>)
                       /\ WF_all(Settle(r) /\ UNCHANGED <<smoke, layout>>)
    /\ WF_all(ClientIsIdle /\ Harness!Mine /\ UNCHANGED <<vars, layout>>)

\* Every run that is started ends, and so does every use of the harness, if the
\* factories and the cases do.
AllEnd == RunsEnd /\ Harness!HarnessSettles
=============================================================================
