----------------------------- MODULE SemanticReport -----------------------------
(***************************************************************************)
(* semantic-analysis.ts from the graph on: the selected graph is analysed, *)
(* its failures (graph-diagnostics.ts) and the selections no root needs    *)
(* join the diagnostics of the earlier checks in one collector, and a plan *)
(* is made if the collector has nothing to report.                         *)
(*                                                                         *)
(* The earlier checks leave here the diagnostics they have given and their *)
(* gaps: the consumers with a binding row missing or invalid, whose edges  *)
(* may be incomplete, and whether the roots are resolved.  A profile names *)
(* at least one root, so the roots are unresolved when there are none.     *)
(***************************************************************************)
EXTENDS SelectedGraph

CONSTANTS
    Retained, MaximumOmitted,
    ModuleRank,   \* of an implementation, the rank of its module id
    GapSets       \* the sets of consumers whose bindings have gaps

ASSUME ReportAssumption ==
    /\ Retained \in Nat \ {0} /\ MaximumOmitted \in Nat \ {0}
    /\ ModuleRank \in [Nodes -> Nat]
    /\ GapSets \subseteq SUBSET Nodes

VARIABLES
    gaps,
    collector,
    emitted,    \* the whole stream given to the collector
    report,     \* the step of the report that is next
    result      \* what the collector reports at the end

reportVars == <<gaps, collector, emitted, report, result>>

\* The order of phases and codes in diagnostics/order.ts.
CodeRank(code) ==
    CASE code = "profile.unknown-root" -> 1
      [] code = "binding.missing" -> 2
      [] code = "input.limit-exceeded" -> 3
      [] code = "profile.unreachable-selection" -> 4
      [] code = "graph.cycle" -> 5

\* A diagnostic and the nodes it is about; components have no node in common,
\* so their least members order them.
Diagnostic(code, about) == [code |-> code, about |-> about]

Coordinate(d) ==
    IF d.about = {} THEN 0
    ELSE IF d.code = "profile.unreachable-selection"
         THEN Min({ModuleRank[n] : n \in d.about})
    ELSE Min(d.about)

Before(a, b) ==
    \/ CodeRank(a.code) < CodeRank(b.code)
    \/ CodeRank(a.code) = CodeRank(b.code) /\ Coordinate(a) < Coordinate(b)

Collector == INSTANCE DiagnosticCollector

\* The diagnostics are given to the collector one after the other.
Emit(from, stream) ==
    /\ collector' = FoldLeft(Collector!AddUnique, from, stream)
    /\ emitted' = emitted \o stream

AboutEach(code, ns) == [i \in 1..Len(ns) |-> Diagnostic(code, {ns[i]})]

Earlier(gs) ==
    LET unresolved == IF roots = {} THEN <<Diagnostic("profile.unknown-root", {})>> ELSE <<>>
    IN  unresolved \o AboutEach("binding.missing", Ascending(gs))

\* The cycles, in the order of their least members.
CycleList ==
    LET least == Ascending({Min(c) : c \in Cycles})
    IN  [i \in 1..Len(least) |-> CHOOSE c \in Cycles : least[i] \in c]

GraphFailures ==
    LET tooDeep == IF residualDepth > DepthLimit
                   THEN <<Diagnostic("input.limit-exceeded", {})>> ELSE <<>>
    IN  tooDeep \o [i \in DOMAIN CycleList |-> Diagnostic("graph.cycle", CycleList[i])]

ReportInit ==
    /\ Init
    /\ gaps = {} /\ collector = Collector!Empty /\ emitted = <<>>
    /\ report = "failures" /\ result = <<>>

Reporting(step, next) ==
    /\ stage = "done"
    /\ report = step /\ report' = next
    /\ UNCHANGED vars

\* The gaps, too, are an input that no earlier step reads.
CollectGraphFailures ==
    /\ Reporting("failures", "unreachable")
    /\ gaps' \in GapSets
    /\ Emit(collector, Earlier(gaps') \o GraphFailures)
    /\ UNCHANGED result

\* A node is unreachable only if everything that reaches others is known.
FrontierComplete == roots # {} /\ reached \cap gaps = {}

CollectUnreachable ==
    /\ Reporting("unreachable", "finish")
    /\ Emit(collector, IF FrontierComplete
                       THEN AboutEach("profile.unreachable-selection",
                                      Ascending(Nodes \ reached))
                       ELSE <<>>)
    /\ UNCHANGED <<gaps, result>>

FinishReport ==
    /\ Reporting("finish", "finished")
    /\ result' = Collector!Finish(collector)
    /\ UNCHANGED <<gaps, collector, emitted>>

\* The call has returned.
Returned == report = "finished" /\ UNCHANGED <<vars, reportVars>>

ReportNext ==
    \/ Analyse /\ UNCHANGED reportVars
    \/ CollectGraphFailures \/ CollectUnreachable \/ FinishReport
    \/ Returned

ReportSpec == ReportInit /\ [][ReportNext]_<<vars, reportVars>>

\* A plan, and with it the order of construction, comes only without diagnostics.
Planned == report = "finished" /\ result = <<>>
=============================================================================
