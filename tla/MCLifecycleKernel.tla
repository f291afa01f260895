--------------------------- MODULE MCLifecycleKernel ---------------------------
(* Either two generations and three leases of one kernel, under an arbitrary    *)
(* client; or the first publication of a package, run up to three times with    *)
(* two faults and one interference.                                             *)
(* The tokens are interchangeable: nothing orders them and no property names    *)
(* one; every property of the run is one of states or of steps.                 *)
EXTENDS LifecycleKernel, TLC

Tokens == Permutations(Generations) \cup Permutations(Leases)
-----------------------------------------------------------------------------
VARIABLES registry, replica, flight, previous, durable, step, part, reads, record, downloaded,
          selected, status, runs, faults, others, writes, consumed, refuted, lagged
publication == <<registry, replica, flight, previous, durable, step, part, reads, record,
                 downloaded, selected, status, runs, faults, others, writes, consumed, refuted,
                 lagged>>

Publication == INSTANCE FirstRelease WITH
    phase <- step, calls <- writes, MaxRuns <- 3, MaxFaults <- 2, MaxOthers <- 1

WritesOnce == [][Publication!StepAsksOnce]_publication
ReportIsTrue == Publication!ReportIsTrue

\* As soon as one of the two has begun, the other stays where it is.
Unpublished == runs = 0 /\ others = 0

MCInit == Init /\ Publication!Init

MCNext ==
    \/ Unpublished /\ Next /\ UNCHANGED publication
    \/ reply.op = "none" /\ Publication!Next /\ UNCHANGED vars

MCSpec == MCInit /\ [][MCNext]_<<vars, publication>>
=============================================================================
