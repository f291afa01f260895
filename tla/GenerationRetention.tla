-------------------------- MODULE GenerationRetention --------------------------
(***************************************************************************)
(* What the lifecycle kernel promises of a generation, without its         *)
(* counters: who may be admitted to it, what it still retains, and that    *)
(* its retirement is finished only when it retains nothing.                *)
(***************************************************************************)
CONSTANTS Generations, Leases

VARIABLES
    stage,   \* "unused", "open" (admits custody, and calls once it is active),
             \* "shut" (admits neither and may open again), or one of "revoked"
             \* and "finished", which are final for admission
    held     \* the leases of a generation that are issued and not released

vars == <<stage, held>>

Init ==
    /\ stage = [g \in Generations |-> "unused"]
    /\ held = [g \in Generations |-> {}]

Move(g, from, to) ==
    /\ stage[g] \in from
    /\ stage' = [stage EXCEPT ![g] = to]
    /\ UNCHANGED held

Stage(g) == Move(g, {"unused"}, "open")
Shut(g) == Move(g, {"open"}, "shut")
Reopen(g) == Move(g, {"shut"}, "open")
Revoke(g) == Move(g, {"open", "shut"}, "revoked")
Finish(g) == held[g] = {} /\ Move(g, {"revoked"}, "finished")

\* A lease is issued once, by one generation that is open.
Admit(g, l) ==
    /\ stage[g] = "open"
    /\ \A h \in Generations : l \notin held[h]
    /\ held' = [held EXCEPT ![g] = @ \cup {l}]
    /\ UNCHANGED stage

Drop(g, l) ==
    /\ l \in held[g]
    /\ held' = [held EXCEPT ![g] = @ \ {l}]
    /\ UNCHANGED stage

Next ==
    \E g \in Generations :
        \/ Stage(g) \/ Shut(g) \/ Reopen(g) \/ Revoke(g) \/ Finish(g)
        \/ \E l \in Leases : Admit(g, l) \/ Drop(g, l)

Spec == Init /\ [][Next]_vars
=============================================================================
