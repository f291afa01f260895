------------------------ MODULE ObservationProperties ------------------------
(***************************************************************************)
(* What packages/observation/README.md and ADR-0034 promise of stores and  *)
(* their subscribers, as properties of ObservationStore.                   *)
(***************************************************************************)
EXTENDS ObservationStore

-----------------------------------------------------------------------------
(* Nothing is missed.                                                      *)

Pending(st) == flushScheduled[st] \/ publications[st] > 0

\* "delivered() resolves when no delivery ... is scheduled": then every live
\* subscription has been handed the newest revision of what it follows, also
\* when it subscribed late, from an old snapshot or inside a callback.
DeliveredWhenQuiet ==
    \A st \in Stores : Idle /\ ~Pending(st) =>
        \A s \in Live(st) : delivered[s] = Latest(s)

\* "settled() also waits for their running and queued loads": then every live
\* load has shown the outcome for the newest revision, however often its runs
\* were superseded before, during or after the loader.
SettledWhenQuiet ==
    \A st \in Stores : Idle /\ ~Pending(st) /\ loads[st] = 0 =>
        \A s \in Live(st) \cap Loads : shown[s] = Latest(s)

\* "a delivery has the largest depth among the commits it coalesces": outside
\* its own delivery a subscription remembers exactly the deepest commit that it
\* has not been handed, also when it subscribed after that commit.
DepthIsExact ==
    \A s \in Subs : status[s] = "live" /\ delivered[s] # -1 /\ ~closed[Source(s)] =>
        depth[s] = MaxOf({log[Source(s)][r].depth :
            r \in {r \in 1 .. revision[Source(s)] :
                     r > delivered[s] /\ log[Source(s)][r].keys \cap Follows[s] # {}}})
-----------------------------------------------------------------------------
(* Closing.                                                                *)

\* "A report never releases the dependencies of a running loader": a load is
\* drained only when it is detached and neither runs nor has a job that waits.
DrainedIsIdle ==
    \A s \in Loads : drain[s] = "done" =>
        status[s] = "off" /\ run[s] = "none" /\ waiting[s] = NoJob

\* "When a store closes while other modules still follow it, every subscription
\* is detached": also when the error port closes scopes meanwhile, none is left
\* behind, and the drain of every load has begun.
ClosedIsDetached ==
    \A st \in Stores :
        closed[st] /\ ~(\E i \in DOMAIN stack : stack[i].k = "closing" /\ stack[i].st = st) =>
            /\ Live(st) = {}
            /\ \A s \in Loads : Source(s) = st /\ status[s] # "new" => drain[s] # "none"

\* "detached the moment that scope starts closing": no callback and no loader of
\* a detached subscription, or of one whose scope has begun to close, is called,
\* also when a batch, a queued publication or a run that is about to start still
\* names it, and while other listeners of that scope act.
SilentWhenDetached ==
    [][\A s \in Subs : status[s] = "off" \/ ScopeOf[s] \notin open =>
          \A i \in DOMAIN stack' : stack'[i].k = "call" /\ stack'[i].s = s =>
              i \in DOMAIN stack /\ stack[i] = stack'[i]]_vars

\* "the state above never shows models of an older region once the change is
\* delivered": onResult and onError come only for the revision of the last
\* onLoading, and only while it is the newest of the store.
NeverOlderThanLoading ==
    [][\A s \in Loads : shown'[s] # shown[s] =>
          shown'[s] = offered[s] /\ shown'[s] = Latest(s) /\ shown'[s] > shown[s]]_vars
-----------------------------------------------------------------------------
(* What eventually happens.                                                *)

\* The newest values are loaded and shown, unless the load is detached; and the
\* cleanup of a detached load ends, once its loader settles, and never before.
LoadsSettle ==
    /\ []DrainedIsIdle
    /\ \A s \in Loads :
          /\ status[s] = "live" ~> status[s] = "off" \/ shown[s] = Latest(s)
          /\ drain[s] = "waiting" ~> drain[s] = "done"
=============================================================================
