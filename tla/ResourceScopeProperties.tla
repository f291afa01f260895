----------------------- MODULE ResourceScopeProperties -----------------------
(***************************************************************************)
(* What packages/resources/README.md and ADR-0030 promise of the cleanup   *)
(* scopes, as properties of ResourceScope.                                 *)
(***************************************************************************)
EXTENDS ResourceScope

\* Every scope ever created below n, and the leaves it registered.
Below(n) == Reach(n, [a \in Scopes |-> {c \in Scopes : home[c] = a}])
Owned(n) == {l \in Leaves : home[l] \in Below(n)}
\* Leaves whose cleanup has not returned; a rejected setup owes nothing.
Unreleased(n) == {l \in Owned(n) : where[l] \notin {"gone", "void"}}
-----------------------------------------------------------------------------
(* Closing a tree.                                                         *)

\* "The requested subtree refuses registration": whatever is attached below a
\* requested scope is requested, in every state, so the pruned walk of
\* #request may stop at a requested scope.
Sealed ==
    \A c \in Scopes : home[c] # 0 /\ ~detached[c] /\ requested[home[c]] => requested[c]

\* Once the outermost call has returned, every requested scope has told its
\* setups to stop, also when listeners closed other scopes during the walk;
\* an aborted scope has no attached child whose signal is not aborted.
SignalsReach ==
    Idle => /\ \A n \in Scopes : requested[n] => notified[n] /\ aborted[n]
            /\ \A c \in Scopes :
                 home[c] # 0 /\ ~detached[c] /\ aborted[home[c]] => aborted[c]

\* "Cleanup waits for those synchronous listeners to return, including when a
\* listener closes an ancestor": no cleanup starts above an abort notification.
CleanupAfterListeners ==
    \A i, j \in DOMAIN stack :
        Notifies(stack[i]) /\ stack[j].k = "cleanup" => j < i

\* "Close waits for started setups, then releases": nothing of a scope is
\* invoked while one of its setups is pending.
CleanupAfterSetups ==
    \A i \in Items : inv[i] # "none" => Setups(home[i]) = {}

\* Nothing is released under an abort notification or before a started setup.
CleanupsWait == CleanupAfterListeners /\ CleanupAfterSetups

\* "Everything else releases in reverse order, one cleanup at a time": while an
\* entry of a reverse scope is being released, no other one is, and every slot
\* taken after it has been tried in this flight; also when a flight retries.
ReverseOrder ==
    \A n \in Scopes : order[n] = "reverse" =>
        \A a, b \in DOMAIN ledger[n] :
            inv[ledger[n][a]] # "none" /\ a # b =>
                /\ inv[ledger[n][b]] = "none"
                /\ a < b => where[ledger[n][b]] \in {"failed", "gone"}

\* "complete means every registered cleanup callback returned without
\* throwing": a caller that was told so, by a flight or by a snapshot, finds
\* nothing unreleased in the subtree it closed, then or later.
CompleteIsTrue ==
    \A k \in Calls :
        call[k].answer \in {"complete", "snapshot-complete"} => Unreleased(call[k].on) = {}

\* "Pending and failed children ... remain visible in reports": a report taken
\* by user code names exactly the unreleased leaves of the subtree: none is lost
\* between two lists and none is named that has been released.  (In reverse scopes;
\* in the middle of a concurrent batch a report does not name what comes later.)
ReportsAreExact ==
    UserTurn => \A n \in Scopes :
        (\A m \in Below(n) : order[m] = "reverse") => Debts(n) = Unreleased(n)

\* An escalation walk is under way.
Escalating == \E i \in DOMAIN stack : stack[i].k = "escalate" /\ stack[i].cur[1].last # 0

\* "Aborting the escalate signal ... asks every cleanup of the current flight
\* of the subtree", "including descendants that are closing on their own":
\* whenever user code runs and no escalation walk is under way, an escalated
\* flight has no attached descendant whose flight is not escalated.
EscalationCovers ==
    UserTurn /\ ~Escalating =>
        \A n \in Scopes : phase[n] # "none" /\ esc[n] =>
            \A m \in Subtree(n) : phase[m] # "none" => esc[m]

\* "a pre-aborted escalation is visible from the first cleanup": a cleanup body
\* runs in a flight that has the escalation of every flight above it, and no
\* fired signal of a waiting caller is lost on the way to its flight.
EscalationIsFirst ==
    /\ On({"cleanup"}) =>
        LET h == home[Top.n] IN
        \A n \in Scopes : h \in Subtree(n) /\ phase[n] # "none" /\ esc[n] => esc[h]
    /\ UserTurn /\ ~Escalating =>
        \A k \in Calls :
            /\ call[k].st \in {"entered", "awaiting"} /\ call[k].done = "pending"
            /\ call[k].escalate = "fired"
            => esc[call[k].on]

\* An escalation reaches every flight it is meant for, and before its cleanups.
EscalationReaches == EscalationCovers /\ EscalationIsFirst
-----------------------------------------------------------------------------
(* What a step may never do.                                               *)

\* Released is released for good: a leaf whose cleanup returned, or a child that
\* left, is never invoked, failed or listed again, also when the report that its
\* parent is about to read was made before it left.  (Reverse scopes.)
ReleasedForGood ==
    [][\A i \in Items :
          home[i] # 0 /\ order[home[i]] = "reverse" /\ where[i] = "gone" =>
              where'[i] = "gone"]_vars

\* "After a close is requested nothing new is accepted": a requested scope takes
\* no new item; only setups it had started still take their slot.
NothingNew ==
    [][\A n \in Scopes : requested[n] =>
          /\ {i \in Items : home'[i] = n} = {i \in Items : home[i] = n}
          /\ \A j \in DOMAIN ledger'[n] \ DOMAIN ledger[n] : where[ledger'[n][j]] = "setup"]_vars
-----------------------------------------------------------------------------
(* What eventually happens.                                                *)

\* Every call of close() is answered, whoever else abandons, escalates, retries
\* or closes another part of the tree.
CloseIsAnswered ==
    \A k \in Calls : call[k].st \in {"entered", "awaiting"} ~> call[k].st = "answered"

\* A value whose setup fulfilled after the close request is refused to its
\* author and released by the flight that waited for it.
RefusedIsReleased ==
    \A l \in Leaves :
        author[l] = "refused" /\ where[l] = "live" ~> where[l] \in {"gone", "failed"}

\* What close() and a late setup promise is kept in the end: every call of close()
\* is answered, and what was refused is released or reported as failed.
CloseSettles == CloseIsAnswered /\ RefusedIsReleased
=============================================================================
