---------------------------- MODULE ResourceScope ----------------------------
(***************************************************************************)
(* The cleanup scopes of @get-modular/resources                            *)
(* (packages/resources/src/features/scope/scope.ts): one tree of scopes,   *)
(* its registrations, its setups, its close flights and its callers.       *)
(*                                                                         *)
(* The program is single-threaded.  A step of this module is either a      *)
(* whole synchronous section of it or the part of one that runs up to the  *)
(* next user callback, and `stack` is the JavaScript call stack: while a   *)
(* user callback (an abort listener, the synchronous part of a setup or of *)
(* a cleanup) is on top, user code may call any operation reentrantly;     *)
(* continuations of promises run only when the stack is empty.             *)
(*                                                                         *)
(* An item is what holds a release slot: a leaf (an entry with a cleanup)  *)
(* or a child scope (the entry of a child is identified with the child).   *)
(***************************************************************************)
EXTENDS Integers, FiniteSets, SequencesExt

CONSTANTS
    NScopes,    \* scopes that a behaviour may create, the root included
    NLeaves,    \* leaf entries that a behaviour may register
    NCalls,     \* calls of close() that a behaviour may make
    CompactAt,  \* COMPACT_AT, the tombstones a list keeps before compaction
    Uses        \* what user code exercises, a subset of Features

Features == {"setup", "use", "concurrent", "peers", "escalate", "abandon", "scoped", "fail"}

ASSUME ScopeAssumption ==
    /\ NScopes \in Nat \ {0} /\ NLeaves \in Nat /\ NCalls \in Nat
    /\ CompactAt \in Nat
    /\ Uses \subseteq Features

Scopes == 1 .. NScopes
Leaves == (NScopes + 1) .. (NScopes + NLeaves)
Items == 1 .. (NScopes + NLeaves)
Calls == 1 .. NCalls
Root == 1
Orders == IF "concurrent" \in Uses THEN {"reverse", "concurrent"} ELSE {"reverse"}
ChildOrders == IF "peers" \in Uses THEN Orders ELSE {"reverse"}

VARIABLES
    home,        \* the scope an item was registered in; 0: none (yet), or the root
    order,       \* "reverse" or "concurrent"
    requested,   \* #requested: a close was requested, nothing new is accepted
    notified,    \* #requestNotified
    aborted,     \* #setupAbort.signal.aborted
    detached,    \* #detached: left the registry of the parent
    phase,       \* the close flight of a scope and where its #run stands
    esc,         \* flight.escalate.signal.aborted
    live,        \* #live, the release slots, last in first out
    tombstones,  \* #tombstones, the counted detached entries in #live
    failed,      \* #failed, in attempt order
    where,       \* Entry.where, and the setups that have no entry yet
    inv,         \* the #invoke of an item in progress; \notin "none": in #active
    author,      \* the promise that setup() returned for a leaf
    starts,      \* #notifications.pending: flights to start
    stack,       \* the call stack, top last
    call,        \* the calls of close() and their signals
    module,      \* scopes opened by scoped() whose factory has not settled
    runAborted,  \* the signal of the assembly run is aborted
    ledger       \* history: the items of a scope in the order of their slots

treeVars == <<home, order, detached>>
signalVars == <<requested, notified, aborted>>
flightVars == <<phase, esc>>
listVars == <<live, tombstones, failed>>
entryVars == <<where, inv, author>>
turnVars == <<starts, stack>>
runVars == <<module, runAborted>>
vars == <<treeVars, signalVars, flightVars, listVars, entryVars, turnVars,
          runVars, call, ledger>>
-----------------------------------------------------------------------------
(* Lists of entries.                                                       *)

\* The i-th number of the set K, from the least.
Nth(K, i) == CHOOSE j \in K : Cardinality({k \in K : k <= j}) = i

\* filter(): the entries of s that are in S, in their order.
Among(s, S) ==
    LET kept == {j \in DOMAIN s : s[j] \in S}
    IN  [i \in 1 .. Cardinality(kept) |-> s[Nth(kept, i)]]
-----------------------------------------------------------------------------
(* Reading the tree.                                                       *)

Created(n) == n = Root \/ home[n] # 0
Kids(n) == {c \in Scopes : home[c] = n /\ ~detached[c]}       \* #children
Setups(n) == {l \in Leaves : home[l] = n /\ where[l] = "setup"}  \* #pending

\* Everything reachable from n: the least set with n that is closed under `next`.
Reach(n, next) ==
    {m \in Scopes :
        \A T \in SUBSET Scopes :
            (n \in T /\ \A a \in T : next[a] \subseteq T) => m \in T}
Subtree(n) == Reach(n, [a \in Scopes |-> Kids(a)])

\* Mutant of Unsealed: the request stops at the scope itself.
UnsealedAlone(n) == IF requested[n] THEN {} ELSE {n}

\* What #request visits: it descends only through scopes not yet requested.
Unsealed(n) ==
    LET open == {c \in Scopes : ~requested[c]}
    IN  IF n \in open
        THEN Reach(n, [a \in Scopes |-> Kids(a) \cap open])
        ELSE {}

\* Mutant of Listed: a report forgets the entries that are being released.
ListedIdle(n) ==
    {i \in Items : home[i] = n /\
        \/ where[i] = "failed" /\ i \in ToSet(failed[n])
        \/ where[i] = "live" /\ i \in ToSet(live[n])}

\* The entries a report looks at: #failed, #active and #live, in that order,
\* each with the state the report expects there.
Listed(n) ==
    {i \in Items : home[i] = n /\
        \/ where[i] = "failed" /\ i \in ToSet(failed[n])
        \/ where[i] = "active" /\ inv[i] # "none"
        \/ where[i] = "live" /\ i \in ToSet(live[n])}
HasChild(i) == i \in Scopes /\ ~detached[i]          \* entry.child is defined
Debts(n) ==
    UNION {{i \in Listed(m) : ~HasChild(i)} \cup Setups(m) :
             m \in Reach(n, [a \in Scopes |-> {c \in Listed(a) : HasChild(c)}])}
-----------------------------------------------------------------------------
(* The call stack.                                                         *)

Frame(kind, n) == [k |-> kind, n |-> n]
WalkFrame(kind, n) ==
    [k |-> kind, n |-> n, cur |-> <<[of |-> "self", at |-> n, last |-> 0]>>]

UserKinds == {"listener", "setup", "cleanup"}
WalkKinds == {"notify", "cancel", "escalate"}

Idle == stack = <<>>
Top == Last(stack)
Under == Front(stack)
On(kinds) == ~Idle /\ Top.k \in kinds
UserTurn == Idle \/ On(UserKinds)

Draining(s) == \E i \in DOMAIN s : s[i].k = "drain"
\* #notifications.depth # 0: a walk that tells abort listeners has begun.  (A
\* frame below the top that has not begun stands for the rest of its caller.)
Notifies(f) == f.k \in {"notify", "cancel"} /\ f.cur[1].last # 0
Notifying(s) == \E i \in DOMAIN s : Notifies(s[i])

\* Mutant of Drained: starts run under an abort notification.
DrainedAtOnce(s, queue) ==
    IF queue # <<>> /\ ~Draining(s) THEN Append(s, Frame("drain", 0)) ELSE s
\* #drainStarts: starts run once no abort notification is on the stack.
Drained(s, queue) ==
    IF queue # <<>> /\ ~Notifying(s) /\ ~Draining(s)
    THEN Append(s, Frame("drain", 0))
    ELSE s
-----------------------------------------------------------------------------
Init ==
    /\ home = [i \in Items |-> 0]
    /\ \E o \in Orders : order = [n \in Scopes |-> IF n = Root THEN o ELSE "reverse"]
    /\ requested = [n \in Scopes |-> FALSE]
    /\ notified = [n \in Scopes |-> FALSE]
    /\ aborted = [n \in Scopes |-> FALSE]
    /\ detached = [n \in Scopes |-> FALSE]
    /\ phase = [n \in Scopes |-> "none"]
    /\ esc = [n \in Scopes |-> FALSE]
    /\ live = [n \in Scopes |-> <<>>]
    /\ tombstones = [n \in Scopes |-> 0]
    /\ failed = [n \in Scopes |-> <<>>]
    /\ where = [i \in Items |-> "free"]
    /\ inv = [i \in Items |-> "none"]
    /\ author = [l \in Leaves |-> "none"]
    /\ starts = <<>>
    /\ stack = <<>>
    /\ call = [k \in Calls |-> [on |-> 0, st |-> "unused", done |-> "pending",
                                escalate |-> "absent", abandon |-> "absent",
                                linked |-> FALSE, answer |-> "none"]]
    /\ module = [n \in Scopes |-> FALSE]
    /\ runAborted = FALSE
    /\ ledger = [n \in Scopes |-> <<>>]
-----------------------------------------------------------------------------
(* Registration.                                                           *)

\* Nothing new is accepted after a close was requested.
Accepts(n) == Created(n) /\ ~requested[n]

\* The next leaf and the next scope to create: items are numbered in the order
\* of their creation.  Each set is empty or has one element.
NextLeaf == {l \in Leaves : home[l] = 0 /\ \A j \in Leaves : home[j] = 0 => l <= j}
NextScope == {c \in Scopes : ~Created(c) /\ \A j \in Scopes : ~Created(j) => c <= j}

\* setup(): the record is pending before the user callback runs.
Setup(n) ==
    /\ UserTurn /\ Accepts(n)
    /\ "setup" \in Uses
    /\ \E l \in NextLeaf :
        /\ home' = [home EXCEPT ![l] = n]
        /\ where' = [where EXCEPT ![l] = "setup"]
        /\ author' = [author EXCEPT ![l] = "waiting"]
        /\ stack' = Append(stack, Frame("setup", l))
    /\ UNCHANGED <<order, detached, signalVars, flightVars, listVars, inv,
                   starts, runVars, call, ledger>>

SetupReturn ==
    /\ On({"setup"})
    /\ stack' = Under
    /\ UNCHANGED <<treeVars, signalVars, flightVars, listVars, entryVars,
                   starts, runVars, call, ledger>>

\* acquire() after the setup fulfilled: the slot is taken even when the author
\* is refused because a close was requested meanwhile.
SetupFulfil(l) ==
    LET n == home[l] IN
    /\ Idle /\ where[l] = "setup"
    /\ where' = [where EXCEPT ![l] = "live"]
    /\ live' = [live EXCEPT ![n] = Append(@, l)]
    /\ ledger' = [ledger EXCEPT ![n] = Append(@, l)]
    /\ author' = [author EXCEPT ![l] = IF requested[n] THEN "refused" ELSE "value"]
    /\ UNCHANGED <<treeVars, signalVars, flightVars, tombstones, failed, inv,
                   turnVars, runVars, call>>

SetupReject(l) ==
    /\ Idle /\ where[l] = "setup" /\ "fail" \in Uses
    /\ where' = [where EXCEPT ![l] = "void"]
    /\ author' = [author EXCEPT ![l] = "rejected"]
    /\ UNCHANGED <<treeVars, signalVars, flightVars, listVars, inv, turnVars,
                   runVars, call, ledger>>

Use(n) ==
    /\ UserTurn /\ Accepts(n)
    /\ "use" \in Uses
    /\ \E l \in NextLeaf :
        /\ home' = [home EXCEPT ![l] = n]
        /\ where' = [where EXCEPT ![l] = "live"]
        /\ live' = [live EXCEPT ![n] = Append(@, l)]
        /\ ledger' = [ledger EXCEPT ![n] = Append(@, l)]
    /\ UNCHANGED <<order, detached, signalVars, flightVars, tombstones, failed,
                   inv, author, turnVars, runVars, call>>

\* The constructor of a nested scope: the abort of the parent is inherited.
Construct(c, n, o, inheritedAbort) ==
    /\ home' = [home EXCEPT ![c] = n]
    /\ order' = [order EXCEPT ![c] = o]
    /\ aborted' = [aborted EXCEPT ![c] = aborted[n] \/ inheritedAbort]
    /\ where' = [where EXCEPT ![c] = "live"]
    /\ live' = [live EXCEPT ![n] = Append(@, c)]
    /\ ledger' = [ledger EXCEPT ![n] = Append(@, c)]

Child(n, o) ==
    /\ UserTurn /\ Accepts(n) /\ o \in Orders
    /\ \E c \in NextScope : Construct(c, n, o, FALSE)
    /\ UNCHANGED <<detached, requested, notified, flightVars, tombstones, failed,
                   inv, author, turnVars, runVars, call>>

\* scoped(): a module scope follows the signal of its run.
OpenModule(n) ==
    /\ UserTurn /\ Accepts(n) /\ "scoped" \in Uses
    /\ \E c \in NextScope :
        /\ Construct(c, n, "reverse", runAborted)
        /\ module' = [module EXCEPT ![c] = ~runAborted]
    /\ UNCHANGED <<detached, requested, notified, flightVars, tombstones, failed,
                   inv, author, turnVars, runAborted, call>>

\* The factory returned, or its promise settled: the module scope no longer
\* follows the run.
Unlink(c) ==
    /\ UserTurn /\ module[c]
    /\ module' = [module EXCEPT ![c] = FALSE]
    /\ UNCHANGED <<treeVars, signalVars, flightVars, listVars, entryVars,
                   turnVars, runAborted, call, ledger>>

\* The run is cancelled: #abortSetups of every scope that follows it, in the
\* order of their listeners.
CancelRun ==
    /\ UserTurn /\ "scoped" \in Uses /\ ~runAborted
    /\ runAborted' = TRUE
    /\ LET followers == {c \in Scopes : module[c]}
       IN  stack' = stack \o Reverse([i \in 1 .. Cardinality(followers) |->
                                       WalkFrame("cancel", Nth(followers, i))])
    /\ module' = [c \in Scopes |-> FALSE]
    /\ UNCHANGED <<treeVars, signalVars, flightVars, listVars, entryVars,
                   starts, call, ledger>>
-----------------------------------------------------------------------------
(* Tree walks.  A cursor is a live iterator over #children, whose members  *)
(* are in the order of their creation.                                     *)

Ahead(c) == {m \in (IF c.of = "self" THEN {c.at} ELSE Kids(c.at)) : m > c.last}
Ready(cur) == {j \in DOMAIN cur : Ahead(cur[j]) # {}}
\* The walk on top goes on at cursor Turn, to scope At.
Turn == Max(Ready(Top.cur))
At == Min(Ahead(Top.cur[Turn]))
Passed == [SubSeq(Top.cur, 1, Turn) EXCEPT ![Turn].last = At]
\* Mutant of Entered: the walk does not go on to the children.
EnteredAlone == Passed
Entered == Append(Passed, [of |-> "children", at |-> At, last |-> 0])

\* The stack after a visit that leaves the cursors `cur` and ran the listeners
\* of a signal of scope At when `signalled`.
Visited(cur, signalled) ==
    Append(Under, [Top EXCEPT !.cur = cur])
        \o (IF signalled THEN <<Frame("listener", At)>> ELSE <<>>)

\* #abortRequested, one scope.
NotifyVisit ==
    /\ On({"notify"}) /\ Ready(Top.cur) # {}
    /\ IF notified[At]
       THEN /\ stack' = Visited(Passed, FALSE)
            /\ UNCHANGED <<notified, aborted>>
       ELSE /\ notified' = [notified EXCEPT ![At] = TRUE]
            /\ aborted' = [aborted EXCEPT ![At] = TRUE]
            /\ stack' = Visited(Entered, ~aborted[At])
    /\ UNCHANGED <<treeVars, requested, flightVars, listVars, entryVars, starts,
                   runVars, call, ledger>>

\* #abortSetups, one scope.
CancelVisit ==
    /\ On({"cancel"}) /\ Ready(Top.cur) # {}
    /\ aborted' = [aborted EXCEPT ![At] = TRUE]
    /\ stack' = IF aborted[At] THEN Visited(Passed, FALSE) ELSE Visited(Entered, TRUE)
    /\ UNCHANGED <<treeVars, requested, notified, flightVars, listVars,
                   entryVars, starts, runVars, call, ledger>>

\* #escalateTree, one scope.
EscalateVisit ==
    /\ On({"escalate"}) /\ Ready(Top.cur) # {}
    /\ LET fires == phase[At] # "none" /\ ~esc[At]
       IN  /\ esc' = [esc EXCEPT ![At] = @ \/ fires]
           /\ stack' = Visited(Entered, fires)
    /\ UNCHANGED <<treeVars, signalVars, phase, listVars, entryVars, starts,
                   runVars, call, ledger>>

\* The walk is over; #finishNotification drains the starts it held back.
WalkDone ==
    /\ On(WalkKinds) /\ Ready(Top.cur) = {}
    /\ stack' = IF Top.k = "escalate" THEN Under ELSE Drained(Under, starts)
    /\ UNCHANGED <<treeVars, signalVars, flightVars, listVars, entryVars, starts,
                   runVars, call, ledger>>

ListenerReturn ==
    /\ On({"listener"})
    /\ stack' = Under
    /\ UNCHANGED <<treeVars, signalVars, flightVars, listVars, entryVars, starts,
                   runVars, call, ledger>>
-----------------------------------------------------------------------------
(* Opening and joining a flight.                                           *)

\* #forget counts only an entry that is still in #live.
Counted(state) == IF state = "live" THEN 1 ELSE 0

\* #detach of n and #forget of its parent, on top of the updates w of `where`,
\* l of `live` and t of `tombstones` made in the same step.
Detach(n, w, l, t) ==
    LET p == home[n]
        gone == [w EXCEPT ![n] = "gone"]
        count == t[p] + Counted(w[n])
        compact == w[n] = "live" /\ count > CompactAt /\ count * 2 > Len(l[p])
    IN  /\ detached' = [detached EXCEPT ![n] = TRUE]
        /\ IF n = Root \/ detached[n]
           THEN where' = w /\ live' = l /\ tombstones' = t
           ELSE
             /\ where' = gone
             /\ tombstones' = [t EXCEPT ![p] = IF compact THEN 0 ELSE count]
             /\ live' = IF compact
                        THEN [l EXCEPT ![p] = Among(@, {i \in Items : gone[i] # "gone"})]
                        ELSE l

\* Mutant of Retried: the retry repeats the order of the first attempts.
RetriedAsFailed(n) == Among(failed[n], {i \in Items : where[i] = "failed"})

\* The entries that a new flight retries, first attempt on top.
Retried(n) == Reverse(Among(failed[n], {i \in Items : where[i] = "failed"}))

\* Mutant of NothingLeft: the test runs before the failed entries are back.
NothingLive(n) == Len(live[n]) = tombstones[n] /\ Setups(n) = {}

NothingLeft(n) ==
    Len(live[n]) + Len(Retried(n)) = tombstones[n] /\ Setups(n) = {}

EscalatedAbove(n) ==
    \E a \in Scopes \ {n} : n \in Subtree(a) /\ phase[a] # "none" /\ esc[a]

\* #open, on top of the update v of `where`: a scope that owes nothing completes
\* at once, else its flight is published before any user callback runs.
Open(n, v) ==
    LET w == [i \in Items |-> IF i \in ToSet(Retried(n)) THEN "live" ELSE v[i]]
        l == [live EXCEPT ![n] = @ \o Retried(n)]
    IN  /\ failed' = [failed EXCEPT ![n] = <<>>]
        /\ IF NothingLeft(n)
           THEN Detach(n, w, l, tombstones) /\ UNCHANGED <<phase, esc>>
           ELSE /\ where' = w /\ live' = l
                /\ phase' = [phase EXCEPT ![n] = "open"]
                /\ esc' = [esc EXCEPT ![n] = EscalatedAbove(n)]
                /\ UNCHANGED <<tombstones, detached>>

\* What close() and #join share: seal the subtree, take or open the flight.
TakeFlight(n, v) ==
    /\ requested' = [m \in Scopes |-> requested[m] \/ m \in Unsealed(n)]
    /\ IF phase[n] = "none" THEN Open(n, v)
       ELSE where' = v /\ UNCHANGED <<live, tombstones, failed, detached, phase, esc>>

HasFlight(n) == phase[n] # "none" \/ ~NothingLeft(n)

\* Mutant of Rest: the flight starts before the escalation is passed on.
RestStartedFirst(n, escalated) ==
    (IF escalated THEN <<WalkFrame("escalate", n)>> ELSE <<>>)
        \o (IF phase[n] = "none" /\ HasFlight(n) THEN <<Frame("start", n)>> ELSE <<>>)
        \o <<WalkFrame("notify", n)>>

\* The rest of close() and #join after TakeFlight, bottom first: escalate,
\* notify the abort listeners, start a flight opened here.
Rest(n, escalated) ==
    (IF phase[n] = "none" /\ HasFlight(n) THEN <<Frame("start", n)>> ELSE <<>>)
        \o <<WalkFrame("notify", n)>>
        \o (IF escalated THEN <<WalkFrame("escalate", n)>> ELSE <<>>)

\* The call k of close() on scope n with an escalate signal e and an abandon
\* signal a: absent, armed (not aborted yet) or fired (aborted already).
Close(k, n, e, a) ==
    /\ UserTurn /\ Created(n)
    /\ call[k].st = "unused" /\ \A j \in Calls : j < k => call[j].st # "unused"
    /\ e = "absent" \/ "escalate" \in Uses
    /\ a = "absent" \/ "abandon" \in Uses
    /\ TakeFlight(n, where)
    /\ LET follows == HasFlight(n) /\ e # "absent" /\ ~esc'[n] IN
        /\ call' = [call EXCEPT ![k] =
               [on |-> n, st |-> "entered",
                done |-> IF HasFlight(n) THEN "pending" ELSE "complete",
                escalate |-> e, abandon |-> a,
                linked |-> follows /\ e = "armed", answer |-> "none"]]
        /\ stack' = stack
               \o <<[k |-> "answer", n |-> n, call |-> k, flight |-> HasFlight(n)]>>
               \o Rest(n, follows /\ e = "fired")
    /\ UNCHANGED <<home, order, notified, aborted, inv, author, starts, runVars, ledger>>

\* #start: queue the flight behind the notifications that are still running.
StartFlight ==
    /\ On({"start"})
    /\ starts' = Append(starts, Top.n)
    /\ phase' = [phase EXCEPT ![Top.n] = "queued"]
    /\ stack' = Drained(Under, starts')
    /\ UNCHANGED <<treeVars, signalVars, esc, listVars, entryVars, runVars, call, ledger>>

Outcome(complete) == IF complete THEN "complete" ELSE "incomplete"
\* What an abandoning caller gets: #report(false).
Snapshot(n) == IF Debts(n) = {} THEN "snapshot-complete" ELSE "snapshot-incomplete"

\* close() returns to its caller.
CloseReturn ==
    /\ On({"answer"})
    /\ LET k == Top.call
           reply == IF ~Top.flight THEN "complete"
                    ELSE IF call[k].abandon = "fired" THEN Snapshot(Top.n)
                    ELSE "none"
       IN  call' = [call EXCEPT ![k].st = IF reply = "none" THEN "awaiting" ELSE "answered",
                                ![k].answer = reply]
    /\ stack' = Under
    /\ UNCHANGED <<treeVars, signalVars, flightVars, listVars, entryVars, starts,
                   runVars, ledger>>

\* flight.done reaches a caller.
AnswerCall(k) ==
    /\ Idle /\ call[k].st = "awaiting" /\ call[k].done # "pending"
    /\ call' = [call EXCEPT ![k].st = "answered", ![k].answer = call[k].done]
    /\ UNCHANGED <<treeVars, signalVars, flightVars, listVars, entryVars,
                   turnVars, runVars, ledger>>

\* User code aborts the escalate signal it passed to call k.
EscalateSignal(k) ==
    /\ UserTurn /\ call[k].escalate = "armed"
    /\ call' = [call EXCEPT ![k].escalate = "fired", ![k].linked = FALSE]
    /\ stack' = IF call[k].linked
                THEN Append(stack, WalkFrame("escalate", call[k].on)) ELSE stack
    /\ UNCHANGED <<treeVars, signalVars, flightVars, listVars, entryVars, starts,
                   runVars, ledger>>

\* User code aborts the abandon signal it passed to call k.
AbandonSignal(k) ==
    /\ UserTurn /\ call[k].abandon = "armed"
    /\ call' = IF call[k].st = "awaiting"
               THEN [call EXCEPT ![k].abandon = "fired", ![k].st = "answered",
                                 ![k].answer = Snapshot(call[k].on)]
               ELSE [call EXCEPT ![k].abandon = "fired"]
    /\ UNCHANGED <<treeVars, signalVars, flightVars, listVars, entryVars,
                   turnVars, runVars, ledger>>
-----------------------------------------------------------------------------
(* Running a flight.                                                       *)

DrainStep ==
    /\ On({"drain"})
    /\ IF starts = <<>>
       THEN stack' = Under /\ UNCHANGED <<starts, phase>>
       ELSE /\ starts' = Tail(starts)
            /\ stack' = Append(stack, Frame("run", Head(starts)))
            /\ phase' = [phase EXCEPT ![Head(starts)] = "running"]
    /\ UNCHANGED <<treeVars, signalVars, esc, listVars, entryVars, runVars, call, ledger>>

\* Mutant of Resume: the end of the last setup wakes nobody.
ResumeBatch(n) ==
    /\ Idle /\ phase[n] = "batch" /\ \A i \in Items : home[i] = n => inv[i] = "none"
    /\ phase' = [phase EXCEPT ![n] = "running"]
    /\ stack' = <<Frame("run", n)>>
    /\ UNCHANGED <<treeVars, signalVars, esc, listVars, entryVars, starts,
                   runVars, call, ledger>>

\* A suspended #run goes on: its setups settled, or its invocations did.
Resume(n) ==
    /\ Idle
    /\ \/ phase[n] = "setups" /\ Setups(n) = {}
       \/ phase[n] = "batch" /\ \A i \in Items : home[i] = n => inv[i] = "none"
    /\ phase' = [phase EXCEPT ![n] = "running"]
    /\ stack' = <<Frame("run", n)>>
    /\ UNCHANGED <<treeVars, signalVars, esc, listVars, entryVars, starts,
                   runVars, call, ledger>>

\* #run awaits the setups that are still pending.
MustWait(n) == Setups(n) # {}

AwaitSetups ==
    /\ On({"run"}) /\ MustWait(Top.n)
    /\ phase' = [phase EXCEPT ![Top.n] = "setups"]
    /\ stack' = Under
    /\ UNCHANGED <<treeVars, signalVars, esc, listVars, entryVars, starts,
                   runVars, call, ledger>>

\* #pop: the slots that stay in #live when #run takes its next batch.
Standing(n) == {j \in DOMAIN live[n] : where[live[n][j]] # "gone"}
Kept(n) == IF order[n] = "concurrent" THEN 0 ELSE Max(Standing(n)) - 1

\* #run takes the newest entry, or every entry when the order is concurrent.
TakeBatch ==
    /\ On({"run"}) /\ ~MustWait(Top.n) /\ Standing(Top.n) # {}
    /\ LET n == Top.n
           popped == SubSeq(live[n], Kept(n) + 1, Len(live[n]))
           batch == Reverse(Among(popped, {i \in Items : where[i] # "gone"}))
       IN  /\ live' = [live EXCEPT ![n] = SubSeq(@, 1, Kept(n))]
           /\ tombstones' = [tombstones EXCEPT ![n] = @ - (Len(popped) - Len(batch))]
           /\ stack' = Append(Under, [k |-> "batch", n |-> n, left |-> batch])
    /\ UNCHANGED <<treeVars, signalVars, flightVars, failed, entryVars, starts,
                   runVars, call, ledger>>

\* #invoke of the next entry of the batch: the synchronous part of a cleanup.
InvokeLeaf ==
    /\ On({"batch"}) /\ Top.left # <<>> /\ Head(Top.left) \in Leaves
    /\ LET i == Head(Top.left) IN
        /\ where' = [where EXCEPT ![i] = "active"]
        /\ inv' = [inv EXCEPT ![i] = "body"]
        /\ stack' = Under \o <<[Top EXCEPT !.left = Tail(@)], Frame("cleanup", i)>>
    /\ UNCHANGED <<treeVars, signalVars, flightVars, listVars, author, starts,
                   runVars, call, ledger>>

\* #invoke of a child: #join with the escalation of this flight.
InvokeChild ==
    /\ On({"batch"}) /\ Top.left # <<>> /\ HasChild(Head(Top.left))
    /\ LET c == Head(Top.left) IN
        /\ TakeFlight(c, [where EXCEPT ![c] = "active"])
        /\ inv' = [inv EXCEPT ![c] = IF HasFlight(c) THEN "join" ELSE "complete"]
        /\ stack' = Under \o <<[Top EXCEPT !.left = Tail(@)]>> \o Rest(c, esc[Top.n])
    /\ UNCHANGED <<home, order, notified, aborted, author, starts, runVars, call, ledger>>

\* #invoke of an entry that its child left since the batch was taken.
InvokeVoid ==
    /\ On({"batch"}) /\ Top.left # <<>>
    /\ Head(Top.left) \in Scopes /\ ~HasChild(Head(Top.left))
    /\ LET c == Head(Top.left) IN
        /\ where' = [where EXCEPT ![c] = "active"]
        /\ inv' = [inv EXCEPT ![c] = "void"]
        /\ stack' = Append(Under, [Top EXCEPT !.left = Tail(@)])
    /\ UNCHANGED <<treeVars, signalVars, flightVars, listVars, author, starts,
                   runVars, call, ledger>>

\* Every entry of the batch is invoked; #run awaits them.
AwaitBatch ==
    /\ On({"batch"}) /\ Top.left = <<>>
    /\ phase' = [phase EXCEPT ![Top.n] = "batch"]
    /\ stack' = Under
    /\ UNCHANGED <<treeVars, signalVars, esc, listVars, entryVars, starts,
                   runVars, call, ledger>>
-----------------------------------------------------------------------------
(* How an invocation ends.                                                 *)

\* #fail of entry i.
Fail(i) ==
    /\ where' = [where EXCEPT ![i] = "failed"]
    /\ failed' = [failed EXCEPT ![home[i]] = Append(@, i)]

\* The cleanup returned a promise (or a value, awaited like one).
CleanupReturn ==
    /\ On({"cleanup"})
    /\ inv' = [inv EXCEPT ![Top.n] = "running"]
    /\ stack' = Under
    /\ UNCHANGED <<treeVars, signalVars, flightVars, listVars, where, author,
                   starts, runVars, call, ledger>>

\* The cleanup threw synchronously.
CleanupThrow ==
    /\ On({"cleanup"}) /\ "fail" \in Uses
    /\ Fail(Top.n)
    /\ inv' = [inv EXCEPT ![Top.n] = "none"]
    /\ stack' = Under
    /\ UNCHANGED <<treeVars, signalVars, flightVars, live, tombstones, author,
                   starts, runVars, call, ledger>>

CleanupFulfil(l) ==
    /\ Idle /\ inv[l] = "running"
    /\ where' = [where EXCEPT ![l] = "gone"]
    /\ inv' = [inv EXCEPT ![l] = "none"]
    /\ UNCHANGED <<treeVars, signalVars, flightVars, listVars, author, turnVars,
                   runVars, call, ledger>>

CleanupReject(l) ==
    /\ Idle /\ inv[l] = "running" /\ "fail" \in Uses
    /\ Fail(l)
    /\ inv' = [inv EXCEPT ![l] = "none"]
    /\ UNCHANGED <<treeVars, signalVars, flightVars, live, tombstones, author,
                   turnVars, runVars, call, ledger>>

\* Mutant of JoinSettled: a report of the child is believed also when the child
\* has left since.
JoinBelieved(c) ==
    /\ Idle /\ inv[c] \in {"complete", "incomplete"}
    /\ IF inv[c] = "incomplete" THEN Fail(c) ELSE UNCHANGED <<where, failed>>
    /\ inv' = [inv EXCEPT ![c] = "none"]
    /\ UNCHANGED <<treeVars, signalVars, flightVars, live, tombstones, author,
                   turnVars, runVars, call, ledger>>

\* The report of a child reaches the flight of its parent.  The child may have
\* left the entry since.
JoinSettled(c) ==
    /\ Idle /\ inv[c] \in {"complete", "incomplete"}
    /\ IF inv[c] = "incomplete" /\ where[c] = "active"
       THEN Fail(c) ELSE UNCHANGED <<where, failed>>
    /\ inv' = [inv EXCEPT ![c] = "none"]
    /\ UNCHANGED <<treeVars, signalVars, flightVars, live, tombstones, author,
                   turnVars, runVars, call, ledger>>

VoidReleased(c) ==
    /\ Idle /\ inv[c] = "void"
    /\ where' = [where EXCEPT ![c] = "gone"]
    /\ inv' = [inv EXCEPT ![c] = "none"]
    /\ UNCHANGED <<treeVars, signalVars, flightVars, listVars, author, turnVars,
                   runVars, call, ledger>>

\* #settle: unlink the callers' signals, report, detach when complete, finish.
Settle ==
    /\ On({"run"}) /\ ~MustWait(Top.n) /\ Standing(Top.n) = {}
    /\ LET n == Top.n
           complete == Debts(n) = {}
           l == [live EXCEPT ![n] = <<>>]
           t == [tombstones EXCEPT ![n] = @ - Len(live[n])]
       IN  /\ phase' = [phase EXCEPT ![n] = "none"]
           /\ esc' = [esc EXCEPT ![n] = FALSE]
           /\ IF complete THEN Detach(n, where, l, t)
              ELSE live' = l /\ tombstones' = t /\ UNCHANGED <<where, detached>>
           /\ inv' = [inv EXCEPT ![n] = IF @ = "join" THEN Outcome(complete) ELSE @]
           /\ call' = [k \in Calls |->
                IF call[k].on = n /\ call[k].done = "pending"
                THEN [call[k] EXCEPT !.done = Outcome(complete), !.linked = FALSE]
                ELSE call[k]]
    /\ stack' = Under
    /\ UNCHANGED <<home, order, signalVars, failed, author, starts, runVars, ledger>>
-----------------------------------------------------------------------------
(* What user code may do, what the machine does.                           *)

Signals == {"absent", "armed", "fired"}

UserStep ==
    \/ \E n \in Scopes : Setup(n) \/ Use(n) \/ OpenModule(n)
    \/ \E n \in Scopes, o \in ChildOrders : Child(n, o)
    \/ CancelRun
    \/ \E k \in Calls, n \in Scopes, e, a \in Signals : Close(k, n, e, a)
    \/ \E k \in Calls : EscalateSignal(k) \/ AbandonSignal(k)
    \/ \E c \in Scopes : Unlink(c)

\* A synchronous user callback returns.
UserReturn == SetupReturn \/ ListenerReturn \/ CleanupReturn \/ CleanupThrow

\* What user code promised for l settles.
UserSettles(l) ==
    SetupFulfil(l) \/ SetupReject(l) \/ CleanupFulfil(l) \/ CleanupReject(l)

\* The synchronous code of the package between two callbacks.
Machine ==
    \/ NotifyVisit \/ CancelVisit \/ EscalateVisit \/ WalkDone
    \/ StartFlight \/ CloseReturn \/ DrainStep
    \/ AwaitSetups \/ TakeBatch \/ Settle
    \/ InvokeLeaf \/ InvokeChild \/ InvokeVoid \/ AwaitBatch

\* Its promise continuations.
Continuation ==
    \/ \E n \in Scopes : Resume(n)
    \/ \E c \in Scopes : JoinSettled(c) \/ VoidReleased(c)
    \/ \E k \in Calls : AnswerCall(k)

Next ==
    \/ UserStep \/ UserReturn \/ Machine \/ Continuation
    \/ \E l \in Leaves : UserSettles(l)

Spec == Init /\ [][Next]_vars

\* The engine runs its code and its microtasks; callbacks return and what they
\* promise settles (a cleanup or setup that never settles holds its close).
Fairness ==
    /\ WF_vars(UserReturn) /\ WF_vars(Machine)
    /\ \A n \in Scopes : WF_vars(Resume(n)) /\ WF_vars(JoinSettled(n)) /\ WF_vars(VoidReleased(n))
    /\ \A k \in Calls : WF_vars(AnswerCall(k))
    /\ \A l \in Leaves : WF_vars(UserSettles(l))

FairSpec == Spec /\ Fairness
=============================================================================
