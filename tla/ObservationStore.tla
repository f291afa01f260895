--------------------------- MODULE ObservationStore ---------------------------
(***************************************************************************)
(* The stores of @get-modular/observation                                  *)
(* (packages/observation/src/features/store and features/delivery): state  *)
(* with one writer, subscriptions that follow it, latest-only loads, and   *)
(* the delivery tasks of the event loop that connect them.                 *)
(*                                                                         *)
(* `stack` is the JavaScript call stack, up to the user callback on top;   *)
(* `tasks` is the queue of features/delivery.  A task runs when the stack  *)
(* is empty and no microtask of the package is ready.  Values are named by *)
(* the revision that wrote them, so a commit always changes its keys.      *)
(***************************************************************************)
EXTENDS Integers, FiniteSets, SequencesExt

CONSTANTS
    Stores,       \* the stores
    StoreOf,      \* the keys, each with its store
    Watches,      \* the subscriptions that watch() may register
    Loads,        \* the subscriptions that load() may register
    Follows,      \* the keys that a subscription follows, all of one store
    Scopes,       \* the scopes of the subscribers
    ScopeOf,      \* the scope that a subscription is registered with
    MaxDepth,     \* MAX_CASCADE_DEPTH
    PerScope,     \* maxSubscriptionsPerScope
    PerStore,     \* maxSubscriptions
    MaxCommits,   \* commits to one store that a behaviour may make
    MaxReports,   \* calls of the error port inside one another, for refused commits
    Uses          \* what user code exercises, a subset of Features

Keys == DOMAIN StoreOf
Subs == Watches \cup Loads
KeysOf(st) == {k \in Keys : StoreOf[k] = st}
Source(s) == StoreOf[CHOOSE k \in Follows[s] : TRUE]
Features == {"throw", "closeScope", "closeStore", "escalate"}

ASSUME StoreAssumption ==
    /\ StoreOf \in [Keys -> Stores]
    /\ Watches \cap Loads = {}
    /\ Follows \in [Subs -> (SUBSET Keys) \ {{}}]
    /\ \A s \in Subs : Follows[s] \subseteq KeysOf(Source(s))
    /\ ScopeOf \in [Subs -> Scopes]
    /\ MaxDepth \in Nat /\ MaxCommits \in Nat /\ MaxReports \in Nat
    /\ PerScope \in Nat \ {0} /\ PerStore \in Nat \ {0}
    /\ Uses \subseteq Features

VARIABLES
    closed,         \* #closed
    revision,       \* counters.commits
    touched,        \* #lastTouched
    slots,          \* #latestRevisionAtDepth
    cause,          \* #lastWriteCause: depth and window of the last commit
    status,         \* of a subscription: "new", "live" (in #registrations), "off"
    order,          \* the subscriptions in the order of their ids
    depth,          \* Registration.depth
    delivered,      \* #delivered
    dirty,          \* #dirty
    offered,        \* #lastOffered of a load
    run,            \* #active of a load, and where its #run stands
    job,            \* the job of that run
    runLive,        \* the window of that run, 0 before its loader is called
    aborted,        \* the signal of that run is aborted
    waiting,        \* #pending of a load
    drain,          \* the cleanup of a load
    open,           \* scopes whose signal is not aborted
    tasks,          \* the queue of delivery tasks
    flushScheduled, \* #flushScheduled
    publications,   \* #queuedPublications
    loads,          \* counters.loadsActive + counters.loadsPending
    windows,        \* the Live objects that are open
    contexts,       \* the contexts that asynchronous user code may be in
    stack,          \* the call stack, top last
    log,            \* history: the keys and the depth of every commit
    shown           \* history: the revision of the last onResult or onError

storeVars == <<closed, revision, touched, slots, cause, log>>
subVars == <<status, order, depth, delivered, dirty>>
runVars == <<offered, run, job, runLive, aborted, waiting, drain, loads, shown>>
taskVars == <<tasks, flushScheduled, publications>>
contextVars == <<windows, contexts>>
vars == <<storeVars, subVars, runVars, taskVars, contextVars, open, stack>>

NoJob == [rev |-> -1, depth |-> 0]
Nobody == "nobody"
\* No delivery context; its commits are at depth 0.
Outside == [depth |-> -1, of |-> Nobody, win |-> 0]
-----------------------------------------------------------------------------
Top == Last(stack)
Under == Front(stack)
Idle == stack = <<>>
On(kind) == ~Idle /\ Top.k = kind

\* The contexts that user code may now act in: its asynchronous parts between
\* callbacks, or the code that runs: a callback, a listener of an aborted signal,
\* a listener of its own on the signal of a closing scope, the error port.
Acting ==
    IF Idle THEN {Outside} \cup contexts
    ELSE IF Top.k \in {"call", "abort", "leaving", "report"} THEN {Top.ctx}
    ELSE {}

Report(c) == [k |-> "report", ctx |-> c]
\* The calls of the error port that have not returned.
Reports == Cardinality({i \in DOMAIN stack : stack[i].k = "report"})
Call(s, c, as) == [k |-> "call", s |-> s, ctx |-> c, as |-> as]

Live(st) == {s \in Subs : status[s] = "live" /\ Source(s) = st}
\* Registrations are taken in the order of their ids.
First(S) == order[Min({i \in DOMAIN order : order[i] \in S})]
MaxOf(S) == IF S = {} THEN 0 ELSE Max(S)
Latest(s) == MaxOf({touched[k] : k \in Follows[s]})
Unused == Min((1 .. Cardinality(windows) + 1) \ windows)

Init ==
    /\ closed = [st \in Stores |-> FALSE]
    /\ revision = [st \in Stores |-> 0]
    /\ touched = [k \in Keys |-> 0]
    /\ slots = [k \in Keys |-> [d \in 0 .. MaxDepth |-> 0]]
    /\ cause = [k \in Keys |-> [depth |-> 0, win |-> 0]]
    /\ log = [st \in Stores |-> <<>>]
    /\ status = [s \in Subs |-> "new"]
    /\ order = <<>>
    /\ depth = [s \in Subs |-> 0]
    /\ delivered = [s \in Subs |-> -1]
    /\ dirty = {}
    /\ offered = [s \in Loads |-> -1]
    /\ run = [s \in Loads |-> "none"]
    /\ job = [s \in Loads |-> NoJob]
    /\ runLive = [s \in Loads |-> 0]
    /\ aborted = [s \in Loads |-> FALSE]
    /\ waiting = [s \in Loads |-> NoJob]
    /\ drain = [s \in Loads |-> "none"]
    /\ loads = [st \in Stores |-> 0]
    /\ shown = [s \in Loads |-> -1]
    /\ tasks = <<>>
    /\ flushScheduled = [st \in Stores |-> FALSE]
    /\ publications = [st \in Stores |-> 0]
    /\ windows = {}
    /\ contexts = {}
    /\ open = Scopes
    /\ stack = <<>>
-----------------------------------------------------------------------------
(* Delivery tasks.                                                         *)

\* deliveryTask(): the task, and behind it the end of its window.
Delivery(task, st) ==
    <<[task EXCEPT !.win = Unused], [k |-> "end", of |-> task.k, st |-> st, win |-> Unused]>>

Schedule(st) ==
    IF flushScheduled[st]
    THEN UNCHANGED <<flushScheduled, tasks, windows>>
    ELSE /\ flushScheduled' = [flushScheduled EXCEPT ![st] = TRUE]
         /\ tasks' = tasks \o Delivery([k |-> "flush", st |-> st, win |-> 0], st)
         /\ windows' = windows \cup {Unused}

\* No microtask of the package is ready.
Settled == \A s \in Loads : run[s] \in {"none", "loading"}
Runs(kind) == Idle /\ Settled /\ tasks # <<>> /\ Head(tasks).k = kind

\* The end of a window: its contexts are nobody's any more.
EndTask ==
    /\ Runs("end")
    /\ LET t == Head(tasks) IN
        /\ windows' = windows \ {t.win}
        /\ contexts' = {c \in contexts : c.win # t.win}
        /\ cause' = [k \in Keys |-> IF cause[k].win = t.win THEN [cause[k] EXCEPT !.win = 0]
                                    ELSE cause[k]]
        /\ publications' = IF t.of = "publish" THEN [publications EXCEPT ![t.st] = @ - 1]
                           ELSE publications
    /\ tasks' = Tail(tasks)
    /\ UNCHANGED <<closed, revision, touched, slots, log, subVars, runVars,
                   flushScheduled, open, stack>>
-----------------------------------------------------------------------------
(* Commits.                                                                *)

\* #guard: an echo, or a cascade that is too deep.
Refused(c, ks) ==
    /\ c # Outside
    /\ \/ ks \cap Follows[c.of] # {}
       \/ c.depth + 1 > MaxDepth

Patch(st, ks, c) ==
    /\ c \in Acting
    /\ ~closed[st] /\ ks # {}

Set(st, ks, c) ==
    /\ Patch(st, ks, c) /\ ~Refused(c, ks) /\ revision[st] < MaxCommits
    /\ LET r == revision[st] + 1
           d == c.depth + 1
           hit == {s \in Live(st) : Follows[s] \cap ks # {}}
       IN  /\ revision' = [revision EXCEPT ![st] = r]
           /\ touched' = [k \in Keys |-> IF k \in ks THEN r ELSE touched[k]]
           /\ slots' = [k \in Keys |-> IF k \in ks THEN [slots[k] EXCEPT ![d] = r] ELSE slots[k]]
           /\ cause' = [k \in Keys |-> IF k \in ks THEN [depth |-> d, win |-> c.win] ELSE cause[k]]
           /\ log' = [log EXCEPT ![st] = Append(@, [keys |-> ks, depth |-> d])]
           /\ depth' = [s \in Subs |-> IF s \in hit THEN Max({depth[s], d}) ELSE depth[s]]
           /\ dirty' = dirty \cup hit
    /\ Schedule(st)
    /\ UNCHANGED <<closed, status, order, delivered, runVars, publications,
                   contexts, open, stack>>

\* A refused commit is reported and then thrown; it changes nothing.  Where no more
\* commits are made, only those that are too deep are still tried.
Refuse(st, ks, c) ==
    /\ Patch(st, ks, c) /\ Refused(c, ks)
    /\ revision[st] < MaxCommits \/ c.depth = MaxDepth
    /\ Reports < MaxReports
    /\ stack' = Append(stack, Report(c))
    /\ UNCHANGED <<storeVars, subVars, runVars, taskVars, contextVars, open>>
-----------------------------------------------------------------------------
(* Subscriptions.                                                          *)

\* admit().
Admits(s) ==
    /\ status[s] = "new"
    /\ ~closed[Source(s)] /\ ScopeOf[s] \in open
    /\ Cardinality({t \in Live(Source(s)) : ScopeOf[t] = ScopeOf[s]}) < PerScope
    /\ Cardinality(Live(Source(s))) < PerStore

\* The revisions of the snapshots that a subscriber may have read.
Readable(s) ==
    {0} \cup {r \in 1 .. revision[Source(s)] : log[Source(s)][r].keys \cap Follows[s] # {}}

\* Mutant: the commit of the snapshot itself counts as missed.
MissedFrom(s, r) ==
    MaxOf({d \in 0 .. MaxDepth : \E k \in Follows[s] : slots[k][d] >= r})

\* The deepest commit since revision r.
MissedDepth(s, r) ==
    MaxOf({d \in 0 .. MaxDepth : \E k \in Follows[s] : slots[k][d] > r})

InitialLoadDepth(s, c) ==
    IF c = Outside THEN 0
    ELSE Max({c.depth} \cup {cause[k].depth : k \in {k \in Follows[s] : cause[k].win = c.win}})

Attach(s) ==
    /\ status' = [status EXCEPT ![s] = "live"]
    /\ order' = Append(order, s)

\* Mutant: a subscription waits for the next commit.
NeverBehind(s, r) == FALSE

\* The snapshot is not the newest one.
Behind(s, r) == Latest(s) > r

\* watch(), from a snapshot of revision r.
Watch(s, r, c) ==
    /\ c \in Acting /\ s \in Watches /\ Admits(s) /\ r \in Readable(s)
    /\ Attach(s)
    /\ depth' = [depth EXCEPT ![s] = MissedDepth(s, r)]
    /\ delivered' = [delivered EXCEPT ![s] = r]
    /\ IF Behind(s, r)
       THEN dirty' = dirty \cup {s} /\ Schedule(Source(s))
       ELSE UNCHANGED <<dirty, flushScheduled, tasks, windows>>
    /\ UNCHANGED <<storeVars, runVars, publications, contexts, open, stack>>

\* load(): the first run is offered by the next flush.
Load(s, c) ==
    /\ c \in Acting /\ s \in Loads /\ Admits(s)
    /\ Attach(s)
    /\ depth' = [depth EXCEPT ![s] = InitialLoadDepth(s, c)]
    /\ dirty' = dirty \cup {s}
    /\ Schedule(Source(s))
    /\ UNCHANGED <<storeVars, delivered, runVars, publications, contexts, open, stack>>

\* How many of these loads have a job that waits, by store.
Cleared(S) == [st \in Stores |->
    Cardinality({s \in S \cap Loads : Source(s) = st /\ waiting[s] # NoJob})]

\* detach() of the live subscriptions among S, in an actor's context c; the
\* signals of running loaders tell their listeners, on top of the stack `under`.
Detach(S, c, under) ==
    LET gone == {s \in S : status[s] = "live"}
        stopped == {s \in gone \cap Loads : run[s] # "none" /\ ~aborted[s]}
        told == {s \in stopped : run[s] = "loading"}
    IN  /\ status' = [s \in Subs |-> IF s \in gone THEN "off" ELSE status[s]]
        /\ dirty' = dirty \ gone
        /\ loads' = [st \in Stores |-> loads[st] - Cleared(gone)[st]]
        /\ waiting' = [s \in Loads |-> IF s \in gone THEN NoJob ELSE waiting[s]]
        /\ aborted' = [s \in Loads |-> aborted[s] \/ s \in stopped]
        /\ stack' = under \o [i \in 1 .. Cardinality(told) |-> [k |-> "abort", ctx |-> c]]

\* Mutant: the scope of a load is left to its subscriber.
ReleaseNone(S) == UNCHANGED drain

Release(S) ==
    drain' = [s \in Loads |-> IF s \in S /\ drain[s] = "none" /\ status[s] # "new"
                              THEN "waiting" ELSE drain[s]]

\* A subscriber scope starts closing: its signal tells the subscriptions in it.
CloseScope(x, c) ==
    /\ c \in Acting /\ "closeScope" \in Uses /\ x \in open
    /\ open' = open \ {x}
    /\ stack' = Append(stack,
           [k |-> "leaving", ctx |-> c,
            left |-> {s \in Subs : status[s] = "live" /\ ScopeOf[s] = x}])
    /\ UNCHANGED <<storeVars, subVars, runVars, taskVars, contextVars>>

\* The listener of the next subscription detaches it; its scope closes as a child.
Leave ==
    /\ On("leaving") /\ Top.left # {}
    /\ LET s == First(Top.left)
       IN  /\ Detach({s}, Top.ctx, Append(Under, [Top EXCEPT !.left = @ \ {s}]))
           /\ Release({s})
    /\ UNCHANGED <<storeVars, order, depth, delivered, offered, run, job, runLive, shown,
                   taskVars, contextVars, open>>

\* close() of a store, by its owner or by the scope of its owner.
CloseStore(st, c) ==
    /\ c \in Acting /\ "closeStore" \in Uses /\ ~closed[st]
    /\ closed' = [closed EXCEPT ![st] = TRUE]
    /\ dirty' = dirty \ Live(st)
    /\ slots' = [k \in Keys |-> IF StoreOf[k] = st THEN [d \in 0 .. MaxDepth |-> 0] ELSE slots[k]]
    /\ cause' = [k \in Keys |-> IF StoreOf[k] = st THEN [depth |-> 0, win |-> 0] ELSE cause[k]]
    /\ stack' = Append(stack,
           [k |-> "closing", st |-> st, ctx |-> c, told |-> FALSE,
            left |-> Live(st)])
    /\ UNCHANGED <<revision, touched, log, status, order, depth, delivered, runVars,
                   taskVars, contextVars, open>>

\* Every subscription is reported, then detached and released.
ReportClosed ==
    /\ On("closing") /\ Top.left # {} /\ ~Top.told
    /\ stack' = Under \o <<[Top EXCEPT !.told = TRUE], Report(Top.ctx)>>
    /\ UNCHANGED <<storeVars, subVars, runVars, taskVars, contextVars, open>>

DetachClosed ==
    /\ On("closing") /\ Top.told
    /\ LET s == First(Top.left)
       IN  /\ Detach({s}, Top.ctx, Append(Under, [Top EXCEPT !.told = FALSE, !.left = @ \ {s}]))
           /\ Release({s})
    /\ UNCHANGED <<storeVars, order, depth, delivered, offered, run, job, runLive, shown,
                   taskVars, contextVars, open>>
-----------------------------------------------------------------------------
(* Flushing.                                                               *)

\* The flag of a store is down before its batch runs, so a commit in it is queued.
Taken(st) == [flushScheduled EXCEPT ![st] = FALSE]

FlushTask ==
    /\ Runs("flush")
    /\ LET t == Head(tasks) IN
        /\ flushScheduled' = Taken(t.st)
        /\ dirty' = {s \in dirty : Source(s) # t.st}
        /\ stack' = <<[k |-> "flush", st |-> t.st, win |-> t.win,
                       left |-> {s \in dirty : Source(s) = t.st}]>>
    /\ tasks' = Tail(tasks)
    /\ UNCHANGED <<storeVars, status, order, depth, delivered, runVars,
                   publications, contextVars, open>>

\* A frame whose work is over; the rest of a flush of a closed store.
FrameDone ==
    /\ ~Idle
    /\ \/ Top.k \in {"flush", "closing", "leaving"} /\ Top.left = {}
       \/ Top.k = "flush" /\ closed[Top.st]
    /\ stack' = Under
    /\ UNCHANGED <<storeVars, subVars, runVars, taskVars, contextVars, open>>

Flushing == On("flush") /\ Top.left # {} /\ ~closed[Top.st]
Flushed == Append(Under, [Top EXCEPT !.left = @ \ {First(@)}])
\* Mutant: a batch delivers to whoever was dirty.
DueAnyway(s) == Latest(s) > delivered[s]

\* Registration.flush() has something to deliver.
Due(s) == status[s] = "live" /\ Latest(s) > delivered[s]

FlushNothing ==
    /\ Flushing /\ ~Due(First(Top.left))
    /\ depth' = IF status[First(Top.left)] = "live"
                THEN [depth EXCEPT ![First(Top.left)] = 0] ELSE depth
    /\ stack' = Flushed
    /\ UNCHANGED <<storeVars, status, order, delivered, dirty, runVars, taskVars,
                   contextVars, open>>

\* The callback runs in a context of its own: onChange, or the onLoading of the
\* offer below it.
FlushDue ==
    /\ Flushing /\ Due(First(Top.left))
    /\ LET s == First(Top.left)
           c == [depth |-> depth[s], of |-> s, win |-> Top.win]
           j == [rev |-> Latest(s), depth |-> depth[s]]
       IN  /\ depth' = [depth EXCEPT ![s] = 0]
           /\ delivered' = [delivered EXCEPT ![s] = Latest(s)]
           /\ contexts' = contexts \cup {c}
           /\ IF s \in Watches
              THEN /\ stack' = Append(Flushed, Call(s, c, "onChange"))
                   /\ UNCHANGED offered
              ELSE /\ offered' = [offered EXCEPT ![s] = Latest(s)]
                   /\ stack' = Flushed \o <<[k |-> "offer", s |-> s, job |-> j],
                                            Call(s, c, "onLoading")>>
    /\ UNCHANGED <<storeVars, status, order, dirty, run, job, runLive, aborted, waiting,
                   drain, loads, shown, taskVars, windows, open>>

Return ==
    /\ ~Idle /\ Top.k \in {"call", "abort", "report"}
    /\ stack' = Under
    /\ UNCHANGED <<storeVars, subVars, runVars, taskVars, contextVars, open>>

\* A callback threw, or returned a value: it is reported.
Throw ==
    /\ "throw" \in Uses /\ On("call") /\ Top.as # "loader"
    /\ stack' = Append(Under, Report(Outside))
    /\ UNCHANGED <<storeVars, subVars, runVars, taskVars, contextVars, open>>
-----------------------------------------------------------------------------
(* Loads.                                                                  *)

\* #start.
Start(s, j, l) ==
    /\ run' = [run EXCEPT ![s] = "starting"]
    /\ job' = [job EXCEPT ![s] = j]
    /\ aborted' = [aborted EXCEPT ![s] = FALSE]
    /\ loads' = [loads EXCEPT ![Source(s)] = l + 1]

\* The rest of #offer after onLoading, which may have closed the subscriber: the
\* job starts, or it waits and the run in its way is aborted.
OfferClosed ==
    /\ On("offer") /\ status[Top.s] # "live"
    /\ stack' = Under
    /\ UNCHANGED <<storeVars, subVars, runVars, taskVars, contextVars, open>>

OfferStart ==
    /\ On("offer") /\ status[Top.s] = "live" /\ run[Top.s] = "none"
    /\ Start(Top.s, Top.job, loads[Source(Top.s)])
    /\ stack' = Under
    /\ UNCHANGED <<storeVars, subVars, offered, runLive, waiting, drain, shown, taskVars,
                   contextVars, open>>

OfferWait ==
    /\ On("offer") /\ status[Top.s] = "live" /\ run[Top.s] # "none"
    /\ LET s == Top.s IN
        /\ loads' = [loads EXCEPT ![Source(s)] = IF waiting[s] = NoJob THEN @ + 1 ELSE @]
        /\ waiting' = [waiting EXCEPT ![s] = Top.job]
        /\ aborted' = [aborted EXCEPT ![s] = TRUE]
        /\ stack' = IF run[s] = "loading" /\ ~aborted[s]
                    THEN Append(Under, [k |-> "abort", ctx |-> Outside]) ELSE Under
    /\ UNCHANGED <<storeVars, subVars, offered, run, job, runLive, drain, shown, taskVars,
                   contextVars, open>>

\* Mutant: only the last onLoading counts.
IsOffered(s, j) == status[s] = "live" /\ ~aborted[s] /\ j.rev = offered[s]

\* #isCurrent, also against commits that have not been flushed yet.
IsCurrent(s, j) ==
    status[s] = "live" /\ ~aborted[s] /\ j.rev = offered[s] /\ j.rev = Latest(s)

\* The loader runs in a context whose window ends when its promise settles.
StartLoader(s) ==
    /\ Idle /\ run[s] = "starting"
    /\ IF IsCurrent(s, job[s])
       THEN LET c == [depth |-> job[s].depth, of |-> s, win |-> Unused]
            IN  /\ run' = [run EXCEPT ![s] = "loading"]
                /\ runLive' = [runLive EXCEPT ![s] = Unused]
                /\ windows' = windows \cup {Unused}
                /\ contexts' = contexts \cup {c}
                /\ stack' = <<Call(s, c, "loader")>>
       ELSE /\ run' = [run EXCEPT ![s] = "settled"]
            /\ UNCHANGED <<runLive, windows, contexts, stack>>
    /\ UNCHANGED <<storeVars, subVars, offered, job, aborted, waiting, drain,
                   loads, shown, taskVars, open>>

\* The promise of the loader settles: publish its outcome in a later task.
LoaderSettles(s) ==
    /\ Idle /\ run[s] = "loading"
    /\ run' = [run EXCEPT ![s] = "settled"]
    /\ runLive' = [runLive EXCEPT ![s] = 0]
    /\ LET w == runLive[s] IN
        /\ contexts' = {c \in contexts : c.win # w}
        /\ cause' = [k \in Keys |-> IF cause[k].win = w THEN [cause[k] EXCEPT !.win = 0]
                                    ELSE cause[k]]
        /\ IF IsCurrent(s, job[s])
           THEN /\ tasks' = tasks \o Delivery([k |-> "publish", s |-> s, job |-> job[s], win |-> 0], Source(s))
                /\ publications' = [publications EXCEPT ![Source(s)] = @ + 1]
                /\ windows' = (windows \cup {Unused}) \ {w}
           ELSE windows' = windows \ {w} /\ UNCHANGED <<tasks, publications>>
    /\ UNCHANGED <<closed, revision, touched, slots, log, subVars, offered, job,
                   aborted, waiting, drain, loads, shown, flushScheduled, open, stack>>

\* Mutant: a run that ends forgets the job behind it.
ContinuesNever(s) == FALSE

\* A job waits behind the run that ends.
Continues(s) == waiting[s] # NoJob /\ status[s] = "live"

\* #active is cleared; the job that waited starts.
RunEnds(s) ==
    /\ Idle /\ run[s] = "settled"
    /\ LET busy == loads[Source(s)] - 1 - (IF waiting[s] = NoJob THEN 0 ELSE 1)
       IN  IF Continues(s)
           THEN Start(s, waiting[s], busy)
           ELSE /\ run' = [run EXCEPT ![s] = "none"]
                /\ loads' = [loads EXCEPT ![Source(s)] = busy]
                /\ UNCHANGED <<job, aborted>>
    /\ waiting' = [waiting EXCEPT ![s] = NoJob]
    /\ UNCHANGED <<storeVars, subVars, offered, runLive, drain, shown, taskVars,
                   contextVars, open, stack>>

\* onResult or onError, when the job is still current.
PublishTask ==
    /\ Runs("publish")
    /\ LET t == Head(tasks)
           s == t.s
           c == [depth |-> t.job.depth, of |-> s, win |-> t.win]
       IN  IF IsCurrent(s, t.job)
           THEN /\ contexts' = contexts \cup {c}
                /\ stack' = <<Call(s, c, "outcome")>>
                /\ shown' = [shown EXCEPT ![s] = t.job.rev]
           ELSE UNCHANGED <<contexts, stack, shown>>
    /\ tasks' = Tail(tasks)
    /\ UNCHANGED <<storeVars, subVars, offered, run, job, runLive, aborted, waiting, drain,
                   loads, flushScheduled, publications, windows, open>>

\* Mutant: a reported wait never ends.
RunOverUnreported(s) == drain[s] = "waiting" /\ run[s] = "none"

\* The run that a drain waits for is over.
RunOver(s) == drain[s] \in {"waiting", "escalated"} /\ run[s] = "none"

\* #closeAndDrain: the cleanup of a load waits for its run.
Drain(s) ==
    /\ Idle /\ RunOver(s)
    /\ drain' = [drain EXCEPT ![s] = "done"]
    /\ UNCHANGED <<storeVars, subVars, offered, run, job, runLive, aborted, waiting, loads,
                   shown, taskVars, contextVars, open, stack>>

\* The close that drains a load is escalated: a run that goes on is reported by a
\* later task, and drained all the same.
EscalateDrain(s) ==
    /\ Acting # {} /\ "escalate" \in Uses /\ drain[s] = "waiting" /\ run[s] # "none"
    /\ drain' = [drain EXCEPT ![s] = "escalated"]
    /\ tasks' = Append(tasks, [k |-> "overdue", s |-> s, win |-> 0])
    /\ UNCHANGED <<storeVars, subVars, offered, run, job, runLive, aborted, waiting, loads,
                   shown, flushScheduled, publications, contextVars, open, stack>>

OverdueTask ==
    /\ Runs("overdue")
    /\ stack' = IF run[Head(tasks).s] # "none" THEN <<Report(Outside)>> ELSE stack
    /\ tasks' = Tail(tasks)
    /\ UNCHANGED <<storeVars, subVars, runVars, flushScheduled, publications,
                   contextVars, open>>
-----------------------------------------------------------------------------
UserStep ==
    \/ \E st \in Stores : \E ks \in SUBSET KeysOf(st), c \in Acting :
          Set(st, ks, c) \/ Refuse(st, ks, c)
    \/ \E s \in Watches, c \in Acting : \E r \in Readable(s) : Watch(s, r, c)
    \/ \E s \in Loads, c \in Acting : Load(s, c)
    \/ \E x \in Scopes, c \in Acting : CloseScope(x, c)
    \/ \E st \in Stores, c \in Acting : CloseStore(st, c)
    \/ \E s \in Loads : EscalateDrain(s)

Machine ==
    \/ EndTask \/ FlushTask \/ PublishTask \/ OverdueTask
    \/ FrameDone \/ FlushNothing \/ FlushDue
    \/ OfferClosed \/ OfferStart \/ OfferWait
    \/ ReportClosed \/ DetachClosed \/ Leave

Continuation(s) == StartLoader(s) \/ RunEnds(s) \/ Drain(s)

Next ==
    \/ UserStep \/ Machine \/ Return \/ Throw
    \/ \E s \in Loads : Continuation(s) \/ LoaderSettles(s)

Spec == Init /\ [][Next]_vars

\* The event loop runs its tasks and microtasks, callbacks return, and the promise
\* of a loader settles (one that never does holds its drain).  Strong, because user
\* code may be refused again and again before it returns.
Fairness ==
    /\ SF_vars(Machine)
    /\ \A n \in 0 .. Max({1, MaxReports}) + Cardinality(Stores) : SF_vars(Reports = n /\ Return)
    /\ \A s \in Loads : SF_vars(Continuation(s)) /\ SF_vars(LoaderSettles(s))

FairSpec == Spec /\ Fairness
=============================================================================
