--------------------------- MODULE ObservationProofs ---------------------------
(***************************************************************************)
(* What holds of the stores, the subscriptions and the loads of            *)
(* ObservationStore for every number of them, and for every bound: the     *)
(* inductive invariant IInv and the properties of ObservationProperties    *)
(* that follow from it.                                                    *)
(***************************************************************************)
EXTENDS ObservationProperties, FiniteSetTheorems, SequenceTheorems, TLAPS

-----------------------------------------------------------------------------
(* The invariant: types.                                                   *)

Depths == 0 .. MaxDepth
Jobs == [rev : Nat, depth : Depths]
Contexts == {Outside} \cup [depth : Depths, of : Subs, win : Nat]

CallFrame == [k : {"call"}, s : Subs, ctx : Contexts,
              as : {"onChange", "onLoading", "loader", "outcome"}]
ReportFrame == [k : {"report"}, ctx : Contexts]
AbortFrame == [k : {"abort"}, ctx : Contexts]
ClosingFrame == [k : {"closing"}, st : Stores, ctx : Contexts, told : BOOLEAN, left : SUBSET Subs]
LeavingFrame == [k : {"leaving"}, ctx : Contexts, left : SUBSET Subs]
FlushFrame == [k : {"flush"}, st : Stores, win : Nat, left : SUBSET Subs]
OfferFrame == [k : {"offer"}, s : Loads, job : Jobs]
Frames == CallFrame \cup ReportFrame \cup AbortFrame \cup ClosingFrame \cup LeavingFrame \cup
          FlushFrame \cup OfferFrame

Tasks ==
    [k : {"flush"}, st : Stores, win : Nat] \cup
    [k : {"publish"}, s : Loads, job : Jobs, win : Nat] \cup
    [k : {"overdue"}, s : Loads, win : Nat] \cup
    [k : {"end"}, of : {"flush", "publish"}, st : Stores, win : Nat]

Commits == [keys : SUBSET Keys, depth : Depths]
Causes == [depth : Depths, win : Nat]
StoreTypes ==
    /\ closed \in [Stores -> BOOLEAN]
    /\ revision \in [Stores -> Nat]
    /\ touched \in [Keys -> Nat]
    /\ slots \in [Keys -> [Depths -> Nat]]
    /\ cause \in [Keys -> Causes]
    /\ log \in [Stores -> Seq(Commits)]
SubTypes ==
    /\ status \in [Subs -> {"new", "live", "off"}]
    /\ order \in Seq(Subs)
    /\ depth \in [Subs -> Depths]
    /\ delivered \in [Subs -> Nat \cup {-1}]
    /\ dirty \in SUBSET Subs
Working == {s \in Loads : run[s] # "none"}
Waiters == {s \in Loads : waiting[s] # NoJob}
RunTypes ==
    /\ offered \in [Loads -> Nat \cup {-1}]
    /\ run \in [Loads -> {"none", "starting", "loading", "settled"}]
    /\ job \in [Loads -> Jobs \cup {NoJob}]
    /\ runLive \in [Loads -> Nat]
    /\ aborted \in [Loads -> BOOLEAN]
    /\ waiting \in [Loads -> Jobs \cup {NoJob}]
    /\ drain \in [Loads -> {"none", "waiting", "escalated", "done"}]
    /\ loads \in [Stores -> Int]
    /\ shown \in [Loads -> Nat \cup {-1}]
    /\ IsFiniteSet(Working) /\ IsFiniteSet(Waiters)
LoopTypes ==
    /\ tasks \in Seq(Tasks)
    /\ flushScheduled \in [Stores -> BOOLEAN]
    /\ publications \in [Stores -> Int]
    /\ windows \in SUBSET Nat /\ IsFiniteSet(windows)
    /\ contexts \in SUBSET Contexts
    /\ open \in SUBSET Scopes
    /\ stack \in Seq(Frames)
TypeOK == StoreTypes /\ SubTypes /\ RunTypes /\ LoopTypes
-----------------------------------------------------------------------------
(* The invariant: how the parts of the state belong together.              *)

\* Commit r to the store of a key.
Wrote(k, r) == log[StoreOf[k]][r]

\* touched holds the last commit that wrote a key.
Logged ==
    /\ \A st \in Stores : Len(log[st]) = revision[st]
    /\ \A k \in Keys :
        /\ touched[k] <= revision[StoreOf[k]]
        /\ \A r \in 1 .. revision[StoreOf[k]] : k \in Wrote(k, r).keys => r <= touched[k]

\* In an open store a slot holds the last commit of its depth that wrote its key.
Slotted ==
    \A k \in Keys : ~closed[StoreOf[k]] => \A d \in Depths :
        /\ slots[k][d] # 0 =>
              /\ slots[k][d] <= revision[StoreOf[k]]
              /\ k \in Wrote(k, slots[k][d]).keys
              /\ Wrote(k, slots[k][d]).depth = d
        /\ \A r \in 1 .. revision[StoreOf[k]] :
              k \in Wrote(k, r).keys /\ Wrote(k, r).depth = d => r <= slots[k][d]

\* Nobody is ahead of what was written, offered or shown.
Numbers ==
    /\ \A s \in Subs : delivered[s] <= Latest(s) /\ (status[s] = "new" => delivered[s] = -1)
    /\ \A s \in Loads : offered[s] = delivered[s] /\ shown[s] <= offered[s]

InBatch(s) == \E i \in DOMAIN stack :
    stack[i].k = "flush" /\ stack[i].st = Source(s) /\ s \in stack[i].left
InClosing(s) == \E i \in DOMAIN stack :
    stack[i].k = "closing" /\ stack[i].st = Source(s) /\ s \in stack[i].left
InLeaving(s) == \E i \in DOMAIN stack : stack[i].k = "leaving" /\ s \in stack[i].left
InOrder(s) == \E i \in DOMAIN order : order[i] = s

\* Only registered subscriptions are dirty, in a batch or being detached.
Registered ==
    /\ \A s \in Subs : status[s] # "new" => InOrder(s)
    /\ \A s \in dirty : status[s] = "live"
    /\ \A i \in DOMAIN stack : stack[i].k \in {"flush", "closing"} =>
          \A s \in stack[i].left : status[s] # "new" /\ Source(s) = stack[i].st
    /\ \A i \in DOMAIN stack : stack[i].k = "leaving" => \A s \in stack[i].left : status[s] # "new"
    /\ \A i \in DOMAIN stack : stack[i].k = "closing" /\ stack[i].told => stack[i].left # {}

Scheduled == \A s \in dirty : flushScheduled[Source(s)]

\* A live subscription is up to date, or something on its way will reach it.
Reached == \A s \in Subs : status[s] = "live" =>
    IF closed[Source(s)] THEN InClosing(s)
    ELSE delivered[s] = Latest(s) \/ s \in dirty \/ InBatch(s)

\* A live subscription is in an open scope, or about to be told that it closes.
Leaving == \A s \in Subs : status[s] = "live" /\ ScopeOf[s] \notin open => InLeaving(s)

Drains == \A s \in Loads : status[s] = "off" => drain[s] # "none"

\* One batch at a time, at the bottom; an offer is made right above it.
Nested == \A i \in DOMAIN stack :
    /\ stack[i].k = "flush" => i = 1
    /\ stack[i].k = "offer" => i = 2 /\ stack[1].k = "flush" /\ stack[i].job.rev = offered[stack[i].s]

\* The counters that delivered() and settled() read are exact.
Running(st) == {s \in Loads : Source(s) = st /\ run[s] # "none"}
Held(st) == {s \in Loads : Source(s) = st /\ waiting[s] # NoJob}
EndsOf(q, st) == {i \in DOMAIN q : q[i].k = "end" /\ q[i].of = "publish" /\ q[i].st = st}
Counted == \A st \in Stores :
    /\ loads[st] = Cardinality(Running(st)) + Cardinality(Held(st))
    /\ publications[st] = Cardinality(EndsOf(tasks, st))

\* A publication is followed by the end of its window.
Paired == \A i \in DOMAIN tasks : tasks[i].k = "publish" =>
    /\ i + 1 \in DOMAIN tasks /\ tasks[i + 1].k = "end" /\ tasks[i + 1].of = "publish"
    /\ tasks[i + 1].st = Source(tasks[i].s)

Offering(s) == \E i \in DOMAIN stack : stack[i].k = "offer" /\ stack[i].s = s
Publishing(s) == \E i \in DOMAIN tasks :
    tasks[i].k = "publish" /\ tasks[i].s = s /\ tasks[i].job.rev = offered[s]

\* A live load that was offered the newest revision and has not shown it is about
\* to take up the offer, or has it waiting, running or queued for publication.
Shows == \A s \in Loads : status[s] = "live" /\ offered[s] = Latest(s) /\ shown[s] # offered[s] =>
    \/ Offering(s)
    \/ waiting[s].rev = offered[s]
    \/ run[s] \in {"starting", "loading"} /\ ~aborted[s] /\ job[s].rev = offered[s]
    \/ Publishing(s) /\ ~aborted[s]

IInv ==
    /\ TypeOK /\ Logged /\ Slotted /\ Numbers /\ Registered /\ Scheduled /\ Reached
    /\ Leaving /\ Drains /\ Nested /\ Counted /\ Paired /\ Shows /\ DepthIsExact
-----------------------------------------------------------------------------
(* Operators and constants.                                                *)


\* The operators of the model: Min and Max of sets of numbers.
LEMMA MinIsLeast ==
    ASSUME NEW S \in SUBSET Nat, S # {}
    PROVE  Min(S) \in S /\ \A x \in S : Min(S) <= x
<1> DEFINE R == StrictSubsetOrdering(Nat)
           T == {0 .. x : x \in S}
<1>1. T \subseteq FiniteSubsetsOf(Nat)
  <2> SUFFICES ASSUME NEW x \in S PROVE 0 .. x \in FiniteSubsetsOf(Nat)
      BY ZenonT(60)
  <2>1. IsFiniteSet(0 .. x) /\ 0 .. x \in SUBSET Nat
      BY FS_Interval
  <2> QED BY <2>1 DEF FiniteSubsetsOf
<1>5. T # {}
    BY ZenonT(60)
<1>2. \E t \in T : \A u \in T : <<u, t>> \notin R
    BY <1>1, <1>5, FS_StrictSubsetOrderingWellFounded, WFMin, ZenonT(60)
<1>3. PICK x \in S : \A y \in S : <<0 .. y, 0 .. x>> \notin R
    BY <1>2, ZenonT(60)
<1>4. \A y \in S : x <= y
  <2> SUFFICES ASSUME NEW y \in S, y < x PROVE FALSE
      OBVIOUS
  <2>1. 0 .. y \subseteq 0 .. x /\ x \in 0 .. x /\ x \notin 0 .. y
      OBVIOUS
  <2>2. <<0 .. y, 0 .. x>> \in (SUBSET Nat) \X (SUBSET Nat)
      OBVIOUS
  <2> QED BY <1>3, <2>1, <2>2 DEF StrictSubsetOrdering
<1> QED BY <1>4 DEF Min

LEMMA MaxIsGreatest ==
    ASSUME NEW S \in SUBSET Nat, S # {}, NEW n \in Nat, \A x \in S : x <= n
    PROVE  Max(S) \in S /\ \A x \in S : x <= Max(S)
<1> DEFINE T == {n - x : x \in S}
<1>1. T \in SUBSET Nat /\ T # {}
  <2>1. \A x \in S : n - x \in Nat
      OBVIOUS
  <2> QED BY <2>1, ZenonT(60)
<1>2. Min(T) \in T /\ \A y \in T : Min(T) <= y
    BY <1>1, MinIsLeast
<1> HIDE DEF T
<1>3. PICK m \in S : \A y \in T : n - m <= y
    BY <1>2 DEF T
<1>5. \A x \in S : x <= m
  <2>1. \A x \in S : n - m <= n - x
      BY <1>3, ZenonT(60) DEF T
  <2> QED BY <2>1
<1>4. \E x \in S : \A y \in S : x >= y
    BY <1>5
<1> QED BY <1>4 DEF Max

\* MaxOf is the greatest of a bounded set, and 0 of an empty one.
LEMMA MaxOfIsGreatest ==
    ASSUME NEW S \in SUBSET Nat, NEW n \in Nat, \A x \in S : x <= n
    PROVE  /\ MaxOf(S) \in 0 .. n
           /\ \A x \in S : x <= MaxOf(S)
           /\ S # {} => MaxOf(S) \in S
           /\ S = {} => MaxOf(S) = 0
<1>1. CASE S = {}
    BY <1>1 DEF MaxOf
<1>2. CASE S # {}
  <2>1. Max(S) \in S /\ \A x \in S : x <= Max(S)
      BY <1>2, MaxIsGreatest
  <2>2. MaxOf(S) = Max(S)
      BY <1>2 DEF MaxOf
  <2> DEFINE m == Max(S)
  <2>3. m \in S
      BY <2>1
  <2> HIDE DEF m
  <2>4. m \in 0 .. n
      BY <2>3
  <2> HIDE DEF MaxOf
  <2> QED BY <1>2, <2>1, <2>2, <2>4 DEF m
<1> QED BY <1>1, <1>2

\* A window is named by a number that no open window has.
LEMMA UnusedIsNew ==
    ASSUME windows \in SUBSET Nat, IsFiniteSet(windows)
    PROVE  Unused \in Nat /\ Unused # 0 /\ Unused \notin windows
<1> DEFINE n == Cardinality(windows)
           S == (1 .. n + 1) \ windows
<1>1. n \in Nat
    BY FS_CardinalityType
<1>2. IsFiniteSet(1 .. n + 1) /\ Cardinality(1 .. n + 1) = n + 1
    BY <1>1, FS_Interval
<1>3. S # {}
  <2> SUFFICES ASSUME S = {} PROVE FALSE
      OBVIOUS
  <2>1. (1 .. n + 1) \in SUBSET windows
      OBVIOUS
  <2>2. Cardinality(1 .. n + 1) <= n
      BY <2>1, FS_Subset
  <2> QED BY <1>1, <1>2, <2>2
<1>4. Min(S) \in S
    BY <1>1, <1>3, MinIsLeast
<1> QED BY <1>4 DEF Unused

\* The first of a set of registered subscriptions is one of them.
LEMMA FirstIsOne ==
    ASSUME order \in Seq(Subs), NEW S, S # {}, \A s \in S : InOrder(s)
    PROVE  First(S) \in S
<1> DEFINE I == {i \in DOMAIN order : order[i] \in S}
<1>1. I \in SUBSET Nat /\ I # {}
    BY DEF InOrder
<1>2. Min(I) \in I
    BY <1>1, MinIsLeast
<1> QED BY <1>2 DEF First

\* The stack below its top.
LEMMA FrontIsBelow ==
    ASSUME NEW T, NEW q \in Seq(T), q # <<>>
    PROVE  /\ Front(q) \in Seq(T) /\ Len(q) \in Nat \ {0} /\ Len(Front(q)) = Len(q) - 1
           /\ \A i \in 1 .. Len(q) - 1 : Front(q)[i] = q[i]
           /\ Last(q) = q[Len(q)] /\ Last(q) \in T
<1> DEFINE n == Len(q) - 1
<1>1. Len(q) \in Nat \ {0} /\ \A i \in 1 .. Len(q) : q[i] \in T
    OBVIOUS
<1>2. n \in Nat /\ 1 \in Int /\ n \in Int /\ \A i \in 1 .. n : q[i] \in T
    BY <1>1
<1>3. /\ Front(q) \in Seq(T)
      /\ Len(Front(q)) = n
      /\ \A i \in 1 .. n : Front(q)[i] = q[i]
  <2>1. Front(q) = SubSeq(q, 1, n)
      BY DEF Front
  <2> HIDE DEF n
  <2> QED BY <1>2, <2>1, SubSeqProperties
<1>4. Last(q) = q[Len(q)] /\ Last(q) \in T
    BY <1>1 DEF Last
<1> QED BY <1>1, <1>2, <1>3, <1>4

LEMMA TopIsFrame ==
    ASSUME stack \in Seq(Frames), ~Idle
    PROVE  /\ Len(stack) \in Nat \ {0} /\ Top = stack[Len(stack)] /\ Top \in Frames
           /\ Under \in Seq(Frames) /\ Len(Under) = Len(stack) - 1
           /\ \A i \in 1 .. Len(stack) - 1 : Under[i] = stack[i]
BY FrontIsBelow, ZenonT(60) DEF Idle, Top, Under

\* The kind of a frame tells its fields.
LEMMA KindsOfFrames ==
    ASSUME NEW f \in Frames
    PROVE  /\ f.k = "call" => f \in CallFrame
           /\ f.k = "report" => f \in ReportFrame
           /\ f.k = "abort" => f \in AbortFrame
           /\ f.k = "closing" => f \in ClosingFrame
           /\ f.k = "leaving" => f \in LeavingFrame
           /\ f.k = "flush" => f \in FlushFrame
           /\ f.k = "offer" => f \in OfferFrame
BY DEF Frames, CallFrame, ReportFrame, AbortFrame, ClosingFrame, LeavingFrame, FlushFrame, OfferFrame

\* User code acts in contexts only.
LEMMA ActingIsTyped ==
    ASSUME LoopTypes
    PROVE  Acting \in SUBSET Contexts
<1>1. Outside \in Contexts /\ contexts \in SUBSET Contexts
    BY DEF LoopTypes, Contexts
<1>2. ASSUME ~Idle, Top.k \in {"call", "abort", "leaving", "report"} PROVE Top.ctx \in Contexts
  <2>1. Top \in Frames
      BY <1>2, TopIsFrame DEF LoopTypes
  <2>2. Top \in CallFrame \cup AbortFrame \cup LeavingFrame \cup ReportFrame
      BY <1>2, <2>1, KindsOfFrames
  <2> QED BY <2>2 DEF CallFrame, ReportFrame, AbortFrame, LeavingFrame
<1> QED BY <1>1, <1>2 DEF Acting

\* What the assumption on the constants says of keys and subscriptions.
LEMMA ParametersAreTyped ==
    /\ \A k \in Keys : StoreOf[k] \in Stores
    /\ \A s \in Subs : Source(s) \in Stores /\ Follows[s] \in SUBSET Keys /\ Follows[s] # {}
    /\ \A s \in Subs : \A k \in Follows[s] : StoreOf[k] = Source(s)
    /\ MaxDepth \in Nat /\ 0 \in Depths
    /\ Watches \subseteq Subs /\ Loads \subseteq Subs /\ Watches \cap Loads = {}
<1>1. \A s \in Subs : Follows[s] \in SUBSET Keys /\ Follows[s] # {}
    BY StoreAssumption
<1>2. \A k \in Keys : StoreOf[k] \in Stores
    BY StoreAssumption
<1>3. \A s \in Subs : Source(s) \in Stores
    BY <1>1, <1>2 DEF Source
<1>4. \A s \in Subs : \A k \in Follows[s] : StoreOf[k] = Source(s)
    BY StoreAssumption DEF KeysOf
<1> QED BY <1>1, <1>2, <1>3, <1>4, StoreAssumption DEF Subs, Depths

\* The newest revision that a subscription follows is that of one of its keys.
LEMMA LatestIsWritten ==
    ASSUME touched \in [Keys -> Nat], revision \in [Stores -> Nat],
           \A k \in Keys : touched[k] <= revision[StoreOf[k]], NEW s \in Subs
    PROVE  /\ Latest(s) \in Nat /\ Latest(s) <= revision[Source(s)]
           /\ \A k \in Follows[s] : touched[k] <= Latest(s)
           /\ \E k \in Follows[s] : touched[k] = Latest(s)
<1> DEFINE S == {touched[k] : k \in Follows[s]}
           n == revision[Source(s)]
<1>1. \A k \in Follows[s] : k \in Keys /\ touched[k] \in Nat /\ touched[k] <= n
    BY ParametersAreTyped
<1>2. n \in Nat
    BY ParametersAreTyped
<1>3. S \in SUBSET Nat /\ \A x \in S : x <= n
    BY <1>1
<1>4. S # {}
    BY ParametersAreTyped
<1> HIDE DEF S, n
<1>5. MaxOf(S) \in 0 .. n /\ MaxOf(S) \in S /\ \A x \in S : x <= MaxOf(S)
    BY <1>2, <1>3, <1>4, MaxOfIsGreatest
<1> DEFINE m == MaxOf(S)
<1>6. Latest(s) = m
    BY DEF Latest, S
<1> HIDE DEF m
<1>7. m \in 0 .. n /\ m \in S /\ \A x \in S : x <= m
    BY <1>5 DEF m
<1>8. (\E k \in Follows[s] : touched[k] = m) /\ \A k \in Follows[s] : touched[k] <= m
    BY <1>7, ZenonT(60) DEF S
<1> QED BY <1>2, <1>6, <1>7, <1>8 DEF n
-----------------------------------------------------------------------------
(* Detaching.                                                              *)

\* A stack under n listeners that are told of an abort.
Told(q, n, c) == q \o [i \in 1 .. n |-> [k |-> "abort", ctx |-> c]]

\* The listeners of aborted loaders run on top of what was there.
LEMMA ToldFrames ==
    ASSUME NEW q \in Seq(Frames), NEW n \in Nat, NEW c \in Contexts
    PROVE  /\ Told(q, n, c) \in Seq(Frames) /\ Len(Told(q, n, c)) = Len(q) + n /\ Len(q) \in Nat
           /\ DOMAIN Told(q, n, c) = 1 .. Len(q) + n
           /\ \A i \in 1 .. Len(q) : Told(q, n, c)[i] = q[i]
           /\ \A i \in Len(q) + 1 .. Len(q) + n : Told(q, n, c)[i].k = "abort"
<1> DEFINE f == [k |-> "abort", ctx |-> c]
           e == [i \in 1 .. n |-> f]
<1>1. f \in Frames
    BY DEF Frames, AbortFrame
<1> HIDE DEF f
<1>2. e \in Seq(Frames) /\ Len(e) = n /\ \A i \in 1 .. n : e[i] = f
    BY <1>1
<1> HIDE DEF e
<1>3. /\ q \o e \in Seq(Frames) /\ Len(q \o e) = Len(q) + n /\ Len(q) \in Nat
      /\ \A i \in 1 .. Len(q) + n : (q \o e)[i] = IF i <= Len(q) THEN q[i] ELSE e[i - Len(q)]
  <2>1. /\ q \o e \in Seq(Frames) /\ Len(q \o e) = Len(q) + Len(e)
        /\ \A i \in 1 .. Len(q) + Len(e) : (q \o e)[i] = IF i <= Len(q) THEN q[i] ELSE e[i - Len(q)]
      BY <1>2, ConcatProperties, ZenonT(60)
  <2> QED BY <1>2, <2>1
<1>4. \A i \in Len(q) + 1 .. Len(q) + n : (q \o e)[i] = f
  <2> SUFFICES ASSUME NEW i \in Len(q) + 1 .. Len(q) + n PROVE (q \o e)[i] = f
      OBVIOUS
  <2>1. i \in 1 .. Len(q) + n /\ ~(i <= Len(q)) /\ i - Len(q) \in 1 .. n
      BY <1>3
  <2>2. (q \o e)[i] = e[i - Len(q)]
      BY <1>3, <2>1
  <2> QED BY <1>2, <2>1, <2>2
<1>5. Told(q, n, c) = q \o e
    BY ZenonT(60) DEF Told, e, f
<1>6. f.k = "abort"
    BY DEF f
<1>7. DOMAIN (q \o e) = 1 .. Len(q) + n
    BY <1>3
<1> HIDE DEF Told
<1> QED BY <1>3, <1>4, <1>5, <1>6, <1>7

\* What detaching changes, in one formula; `told` is a number of frames here.
LEMMA DetachEffect ==
    ASSUME SubTypes, RunTypes, NEW S \in SUBSET Subs, NEW c \in Contexts,
           NEW under \in Seq(Frames), Detach(S, c, under)
    PROVE  LET gone == {s \in S : status[s] = "live"}
           IN  /\ status' = [s \in Subs |-> IF s \in gone THEN "off" ELSE status[s]]
               /\ dirty' = dirty \ gone
               /\ waiting' = [s \in Loads |-> IF s \in gone THEN NoJob ELSE waiting[s]]
               /\ aborted' \in [Loads -> BOOLEAN]
               /\ \A s \in Loads \ gone : aborted'[s] = aborted[s]
               /\ loads' = [st \in Stores |-> loads[st] - Cleared(gone)[st]]
               /\ \E n \in Nat : stack' = Told(under, n, c)
<1> DEFINE gone == {s \in S : status[s] = "live"}
           stopped == {s \in gone \cap Loads : run[s] # "none" /\ ~aborted[s]}
           told == {s \in stopped : run[s] = "loading"}
<1>1. /\ status' = [s \in Subs |-> IF s \in gone THEN "off" ELSE status[s]]
      /\ dirty' = dirty \ gone
      /\ loads' = [st \in Stores |-> loads[st] - Cleared(gone)[st]]
      /\ waiting' = [s \in Loads |-> IF s \in gone THEN NoJob ELSE waiting[s]]
      /\ aborted' = [s \in Loads |-> aborted[s] \/ s \in stopped]
      /\ stack' = under \o [i \in 1 .. Cardinality(told) |-> [k |-> "abort", ctx |-> c]]
    BY ZenonT(60) DEF Detach
<1>2. told \in SUBSET Working
    BY DEF Working
<1>3. Cardinality(told) \in Nat
    BY <1>2, FS_Subset, FS_CardinalityType DEF RunTypes
<1>4. aborted' \in [Loads -> BOOLEAN] /\ \A s \in Loads \ gone : aborted'[s] = aborted[s]
    BY <1>1 DEF RunTypes
<1>5. \E n \in Nat : stack' = Told(under, n, c)
    BY <1>1, <1>3, ZenonT(60) DEF Told
<1> HIDE DEF told, stopped, gone
<1> QED BY <1>1, <1>4, <1>5 DEF gone

\* A store that closes detaches the first of its subscriptions that is left.
LEMMA DetachClosedEffect ==
    ASSUME TypeOK, Registered, DetachClosed
    PROVE  /\ ~Idle /\ Top \in ClosingFrame /\ Top = stack[Len(stack)] /\ First(Top.left) \in Top.left
           /\ LET s == First(Top.left)
                  gone == {t \in {s} : status[t] = "live"}
                  f == [Top EXCEPT !.told = FALSE, !.left = @ \ {s}]
              IN  /\ s \in Subs
                  /\ status' = [t \in Subs |-> IF t \in gone THEN "off" ELSE status[t]]
                  /\ dirty' = dirty \ gone
                  /\ waiting' = [t \in Loads |-> IF t \in gone THEN NoJob ELSE waiting[t]]
                  /\ aborted' \in [Loads -> BOOLEAN]
                  /\ \A t \in Loads \ gone : aborted'[t] = aborted[t]
                  /\ loads' = [st \in Stores |-> loads[st] - Cleared(gone)[st]]
                  /\ f \in ClosingFrame
                  /\ \E n \in Nat : stack' = Told(Append(Under, f), n, Top.ctx)
                  /\ drain' = [t \in Loads |-> IF t = s /\ drain[t] = "none" /\ status[t] # "new"
                                            THEN "waiting" ELSE drain[t]]
<1> DEFINE s == First(Top.left)
           f == [Top EXCEPT !.told = FALSE, !.left = @ \ {s}]
<1>1. /\ ~Idle /\ Top.k = "closing" /\ Top.told
      /\ Detach({s}, Top.ctx, Append(Under, f)) /\ Release({s})
    BY DEF DetachClosed, On
<1>2. /\ Len(stack) \in Nat \ {0} /\ Top = stack[Len(stack)] /\ Top \in Frames
      /\ Under \in Seq(Frames) /\ DOMAIN stack = 1 .. Len(stack)
    BY <1>1, TopIsFrame DEF TypeOK, LoopTypes
<1>3. Top \in ClosingFrame
    BY <1>1, <1>2, KindsOfFrames
<1>4. Top.left # {} /\ \A t \in Top.left : t \in Subs /\ InOrder(t)
    BY <1>1, <1>2, <1>3 DEF Registered, ClosingFrame
<1>5. s \in Top.left /\ s \in Subs
    BY <1>4, FirstIsOne DEF TypeOK, SubTypes
<1> HIDE DEF s
<1>6. f \in ClosingFrame /\ Top.ctx \in Contexts
    BY <1>3 DEF ClosingFrame
<1>7. f \in Frames
    BY <1>6 DEF Frames
<1> HIDE DEF f
<1>8. Append(Under, f) \in Seq(Frames)
    BY <1>2, <1>7
<1> DEFINE gone == {t \in {s} : status[t] = "live"}
<1>9. /\ status' = [t \in Subs |-> IF t \in gone THEN "off" ELSE status[t]]
      /\ dirty' = dirty \ gone
      /\ waiting' = [t \in Loads |-> IF t \in gone THEN NoJob ELSE waiting[t]]
      /\ aborted' \in [Loads -> BOOLEAN]
      /\ \A t \in Loads \ gone : aborted'[t] = aborted[t]
      /\ loads' = [st \in Stores |-> loads[st] - Cleared(gone)[st]]
      /\ \E n \in Nat : stack' = Told(Append(Under, f), n, Top.ctx)
  <2>1. {s} \in SUBSET Subs
      BY <1>5
  <2> QED BY <1>1, <1>6, <1>8, <2>1, DetachEffect, ZenonT(60) DEF TypeOK
<1>10. drain' = [t \in Loads |-> IF t = s /\ drain[t] = "none" /\ status[t] # "new"
                                 THEN "waiting" ELSE drain[t]]
    BY <1>1 DEF Release
<1> QED BY <1>1, <1>2, <1>3, <1>5, <1>6, <1>9, <1>10 DEF s, f

\* A scope that closes detaches the next of the subscriptions in it.
LEMMA LeaveEffect ==
    ASSUME TypeOK, Registered, Leave
    PROVE  /\ ~Idle /\ Top \in LeavingFrame /\ Top = stack[Len(stack)] /\ First(Top.left) \in Top.left
           /\ LET s == First(Top.left)
                  gone == {t \in {s} : status[t] = "live"}
                  f == [Top EXCEPT !.left = @ \ {s}]
              IN  /\ s \in Subs
                  /\ status' = [t \in Subs |-> IF t \in gone THEN "off" ELSE status[t]]
                  /\ dirty' = dirty \ gone
                  /\ waiting' = [t \in Loads |-> IF t \in gone THEN NoJob ELSE waiting[t]]
                  /\ aborted' \in [Loads -> BOOLEAN]
                  /\ \A t \in Loads \ gone : aborted'[t] = aborted[t]
                  /\ loads' = [st \in Stores |-> loads[st] - Cleared(gone)[st]]
                  /\ f \in LeavingFrame
                  /\ \E n \in Nat : stack' = Told(Append(Under, f), n, Top.ctx)
                  /\ drain' = [t \in Loads |-> IF t = s /\ drain[t] = "none" /\ status[t] # "new"
                                            THEN "waiting" ELSE drain[t]]
<1> DEFINE s == First(Top.left)
           f == [Top EXCEPT !.left = @ \ {s}]
<1>1. /\ ~Idle /\ Top.k = "leaving" /\ Top.left # {}
      /\ Detach({s}, Top.ctx, Append(Under, f)) /\ Release({s})
    BY DEF Leave, On
<1>2. /\ Len(stack) \in Nat \ {0} /\ Top = stack[Len(stack)] /\ Top \in Frames
      /\ Under \in Seq(Frames) /\ DOMAIN stack = 1 .. Len(stack)
    BY <1>1, TopIsFrame DEF TypeOK, LoopTypes
<1>3. Top \in LeavingFrame
    BY <1>1, <1>2, KindsOfFrames
<1>4. Top.left # {} /\ \A t \in Top.left : t \in Subs /\ InOrder(t)
    BY <1>1, <1>2, <1>3 DEF Registered, LeavingFrame
<1>5. s \in Top.left /\ s \in Subs
    BY <1>4, FirstIsOne DEF TypeOK, SubTypes
<1> HIDE DEF s
<1>6. f \in LeavingFrame /\ Top.ctx \in Contexts
    BY <1>3 DEF LeavingFrame
<1>7. f \in Frames
    BY <1>6 DEF Frames
<1> HIDE DEF f
<1>8. Append(Under, f) \in Seq(Frames)
    BY <1>2, <1>7
<1> DEFINE gone == {t \in {s} : status[t] = "live"}
<1>9. /\ status' = [t \in Subs |-> IF t \in gone THEN "off" ELSE status[t]]
      /\ dirty' = dirty \ gone
      /\ waiting' = [t \in Loads |-> IF t \in gone THEN NoJob ELSE waiting[t]]
      /\ aborted' \in [Loads -> BOOLEAN]
      /\ \A t \in Loads \ gone : aborted'[t] = aborted[t]
      /\ loads' = [st \in Stores |-> loads[st] - Cleared(gone)[st]]
      /\ \E n \in Nat : stack' = Told(Append(Under, f), n, Top.ctx)
  <2>1. {s} \in SUBSET Subs
      BY <1>5
  <2> QED BY <1>1, <1>6, <1>8, <2>1, DetachEffect, ZenonT(60) DEF TypeOK
<1>10. drain' = [t \in Loads |-> IF t = s /\ drain[t] = "none" /\ status[t] # "new"
                                 THEN "waiting" ELSE drain[t]]
    BY <1>1 DEF Release
<1> QED BY <1>1, <1>2, <1>3, <1>5, <1>6, <1>9, <1>10 DEF s, f
-----------------------------------------------------------------------------
(* Types.                                                                  *)

\* What an end task looks like behind the task of its window.
Ending(kind, st, w) == [k |-> "end", of |-> kind, st |-> st, win |-> w]

\* Two tasks at the end of a queue.
LEMMA TwoMore ==
    ASSUME NEW T, NEW q \in Seq(T), NEW a \in T, NEW b \in T
    PROVE  /\ q \o <<a, b>> \in Seq(T)
           /\ Len(q) \in Nat /\ Len(q \o <<a, b>>) = Len(q) + 2
           /\ \A i \in 1 .. Len(q) : (q \o <<a, b>>)[i] = q[i]
           /\ (q \o <<a, b>>)[Len(q) + 1] = a /\ (q \o <<a, b>>)[Len(q) + 2] = b
<1> DEFINE e == <<a, b>>
<1>1. e \in Seq(T) /\ Len(e) = 2 /\ e[1] = a /\ e[2] = b
    OBVIOUS
<1> HIDE DEF e
<1>2. /\ q \o e \in Seq(T) /\ Len(q \o e) = Len(q) + Len(e)
      /\ \A i \in 1 .. Len(q) + Len(e) : (q \o e)[i] = IF i <= Len(q) THEN q[i] ELSE e[i - Len(q)]
    BY <1>1, ConcatProperties, ZenonT(60)
<1>3. Len(q) \in Nat
    OBVIOUS
<1>4. (q \o e)[Len(q) + 1] = e[1] /\ (q \o e)[Len(q) + 2] = e[2]
  <2>1. /\ Len(q) + 1 \in 1 .. Len(q) + Len(e) /\ ~(Len(q) + 1 <= Len(q)) /\ Len(q) + 1 - Len(q) = 1
        /\ Len(q) + 2 \in 1 .. Len(q) + Len(e) /\ ~(Len(q) + 2 <= Len(q)) /\ Len(q) + 2 - Len(q) = 2
      BY <1>1, <1>3
  <2> QED BY <1>2, <2>1
<1>5. \A i \in 1 .. Len(q) : (q \o e)[i] = q[i]
    BY <1>1, <1>2, <1>3
<1> QED BY <1>1, <1>2, <1>3, <1>4, <1>5 DEF e

LEMMA WindowIsTyped ==
    ASSUME LoopTypes
    PROVE  Unused \in Nat /\ windows \cup {Unused} \in SUBSET Nat /\ IsFiniteSet(windows \cup {Unused})
BY UnusedIsNew, FS_AddElement DEF LoopTypes

\* A flush is scheduled: its task and the end of its window are queued, or were before.
LEMMA ScheduleEffect ==
    ASSUME LoopTypes, NEW st \in Stores, Schedule(st)
    PROVE  /\ flushScheduled' = [flushScheduled EXCEPT ![st] = TRUE]
           /\ windows' \in SUBSET Nat /\ IsFiniteSet(windows')
           /\ \/ tasks' = tasks
              \/ \E w \in Nat : tasks' = tasks \o <<[k |-> "flush", st |-> st, win |-> w], Ending("flush", st, w)>>
           /\ tasks' \in Seq(Tasks)
<1>1. CASE flushScheduled[st]
  <2>1. UNCHANGED <<flushScheduled, tasks, windows>>
      BY <1>1 DEF Schedule
  <2> QED BY <1>1, <2>1 DEF LoopTypes
<1>2. CASE ~flushScheduled[st]
  <2>1. tasks' = tasks \o <<[k |-> "flush", st |-> st, win |-> Unused], Ending("flush", st, Unused)>>
      BY <1>2 DEF Schedule, Delivery, Ending
  <2>2. [k |-> "flush", st |-> st, win |-> Unused] \in Tasks /\ Ending("flush", st, Unused) \in Tasks
      BY WindowIsTyped DEF Tasks, Ending
  <2>3. tasks' \in Seq(Tasks)
      BY <2>1, <2>2, TwoMore DEF LoopTypes
  <2>4. windows' \in SUBSET Nat /\ IsFiniteSet(windows') /\ Unused \in Nat
      BY <1>2, WindowIsTyped DEF Schedule
  <2>5. flushScheduled' = [flushScheduled EXCEPT ![st] = TRUE]
      BY <1>2 DEF Schedule
  <2> QED BY <2>1, <2>3, <2>4, <2>5
<1> QED BY <1>1, <1>2

\* A commit that #guard lets through stays within the bound of cascades.
LEMMA SetIsTyped ==
    ASSUME StoreTypes, LoopTypes, NEW st \in Stores, NEW ks \in SUBSET KeysOf(st), NEW c \in Acting,
           Set(st, ks, c)
    PROVE  c \in Contexts /\ c.depth + 1 \in Depths
<1>1. c \in Contexts
    BY ActingIsTyped
<1>2. CASE c = Outside
    BY <1>2, ParametersAreTyped, <1>1 DEF Outside, Depths
<1>3. CASE c # Outside
  <2>1. c.depth \in Depths /\ c.depth + 1 <= MaxDepth
      BY <1>1, <1>3, ParametersAreTyped DEF Contexts, Set, Refused, Depths
  <2> QED BY <1>1, <2>1 DEF Depths
<1> QED BY <1>2, <1>3

\* The types of the five groups of variables are kept, group by group.
LEMMA StoreTypesKept ==
    ASSUME TypeOK, [Next]_vars
    PROVE  StoreTypes'
<1> USE ParametersAreTyped
<1>1. ASSUME NEW st \in Stores, NEW ks \in SUBSET KeysOf(st), NEW c \in Acting, Set(st, ks, c)
      PROVE  StoreTypes'
  <2>1. c.depth + 1 \in Depths /\ c.win \in Nat
      BY <1>1, SetIsTyped DEF TypeOK, Contexts, Outside
  <2> DEFINE r == revision[st] + 1
             d == c.depth + 1
  <2>2. r \in Nat
      BY DEF TypeOK, StoreTypes
  <2>3. /\ revision' = [revision EXCEPT ![st] = r] /\ closed' = closed
        /\ touched' = [k \in Keys |-> IF k \in ks THEN r ELSE touched[k]]
        /\ slots' = [k \in Keys |-> IF k \in ks THEN [slots[k] EXCEPT ![d] = r] ELSE slots[k]]
        /\ cause' = [k \in Keys |-> IF k \in ks THEN [depth |-> d, win |-> c.win] ELSE cause[k]]
        /\ log' = [log EXCEPT ![st] = Append(@, [keys |-> ks, depth |-> d])]
      BY <1>1, ZenonT(60) DEF Set
  <2> HIDE DEF r, d
  <2>4. revision' \in [Stores -> Nat] /\ touched' \in [Keys -> Nat] /\ closed' \in [Stores -> BOOLEAN]
      BY <2>2, <2>3 DEF TypeOK, StoreTypes
  <2>5. slots' \in [Keys -> [Depths -> Nat]]
      BY <2>2, <2>3 DEF TypeOK, StoreTypes
  <2>6. cause' \in [Keys -> Causes]
    <3>1. [depth |-> d, win |-> c.win] \in Causes
        BY <2>1 DEF d, Causes
    <3> QED BY <2>3, <3>1 DEF TypeOK, StoreTypes
  <2>7. log' \in [Stores -> Seq(Commits)]
    <3>1. [keys |-> ks, depth |-> d] \in Commits
        BY <2>1 DEF d, KeysOf, Commits
    <3>2. Append(log[st], [keys |-> ks, depth |-> d]) \in Seq(Commits)
        BY <3>1 DEF TypeOK, StoreTypes
    <3> QED BY <2>3, <3>2 DEF TypeOK, StoreTypes
  <2> QED BY <2>4, <2>5, <2>6, <2>7 DEF StoreTypes
<1>2. ASSUME NEW st \in Stores, NEW c \in Acting, CloseStore(st, c)
      PROVE  StoreTypes'
  <2>1. /\ closed' = [closed EXCEPT ![st] = TRUE] /\ UNCHANGED <<revision, touched, log>>
        /\ slots' = [k \in Keys |-> IF StoreOf[k] = st THEN [d \in 0 .. MaxDepth |-> 0] ELSE slots[k]]
        /\ cause' = [k \in Keys |-> IF StoreOf[k] = st THEN [depth |-> 0, win |-> 0] ELSE cause[k]]
      BY <1>2 DEF CloseStore
  <2>2. slots' \in [Keys -> [Depths -> Nat]]
      BY <2>1 DEF TypeOK, StoreTypes, Depths
  <2>3. [depth |-> 0, win |-> 0] \in Causes
      BY DEF Causes
  <2> QED BY <2>1, <2>2, <2>3 DEF TypeOK, StoreTypes
<1>3. CASE EndTask \/ \E s \in Loads : LoaderSettles(s)
  <2>1. UNCHANGED <<closed, revision, touched, slots, log>>
      BY <1>3 DEF EndTask, LoaderSettles
  <2>2. \E w : cause' = [k \in Keys |-> IF cause[k].win = w THEN [cause[k] EXCEPT !.win = 0] ELSE cause[k]]
    <3>1. CASE EndTask
      <4> DEFINE w == Head(tasks).win
      <4>1. cause' = [k \in Keys |-> IF cause[k].win = w THEN [cause[k] EXCEPT !.win = 0] ELSE cause[k]]
          BY <3>1, ZenonT(60) DEF EndTask
      <4> HIDE DEF w
      <4> QED BY <4>1
    <3>2. CASE \E s \in Loads : LoaderSettles(s)
      <4>1. PICK s \in Loads : LoaderSettles(s)
          BY <3>2
      <4> DEFINE w == runLive[s]
      <4>2. cause' = [k \in Keys |-> IF cause[k].win = w THEN [cause[k] EXCEPT !.win = 0] ELSE cause[k]]
          BY <4>1, ZenonT(60) DEF LoaderSettles
      <4> HIDE DEF w
      <4> QED BY <4>2
    <3> QED BY <1>3, <3>1, <3>2
  <2>3. \A x \in Causes : [x EXCEPT !.win = 0] \in Causes
      BY DEF Causes
  <2>4. cause' \in [Keys -> Causes]
      BY <2>2, <2>3 DEF TypeOK, StoreTypes
  <2> QED BY <2>1, <2>4 DEF TypeOK, StoreTypes
<1>4. CASE UNCHANGED storeVars
    BY <1>4 DEF TypeOK, StoreTypes, storeVars
<1>5. CASE UserStep
    BY <1>1, <1>2, <1>4, <1>5 DEF UserStep, Refuse, Watch, Load, CloseScope, EscalateDrain
<1>6. CASE Machine
    BY <1>3, <1>4, <1>6 DEF Machine, FlushTask, PublishTask, OverdueTask, FrameDone, FlushNothing, FlushDue,
        OfferClosed, OfferStart, OfferWait, ReportClosed, DetachClosed, Leave
<1>7. CASE Return \/ Throw \/ \E s \in Loads : Continuation(s) \/ LoaderSettles(s)
    BY <1>3, <1>4, <1>7 DEF Return, Throw, Continuation, StartLoader, RunEnds, Drain
<1>8. CASE UNCHANGED vars
    BY <1>4, <1>8 DEF vars
<1> QED BY <1>5, <1>6, <1>7, <1>8 DEF Next

\* The depths that a new subscription starts from are depths.
LEMMA DepthsAreBounded ==
    ASSUME StoreTypes
    PROVE  /\ \A s \in Subs : \A r : MissedDepth(s, r) \in Depths
           /\ \A s \in Subs, c \in Contexts : InitialLoadDepth(s, c) \in Depths
<1> USE ParametersAreTyped
<1>1. ASSUME NEW s \in Subs, NEW r PROVE MissedDepth(s, r) \in Depths
  <2> DEFINE S == {d \in 0 .. MaxDepth : \E k \in Follows[s] : slots[k][d] > r}
  <2>1. S \in SUBSET Nat /\ \A x \in S : x <= MaxDepth
      OBVIOUS
  <2> HIDE DEF S
  <2>2. MaxOf(S) \in 0 .. MaxDepth
      BY <2>1, MaxOfIsGreatest
  <2> QED BY <2>2 DEF MissedDepth, Depths, S
<1>2. ASSUME NEW s \in Subs, NEW c \in Contexts PROVE InitialLoadDepth(s, c) \in Depths
  <2> DEFINE K == {k \in Follows[s] : cause[k].win = c.win}
             S == {c.depth} \cup {cause[k].depth : k \in K}
  <2>1. CASE c = Outside
      BY <2>1 DEF InitialLoadDepth
  <2>2. CASE c # Outside
    <3>1. c.depth \in Depths
        BY <2>2 DEF Contexts
    <3>2. \A k \in K : cause[k].depth \in Depths
        BY DEF StoreTypes, Causes
    <3>3. S \in SUBSET Depths /\ S # {}
        BY <3>1, <3>2
    <3> HIDE DEF S
    <3>4. S \in SUBSET Nat /\ \A x \in S : x <= MaxDepth
        BY <3>3 DEF Depths
    <3>5. Max(S) \in S
        BY <3>3, <3>4, MaxIsGreatest
    <3>6. InitialLoadDepth(s, c) = Max(S)
        BY <2>2 DEF InitialLoadDepth, S
    <3> QED BY <3>3, <3>5, <3>6
  <2> QED BY <2>1, <2>2
<1> QED BY <1>1, <1>2

\* A batch delivers to one of the subscriptions in it.
LEMMA FlushedIsOne ==
    ASSUME TypeOK, Registered, Flushing
    PROVE  /\ Top \in FlushFrame /\ Top = stack[Len(stack)] /\ Len(stack) \in Nat \ {0}
           /\ First(Top.left) \in Top.left /\ First(Top.left) \in Subs
           /\ [Top EXCEPT !.left = @ \ {First(@)}] \in FlushFrame
<1>1. ~Idle /\ Top.k = "flush" /\ Top.left # {}
    BY DEF Flushing, On
<1>2. Len(stack) \in Nat \ {0} /\ Top = stack[Len(stack)] /\ Top \in Frames /\ DOMAIN stack = 1 .. Len(stack)
    BY <1>1, TopIsFrame DEF TypeOK, LoopTypes
<1>3. Top \in FlushFrame
    BY <1>1, <1>2, KindsOfFrames
<1>4. \A t \in Top.left : t \in Subs /\ InOrder(t)
    BY <1>1, <1>2, <1>3 DEF Registered, FlushFrame
<1>5. First(Top.left) \in Top.left
    BY <1>1, <1>4, FirstIsOne DEF TypeOK, SubTypes
<1> DEFINE s == First(Top.left)
<1> HIDE DEF s
<1>6. [Top EXCEPT !.left = @ \ {s}] \in FlushFrame
    BY <1>3 DEF FlushFrame
<1> QED BY <1>2, <1>3, <1>4, <1>5, <1>6 DEF s

LEMMA SubTypesKept ==
    ASSUME TypeOK, Registered, \A k \in Keys : touched[k] <= revision[StoreOf[k]],
           \A st \in Stores : Len(log[st]) = revision[st], [Next]_vars
    PROVE  SubTypes'
<1> USE ParametersAreTyped
<1>1. ASSUME NEW st \in Stores, NEW ks \in SUBSET KeysOf(st), NEW c \in Acting, Set(st, ks, c)
      PROVE  SubTypes'
  <2>1. c.depth + 1 \in Depths
      BY <1>1, SetIsTyped DEF TypeOK
  <2> DEFINE d == c.depth + 1
             hit == {s \in Live(st) : Follows[s] \cap ks # {}}
  <2>2. /\ depth' = [s \in Subs |-> IF s \in hit THEN Max({depth[s], d}) ELSE depth[s]]
        /\ dirty' = dirty \cup hit /\ UNCHANGED <<status, order, delivered>>
      BY <1>1, ZenonT(60) DEF Set
  <2>3. \A s \in Subs : Max({depth[s], d}) \in Depths
    <3> SUFFICES ASSUME NEW s \in Subs PROVE Max({depth[s], d}) \in Depths
        OBVIOUS
    <3>1. depth[s] \in Depths /\ d \in Depths
        BY <2>1 DEF TypeOK, SubTypes
    <3> DEFINE S == {depth[s], d}
    <3>2. S \in SUBSET Nat /\ S # {} /\ S \in SUBSET Depths /\ \A x \in S : x <= MaxDepth
        BY <3>1 DEF Depths
    <3> HIDE DEF S
    <3>3. Max(S) \in S
        BY <3>2, MaxIsGreatest
    <3>4. Max(S) \in Depths
        BY <3>2, <3>3
    <3> QED BY <3>4 DEF S
  <2>4. hit \in SUBSET Subs
      BY DEF Live
  <2> HIDE DEF hit, d
  <2>5. depth' \in [Subs -> Depths]
      BY <2>2, <2>3 DEF TypeOK, SubTypes, d
  <2> QED BY <2>2, <2>4, <2>5 DEF TypeOK, SubTypes
<1>2. ASSUME NEW s \in Watches, NEW c \in Acting, NEW r \in Readable(s), Watch(s, r, c)
      PROVE  SubTypes'
  <2>1. /\ status' = [status EXCEPT ![s] = "live"] /\ order' = Append(order, s)
        /\ depth' = [depth EXCEPT ![s] = MissedDepth(s, r)]
        /\ delivered' = [delivered EXCEPT ![s] = r]
        /\ dirty' = dirty \/ dirty' = dirty \cup {s}
      BY <1>2 DEF Watch, Attach
  <2>2. MissedDepth(s, r) \in Depths
      BY DepthsAreBounded DEF TypeOK
  <2>3. r \in Nat
      BY DEF Readable, TypeOK, StoreTypes
  <2> QED BY <2>1, <2>2, <2>3 DEF TypeOK, SubTypes
<1>3. ASSUME NEW s \in Loads, NEW c \in Acting, Load(s, c)
      PROVE  SubTypes'
  <2>1. /\ status' = [status EXCEPT ![s] = "live"] /\ order' = Append(order, s)
        /\ depth' = [depth EXCEPT ![s] = InitialLoadDepth(s, c)]
        /\ delivered' = delivered /\ dirty' = dirty \cup {s}
      BY <1>3 DEF Load, Attach
  <2>2. InitialLoadDepth(s, c) \in Depths
      BY DepthsAreBounded, ActingIsTyped DEF TypeOK
  <2> QED BY <2>1, <2>2 DEF TypeOK, SubTypes
<1>4. CASE Leave
  <2>1. UNCHANGED <<order, depth, delivered>>
      BY <1>4 DEF Leave
  <2>2. \E G : status' = [s \in Subs |-> IF s \in G THEN "off" ELSE status[s]] /\ dirty' = dirty \ G
      BY <1>4, LeaveEffect, ZenonT(60)
  <2> QED BY <2>1, <2>2 DEF TypeOK, SubTypes
<1>5. CASE DetachClosed
  <2>1. UNCHANGED <<order, depth, delivered>>
      BY <1>5 DEF DetachClosed
  <2>2. \E G : status' = [s \in Subs |-> IF s \in G THEN "off" ELSE status[s]] /\ dirty' = dirty \ G
      BY <1>5, DetachClosedEffect, ZenonT(60)
  <2> QED BY <2>1, <2>2 DEF TypeOK, SubTypes
<1>6. ASSUME NEW st \in Stores, NEW c \in Acting, CloseStore(st, c)
      PROVE  SubTypes'
  <2>1. dirty' = dirty \ Live(st) /\ UNCHANGED <<status, order, depth, delivered>>
      BY <1>6 DEF CloseStore
  <2> QED BY <2>1 DEF TypeOK, SubTypes
<1>7. CASE FlushTask
  <2>1. dirty' \subseteq dirty /\ UNCHANGED <<status, order, depth, delivered>>
      BY <1>7 DEF FlushTask
  <2> QED BY <2>1 DEF TypeOK, SubTypes
<1>8. CASE FlushNothing \/ FlushDue
  <2>1. UNCHANGED <<status, order, dirty>>
      BY <1>8 DEF FlushNothing, FlushDue
  <2>2. \E s \in Subs : depth' = depth \/ depth' = [depth EXCEPT ![s] = 0]
    <3>1. First(Top.left) \in Subs
        BY <1>8, FlushedIsOne DEF FlushNothing, FlushDue
    <3> QED BY <1>8, <3>1 DEF FlushNothing, FlushDue
  <2>3. \E s \in Subs : delivered' = delivered \/ delivered' = [delivered EXCEPT ![s] = Latest(s)]
    <3>1. First(Top.left) \in Subs
        BY <1>8, FlushedIsOne DEF FlushNothing, FlushDue
    <3> QED BY <1>8, <3>1 DEF FlushNothing, FlushDue
  <2>4. \A s \in Subs : Latest(s) \in Nat
      BY LatestIsWritten DEF TypeOK, StoreTypes
  <2> QED BY <2>1, <2>2, <2>3, <2>4 DEF TypeOK, SubTypes
<1>9. CASE UNCHANGED subVars
    BY <1>9 DEF TypeOK, SubTypes, subVars
<1>10. CASE UserStep
    BY <1>1, <1>2, <1>3, <1>6, <1>9, <1>10 DEF UserStep, Refuse, CloseScope, EscalateDrain
<1>11. CASE Machine
    BY <1>4, <1>5, <1>7, <1>8, <1>9, <1>11 DEF Machine, EndTask, PublishTask, OverdueTask, FrameDone,
        OfferClosed, OfferStart, OfferWait, ReportClosed
<1>12. CASE Return \/ Throw \/ \E s \in Loads : Continuation(s) \/ LoaderSettles(s)
    BY <1>9, <1>12 DEF Return, Throw, Continuation, StartLoader, RunEnds, Drain, LoaderSettles
<1>13. CASE UNCHANGED vars
    BY <1>9, <1>13 DEF vars
<1> QED BY <1>10, <1>11, <1>12, <1>13 DEF Next

LEMMA OfferIsTyped ==
    ASSUME TypeOK, On("offer")
    PROVE  Top \in OfferFrame /\ Top = stack[Len(stack)] /\ Len(stack) \in Nat \ {0} /\ ~Idle
BY TopIsFrame, KindsOfFrames DEF On, TypeOK, LoopTypes

\* The task that runs, and the queue behind it.
LEMMA HeadIsTask ==
    ASSUME TypeOK, NEW kind, Runs(kind)
    PROVE  /\ Head(tasks) \in Tasks /\ Head(tasks).k = kind /\ Head(tasks) = tasks[1]
           /\ Tail(tasks) \in Seq(Tasks) /\ Len(tasks) \in Nat \ {0} /\ Len(Tail(tasks)) = Len(tasks) - 1
           /\ \A i \in 1 .. Len(tasks) - 1 : Tail(tasks)[i] = tasks[i + 1]
           /\ Idle /\ tasks # <<>>
<1>1. tasks # <<>> /\ tasks \in Seq(Tasks) /\ Head(tasks).k = kind /\ Idle
    BY DEF Runs, TypeOK, LoopTypes
<1>2. /\ Head(tasks) \in Tasks /\ Tail(tasks) \in Seq(Tasks) /\ Len(Tail(tasks)) = Len(tasks) - 1
      /\ \A i \in 1 .. Len(Tail(tasks)) : Tail(tasks)[i] = tasks[i + 1]
    BY <1>1, HeadTailProperties, ZenonT(60)
<1>3. Len(tasks) \in Nat \ {0} /\ Head(tasks) = tasks[1]
    BY <1>1
<1> QED BY <1>1, <1>2, <1>3

\* Finitely many loads run or wait; a step adds one at most.
LEMMA WorkersAreFinite ==
    ASSUME RunTypes, NEW s \in Loads
    PROVE  IsFiniteSet(Working \cup {s}) /\ IsFiniteSet(Waiters \cup {s})
BY FS_AddElement DEF RunTypes

LEMMA FewerAreFinite ==
    ASSUME RunTypes
    PROVE  /\ \A T \in SUBSET Working : IsFiniteSet(T)
           /\ \A T \in SUBSET Waiters : IsFiniteSet(T)
BY FS_Subset DEF RunTypes

LEMMA RunTypesKept ==
    ASSUME TypeOK, Registered, \A k \in Keys : touched[k] <= revision[StoreOf[k]], [Next]_vars
    PROVE  RunTypes'
<1> USE ParametersAreTyped
<1>1. CASE FlushDue
  <2>1. UNCHANGED <<run, job, runLive, aborted, waiting, drain, loads, shown>>
      BY <1>1 DEF FlushDue
  <2> DEFINE s == First(Top.left)
  <2>2. offered' = offered \/ (s \in Loads /\ offered' = [offered EXCEPT ![s] = Latest(s)])
    <3>1. s \in Subs
        BY <1>1, FlushedIsOne DEF FlushDue
    <3>2. IF s \in Watches THEN UNCHANGED offered ELSE offered' = [offered EXCEPT ![s] = Latest(s)]
        BY <1>1, ZenonT(60) DEF FlushDue
    <3> HIDE DEF s
    <3> QED BY <3>1, <3>2 DEF Subs
  <2>3. s \in Subs => Latest(s) \in Nat
      BY LatestIsWritten DEF TypeOK, StoreTypes
  <2> HIDE DEF s
  <2> QED BY <2>1, <2>2, <2>3 DEF TypeOK, RunTypes, Working, Waiters
<1>2. ASSUME NEW s \in Loads, NEW j \in Jobs, NEW l \in Int, Start(s, j, l), waiting' = waiting \/ waiting' = [waiting EXCEPT ![s] = NoJob],
             UNCHANGED <<offered, runLive, drain, shown>>
      PROVE  RunTypes'
  <2>1. /\ run' = [run EXCEPT ![s] = "starting"] /\ job' = [job EXCEPT ![s] = j]
        /\ aborted' = [aborted EXCEPT ![s] = FALSE] /\ loads' = [loads EXCEPT ![Source(s)] = l + 1]
      BY <1>2 DEF Start
  <2>2. Working' \in SUBSET (Working \cup {s})
      BY <2>1 DEF Working, TypeOK, RunTypes
  <2>3. Waiters' \in SUBSET Waiters
      BY <1>2 DEF Waiters, TypeOK, RunTypes
  <2>4. IsFiniteSet(Working') /\ IsFiniteSet(Waiters')
      BY <2>2, <2>3, WorkersAreFinite, FewerAreFinite, FS_Subset DEF TypeOK
  <2>5. waiting' \in [Loads -> Jobs \cup {NoJob}]
      BY <1>2 DEF TypeOK, RunTypes
  <2>6. run' \in [Loads -> {"none", "starting", "loading", "settled"}] /\ aborted' \in [Loads -> BOOLEAN]
      BY <2>1 DEF TypeOK, RunTypes
  <2>7. job' \in [Loads -> Jobs \cup {NoJob}] /\ loads' \in [Stores -> Int]
      BY <1>2, <2>1 DEF TypeOK, RunTypes
  <2> QED BY <1>2, <2>4, <2>5, <2>6, <2>7 DEF TypeOK, RunTypes
<1>3. CASE OfferStart
  <2>1. Top \in OfferFrame
      BY <1>3, OfferIsTyped DEF OfferStart
  <2>2. Top.s \in Loads /\ Top.job \in Jobs /\ Source(Top.s) \in Stores
      BY <2>1 DEF OfferFrame
  <2>3. loads[Source(Top.s)] \in Int
      BY <2>2 DEF TypeOK, RunTypes
  <2> QED BY <1>2, <1>3, <2>2, <2>3 DEF OfferStart
<1>4. CASE OfferWait
  <2>1. Top \in OfferFrame
      BY <1>4, OfferIsTyped DEF OfferWait
  <2> DEFINE s == Top.s
  <2>2. s \in Loads /\ Top.job \in Jobs /\ Source(s) \in Stores
      BY <2>1 DEF OfferFrame
  <2>3. /\ loads' = [loads EXCEPT ![Source(s)] = IF waiting[s] = NoJob THEN @ + 1 ELSE @]
        /\ waiting' = [waiting EXCEPT ![s] = Top.job]
        /\ aborted' = [aborted EXCEPT ![s] = TRUE]
        /\ UNCHANGED <<offered, run, job, runLive, drain, shown>>
      BY <1>4, ZenonT(60) DEF OfferWait
  <2>4. Waiters' \in SUBSET (Waiters \cup {s}) /\ Working' = Working
      BY <2>2, <2>3 DEF Waiters, Working, TypeOK, RunTypes
  <2>5. IsFiniteSet(Waiters') /\ IsFiniteSet(Working')
      BY <2>2, <2>4, WorkersAreFinite, FS_Subset DEF TypeOK, RunTypes
  <2> HIDE DEF s
  <2> QED BY <2>2, <2>3, <2>5 DEF TypeOK, RunTypes
<1>5. ASSUME NEW s \in Loads, StartLoader(s) PROVE RunTypes'
  <2>1. /\ run' = [run EXCEPT ![s] = "loading"] \/ run' = [run EXCEPT ![s] = "settled"]
        /\ runLive' = runLive \/ runLive' = [runLive EXCEPT ![s] = Unused]
        /\ UNCHANGED <<offered, job, aborted, waiting, drain, loads, shown>>
      BY <1>5 DEF StartLoader
  <2>2. Working' \in SUBSET (Working \cup {s}) /\ Waiters' = Waiters
      BY <2>1 DEF Working, Waiters, TypeOK, RunTypes
  <2>3. IsFiniteSet(Waiters') /\ IsFiniteSet(Working')
      BY <2>2, WorkersAreFinite, FS_Subset DEF TypeOK, RunTypes
  <2>4. Unused \in Nat
      BY WindowIsTyped DEF TypeOK
  <2> QED BY <2>1, <2>3, <2>4 DEF TypeOK, RunTypes
<1>6. ASSUME NEW s \in Loads, LoaderSettles(s) PROVE RunTypes'
  <2>1. /\ run' = [run EXCEPT ![s] = "settled"] /\ runLive' = [runLive EXCEPT ![s] = 0]
        /\ UNCHANGED <<offered, job, aborted, waiting, drain, loads, shown>>
      BY <1>6 DEF LoaderSettles
  <2>2. Working' \in SUBSET (Working \cup {s}) /\ Waiters' = Waiters
      BY <2>1 DEF Working, Waiters, TypeOK, RunTypes
  <2>3. IsFiniteSet(Waiters') /\ IsFiniteSet(Working')
      BY <2>2, WorkersAreFinite, FS_Subset DEF TypeOK, RunTypes
  <2> QED BY <2>1, <2>3 DEF TypeOK, RunTypes
<1>7. ASSUME NEW s \in Loads, RunEnds(s) PROVE RunTypes'
  <2> DEFINE busy == loads[Source(s)] - 1 - (IF waiting[s] = NoJob THEN 0 ELSE 1)
  <2>1. busy \in Int
      BY DEF TypeOK, RunTypes
  <2>2. waiting' = [waiting EXCEPT ![s] = NoJob] /\ UNCHANGED <<offered, runLive, drain, shown>>
      BY <1>7 DEF RunEnds
  <2>3. CASE Continues(s)
    <3>1. Start(s, waiting[s], busy)
        BY <1>7, <2>3 DEF RunEnds
    <3>2. waiting[s] \in Jobs
        BY <2>3 DEF Continues, TypeOK, RunTypes
    <3> QED BY <1>2, <2>1, <2>2, <3>1, <3>2
  <2>4. CASE ~Continues(s)
    <3>1. run' = [run EXCEPT ![s] = "none"] /\ loads' = [loads EXCEPT ![Source(s)] = busy] /\ UNCHANGED <<job, aborted>>
        BY <1>7, <2>4 DEF RunEnds
    <3>2. Working' \in SUBSET Working /\ Waiters' \in SUBSET Waiters
        BY <2>2, <3>1 DEF Working, Waiters, TypeOK, RunTypes
    <3>3. IsFiniteSet(Waiters') /\ IsFiniteSet(Working')
        BY <3>2, FewerAreFinite DEF TypeOK
    <3>4. waiting' \in [Loads -> Jobs \cup {NoJob}]
        BY <2>2 DEF TypeOK, RunTypes
    <3> HIDE DEF busy
    <3> QED BY <2>1, <2>2, <3>1, <3>3, <3>4 DEF TypeOK, RunTypes
  <2> QED BY <2>3, <2>4
<1>8. CASE PublishTask
  <2>1. UNCHANGED <<offered, run, job, runLive, aborted, waiting, drain, loads>>
      BY <1>8 DEF PublishTask
  <2>2. \E s \in Loads, n \in Nat : shown' = shown \/ shown' = [shown EXCEPT ![s] = n]
    <3> DEFINE t == Head(tasks)
    <3>1. t \in Tasks /\ t.k = "publish"
        BY <1>8, HeadIsTask DEF PublishTask
    <3>2. t.s \in Loads /\ t.job.rev \in Nat
        BY <3>1 DEF Tasks, Jobs
    <3>3. shown' = shown \/ shown' = [shown EXCEPT ![t.s] = t.job.rev]
        BY <1>8, ZenonT(60) DEF PublishTask
    <3> QED BY <3>2, <3>3, ZenonT(60)
  <2> QED BY <2>1, <2>2 DEF TypeOK, RunTypes, Working, Waiters
<1>9. ASSUME NEW s \in Loads, Drain(s) \/ EscalateDrain(s) PROVE RunTypes'
  <2>1. UNCHANGED <<offered, run, job, runLive, aborted, waiting, loads, shown>>
      BY <1>9 DEF Drain, EscalateDrain
  <2>2. drain' \in [Loads -> {"none", "waiting", "escalated", "done"}]
      BY <1>9 DEF Drain, EscalateDrain, TypeOK, RunTypes
  <2> QED BY <2>1, <2>2 DEF TypeOK, RunTypes, Working, Waiters
<1>10. ASSUME NEW G,
              waiting' = [t \in Loads |-> IF t \in G THEN NoJob ELSE waiting[t]],
              aborted' \in [Loads -> BOOLEAN],
              loads' = [st \in Stores |-> loads[st] - Cleared(G)[st]],
              drain' \in [Loads -> {"none", "waiting", "escalated", "done"}],
              UNCHANGED <<offered, run, job, runLive, shown>>
       PROVE  RunTypes'
  <2>1. Working' = Working /\ Waiters' \in SUBSET Waiters
      BY <1>10 DEF Working, Waiters
  <2>2. IsFiniteSet(Waiters') /\ IsFiniteSet(Working')
      BY <2>1, FewerAreFinite DEF TypeOK, RunTypes
  <2>3. \A st \in Stores : Cleared(G)[st] \in Nat
    <3> SUFFICES ASSUME NEW st \in Stores PROVE Cleared(G)[st] \in Nat
        OBVIOUS
    <3> DEFINE H == {s \in G \cap Loads : Source(s) = st /\ waiting[s] # NoJob}
    <3>1. H \in SUBSET Waiters
        BY DEF Waiters
    <3>2. Cardinality(H) \in Nat
        BY <3>1, FewerAreFinite, FS_CardinalityType DEF TypeOK
    <3> QED BY <3>2 DEF Cleared
  <2>4. loads' \in [Stores -> Int]
      BY <1>10, <2>3 DEF TypeOK, RunTypes
  <2> QED BY <1>10, <2>2, <2>4 DEF TypeOK, RunTypes
<1>11. CASE Leave \/ DetachClosed
  <2>1. \E G : /\ waiting' = [t \in Loads |-> IF t \in G THEN NoJob ELSE waiting[t]]
               /\ aborted' \in [Loads -> BOOLEAN]
               /\ loads' = [st \in Stores |-> loads[st] - Cleared(G)[st]]
      BY <1>11, LeaveEffect, DetachClosedEffect, ZenonT(60)
  <2>2. drain' \in [Loads -> {"none", "waiting", "escalated", "done"}]
    <3>1. \E P : drain' = [t \in Loads |-> IF t \in P /\ drain[t] = "none" /\ status[t] # "new" THEN "waiting" ELSE drain[t]]
        BY <1>11, ZenonT(60) DEF Leave, DetachClosed, Release
    <3> QED BY <3>1 DEF TypeOK, RunTypes
  <2>3. UNCHANGED <<offered, run, job, runLive, shown>>
      BY <1>11 DEF Leave, DetachClosed
  <2> QED BY <1>10, <2>1, <2>2, <2>3
<1>12. CASE UNCHANGED runVars
    BY <1>12 DEF TypeOK, RunTypes, runVars, Working, Waiters
<1>13. CASE UserStep
  <2>1. CASE \E s \in Loads : EscalateDrain(s)
      BY <1>9, <2>1
  <2> QED BY <1>12, <1>13, <2>1, ZenonT(60) DEF UserStep, Set, Refuse, Watch, Load, CloseScope, CloseStore
<1>14. CASE Machine
    BY <1>1, <1>3, <1>4, <1>8, <1>11, <1>12, <1>14 DEF Machine, EndTask, FlushTask, OverdueTask, FrameDone,
        FlushNothing, OfferClosed, ReportClosed
<1>15. CASE Return \/ Throw \/ \E s \in Loads : Continuation(s) \/ LoaderSettles(s)
    BY <1>5, <1>6, <1>7, <1>9, <1>12, <1>15 DEF Return, Throw, Continuation
<1>16. CASE UNCHANGED vars
    BY <1>12, <1>16 DEF vars
<1> QED BY <1>13, <1>14, <1>15, <1>16 DEF Next
-----------------------------------------------------------------------------
(* The call stack.                                                         *)

Height == Len(stack)
Work(f) == f.k \in {"flush", "closing", "leaving", "offer"}
\* The frames of work stay where they are.
SameWork ==
    /\ \A i \in DOMAIN stack : Work(stack[i]) => i \in DOMAIN stack' /\ stack'[i] = stack[i]
    /\ \A i \in DOMAIN stack' : Work(stack'[i]) => i \in DOMAIN stack /\ stack[i] = stack'[i]
\* Below the top nothing changes.
SameBelow == \A i \in 1 .. Height - 1 : i \in DOMAIN stack' /\ stack'[i] = stack[i]

\* One more at the end of a sequence.
LEMMA Pushed ==
    ASSUME NEW T, NEW q \in Seq(T), NEW f \in T
    PROVE  /\ Append(q, f) \in Seq(T) /\ Len(q) \in Nat
           /\ DOMAIN Append(q, f) = 1 .. Len(q) + 1
           /\ Len(Append(q, f)) = Len(q) + 1
           /\ \A i \in 1 .. Len(q) : Append(q, f)[i] = q[i]
           /\ Append(q, f)[Len(q) + 1] = f
OBVIOUS

LEMMA StackIsTyped ==
    ASSUME TypeOK
    PROVE  /\ stack \in Seq(Frames) /\ Height \in Nat /\ DOMAIN stack = 1 .. Height
           /\ \A i \in 1 .. Height : stack[i] \in Frames
           /\ Idle <=> Height = 0
BY DEF TypeOK, LoopTypes, Height, Idle

LEMMA QuietFrames ==
    ASSUME NEW c \in Contexts
    PROVE  /\ Report(c) \in Frames /\ Report(c).k = "report"
           /\ \A s \in Subs : \A as \in {"onChange", "onLoading", "loader", "outcome"} :
                 Call(s, c, as) \in Frames /\ Call(s, c, as).k = "call"
           /\ [k |-> "abort", ctx |-> c] \in Frames
BY DEF Report, Call, Frames, ReportFrame, CallFrame, AbortFrame

LEMMA OutsideIsTyped == Outside \in Contexts
BY DEF Contexts

\* A frame that is no work comes or goes on top.
LEMMA QuietPush ==
    ASSUME TypeOK, NEW f \in Frames, ~Work(f), stack' = Append(stack, f)
    PROVE  stack' \in Seq(Frames) /\ SameWork
<1>1. /\ stack' \in Seq(Frames) /\ DOMAIN stack' = 1 .. Height + 1
      /\ \A i \in 1 .. Height : stack'[i] = stack[i]
      /\ stack'[Height + 1] = f
    BY StackIsTyped, Pushed DEF Height
<1> QED BY <1>1, StackIsTyped DEF SameWork

LEMMA QuietPop ==
    ASSUME TypeOK, ~Idle, ~Work(Top), stack' = Under
    PROVE  stack' \in Seq(Frames) /\ SameWork
<1>1. /\ stack' \in Seq(Frames) /\ Height \in Nat \ {0} /\ Len(stack') = Height - 1
      /\ \A i \in 1 .. Height - 1 : stack'[i] = stack[i]
      /\ Top = stack[Height]
    BY TopIsFrame DEF TypeOK, LoopTypes, Height
<1>2. DOMAIN stack' = 1 .. Height - 1 /\ DOMAIN stack = 1 .. Height
    BY <1>1, StackIsTyped
<1> QED BY <1>1, <1>2 DEF SameWork

\* The steps that leave the frames of work alone.
QuietStep ==
    \/ \E st \in Stores : \E ks \in SUBSET KeysOf(st), c \in Acting : Refuse(st, ks, c)
    \/ Return \/ Throw \/ PublishTask \/ OverdueTask
    \/ \E s \in Loads : StartLoader(s)
    \/ UNCHANGED stack

LEMMA QuietSteps ==
    ASSUME TypeOK, QuietStep
    PROVE  stack' \in Seq(Frames) /\ SameWork
<1> USE ParametersAreTyped, StackIsTyped
<1>1. CASE \E st \in Stores : \E ks \in SUBSET KeysOf(st), c \in Acting : Refuse(st, ks, c)
  <2>1. PICK c \in Acting : stack' = Append(stack, Report(c))
      BY <1>1 DEF Refuse
  <2>2. c \in Contexts
      BY ActingIsTyped DEF TypeOK
  <2> QED BY <2>1, <2>2, QuietFrames, QuietPush DEF Work
<1>2. CASE Return
    BY <1>2, QuietPop DEF Return, Work
<1>3. CASE Throw
  <2>1. ~Idle /\ ~Work(Top) /\ stack' = Append(Under, Report(Outside))
      BY <1>3 DEF Throw, On, Work
  <2>2. /\ Under \in Seq(Frames) /\ Height \in Nat \ {0} /\ Len(Under) = Height - 1
        /\ \A i \in 1 .. Height - 1 : Under[i] = stack[i]
        /\ Top = stack[Height]
      BY <2>1, TopIsFrame DEF Height
  <2>3. Report(Outside) \in Frames /\ ~Work(Report(Outside))
      BY OutsideIsTyped, QuietFrames DEF Work
  <2>4. /\ stack' \in Seq(Frames) /\ DOMAIN stack' = 1 .. Height
        /\ \A i \in 1 .. Height - 1 : stack'[i] = stack[i]
        /\ stack'[Height] = Report(Outside)
      BY <2>1, <2>2, <2>3, Pushed
  <2> QED BY <2>1, <2>2, <2>3, <2>4 DEF SameWork
<1>4. CASE PublishTask \/ OverdueTask \/ \E s \in Loads : StartLoader(s)
  <2>1. CASE stack' = stack
      BY <2>1 DEF SameWork
  <2>2. CASE stack' # stack
    <3>1. Idle
        BY <1>4 DEF PublishTask, OverdueTask, StartLoader, Runs
    <3>2. \E f \in Frames : stack' = <<f>> /\ ~Work(f)
      <4>1. CASE PublishTask
        <5> DEFINE t == Head(tasks)
                   c == [depth |-> t.job.depth, of |-> t.s, win |-> t.win]
        <5>1. stack' = <<Call(t.s, c, "outcome")>>
            BY <2>2, <4>1, ZenonT(60) DEF PublishTask
        <5>2. t \in Tasks /\ t.k = "publish"
            BY <4>1, HeadIsTask DEF PublishTask
        <5>3. t.s \in Subs /\ c \in Contexts
            BY <5>2 DEF Tasks, Jobs, Contexts, Subs
        <5> HIDE DEF c, t
        <5> QED BY <5>1, <5>3, QuietFrames DEF Work
      <4>2. CASE OverdueTask
          BY <2>2, <4>2, OutsideIsTyped, QuietFrames DEF OverdueTask, Work
      <4>3. CASE \E s \in Loads : StartLoader(s)
        <5>1. PICK s \in Loads : StartLoader(s)
            BY <4>3
        <5> DEFINE c == [depth |-> job[s].depth, of |-> s, win |-> Unused]
        <5>2. stack' = <<Call(s, c, "loader")>>
            BY <2>2, <5>1, ZenonT(60) DEF StartLoader
        <5>3. job[s].depth \in Depths
            BY DEF TypeOK, RunTypes, Jobs, NoJob
        <5>4. c \in Contexts /\ s \in Subs
            BY <5>3, WindowIsTyped DEF TypeOK, Contexts, Subs
        <5> HIDE DEF c
        <5> QED BY <5>2, <5>4, QuietFrames DEF Work
      <4> QED BY <1>4, <4>1, <4>2, <4>3
    <3>3. PICK f \in Frames : stack' = <<f>> /\ ~Work(f)
        BY <3>2
    <3>4. stack' \in Seq(Frames) /\ DOMAIN stack' = {1} /\ stack'[1] = f /\ DOMAIN stack = {}
        BY <3>1, <3>3
    <3> QED BY <3>3, <3>4 DEF SameWork
  <2> QED BY <2>1, <2>2
<1>5. CASE UNCHANGED stack
    BY <1>5 DEF SameWork
<1> QED BY <1>1, <1>2, <1>3, <1>4, <1>5 DEF QuietStep

\* What each step that moves the frames of work does to the stack.
LEMMA TopOfWork ==
    ASSUME TypeOK, ~Idle
    PROVE  /\ Height \in Nat \ {0} /\ Top = stack[Height] /\ Top \in Frames
           /\ Under \in Seq(Frames) /\ Len(Under) = Height - 1 /\ DOMAIN Under = 1 .. Height - 1
           /\ DOMAIN stack = 1 .. Height
           /\ \A i \in 1 .. Height - 1 : Under[i] = stack[i]
<1>1. /\ Height \in Nat \ {0} /\ Top = stack[Height] /\ Top \in Frames
      /\ Under \in Seq(Frames) /\ Len(Under) = Height - 1
      /\ \A i \in 1 .. Height - 1 : Under[i] = stack[i]
    BY TopIsFrame DEF TypeOK, LoopTypes, Height
<1> QED BY <1>1, StackIsTyped

LEMMA CloseStoreEffect ==
    ASSUME TypeOK, NEW st \in Stores, NEW c \in Acting, CloseStore(st, c)
    PROVE  /\ stack' \in Seq(Frames) /\ Height \in Nat /\ DOMAIN stack = 1 .. Height
           /\ DOMAIN stack' = 1 .. Height + 1
           /\ \A i \in 1 .. Height : stack'[i] = stack[i]
           /\ stack'[Height + 1] = [k |-> "closing", st |-> st, ctx |-> c, told |-> FALSE, left |-> Live(st)]
<1> DEFINE f == [k |-> "closing", st |-> st, ctx |-> c, told |-> FALSE, left |-> Live(st)]
<1>1. f \in Frames
    BY ActingIsTyped DEF TypeOK, Frames, ClosingFrame, Live
<1>2. stack' = Append(stack, f)
    BY DEF CloseStore
<1> HIDE DEF f
<1>3. /\ stack' \in Seq(Frames) /\ DOMAIN stack' = 1 .. Height + 1
      /\ \A i \in 1 .. Height : stack'[i] = stack[i]
      /\ stack'[Height + 1] = f
    BY <1>1, <1>2, StackIsTyped, Pushed DEF Height
<1> QED BY <1>3, StackIsTyped DEF f

\* The live subscriptions of a scope.
Inside(x) == {s \in Subs : status[s] = "live" /\ ScopeOf[s] = x}

LEMMA CloseScopeEffect ==
    ASSUME TypeOK, NEW x \in Scopes, NEW c \in Acting, CloseScope(x, c)
    PROVE  /\ stack' \in Seq(Frames) /\ Height \in Nat /\ DOMAIN stack = 1 .. Height
           /\ DOMAIN stack' = 1 .. Height + 1
           /\ \A i \in 1 .. Height : stack'[i] = stack[i]
           /\ stack'[Height + 1].k = "leaving" /\ stack'[Height + 1].left = Inside(x)
<1> DEFINE f == [k |-> "leaving", ctx |-> c, left |-> Inside(x)]
<1>1. f \in Frames
    BY ActingIsTyped DEF TypeOK, Frames, LeavingFrame, Inside
<1>2. stack' = Append(stack, f)
    BY DEF CloseScope, Inside
<1>3. f.k = "leaving" /\ f.left = Inside(x)
    OBVIOUS
<1> HIDE DEF f
<1>4. /\ stack' \in Seq(Frames) /\ DOMAIN stack' = 1 .. Height + 1
      /\ \A i \in 1 .. Height : stack'[i] = stack[i]
      /\ stack'[Height + 1] = f
    BY <1>1, <1>2, StackIsTyped, Pushed DEF Height
<1> QED BY <1>3, <1>4, StackIsTyped

LEMMA ReportClosedEffect ==
    ASSUME TypeOK, ReportClosed
    PROVE  /\ stack' \in Seq(Frames) /\ Height \in Nat \ {0} /\ DOMAIN stack = 1 .. Height
           /\ DOMAIN stack' = 1 .. Height + 1
           /\ \A i \in 1 .. Height - 1 : stack'[i] = stack[i]
           /\ stack[Height] \in ClosingFrame /\ stack[Height].left # {}
           /\ stack'[Height] = [stack[Height] EXCEPT !.told = TRUE] /\ stack'[Height] \in ClosingFrame
           /\ stack'[Height + 1].k = "report"
<1> DEFINE f == [Top EXCEPT !.told = TRUE]
           g == Report(Top.ctx)
<1>1. ~Idle /\ Top.k = "closing" /\ Top.left # {} /\ stack' = Under \o <<f, g>>
    BY DEF ReportClosed, On
<1>2. Top \in ClosingFrame
    BY <1>1, TopOfWork, KindsOfFrames
<1>3. f \in ClosingFrame /\ Top.ctx \in Contexts
    BY <1>2 DEF ClosingFrame
<1>4. f \in Frames /\ g \in Frames /\ g.k = "report"
    BY <1>3, QuietFrames DEF Frames
<1> HIDE DEF f, g
<1>5. /\ stack' \in Seq(Frames) /\ Len(stack') = Len(Under) + 2
      /\ \A i \in 1 .. Len(Under) : stack'[i] = Under[i]
      /\ stack'[Len(Under) + 1] = f /\ stack'[Len(Under) + 2] = g
    BY <1>1, <1>4, TopOfWork, TwoMore
<1>6. Len(Under) = Height - 1 /\ Height \in Nat
    BY <1>1, TopOfWork
<1>7. Len(Under) + 1 = Height /\ Len(Under) + 2 = Height + 1
    BY <1>6
<1>8. stack'[Height] = f /\ stack'[Height + 1] = g /\ DOMAIN stack' = 1 .. Height + 1
    BY <1>5, <1>7
<1>9. \A i \in 1 .. Height - 1 : stack'[i] = stack[i]
    BY <1>1, <1>5, <1>6, TopOfWork
<1> QED BY <1>1, <1>2, <1>3, <1>4, <1>5, <1>8, <1>9, TopOfWork DEF f

LEMMA DetachClosedStack ==
    ASSUME TypeOK, Registered, DetachClosed
    PROVE  /\ stack' \in Seq(Frames) /\ Height \in Nat \ {0} /\ DOMAIN stack = 1 .. Height
           /\ \E n \in Nat : /\ DOMAIN stack' = 1 .. Height + n
                             /\ \A i \in Height + 1 .. Height + n : stack'[i].k = "abort"
           /\ \A i \in 1 .. Height - 1 : stack'[i] = stack[i]
           /\ stack[Height] \in ClosingFrame /\ stack'[Height] \in ClosingFrame
           /\ First(stack[Height].left) \in stack[Height].left
           /\ stack'[Height].st = stack[Height].st /\ ~stack'[Height].told
           /\ stack'[Height].left = stack[Height].left \ {First(stack[Height].left)}
<1> DEFINE s == First(Top.left)
           f == [Top EXCEPT !.told = FALSE, !.left = @ \ {s}]
<1>1. /\ ~Idle /\ Top \in ClosingFrame /\ s \in Top.left /\ f \in ClosingFrame
      /\ \E n \in Nat : stack' = Told(Append(Under, f), n, Top.ctx)
    BY DetachClosedEffect, ZenonT(60)
<1>2. f.st = Top.st /\ f.left = Top.left \ {s} /\ ~f.told /\ Top.ctx \in Contexts
    BY <1>1 DEF ClosingFrame
<1>3. f \in Frames
    BY <1>1 DEF Frames
<1> HIDE DEF f, s
<1> DEFINE q == Append(Under, f)
<1>4. /\ q \in Seq(Frames) /\ Len(q) = Height /\ q[Height] = f
      /\ \A i \in 1 .. Height - 1 : q[i] = stack[i]
  <2>1. /\ q \in Seq(Frames) /\ Len(q) = Len(Under) + 1 /\ q[Len(Under) + 1] = f
        /\ \A i \in 1 .. Len(Under) : q[i] = Under[i]
      BY <1>1, <1>3, TopOfWork, Pushed
  <2>2. Len(Under) = Height - 1 /\ Len(Under) + 1 = Height
      BY <1>1, TopOfWork
  <2> QED BY <1>1, <2>1, <2>2, TopOfWork
<1>5. PICK n \in Nat : stack' = Told(q, n, Top.ctx)
    BY <1>1
<1> HIDE DEF q
<1>6. /\ stack' \in Seq(Frames) /\ DOMAIN stack' = 1 .. Height + n
      /\ \A i \in 1 .. Height : stack'[i] = q[i]
      /\ \A i \in Height + 1 .. Height + n : stack'[i].k = "abort"
  <2> DEFINE e == Told(q, n, Top.ctx)
  <2>1. q \in Seq(Frames) /\ n \in Nat /\ Top.ctx \in Contexts
      BY <1>2, <1>4
  <2>2. /\ e \in Seq(Frames) /\ DOMAIN e = 1 .. Len(q) + n
        /\ \A i \in 1 .. Len(q) : e[i] = q[i]
        /\ \A i \in Len(q) + 1 .. Len(q) + n : e[i].k = "abort"
      BY <2>1, ToldFrames, ZenonT(60)
  <2>3. stack' = e
      BY <1>5, ZenonT(60)
  <2> HIDE DEF e
  <2> QED BY <1>4, <2>2, <2>3
<1>7. Height \in Nat \ {0} /\ DOMAIN stack = 1 .. Height /\ Top = stack[Height]
    BY <1>1, TopOfWork
<1>8. stack'[Height] = f /\ \A i \in 1 .. Height - 1 : stack'[i] = stack[i]
    BY <1>4, <1>6, <1>7
<1> QED BY <1>1, <1>2, <1>6, <1>7, <1>8 DEF s

LEMMA LeaveStack ==
    ASSUME TypeOK, Registered, Leave
    PROVE  /\ stack' \in Seq(Frames) /\ Height \in Nat \ {0} /\ DOMAIN stack = 1 .. Height
           /\ \E n \in Nat : /\ DOMAIN stack' = 1 .. Height + n
                             /\ \A i \in Height + 1 .. Height + n : stack'[i].k = "abort"
           /\ \A i \in 1 .. Height - 1 : stack'[i] = stack[i]
           /\ stack[Height] \in LeavingFrame /\ stack'[Height] \in LeavingFrame
           /\ First(stack[Height].left) \in stack[Height].left
           /\ stack'[Height].left = stack[Height].left \ {First(stack[Height].left)}
<1> DEFINE s == First(Top.left)
           f == [Top EXCEPT !.left = @ \ {s}]
<1>1. /\ ~Idle /\ Top \in LeavingFrame /\ s \in Top.left /\ f \in LeavingFrame
      /\ \E n \in Nat : stack' = Told(Append(Under, f), n, Top.ctx)
    BY LeaveEffect, ZenonT(60)
<1>2. f.left = Top.left \ {s} /\ Top.ctx \in Contexts
    BY <1>1 DEF LeavingFrame
<1>3. f \in Frames
    BY <1>1 DEF Frames
<1> HIDE DEF f, s
<1> DEFINE q == Append(Under, f)
<1>4. /\ q \in Seq(Frames) /\ Len(q) = Height /\ q[Height] = f
      /\ \A i \in 1 .. Height - 1 : q[i] = stack[i]
  <2>1. /\ q \in Seq(Frames) /\ Len(q) = Len(Under) + 1 /\ q[Len(Under) + 1] = f
        /\ \A i \in 1 .. Len(Under) : q[i] = Under[i]
      BY <1>1, <1>3, TopOfWork, Pushed
  <2>2. Len(Under) = Height - 1 /\ Len(Under) + 1 = Height
      BY <1>1, TopOfWork
  <2> QED BY <1>1, <2>1, <2>2, TopOfWork
<1>5. PICK n \in Nat : stack' = Told(q, n, Top.ctx)
    BY <1>1
<1> HIDE DEF q
<1>6. /\ stack' \in Seq(Frames) /\ DOMAIN stack' = 1 .. Height + n
      /\ \A i \in 1 .. Height : stack'[i] = q[i]
      /\ \A i \in Height + 1 .. Height + n : stack'[i].k = "abort"
  <2> DEFINE e == Told(q, n, Top.ctx)
  <2>1. q \in Seq(Frames) /\ n \in Nat /\ Top.ctx \in Contexts
      BY <1>2, <1>4
  <2>2. /\ e \in Seq(Frames) /\ DOMAIN e = 1 .. Len(q) + n
        /\ \A i \in 1 .. Len(q) : e[i] = q[i]
        /\ \A i \in Len(q) + 1 .. Len(q) + n : e[i].k = "abort"
      BY <2>1, ToldFrames, ZenonT(60)
  <2>3. stack' = e
      BY <1>5, ZenonT(60)
  <2> HIDE DEF e
  <2> QED BY <1>4, <2>2, <2>3
<1>7. Height \in Nat \ {0} /\ DOMAIN stack = 1 .. Height /\ Top = stack[Height]
    BY <1>1, TopOfWork
<1>8. stack'[Height] = f /\ \A i \in 1 .. Height - 1 : stack'[i] = stack[i]
    BY <1>4, <1>6, <1>7
<1> QED BY <1>1, <1>2, <1>6, <1>7, <1>8 DEF s

LEMMA FlushTaskEffect ==
    ASSUME TypeOK, FlushTask
    PROVE  /\ stack' \in Seq(Frames) /\ Height = 0 /\ DOMAIN stack = {} /\ DOMAIN stack' = {1}
           /\ Head(tasks) \in Tasks /\ Head(tasks).k = "flush" /\ Head(tasks).st \in Stores
           /\ stack'[1].k = "flush" /\ stack'[1].st = Head(tasks).st
           /\ stack'[1].left = {s \in dirty : Source(s) = Head(tasks).st}
<1> DEFINE t == Head(tasks)
           f == [k |-> "flush", st |-> t.st, win |-> t.win, left |-> {s \in dirty : Source(s) = t.st}]
<1>1. t \in Tasks /\ t.k = "flush" /\ Idle /\ stack' = <<f>>
    BY HeadIsTask DEF FlushTask
<1>2. t.st \in Stores /\ t.win \in Nat
    BY <1>1 DEF Tasks
<1>3. f \in Frames
    BY <1>2 DEF Frames, FlushFrame, TypeOK, SubTypes
<1> HIDE DEF f
<1>4. stack' \in Seq(Frames) /\ DOMAIN stack' = {1} /\ stack'[1] = f /\ Height = 0 /\ DOMAIN stack = {}
    BY <1>1, <1>3 DEF Height, Idle
<1> QED BY <1>1, <1>2, <1>4 DEF f

LEMMA FrameDoneEffect ==
    ASSUME TypeOK, FrameDone
    PROVE  /\ stack' \in Seq(Frames) /\ Height \in Nat \ {0} /\ DOMAIN stack = 1 .. Height
           /\ DOMAIN stack' = 1 .. Height - 1
           /\ \A i \in 1 .. Height - 1 : stack'[i] = stack[i]
           /\ \/ stack[Height].k \in {"flush", "closing", "leaving"} /\ stack[Height].left = {}
              \/ stack[Height].k = "flush" /\ closed[stack[Height].st]
BY TopOfWork DEF FrameDone

LEMMA FlushNothingEffect ==
    ASSUME TypeOK, Registered, FlushNothing
    PROVE  /\ stack' \in Seq(Frames) /\ Height \in Nat \ {0} /\ DOMAIN stack = 1 .. Height
           /\ DOMAIN stack' = 1 .. Height
           /\ \A i \in 1 .. Height - 1 : stack'[i] = stack[i]
           /\ stack[Height] \in FlushFrame /\ stack'[Height] \in FlushFrame /\ First(stack[Height].left) \in stack[Height].left
           /\ stack'[Height].st = stack[Height].st
           /\ stack'[Height].left = stack[Height].left \ {First(stack[Height].left)}
<1> DEFINE f == [Top EXCEPT !.left = @ \ {First(@)}]
<1>1. ~Idle /\ Flushing /\ stack' = Append(Under, f)
    BY DEF FlushNothing, Flushing, On, Flushed
<1>2. Top \in FlushFrame /\ First(Top.left) \in Top.left /\ f \in FlushFrame
    BY <1>1, FlushedIsOne
<1>3. f.st = Top.st /\ f.left = Top.left \ {First(Top.left)}
    BY <1>2 DEF FlushFrame
<1>4. f \in Frames
    BY <1>2 DEF Frames
<1> HIDE DEF f
<1>5. /\ stack' \in Seq(Frames) /\ DOMAIN stack' = 1 .. Len(Under) + 1
      /\ \A i \in 1 .. Len(Under) : stack'[i] = Under[i]
      /\ stack'[Len(Under) + 1] = f
    BY <1>1, <1>4, TopOfWork, Pushed
<1>6. Len(Under) = Height - 1 /\ Len(Under) + 1 = Height /\ Top = stack[Height]
    BY <1>1, TopOfWork
<1> QED BY <1>1, <1>2, <1>3, <1>5, <1>6, TopOfWork

LEMMA FlushDueEffect ==
    ASSUME TypeOK, Registered, \A k \in Keys : touched[k] <= revision[StoreOf[k]], FlushDue
    PROVE  /\ stack' \in Seq(Frames) /\ Height \in Nat \ {0} /\ DOMAIN stack = 1 .. Height
           /\ \A i \in 1 .. Height - 1 : stack'[i] = stack[i]
           /\ stack[Height] \in FlushFrame /\ stack'[Height] \in FlushFrame /\ First(stack[Height].left) \in stack[Height].left
           /\ stack'[Height].st = stack[Height].st
           /\ stack'[Height].left = stack[Height].left \ {First(stack[Height].left)}
           /\ LET s == First(stack[Height].left)
              IN  /\ s \in Subs /\ Due(s)
                  /\ \/ s \in Watches /\ DOMAIN stack' = 1 .. Height + 1 /\ stack'[Height + 1].k = "call" /\ stack'[Height + 1].s = s
                     \/ /\ s \in Loads /\ DOMAIN stack' = 1 .. Height + 2 /\ stack'[Height + 1] \in OfferFrame
                        /\ stack'[Height + 1].s = s /\ stack'[Height + 1].job.rev = Latest(s)
                        /\ stack'[Height + 2].k = "call" /\ stack'[Height + 2].s = s
<1> USE ParametersAreTyped
<1> DEFINE f == [Top EXCEPT !.left = @ \ {First(@)}]
           s == First(Top.left)
           c == [depth |-> depth[s], of |-> s, win |-> Top.win]
           o == [k |-> "offer", s |-> s, job |-> [rev |-> Latest(s), depth |-> depth[s]]]
<1>1. ~Idle /\ Flushing /\ Due(s)
    BY DEF FlushDue, Flushing, On
<1>2. Top \in FlushFrame /\ s \in Top.left /\ f \in FlushFrame /\ s \in Subs
    BY <1>1, FlushedIsOne
<1>3. f.st = Top.st /\ f.left = Top.left \ {s}
    BY <1>2 DEF FlushFrame
<1>4. f \in Frames
    BY <1>2 DEF Frames
<1>5. IF s \in Watches THEN stack' = Append(Append(Under, f), Call(s, c, "onChange"))
                       ELSE stack' = Append(Under, f) \o <<o, Call(s, c, "onLoading")>>
    BY DEF FlushDue, Flushed
<1>6. c \in Contexts
    BY <1>2 DEF Contexts, FlushFrame, TypeOK, SubTypes
<1>7. Latest(s) \in Nat
    BY <1>2, LatestIsWritten DEF TypeOK, StoreTypes
<1>8. s \in Watches \/ (s \in Loads /\ o \in OfferFrame)
  <2>1. [rev |-> Latest(s), depth |-> depth[s]] \in Jobs
      BY <1>2, <1>7 DEF Jobs, TypeOK, SubTypes
  <2> HIDE DEF s
  <2>2. s \in Loads => o \in OfferFrame
      BY <2>1 DEF OfferFrame
  <2> QED BY <1>2, <2>2 DEF Subs
<1>9. OfferFrame \subseteq Frames /\ o.s = s /\ o.job.rev = Latest(s)
    BY DEF Frames
<1> HIDE DEF c, o, f, s
<1> DEFINE q == Append(Under, f)
<1>10. /\ q \in Seq(Frames) /\ Len(q) = Height /\ q[Height] = f
       /\ \A i \in 1 .. Height - 1 : q[i] = stack[i]
  <2>1. /\ q \in Seq(Frames) /\ Len(q) = Len(Under) + 1 /\ q[Len(Under) + 1] = f
        /\ \A i \in 1 .. Len(Under) : q[i] = Under[i]
      BY <1>1, <1>4, TopOfWork, Pushed
  <2>2. Len(Under) = Height - 1 /\ Len(Under) + 1 = Height
      BY <1>1, TopOfWork
  <2> QED BY <1>1, <2>1, <2>2, TopOfWork
<1> HIDE DEF q
<1>11. Height \in Nat \ {0} /\ Top = stack[Height] /\ DOMAIN stack = 1 .. Height
    BY <1>1, TopOfWork
<1>12. CASE s \in Watches
  <2> DEFINE g == Call(s, c, "onChange")
  <2>1. g \in Frames /\ g.k = "call" /\ g.s = s /\ stack' = Append(q, g)
      BY <1>2, <1>5, <1>6, <1>12, QuietFrames DEF Call, q
  <2> HIDE DEF g
  <2>2. /\ stack' \in Seq(Frames) /\ DOMAIN stack' = 1 .. Height + 1
        /\ \A i \in 1 .. Height : stack'[i] = q[i]
        /\ stack'[Height + 1] = g
      BY <1>10, <2>1, Pushed
  <2> QED BY <1>1, <1>2, <1>3, <1>10, <1>11, <1>12, <2>1, <2>2 DEF s
<1>13. CASE s \notin Watches
  <2> DEFINE g == Call(s, c, "onLoading")
  <2>1. g \in Frames /\ g.k = "call" /\ g.s = s /\ stack' = q \o <<o, g>> /\ s \in Loads /\ o \in OfferFrame
      BY <1>2, <1>5, <1>6, <1>8, <1>13, QuietFrames DEF Call, q
  <2> HIDE DEF g
  <2>2. /\ stack' \in Seq(Frames) /\ Len(stack') = Height + 2
        /\ \A i \in 1 .. Height : stack'[i] = q[i]
        /\ stack'[Height + 1] = o /\ stack'[Height + 2] = g
      BY <1>9, <1>10, <2>1, TwoMore
  <2>3. DOMAIN stack' = 1 .. Height + 2
      BY <2>2
  <2> QED BY <1>1, <1>2, <1>3, <1>9, <1>10, <1>11, <2>1, <2>2, <2>3 DEF s
<1> QED BY <1>12, <1>13

LEMMA OfferEffect ==
    ASSUME TypeOK, OfferClosed \/ OfferStart \/ OfferWait
    PROVE  /\ stack' \in Seq(Frames) /\ Height \in Nat \ {0} /\ DOMAIN stack = 1 .. Height
           /\ \A i \in 1 .. Height - 1 : stack'[i] = stack[i]
           /\ stack[Height] \in OfferFrame /\ Top = stack[Height]
           /\ \/ DOMAIN stack' = 1 .. Height - 1
              \/ DOMAIN stack' = 1 .. Height /\ stack'[Height].k = "abort"
<1> DEFINE f == [k |-> "abort", ctx |-> Outside]
<1>1. On("offer") /\ (stack' = Under \/ stack' = Append(Under, f))
    BY DEF OfferClosed, OfferStart, OfferWait
<1>2. Top \in OfferFrame /\ ~Idle
    BY <1>1, OfferIsTyped
<1>3. f \in Frames /\ f.k = "abort"
    BY OutsideIsTyped, QuietFrames
<1> HIDE DEF f
<1>4. CASE stack' = Under
    BY <1>2, <1>4, TopOfWork
<1>5. CASE stack' = Append(Under, f)
  <2>1. /\ stack' \in Seq(Frames) /\ DOMAIN stack' = 1 .. Len(Under) + 1
        /\ \A i \in 1 .. Len(Under) : stack'[i] = Under[i]
        /\ stack'[Len(Under) + 1] = f
      BY <1>2, <1>3, <1>5, TopOfWork, Pushed
  <2>2. Len(Under) = Height - 1 /\ Len(Under) + 1 = Height /\ Top = stack[Height]
      BY <1>2, TopOfWork
  <2> QED BY <1>2, <1>3, <2>1, <2>2, TopOfWork
<1> QED BY <1>1, <1>4, <1>5
-----------------------------------------------------------------------------
(* The queue of tasks and the windows.                                     *)

FlushOf(st, w) == [k |-> "flush", st |-> st, win |-> w]
PublishOf(s, j, w) == [k |-> "publish", s |-> s, job |-> j, win |-> w]
OverdueOf(s) == [k |-> "overdue", s |-> s, win |-> 0]

LEMMA TasksAreTyped ==
    /\ \A st \in Stores, w \in Nat : FlushOf(st, w) \in Tasks
    /\ \A s \in Loads, j \in Jobs, w \in Nat : PublishOf(s, j, w) \in Tasks
    /\ \A s \in Loads : OverdueOf(s) \in Tasks
    /\ \A st \in Stores, w \in Nat, kind \in {"flush", "publish"} : Ending(kind, st, w) \in Tasks
BY DEF FlushOf, PublishOf, OverdueOf, Ending, Tasks

\* What a step does to the queue and to the count of publications.
LEMMA TaskSteps ==
    ASSUME TypeOK, Logged, [Next]_vars
    PROVE  \/ UNCHANGED <<tasks, publications>>
           \/ /\ \E st \in Stores, w \in Nat : tasks' = tasks \o <<FlushOf(st, w), Ending("flush", st, w)>>
              /\ publications' = publications
           \/ \E s \in Loads, w \in Nat :
                 /\ LoaderSettles(s) /\ IsCurrent(s, job[s]) /\ job[s] \in Jobs
                 /\ tasks' = tasks \o <<PublishOf(s, job[s], w), Ending("publish", Source(s), w)>>
                 /\ publications' = [publications EXCEPT ![Source(s)] = @ + 1]
           \/ \E s \in Loads : tasks' = Append(tasks, OverdueOf(s)) /\ publications' = publications
           \/ /\ FlushTask \/ PublishTask \/ OverdueTask
              /\ tasks # <<>> /\ tasks' = Tail(tasks) /\ Head(tasks).k # "end" /\ publications' = publications
           \/ /\ EndTask /\ tasks # <<>> /\ tasks' = Tail(tasks) /\ Head(tasks).k = "end"
              /\ publications' = IF Head(tasks).of = "publish"
                                 THEN [publications EXCEPT ![Head(tasks).st] = @ - 1] ELSE publications
<1> USE ParametersAreTyped
<1>1. CASE UserStep
  <2>1. ASSUME NEW st \in Stores, Schedule(st), publications' = publications
        PROVE  \/ UNCHANGED <<tasks, publications>>
               \/ /\ \E x \in Stores, w \in Nat : tasks' = tasks \o <<FlushOf(x, w), Ending("flush", x, w)>>
                  /\ publications' = publications
      BY <2>1, ScheduleEffect, ZenonT(60) DEF TypeOK, FlushOf
  <2>2. ASSUME NEW st \in Stores, NEW ks \in SUBSET KeysOf(st), NEW c \in Acting, Set(st, ks, c)
        PROVE  Schedule(st) /\ publications' = publications
      BY <2>2 DEF Set
  <2>3. ASSUME NEW s \in Watches, NEW c \in Acting, NEW r \in Readable(s), Watch(s, r, c)
        PROVE  publications' = publications /\ (Schedule(Source(s)) \/ UNCHANGED tasks) /\ Source(s) \in Stores
      BY <2>3 DEF Watch
  <2>4. ASSUME NEW s \in Loads, NEW c \in Acting, Load(s, c)
        PROVE  Schedule(Source(s)) /\ publications' = publications /\ Source(s) \in Stores
      BY <2>4 DEF Load
  <2>5. ASSUME NEW s \in Loads, EscalateDrain(s)
        PROVE  tasks' = Append(tasks, OverdueOf(s)) /\ publications' = publications
      BY <2>5 DEF EscalateDrain, OverdueOf
  <2>6. ASSUME (\E st \in Stores : \E ks \in SUBSET KeysOf(st), c \in Acting : Refuse(st, ks, c))
               \/ (\E x \in Scopes, c \in Acting : CloseScope(x, c))
               \/ (\E st \in Stores, c \in Acting : CloseStore(st, c))
        PROVE  UNCHANGED <<tasks, publications>>
      BY <2>6 DEF Refuse, CloseScope, CloseStore, taskVars
  <2>7. CASE \E st \in Stores : \E ks \in SUBSET KeysOf(st), c \in Acting : Set(st, ks, c)
      BY <2>1, <2>2, <2>7
  <2>8. CASE \E s \in Watches, c \in Acting : \E r \in Readable(s) : Watch(s, r, c)
      BY <2>1, <2>3, <2>8
  <2>9. CASE \E s \in Loads, c \in Acting : Load(s, c)
      BY <2>1, <2>4, <2>9
  <2>10. CASE \E s \in Loads : EscalateDrain(s)
      BY <2>5, <2>10
  <2> QED BY <1>1, <2>6, <2>7, <2>8, <2>9, <2>10, ZenonT(60) DEF UserStep
<1>2. CASE EndTask
  <2>1. Head(tasks).k = "end" /\ tasks # <<>>
      BY <1>2 DEF EndTask, Runs
  <2>2. /\ tasks' = Tail(tasks)
        /\ publications' = IF Head(tasks).of = "publish" THEN [publications EXCEPT ![Head(tasks).st] = @ - 1] ELSE publications
      BY <1>2, ZenonT(60) DEF EndTask
  <2> QED BY <1>2, <2>1, <2>2
<1>3. CASE FlushTask \/ PublishTask \/ OverdueTask
  <2>1. tasks # <<>> /\ Head(tasks).k # "end"
      BY <1>3 DEF FlushTask, PublishTask, OverdueTask, Runs
  <2>2. tasks' = Tail(tasks) /\ publications' = publications
      BY <1>3 DEF FlushTask, PublishTask, OverdueTask
  <2> QED BY <1>3, <2>1, <2>2
<1>4. CASE Machine
  <2>1. CASE ~(EndTask \/ FlushTask \/ PublishTask \/ OverdueTask)
      BY <1>4, <2>1 DEF Machine, FrameDone, FlushNothing, FlushDue, OfferClosed, OfferStart, OfferWait,
          ReportClosed, DetachClosed, Leave, taskVars
  <2> QED BY <1>2, <1>3, <2>1
<1>5. ASSUME NEW s \in Loads, LoaderSettles(s)
      PROVE  \/ UNCHANGED <<tasks, publications>>
             \/ \E w \in Nat :
                 /\ LoaderSettles(s) /\ IsCurrent(s, job[s]) /\ job[s] \in Jobs
                 /\ tasks' = tasks \o <<PublishOf(s, job[s], w), Ending("publish", Source(s), w)>>
                 /\ publications' = [publications EXCEPT ![Source(s)] = @ + 1]
  <2>1. CASE IsCurrent(s, job[s])
    <3>1. job[s].rev \in Nat
        BY <2>1, LatestIsWritten DEF IsCurrent, TypeOK, StoreTypes, Logged
    <3>2. job[s] \in Jobs
        BY <3>1 DEF TypeOK, RunTypes, NoJob
    <3>3. Unused \in Nat
        BY WindowIsTyped DEF TypeOK
    <3>4. tasks' = tasks \o Delivery([k |-> "publish", s |-> s, job |-> job[s], win |-> 0], Source(s))
          /\ publications' = [publications EXCEPT ![Source(s)] = @ + 1]
        BY <1>5, <2>1 DEF LoaderSettles
    <3>5. Delivery([k |-> "publish", s |-> s, job |-> job[s], win |-> 0], Source(s))
            = <<PublishOf(s, job[s], Unused), Ending("publish", Source(s), Unused)>>
        BY DEF Delivery, PublishOf, Ending
    <3> QED BY <1>5, <2>1, <3>2, <3>3, <3>4, <3>5
  <2>2. CASE ~IsCurrent(s, job[s])
      BY <1>5, <2>2 DEF LoaderSettles
  <2> QED BY <2>1, <2>2
<1>6. CASE Return \/ Throw \/ \E s \in Loads : Continuation(s)
    BY <1>6 DEF Return, Throw, Continuation, StartLoader, RunEnds, Drain, taskVars
<1>7. CASE UNCHANGED vars
    BY <1>7 DEF vars, taskVars
<1> QED BY <1>1, <1>4, <1>5, <1>6, <1>7, ZenonT(60) DEF Next

LEMMA TasksKept ==
    ASSUME TypeOK, Logged, [Next]_vars
    PROVE  tasks' \in Seq(Tasks) /\ publications' \in [Stores -> Int]
<1> USE ParametersAreTyped
<1>1. tasks \in Seq(Tasks) /\ publications \in [Stores -> Int]
    BY DEF TypeOK, LoopTypes
<1>2. CASE UNCHANGED <<tasks, publications>>
    BY <1>1, <1>2
<1>3. ASSUME NEW st \in Stores, NEW w \in Nat, tasks' = tasks \o <<FlushOf(st, w), Ending("flush", st, w)>>
      PROVE  tasks' \in Seq(Tasks)
  <2>1. FlushOf(st, w) \in Tasks /\ Ending("flush", st, w) \in Tasks
      BY TasksAreTyped
  <2> QED BY <1>1, <1>3, <2>1, TwoMore
<1>4. ASSUME NEW s \in Loads, NEW w \in Nat, job[s] \in Jobs,
             tasks' = tasks \o <<PublishOf(s, job[s], w), Ending("publish", Source(s), w)>>
      PROVE  tasks' \in Seq(Tasks)
  <2>1. PublishOf(s, job[s], w) \in Tasks /\ Ending("publish", Source(s), w) \in Tasks
      BY <1>4, TasksAreTyped
  <2> QED BY <1>1, <1>4, <2>1, TwoMore
<1>5. ASSUME NEW s \in Loads, tasks' = Append(tasks, OverdueOf(s))
      PROVE  tasks' \in Seq(Tasks)
  <2>1. OverdueOf(s) \in Tasks
      BY TasksAreTyped
  <2> QED BY <1>1, <1>5, <2>1
<1>6. ASSUME tasks # <<>>, tasks' = Tail(tasks)
      PROVE  tasks' \in Seq(Tasks)
    BY <1>1, <1>6
<1>7. tasks' \in Seq(Tasks)
    BY <1>1, <1>3, <1>4, <1>5, <1>6, TaskSteps
<1>9. publications' \in [Stores -> Int]
  <2>1. publications' = publications
        \/ \E st : publications' = [publications EXCEPT ![st] = @ + 1] \/ publications' = [publications EXCEPT ![st] = @ - 1]
      BY TaskSteps, ZenonT(60)
  <2> QED BY <1>1, <2>1
<1> QED BY <1>7, <1>9

LEMMA WindowsKept ==
    ASSUME TypeOK, [Next]_vars
    PROVE  windows' \in SUBSET Nat /\ IsFiniteSet(windows') /\ flushScheduled' \in [Stores -> BOOLEAN]
<1> USE ParametersAreTyped
<1>1. windows \in SUBSET Nat /\ IsFiniteSet(windows) /\ flushScheduled \in [Stores -> BOOLEAN]
    BY DEF TypeOK, LoopTypes
<1>2. ASSUME NEW st \in Stores, Schedule(st) PROVE windows' \in SUBSET Nat /\ IsFiniteSet(windows') /\ flushScheduled' \in [Stores -> BOOLEAN]
  <2>1. windows' \in SUBSET Nat /\ IsFiniteSet(windows') /\ flushScheduled' = [flushScheduled EXCEPT ![st] = TRUE]
      BY <1>2, ScheduleEffect, ZenonT(60) DEF TypeOK
  <2> QED BY <1>1, <2>1
<1>3. \A w : IsFiniteSet(windows \ {w}) /\ IsFiniteSet((windows \cup {Unused}) \ {w})
  <2> SUFFICES ASSUME NEW w PROVE IsFiniteSet(windows \ {w}) /\ IsFiniteSet((windows \cup {Unused}) \ {w})
      OBVIOUS
  <2> QED BY WindowIsTyped, FS_Difference, ZenonT(60) DEF TypeOK, LoopTypes
<1>4. ASSUME windows' = windows \/ windows' = windows \cup {Unused}
             \/ \E w : windows' = windows \ {w} \/ windows' = (windows \cup {Unused}) \ {w}
      PROVE  windows' \in SUBSET Nat /\ IsFiniteSet(windows')
    BY <1>1, <1>3, <1>4, WindowIsTyped DEF TypeOK
<1>5. ASSUME NEW s \in Watches, NEW r, NEW c, Watch(s, r, c)
      PROVE  Schedule(Source(s)) \/ UNCHANGED <<windows, flushScheduled>>
    BY <1>5 DEF Watch
<1>6. CASE UserStep
  <2>1. CASE UNCHANGED <<windows, flushScheduled>>
      BY <1>1, <2>1
  <2>2. CASE \E st \in Stores : \E ks \in SUBSET KeysOf(st), c \in Acting : Set(st, ks, c)
      BY <1>2, <2>2 DEF Set
  <2>3. CASE \E s \in Watches, c \in Acting : \E r \in Readable(s) : Watch(s, r, c)
      BY <1>2, <1>5, <2>1, <2>3
  <2>4. CASE \E s \in Loads, c \in Acting : Load(s, c)
      BY <1>2, <2>4 DEF Load
  <2> QED BY <1>6, <2>1, <2>2, <2>3, <2>4 DEF UserStep, Refuse, CloseScope, CloseStore, EscalateDrain, taskVars, contextVars
<1>7. CASE Machine
  <2>1. CASE EndTask
    <3>1. windows' = windows \ {Head(tasks).win} /\ flushScheduled' = flushScheduled
        BY <2>1, ZenonT(60) DEF EndTask
    <3> QED BY <1>1, <1>4, <3>1
  <2>2. CASE FlushTask
    <3>1. windows' = windows /\ flushScheduled' = [flushScheduled EXCEPT ![Head(tasks).st] = FALSE]
        BY <2>2, ZenonT(60) DEF FlushTask, Taken, contextVars
    <3> QED BY <1>1, <3>1
  <2>3. CASE UNCHANGED <<windows, flushScheduled>>
      BY <1>1, <2>3
  <2> QED BY <1>7, <2>1, <2>2, <2>3 DEF Machine, PublishTask, OverdueTask, FrameDone, FlushNothing, FlushDue,
        OfferClosed, OfferStart, OfferWait, ReportClosed, DetachClosed, Leave, taskVars, contextVars
<1>8. CASE Return \/ Throw \/ \E s \in Loads : Continuation(s) \/ LoaderSettles(s)
  <2>1. CASE UNCHANGED <<windows, flushScheduled>>
      BY <1>1, <2>1
  <2>2. CASE \E s \in Loads : StartLoader(s)
    <3>1. flushScheduled' = flushScheduled /\ (windows' = windows \/ windows' = windows \cup {Unused})
        BY <2>2 DEF StartLoader, taskVars
    <3> QED BY <1>1, <1>4, <3>1
  <2>3. CASE \E s \in Loads : LoaderSettles(s)
    <3>1. PICK s \in Loads : LoaderSettles(s)
        BY <2>3
    <3>2. flushScheduled' = flushScheduled
          /\ (windows' = windows \ {runLive[s]} \/ windows' = (windows \cup {Unused}) \ {runLive[s]})
        BY <3>1, ZenonT(60) DEF LoaderSettles
    <3> QED BY <1>1, <1>4, <3>2
  <2> QED BY <1>8, <2>1, <2>2, <2>3 DEF Return, Throw, Continuation, RunEnds, Drain, taskVars, contextVars
<1>9. CASE UNCHANGED vars
    BY <1>1, <1>9 DEF vars, taskVars, contextVars
<1> QED BY <1>6, <1>7, <1>8, <1>9 DEF Next

LEMMA ContextsKept ==
    ASSUME TypeOK, Registered, [Next]_vars
    PROVE  contexts' \in SUBSET Contexts /\ open' \in SUBSET Scopes
<1> USE ParametersAreTyped
<1>1. contexts \in SUBSET Contexts /\ open \in SUBSET Scopes
    BY DEF TypeOK, LoopTypes
<1>2. CASE UNCHANGED <<contexts, open>>
    BY <1>1, <1>2
<1>3. CASE \E x \in Scopes, c \in Acting : CloseScope(x, c)
  <2>1. contexts' = contexts /\ \E x : open' = open \ {x}
      BY <1>3, ZenonT(60) DEF CloseScope, contextVars
  <2> QED BY <1>1, <2>1
<1>4. CASE UserStep
  <2>1. \A st, ks, c : Set(st, ks, c) \/ Refuse(st, ks, c) => UNCHANGED contexts /\ UNCHANGED open
      BY DEF Set, Refuse, contextVars
  <2>2. \A s, r, c : Watch(s, r, c) \/ Load(s, c) \/ EscalateDrain(s) \/ CloseStore(s, c)
                      => UNCHANGED contexts /\ UNCHANGED open
      BY DEF Watch, Load, EscalateDrain, CloseStore, contextVars
  <2>3. CASE UNCHANGED contexts /\ UNCHANGED open
      BY <1>2, <2>3
  <2> QED BY <1>3, <1>4, <2>1, <2>2, <2>3, ZenonT(60) DEF UserStep
<1>5. CASE EndTask \/ \E s \in Loads : LoaderSettles(s)
  <2>1. contexts' \subseteq contexts /\ open' = open
      BY <1>5 DEF EndTask, LoaderSettles
  <2> QED BY <1>1, <2>1
<1>6. CASE FlushDue
  <2> DEFINE s == First(Top.left)
             c == [depth |-> depth[s], of |-> s, win |-> Top.win]
  <2>1. contexts' = contexts \cup {c} /\ open' = open
      BY <1>6, ZenonT(60) DEF FlushDue
  <2>2. s \in Subs /\ Top \in FlushFrame
      BY <1>6, FlushedIsOne DEF FlushDue
  <2>3. c \in Contexts
      BY <2>2 DEF Contexts, FlushFrame, TypeOK, SubTypes
  <2> HIDE DEF c
  <2> QED BY <1>1, <2>1, <2>3
<1>7. CASE PublishTask
  <2> DEFINE t == Head(tasks)
             c == [depth |-> t.job.depth, of |-> t.s, win |-> t.win]
  <2>1. (contexts' = contexts \/ contexts' = contexts \cup {c}) /\ open' = open
      BY <1>7, ZenonT(60) DEF PublishTask
  <2>2. t \in Tasks /\ t.k = "publish"
      BY <1>7, HeadIsTask DEF PublishTask
  <2>3. c \in Contexts
      BY <2>2 DEF Contexts, Tasks, Jobs
  <2> HIDE DEF c
  <2> QED BY <1>1, <2>1, <2>3
<1>8. CASE \E s \in Loads : StartLoader(s)
  <2>1. PICK s \in Loads : StartLoader(s)
      BY <1>8
  <2> DEFINE c == [depth |-> job[s].depth, of |-> s, win |-> Unused]
  <2>2. (contexts' = contexts \/ contexts' = contexts \cup {c}) /\ open' = open
      BY <2>1, ZenonT(60) DEF StartLoader
  <2>3. job[s].depth \in Depths
      BY DEF TypeOK, RunTypes, Jobs, NoJob
  <2>4. c \in Contexts
      BY <2>3, WindowIsTyped DEF TypeOK, Contexts
  <2> HIDE DEF c
  <2> QED BY <1>1, <2>2, <2>4
<1>9. CASE Machine
    BY <1>2, <1>5, <1>6, <1>7, <1>9 DEF Machine, FlushTask, OverdueTask, FrameDone, FlushNothing,
        OfferClosed, OfferStart, OfferWait, ReportClosed, DetachClosed, Leave, contextVars
<1>10. CASE Return \/ Throw \/ \E s \in Loads : Continuation(s) \/ LoaderSettles(s)
    BY <1>2, <1>5, <1>8, <1>10 DEF Return, Throw, Continuation, RunEnds, Drain, contextVars
<1>11. CASE UNCHANGED vars
    BY <1>2, <1>11 DEF vars, contextVars
<1> QED BY <1>4, <1>9, <1>10, <1>11 DEF Next

\* Every step is a quiet one or one of those that move the frames of work.
LEMMA StackMoves ==
    ASSUME [Next]_vars
    PROVE  \/ QuietStep /\ UNCHANGED closed
           \/ \E st \in Stores, c \in Acting : CloseStore(st, c)
           \/ \E x \in Scopes, c \in Acting : CloseScope(x, c)
           \/ ReportClosed \/ DetachClosed \/ Leave \/ FlushTask \/ FrameDone \/ FlushNothing \/ FlushDue
           \/ OfferClosed \/ OfferStart \/ OfferWait
<1> DEFINE Special == DetachClosed \/ Leave \/ FlushTask \/ FlushNothing \/ FlushDue \/ ReportClosed \/ FrameDone
              \/ OfferStart \/ OfferWait \/ OfferClosed \/ (\E st \in Stores, c \in Acting : CloseStore(st, c))
              \/ (\E x \in Scopes, c \in Acting : CloseScope(x, c))
           Quiet == \/ \E st \in Stores : \E ks \in SUBSET KeysOf(st), c \in Acting : Refuse(st, ks, c)
                    \/ Return \/ Throw \/ PublishTask \/ OverdueTask
                    \/ \E s \in Loads : StartLoader(s)
                    \/ UNCHANGED stack
<1>2. Special \/ (Quiet /\ UNCHANGED closed)
  <2>1. CASE UserStep
    <3>1. CASE \E st \in Stores : \E ks \in SUBSET KeysOf(st), c \in Acting : Refuse(st, ks, c)
        BY <3>1, ZenonT(60) DEF Refuse, storeVars
    <3>2. CASE \E x \in Scopes, c \in Acting : CloseScope(x, c)
        BY <3>2, ZenonT(60)
    <3>3. CASE \E st \in Stores, c \in Acting : CloseStore(st, c)
        BY <3>3, ZenonT(60)
    <3> HIDE DEF Special
    <3> DEFINE Same == UNCHANGED stack /\ UNCHANGED closed
    <3>4. CASE Same
        BY <3>4, ZenonT(60)
    <3>5. Same \/ (\E st \in Stores : \E ks \in SUBSET KeysOf(st), c \in Acting : Refuse(st, ks, c))
          \/ (\E x \in Scopes, c \in Acting : CloseScope(x, c))
          \/ (\E st \in Stores, c \in Acting : CloseStore(st, c))
      <4>1. \A st, ks, c : Set(st, ks, c) => Same
          BY ZenonT(60) DEF Set
      <4>2. \A s, r, c : Watch(s, r, c) \/ Load(s, c) \/ EscalateDrain(s) => Same
          BY ZenonT(60) DEF Watch, Load, EscalateDrain, storeVars
      <4> HIDE DEF Same
      <4> QED BY <2>1, <4>1, <4>2, ZenonT(60) DEF UserStep
    <3> QED BY <3>1, <3>2, <3>3, <3>4, <3>5, ZenonT(60)
  <2>2. CASE Machine
      BY <2>2 DEF Machine, EndTask, PublishTask, OverdueTask, storeVars
  <2>3. CASE Return \/ Throw \/ \E s \in Loads : Continuation(s) \/ LoaderSettles(s)
      BY <2>3 DEF Return, Throw, Continuation, StartLoader, RunEnds, Drain, LoaderSettles, storeVars
  <2>4. CASE UNCHANGED vars
      BY <2>4 DEF vars, storeVars
  <2> QED BY <2>1, <2>2, <2>3, <2>4 DEF Next
<1> QED BY <1>2, ZenonT(60) DEF QuietStep

LEMMA StackSteps ==
    ASSUME TypeOK, [Next]_vars
    PROVE  \/ stack' \in Seq(Frames) /\ SameWork /\ UNCHANGED closed
           \/ \E st \in Stores, c \in Acting : CloseStore(st, c)
           \/ \E x \in Scopes, c \in Acting : CloseScope(x, c)
           \/ ReportClosed \/ DetachClosed \/ Leave \/ FlushTask \/ FrameDone \/ FlushNothing \/ FlushDue
           \/ OfferClosed \/ OfferStart \/ OfferWait
BY StackMoves, QuietSteps, ZenonT(60)

LEMMA StackKept ==
    ASSUME TypeOK, Logged, Registered, [Next]_vars
    PROVE  stack' \in Seq(Frames)
<1>1. \A k \in Keys : touched[k] <= revision[StoreOf[k]]
    BY DEF Logged
<1> QED BY <1>1, StackSteps, CloseStoreEffect, ReportClosedEffect, DetachClosedStack, CloseScopeEffect, LeaveStack, FlushTaskEffect, FrameDoneEffect,
        FlushNothingEffect, FlushDueEffect, OfferEffect, ZenonT(60)

\* Type correctness is inductive, given the log and the registrations.
LEMMA TypeKept ==
    ASSUME TypeOK, Logged, Registered, [Next]_vars
    PROVE  TypeOK'
<1>1. /\ \A k \in Keys : touched[k] <= revision[StoreOf[k]]
      /\ \A st \in Stores : Len(log[st]) = revision[st]
    BY DEF Logged
<1>2. StoreTypes'
    BY StoreTypesKept
<1>3. SubTypes'
    BY <1>1, SubTypesKept
<1>4. RunTypes'
    BY <1>1, RunTypesKept
<1>5. LoopTypes'
    BY TasksKept, WindowsKept, ContextsKept, StackKept DEF LoopTypes
<1> QED BY <1>2, <1>3, <1>4, <1>5 DEF TypeOK

LEMMA TypeStarts ==
    ASSUME Init
    PROVE  TypeOK
<1> USE ParametersAreTyped
<1>1. StoreTypes
  <2>1. [depth |-> 0, win |-> 0] \in Causes
      BY DEF Causes
  <2> QED BY <2>1 DEF Init, StoreTypes, Depths
<1>2. SubTypes
    BY DEF Init, SubTypes
<1>3. RunTypes
  <2>1. Working = {} /\ Waiters = {}
      BY DEF Init, Working, Waiters
  <2> QED BY <2>1, FS_EmptySet DEF Init, RunTypes
<1>4. LoopTypes
    BY FS_EmptySet DEF Init, LoopTypes
<1> QED BY <1>1, <1>2, <1>3, <1>4 DEF TypeOK
-----------------------------------------------------------------------------
(* Commits.                                                                *)

\* Only commits and close() change the values of a store.
LEMMA StoreSteps ==
    ASSUME [Next]_vars
    PROVE  \/ \E st \in Stores : \E ks \in SUBSET KeysOf(st), c \in Acting : Set(st, ks, c)
           \/ \E st \in Stores, c \in Acting : CloseStore(st, c)
           \/ UNCHANGED <<closed, revision, touched, slots, log>>
<1>1. CASE UserStep
    BY <1>1 DEF UserStep, Refuse, Watch, Load, CloseScope, EscalateDrain, storeVars
<1>2. CASE Machine
    BY <1>2 DEF Machine, EndTask, FlushTask, PublishTask, OverdueTask, FrameDone, FlushNothing, FlushDue,
        OfferClosed, OfferStart, OfferWait, ReportClosed, DetachClosed, Leave, storeVars
<1>3. CASE Return \/ Throw \/ \E s \in Loads : Continuation(s) \/ LoaderSettles(s)
    BY <1>3, ZenonT(60) DEF Return, Throw, Continuation, StartLoader, RunEnds, Drain, LoaderSettles, storeVars
<1>4. CASE UNCHANGED vars
    BY <1>4 DEF vars, storeVars
<1> QED BY <1>1, <1>2, <1>3, <1>4 DEF Next

\* What a commit writes.
Written(st, ks, c) ==
    /\ revision[st] + 1 \in Nat /\ c.depth + 1 \in Depths
    /\ \A x \in Stores : revision'[x] = IF x = st THEN revision[st] + 1 ELSE revision[x]
    /\ \A k \in Keys : touched'[k] = IF k \in ks THEN revision[st] + 1 ELSE touched[k]
    /\ \A k \in Keys, e \in Depths :
          slots'[k][e] = IF k \in ks /\ e = c.depth + 1 THEN revision[st] + 1 ELSE slots[k][e]
    /\ \A x \in Stores : Len(log'[x]) = revision'[x]
    /\ \A x \in Stores : \A n \in 1 .. revision[x] : log'[x][n] = log[x][n]
    /\ log'[st][revision[st] + 1] = [keys |-> ks, depth |-> c.depth + 1]
    /\ \A k \in ks : k \in Keys /\ StoreOf[k] = st
    /\ ~closed[st] /\ closed' = closed

\* A commit writes the next revision to its keys, its depth's slots and the log.
LEMMA SetEffect ==
    ASSUME TypeOK, Logged, NEW st \in Stores, NEW ks \in SUBSET KeysOf(st), NEW c \in Acting, Set(st, ks, c)
    PROVE  Written(st, ks, c)
<1> USE ParametersAreTyped
<1> DEFINE r == revision[st] + 1
           d == c.depth + 1
           e == [keys |-> ks, depth |-> d]
<1>1. /\ revision' = [revision EXCEPT ![st] = r] /\ closed' = closed /\ ~closed[st]
      /\ touched' = [k \in Keys |-> IF k \in ks THEN r ELSE touched[k]]
      /\ slots' = [k \in Keys |-> IF k \in ks THEN [slots[k] EXCEPT ![d] = r] ELSE slots[k]]
      /\ log' = [log EXCEPT ![st] = Append(@, e)]
    BY ZenonT(60) DEF Set, Patch
<1>2. d \in Depths /\ r \in Nat
    BY SetIsTyped DEF TypeOK, StoreTypes
<1>3. \A k \in ks : k \in Keys /\ StoreOf[k] = st
    BY DEF KeysOf
<1> HIDE DEF e, d
<1>4. \A k \in Keys, x \in Depths : slots'[k][x] = IF k \in ks /\ x = d THEN r ELSE slots[k][x]
    BY <1>1, <1>2 DEF TypeOK, StoreTypes
<1>5. \A x \in Stores : log[x] \in Seq(Commits) /\ Len(log[x]) = revision[x] /\ revision[x] \in Nat
    BY DEF TypeOK, StoreTypes, Logged
<1>6. \A x \in Stores : revision'[x] = IF x = st THEN r ELSE revision[x]
    BY <1>1 DEF TypeOK, StoreTypes
<1>7. \A x \in Stores : log'[x] = IF x = st THEN Append(log[st], e) ELSE log[x]
    BY <1>1 DEF TypeOK, StoreTypes
<1>12. /\ Len(log'[st]) = r /\ log'[st][r] = e
       /\ \A n \in 1 .. revision[st] : log'[st][n] = log[st][n]
  <2>1. e \in Commits
      BY <1>2 DEF e, Commits, KeysOf, d
  <2>2. /\ Len(Append(log[st], e)) = Len(log[st]) + 1 /\ Append(log[st], e)[Len(log[st]) + 1] = e
        /\ \A n \in 1 .. Len(log[st]) : Append(log[st], e)[n] = log[st][n]
      BY <1>5, <2>1, Pushed
  <2> QED BY <1>5, <1>7, <2>2
<1>8. \A x \in Stores : Len(log'[x]) = revision'[x]
    BY <1>5, <1>6, <1>7, <1>12
<1>9. \A x \in Stores : \A n \in 1 .. revision[x] : log'[x][n] = log[x][n]
    BY <1>7, <1>12
<1>10. log'[st][r] = e
    BY <1>12
<1>11. \A k \in Keys : touched'[k] = IF k \in ks THEN r ELSE touched[k]
    BY <1>1
<1> QED BY <1>1, <1>2, <1>3, <1>4, <1>6, <1>8, <1>9, <1>10, <1>11 DEF Written, e, d

\* The newest revision of a key is the last commit in the log that wrote it.
LEMMA LoggedKept ==
    ASSUME TypeOK, Logged, [Next]_vars
    PROVE  Logged'
<1> USE ParametersAreTyped
<1>1. ASSUME NEW st \in Stores, NEW ks \in SUBSET KeysOf(st), NEW c \in Acting, Set(st, ks, c)
      PROVE  Logged'
  <2> DEFINE r == revision[st] + 1
  <2>1. /\ r \in Nat
        /\ \A x \in Stores : revision'[x] = IF x = st THEN r ELSE revision[x]
        /\ \A k \in Keys : touched'[k] = IF k \in ks THEN r ELSE touched[k]
        /\ \A x \in Stores : Len(log'[x]) = revision'[x]
        /\ \A x \in Stores : \A n \in 1 .. revision[x] : log'[x][n] = log[x][n]
        /\ \A k \in ks : k \in Keys /\ StoreOf[k] = st
        /\ log'[st][r].keys = ks
    <3>1. Written(st, ks, c)
        BY <1>1, SetEffect
    <3> QED BY <3>1 DEF Written
  <2>2. ASSUME NEW k \in Keys
        PROVE  /\ touched'[k] <= revision'[StoreOf[k]]
               /\ \A n \in 1 .. revision'[StoreOf[k]] : k \in log'[StoreOf[k]][n].keys => n <= touched'[k]
    <3>1. /\ StoreOf[k] \in Stores /\ revision[StoreOf[k]] \in Nat /\ touched[k] \in Nat
          /\ touched[k] <= revision[StoreOf[k]]
          /\ \A n \in 1 .. revision[StoreOf[k]] : k \in log[StoreOf[k]][n].keys => n <= touched[k]
        BY DEF TypeOK, StoreTypes, Logged, Wrote
    <3>2. CASE k \in ks
        BY <2>1, <3>1, <3>2
    <3>3. CASE k \notin ks
      <4> DEFINE x == StoreOf[k]
      <4>1. touched'[k] = touched[k] /\ touched[k] <= revision'[x]
          BY <2>1, <3>1, <3>3
      <4>2. ASSUME NEW n \in 1 .. revision'[x], k \in log'[x][n].keys PROVE n <= touched[k]
        <5>1. n \in 1 .. revision[x] \/ (x = st /\ n = r)
            BY <2>1, <3>1
        <5>2. ~(x = st /\ n = r)
            BY <2>1, <3>3, <4>2
        <5>3. n \in 1 .. revision[x] /\ log'[x][n] = log[x][n]
            BY <2>1, <3>1, <5>1, <5>2
        <5> QED BY <3>1, <4>2, <5>3
      <4> QED BY <4>1, <4>2
    <3> QED BY <3>2, <3>3
  <2> QED BY <2>1, <2>2 DEF Logged, Wrote
<1>2. CASE UNCHANGED <<revision, touched, log>>
    BY <1>2 DEF Logged, Wrote
<1> QED BY <1>1, <1>2, StoreSteps DEF CloseStore

\* Per key and depth, the slots of an open store hold the last commit of that depth.
LEMMA SlottedKept ==
    ASSUME TypeOK, Logged, Slotted, [Next]_vars
    PROVE  Slotted'
<1> USE ParametersAreTyped
<1>1. ASSUME NEW st \in Stores, NEW ks \in SUBSET KeysOf(st), NEW c \in Acting, Set(st, ks, c)
      PROVE  Slotted'
  <2> DEFINE r == revision[st] + 1
             d == c.depth + 1
  <2>1. /\ r \in Nat /\ d \in Depths /\ closed' = closed
        /\ \A x \in Stores : revision'[x] = IF x = st THEN r ELSE revision[x]
        /\ \A k \in Keys, e \in Depths : slots'[k][e] = IF k \in ks /\ e = d THEN r ELSE slots[k][e]
        /\ \A x \in Stores : \A n \in 1 .. revision[x] : log'[x][n] = log[x][n]
        /\ \A k \in ks : k \in Keys /\ StoreOf[k] = st
        /\ log'[st][r].keys = ks /\ log'[st][r].depth = d
    <3>1. Written(st, ks, c)
        BY <1>1, SetEffect
    <3> QED BY <3>1 DEF Written
  <2> HIDE DEF d
  <2>2. ASSUME NEW k \in Keys, ~closed[StoreOf[k]], NEW e \in Depths
        PROVE  /\ slots'[k][e] # 0 => /\ slots'[k][e] <= revision'[StoreOf[k]]
                                      /\ k \in log'[StoreOf[k]][slots'[k][e]].keys
                                      /\ log'[StoreOf[k]][slots'[k][e]].depth = e
               /\ \A n \in 1 .. revision'[StoreOf[k]] :
                     k \in log'[StoreOf[k]][n].keys /\ log'[StoreOf[k]][n].depth = e => n <= slots'[k][e]
    <3>1. StoreOf[k] \in Stores /\ revision[StoreOf[k]] \in Nat /\ slots[k][e] \in Nat
        BY DEF TypeOK, StoreTypes
    <3>2. /\ slots[k][e] # 0 => /\ slots[k][e] <= revision[StoreOf[k]]
                                /\ k \in log[StoreOf[k]][slots[k][e]].keys
                                /\ log[StoreOf[k]][slots[k][e]].depth = e
          /\ \A n \in 1 .. revision[StoreOf[k]] :
                k \in log[StoreOf[k]][n].keys /\ log[StoreOf[k]][n].depth = e => n <= slots[k][e]
        BY <2>2 DEF Slotted, Wrote
    <3>3. CASE k \in ks /\ e = d
        BY <2>1, <3>1, <3>2, <3>3
    <3>4. CASE ~(k \in ks /\ e = d)
        BY <2>1, <3>1, <3>2, <3>4
    <3> QED BY <3>3, <3>4
  <2> QED BY <2>1, <2>2 DEF Slotted, Wrote
<1>2. ASSUME NEW st \in Stores, NEW c \in Acting, CloseStore(st, c)
      PROVE  Slotted'
  <2>1. /\ closed' = [closed EXCEPT ![st] = TRUE] /\ UNCHANGED <<revision, log>>
        /\ slots' = [k \in Keys |-> IF StoreOf[k] = st THEN [d \in 0 .. MaxDepth |-> 0] ELSE slots[k]]
      BY <1>2 DEF CloseStore
  <2>2. \A k \in Keys : ~closed'[StoreOf[k]] => ~closed[StoreOf[k]] /\ slots'[k] = slots[k]
      BY <2>1 DEF TypeOK, StoreTypes
  <2> QED BY <2>1, <2>2 DEF Slotted, Wrote
<1>3. CASE UNCHANGED <<closed, revision, slots, log>>
    BY <1>3 DEF Slotted, Wrote
<1> QED BY <1>1, <1>2, <1>3, StoreSteps

\* The newest revision is the greatest that touched a followed key.
LEMMA LatestIs ==
    ASSUME NEW t \in [Keys -> Nat], NEW s \in Subs, NEW n \in Nat,
           \A k \in Follows[s] : t[k] <= n, \E k \in Follows[s] : t[k] = n
    PROVE  MaxOf({t[k] : k \in Follows[s]}) = n
<1> DEFINE S == {t[k] : k \in Follows[s]}
<1>1. \A k \in Follows[s] : k \in Keys
    BY ParametersAreTyped
<1>2. S \in SUBSET Nat /\ (\A x \in S : x <= n) /\ n \in S
    BY <1>1
<1> HIDE DEF S
<1>3. MaxOf(S) \in 0 .. n /\ \A x \in S : x <= MaxOf(S)
    BY <1>2, MaxOfIsGreatest
<1> DEFINE m == MaxOf(S)
<1>4. m \in 0 .. n /\ n <= m
    BY <1>2, <1>3
<1> HIDE DEF m
<1>5. m = n
    BY <1>4
<1> QED BY <1>5 DEF m, S

\* A commit moves the newest revision of exactly the subscriptions that follow its keys.
LEMMA LatestMoves ==
    ASSUME TypeOK, Logged, NEW st \in Stores, NEW ks \in SUBSET KeysOf(st), NEW c \in Acting, Set(st, ks, c),
           NEW s \in Subs
    PROVE  /\ Follows[s] \cap ks # {} => Source(s) = st /\ Latest(s)' = revision[st] + 1 /\ Latest(s) < revision[st] + 1
           /\ Follows[s] \cap ks = {} => Latest(s)' = Latest(s)
<1> USE ParametersAreTyped
<1> DEFINE r == revision[st] + 1
<1>1. /\ r \in Nat /\ \A k \in ks : k \in Keys /\ StoreOf[k] = st
      /\ \A k \in Keys : touched'[k] = IF k \in ks THEN r ELSE touched[k]
  <2>1. Written(st, ks, c)
      BY SetEffect
  <2> QED BY <2>1 DEF Written
<1>2. touched' \in [Keys -> Nat]
  <2>1. touched' = [k \in Keys |-> IF k \in ks THEN r ELSE touched[k]]
      BY ZenonT(60) DEF Set
  <2> QED BY <1>1, <2>1 DEF TypeOK, StoreTypes
<1>3. Latest(s)' = MaxOf({touched'[k] : k \in Follows[s]})
    BY DEF Latest
<1>4. Latest(s) \in Nat /\ Latest(s) <= revision[Source(s)]
      /\ (\A k \in Follows[s] : touched[k] <= Latest(s)) /\ \E k \in Follows[s] : touched[k] = Latest(s)
    BY LatestIsWritten DEF TypeOK, StoreTypes, Logged
<1>5. \A k \in Follows[s] : k \in Keys /\ touched[k] \in Nat /\ StoreOf[k] = Source(s)
    BY DEF TypeOK, StoreTypes
<1> DEFINE m == Latest(s)
<1>6. m \in Nat /\ m <= revision[Source(s)]
      /\ (\A k \in Follows[s] : touched[k] <= m) /\ \E k \in Follows[s] : touched[k] = m
    BY <1>4
<1> HIDE DEF m
<1>7. CASE Follows[s] \cap ks # {}
  <2>1. Source(s) = st
      BY <1>1, <1>5, <1>7
  <2>2. revision[st] \in Nat
      BY DEF TypeOK, StoreTypes
  <2>3. m < r
      BY <1>6, <2>1, <2>2
  <2>4. (\A k \in Follows[s] : touched'[k] <= r) /\ \E k \in Follows[s] : touched'[k] = r
      BY <1>1, <1>5, <1>6, <1>7, <2>3
  <2> HIDE DEF r
  <2>5. Latest(s)' = r
      BY <1>1, <1>2, <1>3, <2>4, LatestIs
  <2> QED BY <1>7, <2>1, <2>3, <2>5 DEF r, m
<1>8. CASE Follows[s] \cap ks = {}
  <2>1. (\A k \in Follows[s] : touched'[k] <= m) /\ \E k \in Follows[s] : touched'[k] = m
      BY <1>1, <1>5, <1>6, <1>8
  <2>2. Latest(s)' = m
      BY <1>2, <1>3, <1>6, <2>1, LatestIs
  <2> QED BY <1>8, <2>2 DEF m
<1> QED BY <1>7, <1>8
-----------------------------------------------------------------------------
(* Subscriptions.                                                          *)

\* The steps that change subscriptions.
LEMMA SubSteps ==
    ASSUME [Next]_vars
    PROVE  \/ UNCHANGED <<status, order, depth, delivered, dirty>>
           \/ \E st \in Stores : \E ks \in SUBSET KeysOf(st), c \in Acting : Set(st, ks, c)
           \/ \E s \in Watches, c \in Acting : \E r \in Readable(s) : Watch(s, r, c)
           \/ \E s \in Loads, c \in Acting : Load(s, c)
           \/ \E st \in Stores, c \in Acting : CloseStore(st, c)
           \/ FlushTask \/ FlushNothing \/ FlushDue \/ DetachClosed \/ Leave
<1>1. CASE UserStep
    BY <1>1 DEF UserStep, Refuse, CloseScope, EscalateDrain, subVars
<1>2. CASE Machine
    BY <1>2 DEF Machine, EndTask, PublishTask, OverdueTask, FrameDone, OfferClosed, OfferStart, OfferWait,
        ReportClosed, subVars
<1>3. CASE Return \/ Throw \/ \E s \in Loads : Continuation(s) \/ LoaderSettles(s)
    BY <1>3, ZenonT(60) DEF Return, Throw, Continuation, StartLoader, RunEnds, Drain, LoaderSettles, subVars
<1>4. CASE UNCHANGED vars
    BY <1>4 DEF vars, subVars
<1> QED BY <1>1, <1>2, <1>3, <1>4, ZenonT(60) DEF Next

\* Who is detached by a closing scope or store.
LEMMA Detaching ==
    ASSUME TypeOK, Registered, Leave \/ DetachClosed
    PROVE  \E G \in SUBSET Subs :
              /\ \A s \in G : status[s] = "live"
              /\ status' = [s \in Subs |-> IF s \in G THEN "off" ELSE status[s]]
              /\ dirty' = dirty \ G
              /\ waiting' = [s \in Loads |-> IF s \in G THEN NoJob ELSE waiting[s]]
              /\ \A s \in Loads \ G : aborted'[s] = aborted[s]
              /\ loads' = [st \in Stores |-> loads[st] - Cleared(G)[st]]
              /\ \A s \in Loads : drain'[s] = "none" => drain[s] = "none" /\ s \notin G
<1> USE ParametersAreTyped
<1>1. CASE Leave
  <2> DEFINE s == First(Top.left)
             G == {t \in {s} : status[t] = "live"}
  <2>1. /\ s \in Subs
        /\ status' = [t \in Subs |-> IF t \in G THEN "off" ELSE status[t]]
        /\ dirty' = dirty \ G
        /\ waiting' = [t \in Loads |-> IF t \in G THEN NoJob ELSE waiting[t]]
        /\ \A t \in Loads \ G : aborted'[t] = aborted[t]
        /\ loads' = [st \in Stores |-> loads[st] - Cleared(G)[st]]
        /\ drain' = [t \in Loads |-> IF t = s /\ drain[t] = "none" /\ status[t] # "new"
                                     THEN "waiting" ELSE drain[t]]
      BY <1>1, LeaveEffect, ZenonT(60)
  <2> HIDE DEF s
  <2>2. \A t \in Loads : drain'[t] = "none" => drain[t] = "none" /\ t \notin G
      BY <2>1
  <2>3. G \in SUBSET Subs /\ \A t \in G : status[t] = "live"
      BY <2>1
  <2> HIDE DEF G
  <2> QED BY <2>1, <2>2, <2>3, ZenonT(60)
<1>2. CASE DetachClosed
  <2> DEFINE s == First(Top.left)
             G == {t \in {s} : status[t] = "live"}
  <2>1. /\ s \in Subs
        /\ status' = [t \in Subs |-> IF t \in G THEN "off" ELSE status[t]]
        /\ dirty' = dirty \ G
        /\ waiting' = [t \in Loads |-> IF t \in G THEN NoJob ELSE waiting[t]]
        /\ \A t \in Loads \ G : aborted'[t] = aborted[t]
        /\ loads' = [st \in Stores |-> loads[st] - Cleared(G)[st]]
        /\ drain' = [t \in Loads |-> IF t = s /\ drain[t] = "none" /\ status[t] # "new"
                                     THEN "waiting" ELSE drain[t]]
      BY <1>2, DetachClosedEffect, ZenonT(60)
  <2> HIDE DEF s
  <2>2. \A t \in Loads : drain'[t] = "none" => drain[t] = "none" /\ t \notin G
      BY <2>1
  <2>3. G \in SUBSET Subs /\ \A t \in G : status[t] = "live"
      BY <2>1
  <2> HIDE DEF G
  <2> QED BY <2>1, <2>2, <2>3, ZenonT(60)
<1> QED BY <1>1, <1>2

\* A subscription goes from new to live to off, and becomes live only by registering.
LEMMA StatusMoves ==
    ASSUME TypeOK, Registered, [Next]_vars
    PROVE  \A s \in Subs : /\ status'[s] = "new" => status[s] = "new"
                           /\ status[s] = "off" => status'[s] = "off"
                           /\ status'[s] = "live" /\ status[s] # "live" =>
                                 /\ status[s] = "new" /\ ~closed[Source(s)] /\ closed' = closed
                                 /\ \/ s \in Watches /\ \E c \in Acting : \E r \in Readable(s) : Watch(s, r, c)
                                    \/ s \in Loads /\ \E c \in Acting : Load(s, c)
<1> USE ParametersAreTyped
<1>1. CASE status' = status
    BY <1>1
<1>2. ASSUME NEW s \in Watches, NEW c \in Acting, NEW r \in Readable(s), Watch(s, r, c)
      PROVE  status' = [status EXCEPT ![s] = "live"] /\ status[s] = "new" /\ ~closed[Source(s)] /\ closed' = closed
    BY <1>2 DEF Watch, Attach, Admits, storeVars
<1>3. ASSUME NEW s \in Loads, NEW c \in Acting, Load(s, c)
      PROVE  status' = [status EXCEPT ![s] = "live"] /\ status[s] = "new" /\ ~closed[Source(s)] /\ closed' = closed
    BY <1>3 DEF Load, Attach, Admits, storeVars
<1>4. CASE Leave \/ DetachClosed
  <2>1. PICK G \in SUBSET Subs : /\ \A s \in G : status[s] = "live"
                                 /\ status' = [s \in Subs |-> IF s \in G THEN "off" ELSE status[s]]
      BY <1>4, Detaching, ZenonT(60)
  <2> QED BY <2>1
<1>5. CASE \E s \in Watches, c \in Acting : \E r \in Readable(s) : Watch(s, r, c)
  <2>0. PICK s \in Watches, c \in Acting : \E r \in Readable(s) : Watch(s, r, c)
      BY <1>5
  <2>1. PICK r \in Readable(s) : Watch(s, r, c)
      BY <2>0
  <2>2. status' = [status EXCEPT ![s] = "live"] /\ status[s] = "new" /\ ~closed[Source(s)] /\ closed' = closed
      BY <1>2, <2>1
  <2>3. \E x \in Acting : \E y \in Readable(s) : Watch(s, y, x)
      BY <2>1
  <2> QED BY <2>2, <2>3 DEF TypeOK, SubTypes
<1>6. CASE \E s \in Loads, c \in Acting : Load(s, c)
  <2>1. PICK s \in Loads, c \in Acting : Load(s, c)
      BY <1>6
  <2>2. status' = [status EXCEPT ![s] = "live"] /\ status[s] = "new" /\ ~closed[Source(s)] /\ closed' = closed
      BY <1>3, <2>1
  <2> QED BY <2>1, <2>2 DEF TypeOK, SubTypes
<1> QED BY <1>1, <1>4, <1>5, <1>6, SubSteps, ZenonT(60) DEF Set, CloseStore, FlushTask, FlushNothing, FlushDue

\* Revisions only grow.
LEMMA LatestSteps ==
    ASSUME TypeOK, Logged, [Next]_vars, NEW s \in Subs
    PROVE  /\ Latest(s) \in Nat /\ Latest(s)' \in Nat /\ Latest(s) <= Latest(s)'
           /\ \/ Latest(s)' = Latest(s)
              \/ \E st \in Stores : \E ks \in SUBSET KeysOf(st), c \in Acting : Set(st, ks, c)
<1>1. Latest(s) \in Nat
    BY LatestIsWritten DEF TypeOK, StoreTypes, Logged
<1>2. CASE touched' = touched
    BY <1>1, <1>2 DEF Latest
<1>3. CASE \E st \in Stores : \E ks \in SUBSET KeysOf(st), c \in Acting : Set(st, ks, c)
  <2>0. PICK st \in Stores : \E ks \in SUBSET KeysOf(st), c \in Acting : Set(st, ks, c)
      BY <1>3
  <2>1. PICK ks \in SUBSET KeysOf(st), c \in Acting : Set(st, ks, c)
      BY <2>0
  <2>2. revision[st] \in Nat
      BY DEF TypeOK, StoreTypes
  <2>3. \/ Latest(s)' = revision[st] + 1 /\ Latest(s) < revision[st] + 1
        \/ Latest(s)' = Latest(s)
      BY <2>1, LatestMoves
  <2> DEFINE m == Latest(s)
             n == Latest(s)'
  <2> HIDE DEF m, n
  <2>4. m \in Nat /\ ((n = revision[st] + 1 /\ m < revision[st] + 1) \/ n = m)
      BY <1>1, <2>3 DEF m, n
  <2>5. n \in Nat /\ m <= n
      BY <2>2, <2>4
  <2> QED BY <1>1, <1>3, <2>5 DEF m, n
<1> QED BY <1>2, <1>3, StoreSteps DEF CloseStore

\* A snapshot that can be read is no newer than the newest revision.
LEMMA ReadableIsOld ==
    ASSUME TypeOK, Logged, NEW s \in Subs, NEW r \in Readable(s)
    PROVE  r \in Nat /\ r <= Latest(s)
<1> USE ParametersAreTyped
<1>1. Latest(s) \in Nat /\ \A k \in Follows[s] : touched[k] <= Latest(s)
    BY LatestIsWritten DEF TypeOK, StoreTypes, Logged
<1> DEFINE m == Latest(s)
<1>2. m \in Nat /\ \A k \in Follows[s] : touched[k] <= m
    BY <1>1
<1> HIDE DEF m
<1>3. CASE r = 0
    BY <1>2, <1>3 DEF m
<1>4. CASE r \in 1 .. revision[Source(s)] /\ log[Source(s)][r].keys \cap Follows[s] # {}
  <2>1. PICK k \in Follows[s] : k \in log[Source(s)][r].keys
      BY <1>4
  <2>2. k \in Keys /\ StoreOf[k] = Source(s) /\ touched[k] \in Nat
      BY DEF TypeOK, StoreTypes
  <2>3. r <= touched[k]
      BY <1>4, <2>1, <2>2 DEF Logged, Wrote
  <2>4. touched[k] <= m
      BY <1>2
  <2> QED BY <1>2, <1>4, <2>2, <2>3, <2>4 DEF m
<1>5. (r = 0) \/ (r \in 1 .. revision[Source(s)] /\ log[Source(s)][r].keys \cap Follows[s] # {})
    BY DEF Readable
<1> QED BY <1>3, <1>4, <1>5 DEF m

\* Nobody is handed, offered or shown more than what has been written.
LEMMA NumbersKept ==
    ASSUME TypeOK, Logged, Registered, Numbers, [Next]_vars
    PROVE  Numbers'
<1> USE ParametersAreTyped
<1>1. \A s \in Subs : Latest(s) \in Nat /\ Latest(s)' \in Nat /\ Latest(s) <= Latest(s)'
    BY LatestSteps
<1>2. \A s \in Subs : status'[s] = "new" => status[s] = "new"
    BY StatusMoves
<1>3. \A s \in Subs : delivered[s] \in Nat \cup {-1} /\ delivered[s] <= Latest(s)
                      /\ (status[s] = "new" => delivered[s] = -1)
    BY DEF Numbers, TypeOK, SubTypes
<1>4. \A s \in Loads : /\ offered[s] = delivered[s] /\ shown[s] <= offered[s]
                       /\ shown[s] \in Nat \cup {-1} /\ s \in Subs /\ s \notin Watches
    BY DEF Numbers, TypeOK, RunTypes
<1> DEFINE L(s) == Latest(s)
           M(s) == Latest(s)'
<1>5. \A s \in Subs : L(s) \in Nat /\ M(s) \in Nat /\ L(s) <= M(s) /\ delivered[s] <= L(s)
    BY <1>1, <1>3
<1> HIDE DEF L, M
<1>6. ASSUME UNCHANGED delivered
      PROVE  \A s \in Subs : delivered'[s] <= M(s) /\ (status'[s] = "new" => delivered'[s] = -1)
    BY <1>2, <1>3, <1>5, <1>6
<1>7. CASE UNCHANGED <<delivered, offered, shown>>
    BY <1>4, <1>6, <1>7 DEF Numbers, M
<1>8. CASE \E s \in Watches, c \in Acting : \E r \in Readable(s) : Watch(s, r, c)
  <2>0. PICK s \in Watches, c \in Acting : \E r \in Readable(s) : Watch(s, r, c)
      BY <1>8
  <2>1. PICK r \in Readable(s) : Watch(s, r, c)
      BY <2>0
  <2>2. /\ delivered' = [delivered EXCEPT ![s] = r] /\ status' = [status EXCEPT ![s] = "live"]
        /\ UNCHANGED <<offered, shown>>
      BY <2>1 DEF Watch, Attach, runVars
  <2>3. r \in Nat /\ r <= L(s)
      BY ReadableIsOld DEF L
  <2>4. r <= M(s)
      BY <1>5, <2>3
  <2>5. \A t \in Subs : delivered'[t] <= M(t) /\ (status'[t] = "new" => delivered'[t] = -1)
      BY <1>2, <1>3, <1>5, <2>2, <2>4 DEF TypeOK, SubTypes
  <2>6. \A t \in Loads : offered'[t] = delivered'[t] /\ shown'[t] <= offered'[t]
      BY <1>4, <2>2 DEF TypeOK, SubTypes
  <2> QED BY <2>5, <2>6 DEF Numbers, M
<1>9. CASE FlushDue
  <2> DEFINE s == First(Top.left)
  <2>1. s \in Subs
      BY <1>9, FlushedIsOne DEF FlushDue
  <2>2. /\ delivered' = [delivered EXCEPT ![s] = L(s)] /\ status[s] = "live" /\ UNCHANGED <<status, shown, touched>>
        /\ (IF s \in Watches THEN offered' = offered ELSE offered' = [offered EXCEPT ![s] = L(s)])
      BY <1>9, ZenonT(60) DEF FlushDue, Due, L, storeVars
  <2> HIDE DEF s
  <2>3. \A t \in Subs : delivered'[t] <= M(t) /\ (status'[t] = "new" => delivered'[t] = -1)
      BY <1>3, <1>5, <2>1, <2>2 DEF TypeOK, SubTypes
  <2>4. \A t \in Loads : offered'[t] = delivered'[t]
      BY <1>4, <2>1, <2>2 DEF TypeOK, SubTypes, RunTypes
  <2>5. \A t \in Loads : shown'[t] <= offered'[t]
    <3> SUFFICES ASSUME NEW t \in Loads PROVE shown'[t] <= offered'[t]
        OBVIOUS
    <3>1. shown[t] <= L(t) /\ L(t) \in Nat /\ shown[t] <= offered[t]
        BY <1>3, <1>4, <1>5
    <3>2. offered'[t] = offered[t] \/ offered'[t] = L(t)
        BY <2>2 DEF TypeOK, RunTypes
    <3> QED BY <2>2, <3>1, <3>2
  <2> QED BY <2>3, <2>4, <2>5 DEF Numbers, M
<1>10. CASE PublishTask
  <2> DEFINE t == Head(tasks)
  <2>1. UNCHANGED <<delivered, offered>>
      BY <1>10 DEF PublishTask, subVars
  <2>2. shown' = shown \/ (shown' = [shown EXCEPT ![t.s] = t.job.rev] /\ t.job.rev = offered[t.s])
    <3>1. IF IsCurrent(t.s, t.job) THEN shown' = [shown EXCEPT ![t.s] = t.job.rev] ELSE shown' = shown
        BY <1>10, ZenonT(60) DEF PublishTask
    <3> QED BY <3>1 DEF IsCurrent
  <2> HIDE DEF t
  <2>3. \A s \in Loads : shown'[s] <= offered'[s]
      BY <1>4, <2>1, <2>2 DEF TypeOK, RunTypes
  <2> QED BY <1>4, <1>6, <2>1, <2>3 DEF Numbers, M
<1>11. CASE UserStep
  <2>1. \A st, ks, c : Set(st, ks, c) \/ Refuse(st, ks, c) \/ CloseStore(st, c) \/ Load(st, c) \/ CloseScope(st, c)
          \/ EscalateDrain(st) => UNCHANGED delivered /\ UNCHANGED offered /\ UNCHANGED shown
      BY DEF Set, Refuse, Load, CloseScope, CloseStore, EscalateDrain, runVars, subVars
  <2>2. CASE UNCHANGED delivered /\ UNCHANGED offered /\ UNCHANGED shown
      BY <1>7, <2>2
  <2> QED BY <1>8, <1>11, <2>1, <2>2, ZenonT(60) DEF UserStep
<1>12. CASE Machine
    BY <1>7, <1>9, <1>10, <1>12 DEF Machine, EndTask, FlushTask, OverdueTask, FrameDone, FlushNothing,
        OfferClosed, OfferStart, OfferWait, ReportClosed, DetachClosed, Leave, runVars, subVars
<1>13. CASE Return \/ Throw \/ \E s \in Loads : Continuation(s) \/ LoaderSettles(s)
    BY <1>7, <1>13 DEF Return, Throw, Continuation, StartLoader, RunEnds, Drain, LoaderSettles, runVars, subVars
<1>14. CASE UNCHANGED vars
    BY <1>7, <1>14 DEF vars, runVars, subVars
<1> QED BY <1>11, <1>12, <1>13, <1>14 DEF Next
-----------------------------------------------------------------------------
(* Batches and closing stores.                                             *)

\* Where the frames that hold subscriptions come from.
Holds(f) == f.k \in {"flush", "closing", "leaving"}
KeptAt(i) ==
    /\ i \in DOMAIN stack /\ stack[i].k = stack'[i].k
    /\ stack'[i].k # "leaving" => stack[i].st = stack'[i].st
    /\ stack'[i].left \subseteq stack[i].left
    /\ stack'[i].k = "closing" /\ stack'[i].told =>
          \/ stack[i].told /\ stack'[i].left = stack[i].left
          \/ stack'[i].left # {}
\* Where the batches and the closing stores of the next state come from, and where
\* those of this state go.
LEMMA FramesMove ==
    ASSUME TypeOK, Logged, Registered, [Next]_vars, NEW i \in DOMAIN stack', Holds(stack'[i])
    PROVE  \/ KeptAt(i)
           \/ /\ \E st \in Stores, c \in Acting : CloseStore(st, c) /\ st = stack'[i].st
              /\ stack'[i].k = "closing" /\ ~stack'[i].told /\ stack'[i].left = Live(stack'[i].st)
           \/ /\ FlushTask /\ stack'[i].left = {s \in dirty : Source(s) = stack'[i].st}
              /\ stack'[i].k = "flush"
           \/ stack'[i].k = "leaving" /\ \E x \in Scopes : stack'[i].left = Inside(x)
<1> USE DEF Holds, KeptAt
<1>1. CASE SameWork
    BY <1>1 DEF SameWork, Work
<1>2. ASSUME NEW st \in Stores, NEW c \in Acting, CloseStore(st, c)
      PROVE  \/ KeptAt(i)
             \/ stack'[i].k = "closing" /\ stack'[i].st = st /\ ~stack'[i].told /\ stack'[i].left = Live(st)
  <2> DEFINE L == Live(st)
  <2>1. /\ Height \in Nat /\ DOMAIN stack = 1 .. Height /\ DOMAIN stack' = 1 .. Height + 1
        /\ \A j \in 1 .. Height : stack'[j] = stack[j]
        /\ stack'[Height + 1] = [k |-> "closing", st |-> st, ctx |-> c, told |-> FALSE, left |-> L]
      BY <1>2, CloseStoreEffect, ZenonT(60)
  <2> HIDE DEF L
  <2>2. CASE i \in 1 .. Height
      BY <2>1, <2>2
  <2>3. CASE i \notin 1 .. Height
      BY <2>1, <2>3 DEF L
  <2> QED BY <2>2, <2>3
<1>3. CASE ReportClosed
    BY <1>3, ReportClosedEffect DEF ClosingFrame
<1>4. CASE DetachClosed
  <2>1. /\ Height \in Nat \ {0} /\ DOMAIN stack = 1 .. Height
        /\ \E n \in Nat : /\ DOMAIN stack' = 1 .. Height + n
                          /\ \A j \in Height + 1 .. Height + n : stack'[j].k = "abort"
        /\ \A j \in 1 .. Height - 1 : stack'[j] = stack[j]
        /\ stack[Height] \in ClosingFrame /\ stack'[Height] \in ClosingFrame
        /\ stack'[Height].st = stack[Height].st /\ ~stack'[Height].told
        /\ stack'[Height].left = stack[Height].left \ {First(stack[Height].left)}
      BY <1>4, DetachClosedStack, ZenonT(60)
  <2> QED BY <2>1 DEF ClosingFrame
<1>5. CASE FlushTask
  <2>1. /\ DOMAIN stack' = {1} /\ stack'[1].k = "flush" /\ stack'[1].st = Head(tasks).st
        /\ stack'[1].left = {s \in dirty : Source(s) = Head(tasks).st}
      BY <1>5, FlushTaskEffect, ZenonT(60)
  <2> QED BY <1>5, <2>1
<1>6. CASE FrameDone
    BY <1>6, FrameDoneEffect
<1>7. CASE FlushNothing
  <2>1. /\ Height \in Nat \ {0} /\ DOMAIN stack = 1 .. Height /\ DOMAIN stack' = 1 .. Height
        /\ \A j \in 1 .. Height - 1 : stack'[j] = stack[j]
        /\ stack[Height] \in FlushFrame /\ stack'[Height] \in FlushFrame
        /\ stack'[Height].st = stack[Height].st
        /\ stack'[Height].left = stack[Height].left \ {First(stack[Height].left)}
      BY <1>7, FlushNothingEffect, ZenonT(60)
  <2> QED BY <2>1 DEF FlushFrame
<1>8. CASE FlushDue
  <2>1. \A k \in Keys : touched[k] <= revision[StoreOf[k]]
      BY DEF Logged
  <2> DEFINE s == First(stack[Height].left)
  <2>2. /\ Height \in Nat \ {0} /\ DOMAIN stack = 1 .. Height
        /\ \A j \in 1 .. Height - 1 : stack'[j] = stack[j]
        /\ stack[Height] \in FlushFrame /\ stack'[Height] \in FlushFrame
        /\ stack'[Height].st = stack[Height].st
        /\ stack'[Height].left = stack[Height].left \ {s}
        /\ \/ s \in Watches /\ DOMAIN stack' = 1 .. Height + 1 /\ stack'[Height + 1].k = "call" /\ stack'[Height + 1].s = s
           \/ /\ s \in Loads /\ DOMAIN stack' = 1 .. Height + 2 /\ stack'[Height + 1] \in OfferFrame
              /\ stack'[Height + 1].s = s /\ stack'[Height + 1].job.rev = Latest(s)
              /\ stack'[Height + 2].k = "call" /\ stack'[Height + 2].s = s
      BY <1>8, <2>1, FlushDueEffect, ZenonT(60)
  <2> HIDE DEF s
  <2>3. CASE i \in 1 .. Height
      BY <2>2, <2>3 DEF FlushFrame
  <2>4. CASE i \notin 1 .. Height
      BY <2>2, <2>4 DEF OfferFrame
  <2> QED BY <2>3, <2>4
<1>9. CASE OfferClosed \/ OfferStart \/ OfferWait
    BY <1>9, OfferEffect DEF OfferFrame
<1>10. ASSUME NEW x \in Scopes, NEW c \in Acting, CloseScope(x, c)
       PROVE  KeptAt(i) \/ (stack'[i].k = "leaving" /\ stack'[i].left = Inside(x))
  <2> DEFINE I == Inside(x)
  <2>1. /\ Height \in Nat /\ DOMAIN stack = 1 .. Height /\ DOMAIN stack' = 1 .. Height + 1
        /\ \A j \in 1 .. Height : stack'[j] = stack[j]
        /\ stack'[Height + 1].k = "leaving" /\ stack'[Height + 1].left = I
      BY <1>10, CloseScopeEffect, ZenonT(60)
  <2> HIDE DEF I
  <2>2. CASE i \in 1 .. Height
      BY <2>1, <2>2
  <2>3. CASE i \notin 1 .. Height
      BY <2>1, <2>3 DEF I
  <2> QED BY <2>2, <2>3
<1>11. CASE Leave
  <2>1. /\ Height \in Nat \ {0} /\ DOMAIN stack = 1 .. Height
        /\ \E n \in Nat : /\ DOMAIN stack' = 1 .. Height + n
                          /\ \A j \in Height + 1 .. Height + n : stack'[j].k = "abort"
        /\ \A j \in 1 .. Height - 1 : stack'[j] = stack[j]
        /\ stack[Height] \in LeavingFrame /\ stack'[Height] \in LeavingFrame
        /\ stack'[Height].left = stack[Height].left \ {First(stack[Height].left)}
      BY <1>11, LeaveStack, ZenonT(60)
  <2> QED BY <2>1 DEF LeavingFrame
<1> HIDE DEF Holds, KeptAt
<1> QED BY <1>1, <1>2, <1>3, <1>4, <1>5, <1>6, <1>7, <1>8, <1>9, <1>10, <1>11, StackSteps, ZenonT(60)

\* When a frame gives a subscription up.
LEMMA FramesStay ==
    ASSUME TypeOK, Logged, Registered, [Next]_vars, NEW i \in DOMAIN stack, Holds(stack[i]), NEW s \in stack[i].left
    PROVE  \/ /\ i \in DOMAIN stack' /\ stack'[i].k = stack[i].k /\ s \in stack'[i].left
              /\ stack[i].k # "leaving" => stack'[i].st = stack[i].st
           \/ stack[i].k = "flush" /\ FrameDone /\ closed[stack[i].st]
           \/ stack[i].k = "flush" /\ (FlushNothing \/ FlushDue) /\ s = First(Top.left)
           \/ stack[i].k = "closing" /\ DetachClosed /\ s = First(Top.left)
           \/ stack[i].k = "leaving" /\ Leave /\ s = First(Top.left)
<1> USE DEF Holds
<1>1. CASE SameWork
    BY <1>1 DEF SameWork, Work
<1>2. CASE \E st \in Stores, c \in Acting : CloseStore(st, c)
  <2>1. /\ Height \in Nat /\ DOMAIN stack = 1 .. Height /\ DOMAIN stack' = 1 .. Height + 1
        /\ \A j \in 1 .. Height : stack'[j] = stack[j]
      BY <1>2, CloseStoreEffect, ZenonT(60)
  <2> QED BY <2>1
<1>3. CASE ReportClosed
    BY <1>3, ReportClosedEffect DEF ClosingFrame
<1>4. CASE DetachClosed
  <2>1. /\ Height \in Nat \ {0} /\ DOMAIN stack = 1 .. Height
        /\ \E n \in Nat : DOMAIN stack' = 1 .. Height + n
        /\ \A j \in 1 .. Height - 1 : stack'[j] = stack[j]
        /\ stack[Height] \in ClosingFrame /\ stack'[Height] \in ClosingFrame
        /\ stack'[Height].st = stack[Height].st
        /\ stack'[Height].left = stack[Height].left \ {First(stack[Height].left)}
      BY <1>4, DetachClosedStack, ZenonT(60)
  <2>2. Top = stack[Height]
      BY <1>4, TopOfWork DEF DetachClosed, On
  <2> QED BY <1>4, <2>1, <2>2 DEF ClosingFrame
<1>5. CASE FlushTask
    BY <1>5, FlushTaskEffect
<1>6. CASE FrameDone
  <2>1. CASE i \in 1 .. Height - 1
      BY <1>6, <2>1, FrameDoneEffect
  <2>2. CASE i \notin 1 .. Height - 1
      BY <1>6, <2>2, FrameDoneEffect
  <2> QED BY <2>1, <2>2
<1>7. CASE FlushNothing \/ FlushDue
  <2>1. \A k \in Keys : touched[k] <= revision[StoreOf[k]]
      BY DEF Logged
  <2>2. /\ Height \in Nat \ {0} /\ DOMAIN stack = 1 .. Height
        /\ \E n \in Nat : DOMAIN stack' = 1 .. Height + n
        /\ \A j \in 1 .. Height - 1 : stack'[j] = stack[j]
        /\ stack[Height] \in FlushFrame /\ stack'[Height] \in FlushFrame
        /\ stack'[Height].st = stack[Height].st
        /\ stack'[Height].left = stack[Height].left \ {First(stack[Height].left)}
    <3>1. CASE FlushNothing
      <4>1. Height + 0 = Height
          BY StackIsTyped
      <4> QED BY <3>1, <4>1, FlushNothingEffect
    <3>2. CASE FlushDue
      <4> DEFINE x == First(stack[Height].left)
      <4>1. /\ Height \in Nat \ {0} /\ DOMAIN stack = 1 .. Height
            /\ \A j \in 1 .. Height - 1 : stack'[j] = stack[j]
            /\ stack[Height] \in FlushFrame /\ stack'[Height] \in FlushFrame
            /\ stack'[Height].st = stack[Height].st
            /\ stack'[Height].left = stack[Height].left \ {x}
            /\ \/ DOMAIN stack' = 1 .. Height + 1
               \/ DOMAIN stack' = 1 .. Height + 2
          BY <2>1, <3>2, FlushDueEffect, ZenonT(60)
      <4> HIDE DEF x
      <4> QED BY <4>1 DEF x
    <3> QED BY <1>7, <3>1, <3>2
  <2>3. Top = stack[Height]
      BY <1>7, TopOfWork DEF FlushNothing, FlushDue, Flushing, On
  <2> QED BY <1>7, <2>2, <2>3 DEF FlushFrame
<1>8. CASE OfferClosed \/ OfferStart \/ OfferWait
    BY <1>8, OfferEffect DEF OfferFrame
<1>9. CASE \E x \in Scopes, c \in Acting : CloseScope(x, c)
  <2>1. /\ Height \in Nat /\ DOMAIN stack = 1 .. Height /\ DOMAIN stack' = 1 .. Height + 1
        /\ \A j \in 1 .. Height : stack'[j] = stack[j]
      BY <1>9, CloseScopeEffect, ZenonT(60)
  <2> QED BY <2>1
<1>10. CASE Leave
  <2>1. /\ Height \in Nat \ {0} /\ DOMAIN stack = 1 .. Height
        /\ \E n \in Nat : DOMAIN stack' = 1 .. Height + n
        /\ \A j \in 1 .. Height - 1 : stack'[j] = stack[j]
        /\ stack[Height] \in LeavingFrame /\ stack'[Height] \in LeavingFrame
        /\ stack'[Height].left = stack[Height].left \ {First(stack[Height].left)}
      BY <1>10, LeaveStack, ZenonT(60)
  <2>2. Top = stack[Height]
      BY <1>10, TopOfWork DEF Leave, On
  <2> QED BY <1>10, <2>1, <2>2 DEF LeavingFrame
<1> HIDE DEF Holds
<1> QED BY <1>1, <1>2, <1>3, <1>4, <1>5, <1>6, <1>7, <1>8, <1>9, <1>10, StackSteps, ZenonT(60)

\* A subscription that becomes dirty is live, and its store has a flush coming.
LEMMA DirtySteps ==
    ASSUME TypeOK, Registered, [Next]_vars
    PROVE  /\ \A s \in dirty' : status'[s] = "live"
           /\ \A s \in dirty' \ dirty : flushScheduled'[Source(s)]
           /\ \A st \in Stores : flushScheduled[st] /\ ~flushScheduled'[st] =>
                 FlushTask /\ dirty' = {s \in dirty : Source(s) # st}
<1> USE ParametersAreTyped
<1>1. /\ \A s \in dirty : status[s] = "live" /\ s \in Subs
      /\ flushScheduled \in [Stores -> BOOLEAN] /\ status \in [Subs -> {"new", "live", "off"}]
    BY DEF Registered, TypeOK, SubTypes, LoopTypes
<1> DEFINE Good == /\ \A s \in dirty' : status'[s] = "live"
                   /\ \A s \in dirty' \ dirty : flushScheduled'[Source(s)]
                   /\ \A st \in Stores : flushScheduled[st] /\ ~flushScheduled'[st] =>
                         FlushTask /\ dirty' = {s \in dirty : Source(s) # st}
<1>2. ASSUME dirty' \subseteq dirty, status' = status, flushScheduled' = flushScheduled
      PROVE  Good
    BY <1>1, <1>2
<1>3. ASSUME NEW st \in Stores, Schedule(st)
      PROVE  flushScheduled' = [flushScheduled EXCEPT ![st] = TRUE]
  <2>1. LoopTypes
      BY DEF TypeOK
  <2> QED BY <1>3, <2>1, ScheduleEffect, ZenonT(60)
<1>4. ASSUME NEW st \in Stores, NEW ks \in SUBSET KeysOf(st), NEW c \in Acting, Set(st, ks, c)
      PROVE  Good
  <2>1. Schedule(st) /\ status' = status /\ dirty' = dirty \cup {s \in Live(st) : Follows[s] \cap ks # {}}
      BY <1>4, ZenonT(60) DEF Set
  <2> QED BY <1>1, <1>3, <2>1 DEF Live
<1>5. ASSUME NEW s \in Watches, NEW c \in Acting, NEW r \in Readable(s), Watch(s, r, c)
      PROVE  Good
  <2>1. /\ status' = [status EXCEPT ![s] = "live"]
        /\ \/ dirty' = dirty \cup {s} /\ Schedule(Source(s))
           \/ dirty' = dirty /\ flushScheduled' = flushScheduled
      BY <1>5 DEF Watch, Attach
  <2> QED BY <1>1, <1>3, <2>1
<1>6. ASSUME NEW s \in Loads, NEW c \in Acting, Load(s, c)
      PROVE  Good
  <2>1. status' = [status EXCEPT ![s] = "live"] /\ dirty' = dirty \cup {s} /\ Schedule(Source(s))
      BY <1>6 DEF Load, Attach
  <2> QED BY <1>1, <1>3, <2>1
<1>7. ASSUME Leave \/ DetachClosed
      PROVE  Good
  <2>1. flushScheduled' = flushScheduled
      BY <1>7 DEF Leave, DetachClosed, taskVars
  <2>2. PICK G \in SUBSET Subs : /\ status' = [s \in Subs |-> IF s \in G THEN "off" ELSE status[s]]
                                 /\ dirty' = dirty \ G
      BY <1>7, Detaching, ZenonT(60)
  <2> QED BY <1>1, <2>1, <2>2
<1>8. ASSUME NEW st \in Stores, NEW c \in Acting, CloseStore(st, c)
      PROVE  Good
    BY <1>2, <1>8 DEF CloseStore, taskVars
<1>9. ASSUME FlushTask
      PROVE  Good
  <2> DEFINE st == Head(tasks).st
  <2>1. /\ status' = status /\ dirty' = {s \in dirty : Source(s) # st}
        /\ flushScheduled' = [flushScheduled EXCEPT ![st] = FALSE]
      BY <1>9, ZenonT(60) DEF FlushTask, Taken
  <2>2. dirty' \subseteq dirty
      BY <2>1
  <2>3. \A x \in Stores : flushScheduled[x] /\ ~flushScheduled'[x] => x = st
      BY <1>1, <2>1
  <2> HIDE DEF st
  <2> QED BY <1>1, <1>9, <2>1, <2>2, <2>3
<1>10. status' = status /\ dirty' = dirty /\ flushScheduled' = flushScheduled => Good
    BY <1>2
<1> SUFFICES Good
    OBVIOUS
<1> HIDE DEF Good
<1>11. CASE UserStep
  <2>1. \A st, ks, c : Refuse(st, ks, c) \/ CloseScope(st, c) \/ EscalateDrain(st)
            => status' = status /\ dirty' = dirty /\ flushScheduled' = flushScheduled
      BY DEF Refuse, CloseScope, EscalateDrain, subVars, taskVars
  <2> QED BY <1>4, <1>5, <1>6, <1>8, <1>10, <1>11, <2>1, ZenonT(60) DEF UserStep
<1>12. CASE Machine
  <2>1. CASE ~(FlushTask \/ DetachClosed \/ Leave)
      BY <1>10, <1>12, <2>1 DEF Machine, EndTask, PublishTask, OverdueTask, FrameDone, FlushNothing, FlushDue,
          OfferClosed, OfferStart, OfferWait, ReportClosed, subVars, taskVars
  <2> QED BY <1>7, <1>9, <2>1
<1>13. CASE Return \/ Throw \/ \E s \in Loads : Continuation(s) \/ LoaderSettles(s)
    BY <1>10, <1>13 DEF Return, Throw, Continuation, StartLoader, RunEnds, Drain, LoaderSettles, subVars, taskVars
<1>14. CASE UNCHANGED vars
    BY <1>10, <1>14 DEF vars, subVars, taskVars
<1> QED BY <1>11, <1>12, <1>13, <1>14 DEF Next

\* Only registered subscriptions are dirty, in a batch or being closed.
LEMMA RegisteredKept ==
    ASSUME TypeOK, Logged, Registered, [Next]_vars
    PROVE  Registered'
<1> USE ParametersAreTyped
<1>1. \A s \in Subs : status'[s] # "new" => InOrder(s)'
  <2>1. \A s \in Subs : status[s] # "new" => InOrder(s)
      BY DEF Registered
  <2>2. CASE \E s \in Subs : status' = [status EXCEPT ![s] = "live"] /\ order' = Append(order, s)
    <3>1. PICK s \in Subs : status' = [status EXCEPT ![s] = "live"] /\ order' = Append(order, s)
        BY <2>2
    <3>2. /\ Len(order) \in Nat /\ DOMAIN order = 1 .. Len(order) /\ DOMAIN order' = 1 .. Len(order) + 1
          /\ \A i \in 1 .. Len(order) : order'[i] = order[i]
          /\ order'[Len(order) + 1] = s
        BY <3>1, Pushed DEF TypeOK, SubTypes
    <3>3. \A t \in Subs : t # s => status'[t] = status[t]
        BY <3>1 DEF TypeOK, SubTypes
    <3>4. \A t \in Subs : InOrder(t) => InOrder(t)'
        BY <3>2 DEF InOrder
    <3>5. InOrder(s)'
        BY <3>2 DEF InOrder
    <3> QED BY <2>1, <3>3, <3>4, <3>5
  <2>3. CASE order' = order /\ \A s \in Subs : status'[s] # "new" => status[s] # "new"
      BY <2>1, <2>3 DEF InOrder
  <2>4. CASE Leave \/ DetachClosed
    <3>1. PICK G \in SUBSET Subs : /\ \A s \in G : status[s] = "live"
                                   /\ status' = [s \in Subs |-> IF s \in G THEN "off" ELSE status[s]]
        BY <2>4, Detaching, ZenonT(60)
    <3>2. order' = order
        BY <2>4 DEF Leave, DetachClosed
    <3> QED BY <2>3, <3>1, <3>2
  <2>5. CASE \E s \in Watches, c \in Acting : \E r \in Readable(s) : Watch(s, r, c)
      BY <2>2, <2>5 DEF Watch, Attach
  <2>6. CASE \E s \in Loads, c \in Acting : Load(s, c)
      BY <2>2, <2>6 DEF Load, Attach
  <2>7. CASE UNCHANGED <<status, order>>
      BY <2>3, <2>7
  <2> QED BY <2>4, <2>5, <2>6, <2>7, SubSteps, ZenonT(60) DEF Set, CloseStore, FlushTask, FlushNothing, FlushDue
<1>2. \A s \in Subs : status[s] # "new" => status'[s] # "new"
    BY StatusMoves
<1>3. ASSUME NEW i \in DOMAIN stack', Holds(stack'[i])
      PROVE  /\ \A s \in stack'[i].left :
                    status'[s] # "new" /\ (stack'[i].k # "leaving" => Source(s) = stack'[i].st)
             /\ stack'[i].k = "closing" /\ stack'[i].told => stack'[i].left # {}
  <2>1. CASE KeptAt(i)
    <3>1. stack[i] \in Frames /\ Holds(stack[i]) /\ i \in DOMAIN stack
        BY <1>3, <2>1, StackIsTyped DEF KeptAt, Holds
    <3>2. \A s \in stack[i].left : s \in Subs
        BY <3>1, KindsOfFrames DEF Holds, FlushFrame, ClosingFrame, LeavingFrame
    <3> QED BY <1>2, <2>1, <3>1, <3>2 DEF Registered, KeptAt, Holds
  <2>2. CASE stack'[i].k = "closing" /\ ~stack'[i].told /\ stack'[i].left = Live(stack'[i].st)
      BY <1>2, <2>2 DEF Live
  <2>3. CASE stack'[i].k = "flush" /\ stack'[i].left = {s \in dirty : Source(s) = stack'[i].st}
      BY <1>2, <2>3 DEF Registered, TypeOK, SubTypes
  <2>4. CASE stack'[i].k = "leaving" /\ \E x \in Scopes : stack'[i].left = Inside(x)
      BY <1>2, <2>4 DEF Inside
  <2> QED BY <1>3, <2>1, <2>2, <2>3, <2>4, FramesMove, ZenonT(60)
<1>4. \A s \in dirty' : status'[s] = "live"
    BY DirtySteps
<1> QED BY <1>1, <1>3, <1>4 DEF Registered, Holds

\* A dirty subscription has a flush on its way.
LEMMA ScheduledKept ==
    ASSUME TypeOK, Registered, Scheduled, [Next]_vars
    PROVE  Scheduled'
<1>1. dirty \in SUBSET Subs
    BY DEF TypeOK, SubTypes
<1>2. SUFFICES ASSUME NEW s \in dirty' PROVE flushScheduled'[Source(s)]
    BY DEF Scheduled
<1>3. CASE s \notin dirty
    BY <1>3, DirtySteps
<1>4. CASE s \in dirty
  <2>1. flushScheduled[Source(s)] /\ Source(s) \in Stores
      BY <1>1, <1>4, ParametersAreTyped DEF Scheduled
  <2>2. ~flushScheduled'[Source(s)] => dirty' = {x \in dirty : Source(x) # Source(s)}
      BY <2>1, DirtySteps
  <2> QED BY <1>2, <2>2
<1> QED BY <1>3, <1>4

\* A scope leaves `open` by closing.
LEMMA OpenMoves ==
    ASSUME [Next]_vars
    PROVE  open' = open \/ \E x \in Scopes, c \in Acting : CloseScope(x, c)
<1>1. \A st, ks, c : Set(st, ks, c) \/ Refuse(st, ks, c) \/ Watch(st, ks, c) \/ Load(st, c)
         \/ CloseStore(st, c) \/ EscalateDrain(st) => open' = open
    BY DEF Set, Refuse, Watch, Load, CloseStore, EscalateDrain
<1>2. CASE UserStep
    BY <1>1, <1>2, ZenonT(60) DEF UserStep
<1>3. CASE Machine
    BY <1>3 DEF Machine, EndTask, FlushTask, PublishTask, OverdueTask, FrameDone, FlushNothing, FlushDue,
        OfferClosed, OfferStart, OfferWait, ReportClosed, DetachClosed, Leave
<1>4. CASE Return \/ Throw \/ \E s \in Loads : Continuation(s) \/ LoaderSettles(s)
    BY <1>4 DEF Return, Throw, Continuation, StartLoader, RunEnds, Drain, LoaderSettles
<1>5. CASE UNCHANGED vars
    BY <1>5 DEF vars
<1> QED BY <1>2, <1>3, <1>4, <1>5 DEF Next

\* The listeners of a closing scope reach every subscription that was live in it.
LEMMA LeavingKept ==
    ASSUME TypeOK, Logged, Registered, Leaving, [Next]_vars
    PROVE  Leaving'
<1> SUFFICES ASSUME NEW s \in Subs, status'[s] = "live", ScopeOf[s] \notin open'
             PROVE  InLeaving(s)'
    BY DEF Leaving
<1>1. CASE \E x \in Scopes, c \in Acting : CloseScope(x, c)
  <2>1. PICK x \in Scopes, c \in Acting : CloseScope(x, c)
      BY <1>1
  <2>2. status' = status /\ open' = open \ {x}
      BY <2>1 DEF CloseScope, subVars
  <2>3. /\ Height \in Nat /\ DOMAIN stack = 1 .. Height /\ DOMAIN stack' = 1 .. Height + 1
        /\ \A i \in 1 .. Height : stack'[i] = stack[i]
        /\ stack'[Height + 1].k = "leaving" /\ stack'[Height + 1].left = Inside(x)
      BY <2>1, CloseScopeEffect, ZenonT(60)
  <2>4. CASE ScopeOf[s] = x
    <3>1. s \in Inside(x)
        BY <2>2, <2>4 DEF Inside
    <3>2. Height + 1 \in DOMAIN stack'
        BY <2>3
    <3> QED BY <2>3, <3>1, <3>2 DEF InLeaving
  <2>5. CASE ScopeOf[s] # x
    <3>1. PICK i \in DOMAIN stack : stack[i].k = "leaving" /\ s \in stack[i].left
        BY <2>2, <2>5 DEF Leaving, InLeaving
    <3>2. i \in DOMAIN stack' /\ stack'[i] = stack[i]
        BY <2>3
    <3> QED BY <3>1, <3>2 DEF InLeaving
  <2> QED BY <2>4, <2>5
<1>2. CASE open' = open
  <2>1. status[s] = "live"
    <3>1. \A x, c, r : Watch(x, r, c) \/ Load(x, c) => ScopeOf[x] \in open
        BY DEF Watch, Load, Admits
    <3>2. SUFFICES ASSUME status[s] # "live" PROVE FALSE
        OBVIOUS
    <3>3. (\E c \in Acting : \E r \in Readable(s) : Watch(s, r, c)) \/ \E c \in Acting : Load(s, c)
        BY <3>2, StatusMoves, ZenonT(60)
    <3> QED BY <1>2, <3>1, <3>3
  <2>2. PICK i \in DOMAIN stack : stack[i].k = "leaving" /\ s \in stack[i].left
      BY <1>2, <2>1 DEF Leaving, InLeaving
  <2>3. Holds(stack[i])
      BY <2>2 DEF Holds
  <2>4. \/ i \in DOMAIN stack' /\ stack'[i].k = stack[i].k /\ s \in stack'[i].left
        \/ Leave /\ s = First(Top.left)
      BY <2>2, <2>3, FramesStay, ZenonT(60)
  <2>5. Leave /\ s = First(Top.left) => status'[s] = "off"
    <3> DEFINE x == First(Top.left)
               gone == {t \in {x} : status[t] = "live"}
    <3>1. Leave => status' = [t \in Subs |-> IF t \in gone THEN "off" ELSE status[t]]
        BY LeaveEffect, ZenonT(60)
    <3> HIDE DEF x
    <3>2. ASSUME Leave, s = x PROVE status'[s] = "off"
        BY <2>1, <3>1, <3>2
    <3> QED BY <3>2 DEF x
  <2> QED BY <2>2, <2>4, <2>5 DEF InLeaving
<1> QED BY <1>1, <1>2, OpenMoves

\* A detached load has its cleanup begun.
LEMMA DrainsKept ==
    ASSUME TypeOK, Registered, Drains, [Next]_vars
    PROVE  Drains'
<1> USE ParametersAreTyped
<1>1. CASE Leave \/ DetachClosed
  <2>1. PICK G \in SUBSET Subs :
              /\ status' = [s \in Subs |-> IF s \in G THEN "off" ELSE status[s]]
              /\ \A s \in Loads : drain'[s] = "none" => drain[s] = "none" /\ s \notin G
      BY <1>1, Detaching, ZenonT(60)
  <2> QED BY <2>1 DEF Drains
<1>2. \A s \in Subs : status'[s] = "off" =>
         status[s] = "off" \/ Leave \/ DetachClosed
  <2>1. \A s \in Subs : (\E t : status' = [status EXCEPT ![t] = "live"]) \/ status' = status
            => (status'[s] = "off" => status[s] = "off")
      BY DEF TypeOK, SubTypes
  <2>2. \A s, r, c : Watch(s, r, c) \/ Load(s, c) => \E t : status' = [status EXCEPT ![t] = "live"]
      BY DEF Watch, Load, Attach
  <2>3. \A s, ks, c : Set(s, ks, c) \/ CloseStore(s, c) \/ FlushTask \/ FlushNothing \/ FlushDue => status' = status
      BY DEF Set, CloseStore, FlushTask, FlushNothing, FlushDue
  <2>4. status' = status \/ (\E t : status' = [status EXCEPT ![t] = "live"])
        \/ Leave \/ DetachClosed
      BY <2>2, <2>3, SubSteps
  <2> QED BY <2>1, <2>4
<1>3. CASE drain' = drain
    BY <1>1, <1>2, <1>3 DEF Drains
<1>4. ASSUME NEW t, NEW v, v # "none", drain' = [drain EXCEPT ![t] = v]
      PROVE  Drains'
    BY <1>1, <1>2, <1>4 DEF Drains, TypeOK, RunTypes
<1>5. \A s : Drain(s) => drain' = [drain EXCEPT ![s] = "done"]
    BY DEF Drain
<1>6. \A s : EscalateDrain(s) => drain' = [drain EXCEPT ![s] = "escalated"]
    BY DEF EscalateDrain
<1>7. CASE UserStep
  <2>1. \A st, ks, c : Set(st, ks, c) \/ Refuse(st, ks, c) \/ Watch(st, ks, c) \/ Load(st, c)
                          \/ CloseScope(st, c) \/ CloseStore(st, c) => drain' = drain
      BY DEF Set, Refuse, Watch, Load, CloseScope, CloseStore, runVars
  <2> QED BY <1>3, <1>4, <1>6, <1>7, <2>1 DEF UserStep
<1>8. CASE Machine
    BY <1>1, <1>3, <1>8 DEF Machine, EndTask, FlushTask, PublishTask, OverdueTask, FrameDone, FlushNothing, FlushDue,
        OfferClosed, OfferStart, OfferWait, ReportClosed, runVars
<1>9. CASE Return \/ Throw \/ \E s \in Loads : Continuation(s) \/ LoaderSettles(s)
    BY <1>3, <1>4, <1>5, <1>9 DEF Return, Throw, Continuation, StartLoader, RunEnds, LoaderSettles, runVars
<1>10. CASE UNCHANGED vars
    BY <1>3, <1>10 DEF vars, runVars
<1> QED BY <1>7, <1>8, <1>9, <1>10 DEF Next

\* A live subscription is up to date, or dirty, or in a batch that runs; in a closed
\* store it is still to be detached.
LEMMA ReachedKept ==
    ASSUME TypeOK, Logged, Numbers, Registered, Reached, [Next]_vars
    PROVE  Reached'
<1> USE ParametersAreTyped
<1>0. SUFFICES ASSUME NEW s \in Subs, status'[s] = "live"
               PROVE  IF closed'[Source(s)] THEN InClosing(s)'
                      ELSE delivered'[s] = Latest(s)' \/ s \in dirty' \/ InBatch(s)'
    BY DEF Reached
<1> DEFINE L == Latest(s)
           M == Latest(s)'
<1>1. /\ L \in Nat /\ M \in Nat /\ L <= M
      /\ \/ M = L
         \/ \E st \in Stores : \E ks \in SUBSET KeysOf(st), c \in Acting : Set(st, ks, c)
    BY LatestSteps
<1>2. delivered[s] \in Nat \cup {-1} /\ delivered[s] <= L
    BY DEF Numbers, TypeOK, SubTypes
<1> SUFFICES IF closed'[Source(s)] THEN InClosing(s)' ELSE delivered'[s] = M \/ s \in dirty' \/ InBatch(s)'
    OBVIOUS
<1>3. status[s] = "live" => IF closed[Source(s)] THEN InClosing(s) ELSE delivered[s] = L \/ s \in dirty \/ InBatch(s)
    BY DEF Reached
<1> HIDE DEF L, M
<1>4. ASSUME InClosing(s) PROVE InClosing(s)'
  <2>1. PICK i \in DOMAIN stack : stack[i].k = "closing" /\ stack[i].st = Source(s) /\ s \in stack[i].left
      BY <1>4 DEF InClosing
  <2>2. CASE DetachClosed /\ s = First(Top.left)
    <3>1. status'[s] # "live"
      <4> DEFINE x == First(Top.left)
                 G == {t \in {x} : status[t] = "live"}
      <4>1. status' = [t \in Subs |-> IF t \in G THEN "off" ELSE status[t]]
          BY <2>2, DetachClosedEffect, ZenonT(60)
      <4>2. x = s
          BY <2>2
      <4> HIDE DEF x
      <4> QED BY <4>1, <4>2
    <3> QED BY <1>0, <3>1
  <2>3. CASE ~(DetachClosed /\ s = First(Top.left))
    <3>1. i \in DOMAIN stack' /\ stack'[i].k = "closing" /\ stack'[i].st = Source(s) /\ s \in stack'[i].left
        BY <2>1, <2>3, FramesStay DEF Holds
    <3> QED BY <3>1 DEF InClosing
  <2> QED BY <2>2, <2>3
<1>5. CASE closed[Source(s)] /\ closed'[Source(s)]
  <2>1. status[s] = "live"
      BY <1>0, <1>5, StatusMoves
  <2> QED BY <1>3, <1>4, <1>5, <2>1
<1>6. CASE ~closed[Source(s)] /\ closed'[Source(s)]
  <2>1. PICK st \in Stores, c \in Acting : CloseStore(st, c)
      BY <1>6, StoreSteps, ZenonT(60) DEF Set
  <2>2. closed' = [closed EXCEPT ![st] = TRUE] /\ status' = status
      BY <2>1 DEF CloseStore
  <2>3. st = Source(s)
      BY <1>6, <2>2 DEF TypeOK, StoreTypes
  <2>4. s \in Live(st)
      BY <1>0, <2>2, <2>3 DEF Live
  <2> DEFINE V == Live(st)
  <2>5. /\ Height \in Nat /\ DOMAIN stack' = 1 .. Height + 1
        /\ stack'[Height + 1] = [k |-> "closing", st |-> st, ctx |-> c, told |-> FALSE, left |-> V]
      BY <2>1, CloseStoreEffect, ZenonT(60)
  <2> HIDE DEF V
  <2>6. /\ Height + 1 \in DOMAIN stack' /\ stack'[Height + 1].k = "closing"
        /\ stack'[Height + 1].st = Source(s) /\ stack'[Height + 1].left = V
      BY <2>3, <2>5
  <2> QED BY <1>6, <2>4, <2>6 DEF InClosing, V
<1>7. CASE ~closed'[Source(s)]
  <2>1. ~closed[Source(s)]
    <3>1. closed' = closed \/ \E st \in Stores : closed' = [closed EXCEPT ![st] = TRUE]
        BY StoreSteps, ZenonT(60) DEF Set, CloseStore
    <3> QED BY <1>7, <3>1 DEF TypeOK, StoreTypes
  <2> SUFFICES delivered'[s] = M \/ s \in dirty' \/ InBatch(s)'
      BY <1>7
  <2>2. CASE status[s] # "live"
    <3>1. CASE s \in Loads /\ \E c \in Acting : Load(s, c)
        BY <3>1 DEF Load
    <3>2. CASE s \in Watches /\ \E c \in Acting : \E r \in Readable(s) : Watch(s, r, c)
      <4>1. PICK r \in Readable(s) : \E c \in Acting : Watch(s, r, c)
          BY <3>2
      <4>2. /\ delivered' = [delivered EXCEPT ![s] = r] /\ touched' = touched
            /\ (Latest(s) > r => s \in dirty')
          BY <4>1 DEF Watch, Behind, storeVars
      <4>3. r \in Nat /\ r <= L
          BY ReadableIsOld DEF L
      <4>4. M = L
          BY <4>2 DEF M, L, Latest
      <4>5. delivered'[s] = r
          BY <4>2 DEF TypeOK, SubTypes
      <4>6. L > r => s \in dirty'
          BY <4>2 DEF L
      <4> QED BY <1>1, <4>3, <4>4, <4>5, <4>6
    <3> QED BY <1>0, <2>2, <3>1, <3>2, StatusMoves
  <2>3. CASE status[s] = "live"
    <3>1. delivered[s] = L \/ s \in dirty \/ InBatch(s)
        BY <1>3, <2>1, <2>3
    <3>2. CASE \E st \in Stores : \E ks \in SUBSET KeysOf(st), c \in Acting : Set(st, ks, c)
      <4>1. PICK st \in Stores : \E ks \in SUBSET KeysOf(st), c \in Acting : Set(st, ks, c)
          BY <3>2
      <4>2. PICK ks \in SUBSET KeysOf(st), c \in Acting : Set(st, ks, c)
          BY <4>1
      <4>3. UNCHANGED <<delivered, stack>> /\ dirty' = dirty \cup {x \in Live(st) : Follows[x] \cap ks # {}}
          BY <4>2, ZenonT(60) DEF Set
      <4>4. CASE Follows[s] \cap ks # {}
        <5>1. Source(s) = st
            BY <4>2, <4>4, LatestMoves
        <5> QED BY <2>3, <4>3, <4>4, <5>1 DEF Live
      <4>5. CASE Follows[s] \cap ks = {}
        <5>1. M = L
            BY <4>2, <4>5, LatestMoves DEF M, L
        <5> QED BY <3>1, <4>3, <5>1 DEF InBatch
      <4> QED BY <4>4, <4>5
    <3>3. CASE ~\E st \in Stores : \E ks \in SUBSET KeysOf(st), c \in Acting : Set(st, ks, c)
      <4>1. M = L
          BY <1>1, <3>3
      <4>2. CASE delivered[s] = L
        <5>1. CASE delivered' = delivered
            BY <4>1, <4>2, <5>1
        <5>2. CASE FlushDue
          <6> DEFINE x == First(Top.left)
          <6>1. x \in Subs
              BY <5>2, FlushedIsOne DEF FlushDue
          <6>2. delivered' = [delivered EXCEPT ![x] = Latest(x)]
              BY <5>2, ZenonT(60) DEF FlushDue
          <6> HIDE DEF x
          <6>3. delivered'[s] = delivered[s] \/ delivered'[s] = Latest(s)
              BY <6>1, <6>2 DEF TypeOK, SubTypes
          <6> QED BY <4>1, <4>2, <6>3 DEF L
        <5>3. CASE \E x \in Watches, c \in Acting : \E r \in Readable(x) : Watch(x, r, c)
          <6>1. PICK x \in Watches : status[x] = "new" /\ \E r : delivered' = [delivered EXCEPT ![x] = r]
              BY <5>3 DEF Watch, Admits
          <6>2. x # s
              BY <2>3, <6>1
          <6>3. delivered'[s] = delivered[s]
              BY <6>1, <6>2 DEF TypeOK, SubTypes
          <6> QED BY <4>1, <4>2, <6>3
        <5> QED BY <3>3, <5>1, <5>2, <5>3, SubSteps DEF Load, CloseStore, FlushTask, FlushNothing, DetachClosed, Leave
      <4>3. CASE s \in dirty
        <5>1. CASE FlushTask
          <6> DEFINE y == Head(tasks).st
          <6>1. /\ DOMAIN stack' = {1} /\ stack'[1].k = "flush" /\ stack'[1].st = y
                /\ stack'[1].left = {x \in dirty : Source(x) = y}
              BY <5>1, FlushTaskEffect, ZenonT(60)
          <6>2. dirty' = {x \in dirty : Source(x) # y}
              BY <5>1, ZenonT(60) DEF FlushTask
          <6> HIDE DEF y
          <6>3. CASE Source(s) = y
              BY <4>3, <6>1, <6>3 DEF InBatch
          <6>4. CASE Source(s) # y
              BY <4>3, <6>2, <6>4
          <6> QED BY <6>3, <6>4
        <5>2. CASE Leave \/ DetachClosed
          <6>1. PICK G \in SUBSET Subs :
                    /\ status' = [x \in Subs |-> IF x \in G THEN "off" ELSE status[x]] /\ dirty' = dirty \ G
              BY <5>2, Detaching, ZenonT(60)
          <6>2. s \notin G
              BY <1>0, <6>1
          <6> QED BY <4>3, <6>1, <6>2
        <5>3. CASE \E st \in Stores, c \in Acting : CloseStore(st, c)
          <6>1. PICK st \in Stores : dirty' = dirty \ Live(st) /\ closed' = [closed EXCEPT ![st] = TRUE]
              BY <5>3 DEF CloseStore
          <6>2. s \notin Live(st)
              BY <1>7, <6>1 DEF Live, TypeOK, StoreTypes
          <6> QED BY <4>3, <6>1, <6>2
        <5>4. CASE dirty \subseteq dirty'
            BY <4>3, <5>4
        <5>5. \A x, r, c : Watch(x, r, c) \/ Load(x, c) => dirty \subseteq dirty'
            BY DEF Watch, Load
        <5> QED BY <3>3, <5>1, <5>2, <5>3, <5>4, <5>5, SubSteps DEF FlushNothing, FlushDue
      <4>4. CASE InBatch(s)
        <5>1. PICK i \in DOMAIN stack : stack[i].k = "flush" /\ stack[i].st = Source(s) /\ s \in stack[i].left
            BY <4>4 DEF InBatch
        <5>2. CASE i \in DOMAIN stack' /\ stack'[i].k = stack[i].k /\ stack'[i].st = stack[i].st /\ s \in stack'[i].left
            BY <5>1, <5>2 DEF InBatch
        <5>3. CASE closed[stack[i].st]
            BY <2>1, <5>1, <5>3
        <5>4. CASE FlushNothing /\ s = First(Top.left)
          <6>1. ~Due(s) /\ delivered' = delivered
              BY <5>4 DEF FlushNothing
          <6>2. ~(L > delivered[s])
              BY <2>3, <6>1 DEF Due, L
          <6> QED BY <1>1, <1>2, <4>1, <6>1, <6>2
        <5>5. CASE FlushDue /\ s = First(Top.left)
          <6>1. delivered' = [delivered EXCEPT ![s] = Latest(s)]
              BY <5>5, ZenonT(60) DEF FlushDue
          <6>2. delivered'[s] = L
              BY <6>1 DEF L, TypeOK, SubTypes
          <6> QED BY <4>1, <6>2
        <5> QED BY <5>1, <5>2, <5>3, <5>4, <5>5, FramesStay DEF Holds
      <4> QED BY <3>1, <4>2, <4>3, <4>4
    <3> QED BY <3>2, <3>3
  <2> QED BY <2>2, <2>3
<1>8. closed \in [Stores -> BOOLEAN] /\ closed' \in [Stores -> BOOLEAN]
    BY StoreTypesKept DEF TypeOK, StoreTypes
<1> QED BY <1>5, <1>6, <1>7, <1>8
-----------------------------------------------------------------------------
(* Loads.                                                                  *)

LEMMA OfferedSteps ==
    ASSUME [Next]_vars
    PROVE  FlushDue \/ offered' = offered
<1>1. \A st, ks, c : Set(st, ks, c) \/ Refuse(st, ks, c) \/ Watch(st, ks, c) \/ Load(st, c) \/ CloseScope(st, c)
         \/ CloseStore(st, c) \/ EscalateDrain(st) => offered' = offered
    BY DEF Set, Refuse, Watch, Load, CloseScope, CloseStore, EscalateDrain, runVars
<1>2. CASE UserStep
    BY <1>1, <1>2, ZenonT(60) DEF UserStep
<1>3. CASE Machine
    BY <1>3 DEF Machine, EndTask, FlushTask, PublishTask, OverdueTask, FrameDone, FlushNothing,
        OfferClosed, OfferStart, OfferWait, ReportClosed, DetachClosed, Leave, runVars
<1>4. CASE Return \/ Throw \/ \E s \in Loads : Continuation(s) \/ LoaderSettles(s)
    BY <1>4 DEF Return, Throw, Continuation, StartLoader, RunEnds, Drain, LoaderSettles, runVars
<1>5. CASE UNCHANGED vars
    BY <1>5 DEF vars, runVars
<1> QED BY <1>2, <1>3, <1>4, <1>5 DEF Next

\* A batch runs at the bottom of the stack, and an offer right above it, for the
\* revision that was last announced by onLoading.
LEMMA NestedKept ==
    ASSUME TypeOK, Logged, Registered, Nested, [Next]_vars
    PROVE  Nested'
<1> DEFINE Fits(i) == /\ stack'[i].k = "flush" => i = 1
                      /\ stack'[i].k = "offer" => i = 2 /\ stack'[1].k = "flush"
                                                  /\ stack'[i].job.rev = offered'[stack'[i].s]
<1>1. SUFFICES ASSUME NEW i \in DOMAIN stack' PROVE Fits(i)
    BY DEF Nested
<1>2. \A j \in DOMAIN stack : /\ stack[j].k = "flush" => j = 1
                              /\ stack[j].k = "offer" => j = 2 /\ stack[1].k = "flush"
                                                          /\ stack[j].job.rev = offered[stack[j].s]
    BY DEF Nested
<1>3. /\ Height \in Nat /\ DOMAIN stack = 1 .. Height
    BY StackIsTyped
<1>4. CASE FlushDue
  <2>1. \A k \in Keys : touched[k] <= revision[StoreOf[k]]
      BY DEF Logged
  <2> DEFINE s == First(stack[Height].left)
  <2>2. /\ Height \in Nat \ {0}
        /\ \A j \in 1 .. Height - 1 : stack'[j] = stack[j]
        /\ stack[Height] \in FlushFrame /\ stack'[Height] \in FlushFrame
        /\ \/ s \in Watches /\ DOMAIN stack' = 1 .. Height + 1 /\ stack'[Height + 1].k = "call" /\ stack'[Height + 1].s = s
           \/ /\ s \in Loads /\ DOMAIN stack' = 1 .. Height + 2 /\ stack'[Height + 1] \in OfferFrame
              /\ stack'[Height + 1].s = s /\ stack'[Height + 1].job.rev = Latest(s)
              /\ stack'[Height + 2].k = "call" /\ stack'[Height + 2].s = s
      BY <1>4, <2>1, FlushDueEffect, ZenonT(60)
  <2>3. Height = 1 /\ stack'[1].k = "flush"
      BY <1>2, <1>3, <2>2 DEF FlushFrame
  <2>4. s \in Loads => offered'[s] = Latest(s)
    <3>1. stack[Height] = Top
        BY <1>4, TopOfWork DEF FlushDue, Flushing, On
    <3>2. s \notin Watches => offered' = [offered EXCEPT ![s] = Latest(s)]
        BY <1>4, <3>1, ZenonT(60) DEF FlushDue
    <3> HIDE DEF s
    <3> QED BY <3>2, ParametersAreTyped DEF TypeOK, RunTypes
  <2> HIDE DEF s
  <2>5. CASE DOMAIN stack' = 1 .. Height + 1 /\ stack'[Height + 1].k = "call"
      BY <1>1, <2>3, <2>5
  <2>6. CASE /\ s \in Loads /\ DOMAIN stack' = 1 .. Height + 2 /\ stack'[Height + 1] \in OfferFrame
             /\ stack'[Height + 1].s = s /\ stack'[Height + 1].job.rev = Latest(s)
             /\ stack'[Height + 2].k = "call"
    <3>1. /\ DOMAIN stack' = 1 .. 3 /\ stack'[2].s = s /\ stack'[3].k = "call"
          /\ stack'[2].job.rev = offered'[stack'[2].s]
        BY <2>3, <2>4, <2>6
    <3>2. i = 1 \/ i = 2 \/ i = 3
        BY <1>1, <3>1
    <3>3. CASE i = 1
        BY <2>3, <3>3
    <3>4. CASE i = 2
        BY <2>2, <2>3, <2>6, <3>1, <3>4 DEF OfferFrame
    <3>5. CASE i = 3
        BY <3>1, <3>5
    <3> QED BY <3>2, <3>3, <3>4, <3>5
  <2> QED BY <2>2, <2>5, <2>6
<1>5. CASE ~FlushDue
  <2>1. offered' = offered
      BY <1>5, OfferedSteps
  <2>2. CASE SameWork
      BY <1>1, <1>2, <1>3, <2>1, <2>2 DEF SameWork, Work
  <2>3. CASE \E st \in Stores, c \in Acting : CloseStore(st, c)
    <3>1. /\ DOMAIN stack' = 1 .. Height + 1
          /\ \A j \in 1 .. Height : stack'[j] = stack[j]
          /\ stack'[Height + 1].k = "closing"
      <4>1. PICK st \in Stores, c \in Acting : CloseStore(st, c)
          BY <2>3
      <4> DEFINE V == Live(st)
      <4>2. /\ DOMAIN stack' = 1 .. Height + 1
            /\ \A j \in 1 .. Height : stack'[j] = stack[j]
            /\ stack'[Height + 1] = [k |-> "closing", st |-> st, ctx |-> c, told |-> FALSE, left |-> V]
          BY <4>1, CloseStoreEffect, ZenonT(60)
      <4> HIDE DEF V
      <4> QED BY <4>2
    <3> QED BY <1>1, <1>2, <1>3, <2>1, <3>1
  <2>4. CASE ReportClosed
    <3>1. /\ Height \in Nat \ {0} /\ DOMAIN stack' = 1 .. Height + 1
          /\ \A j \in 1 .. Height - 1 : stack'[j] = stack[j]
          /\ stack[Height].k = "closing" /\ stack'[Height].k = "closing" /\ stack'[Height + 1].k = "report"
        BY <2>4, ReportClosedEffect DEF ClosingFrame
    <3> QED BY <1>1, <1>2, <1>3, <2>1, <3>1
  <2>5. CASE DetachClosed
    <3>1. PICK n \in Nat : /\ DOMAIN stack' = 1 .. Height + n
                           /\ \A j \in Height + 1 .. Height + n : stack'[j].k = "abort"
        BY <2>5, DetachClosedStack, ZenonT(60)
    <3>2. /\ Height \in Nat \ {0} /\ \A j \in 1 .. Height - 1 : stack'[j] = stack[j]
          /\ stack[Height] \in ClosingFrame /\ stack'[Height] \in ClosingFrame
        BY <2>5, DetachClosedStack, ZenonT(60)
    <3> QED BY <1>1, <1>2, <1>3, <2>1, <3>1, <3>2 DEF ClosingFrame
  <2>6. CASE FlushTask
    <3>1. DOMAIN stack' = {1} /\ stack'[1].k = "flush"
        BY <2>6, FlushTaskEffect, ZenonT(60)
    <3> QED BY <1>1, <3>1
  <2>7. CASE FrameDone
      BY <1>1, <1>2, <1>3, <2>1, <2>7, FrameDoneEffect
  <2>8. CASE FlushNothing
    <3>1. /\ Height \in Nat \ {0} /\ DOMAIN stack' = 1 .. Height
          /\ \A j \in 1 .. Height - 1 : stack'[j] = stack[j]
          /\ stack[Height] \in FlushFrame /\ stack'[Height] \in FlushFrame
        BY <2>8, FlushNothingEffect, ZenonT(60)
    <3>2. Height = 1 /\ stack'[1].k = "flush"
        BY <1>2, <1>3, <3>1 DEF FlushFrame
    <3> QED BY <1>1, <3>1, <3>2
  <2>9. CASE OfferClosed \/ OfferStart \/ OfferWait
    <3>1. /\ Height \in Nat \ {0} /\ stack[Height].k = "offer"
          /\ \A j \in 1 .. Height - 1 : stack'[j] = stack[j]
          /\ \/ DOMAIN stack' = 1 .. Height - 1
             \/ DOMAIN stack' = 1 .. Height /\ stack'[Height].k = "abort"
        BY <2>9, OfferEffect DEF OfferFrame
    <3> QED BY <1>1, <1>2, <1>3, <2>1, <3>1
  <2>10. CASE \E x \in Scopes, c \in Acting : CloseScope(x, c)
    <3>1. /\ DOMAIN stack' = 1 .. Height + 1
          /\ \A j \in 1 .. Height : stack'[j] = stack[j]
          /\ stack'[Height + 1].k = "leaving"
        BY <2>10, CloseScopeEffect, ZenonT(60)
    <3> QED BY <1>1, <1>2, <1>3, <2>1, <3>1
  <2>11. CASE Leave
    <3>1. PICK n \in Nat : /\ DOMAIN stack' = 1 .. Height + n
                           /\ \A j \in Height + 1 .. Height + n : stack'[j].k = "abort"
        BY <2>11, LeaveStack, ZenonT(60)
    <3>2. /\ Height \in Nat \ {0} /\ \A j \in 1 .. Height - 1 : stack'[j] = stack[j]
          /\ stack[Height] \in LeavingFrame /\ stack'[Height] \in LeavingFrame
        BY <2>11, LeaveStack, ZenonT(60)
    <3> QED BY <1>1, <1>2, <1>3, <2>1, <3>1, <3>2 DEF LeavingFrame
  <2> QED BY <1>5, <2>2, <2>3, <2>4, <2>5, <2>6, <2>7, <2>8, <2>9, <2>10, <2>11, StackSteps, ZenonT(60)
<1> QED BY <1>4, <1>5

\* Behind a queued publication comes the end of its window.
LEMMA PairedKept ==
    ASSUME TypeOK, Logged, Paired, [Next]_vars
    PROVE  Paired'
<1> USE ParametersAreTyped
<1>1. tasks \in Seq(Tasks) /\ Len(tasks) \in Nat /\ DOMAIN tasks = 1 .. Len(tasks)
    BY DEF TypeOK, LoopTypes
<1>2. \A i \in DOMAIN tasks : tasks[i].k = "publish" =>
         /\ i + 1 \in DOMAIN tasks /\ tasks[i+1].k = "end" /\ tasks[i+1].of = "publish"
         /\ tasks[i+1].st = Source(tasks[i].s)
    BY DEF Paired
<1> DEFINE Fits(q) == \A i \in DOMAIN q : q[i].k = "publish" =>
                         /\ i + 1 \in DOMAIN q /\ q[i+1].k = "end" /\ q[i+1].of = "publish"
                         /\ q[i+1].st = Source(q[i].s)
<1>3. SUFFICES Fits(tasks')
    BY DEF Paired
<1>4. ASSUME NEW a \in Tasks, NEW b \in Tasks, tasks' = tasks \o <<a, b>>, b.k # "publish",
             a.k = "publish" => b.k = "end" /\ b.of = "publish" /\ b.st = Source(a.s)
      PROVE  Fits(tasks')
  <2>1. /\ DOMAIN tasks' = 1 .. Len(tasks) + 2
        /\ \A i \in 1 .. Len(tasks) : tasks'[i] = tasks[i]
        /\ tasks'[Len(tasks) + 1] = a /\ tasks'[Len(tasks) + 2] = b
    <3>1. /\ tasks \o <<a, b>> \in Seq(Tasks) /\ Len(tasks \o <<a, b>>) = Len(tasks) + 2
          /\ \A i \in 1 .. Len(tasks) : (tasks \o <<a, b>>)[i] = tasks[i]
          /\ (tasks \o <<a, b>>)[Len(tasks) + 1] = a /\ (tasks \o <<a, b>>)[Len(tasks) + 2] = b
        BY <1>1, TwoMore
    <3> DEFINE q == tasks \o <<a, b>>
    <3>2. q \in Seq(Tasks) /\ Len(q) = Len(tasks) + 2
        BY <3>1
    <3> HIDE DEF q
    <3>3. DOMAIN q = 1 .. Len(tasks) + 2
        BY <3>2
    <3> QED BY <1>4, <3>1, <3>3 DEF q
  <2> SUFFICES ASSUME NEW i \in DOMAIN tasks', tasks'[i].k = "publish"
               PROVE  /\ i + 1 \in DOMAIN tasks' /\ tasks'[i+1].k = "end" /\ tasks'[i+1].of = "publish"
                      /\ tasks'[i+1].st = Source(tasks'[i].s)
      OBVIOUS
  <2>2. CASE i \in 1 .. Len(tasks)
      BY <1>1, <1>2, <2>1, <2>2
  <2>3. CASE i = Len(tasks) + 1
    <3>1. i + 1 = Len(tasks) + 2
        BY <1>1, <2>3
    <3> QED BY <1>1, <1>4, <2>1, <2>3, <3>1
  <2>4. CASE i = Len(tasks) + 2
      BY <1>4, <2>1, <2>4
  <2> QED BY <1>1, <2>1, <2>2, <2>3, <2>4
<1>5. ASSUME NEW st \in Stores, NEW w \in Nat, tasks' = tasks \o <<FlushOf(st, w), Ending("flush", st, w)>>
      PROVE  Fits(tasks')
  <2> DEFINE a == FlushOf(st, w)
             b == Ending("flush", st, w)
  <2>1. a \in Tasks /\ b \in Tasks /\ a.k = "flush" /\ b.k = "end"
      BY TasksAreTyped DEF FlushOf, Ending
  <2>2. tasks' = tasks \o <<a, b>>
      BY <1>5
  <2> HIDE DEF a, b
  <2> QED BY <1>4, <2>1, <2>2
<1>6. ASSUME NEW s \in Loads, NEW w \in Nat, job[s] \in Jobs,
             tasks' = tasks \o <<PublishOf(s, job[s], w), Ending("publish", Source(s), w)>>
      PROVE  Fits(tasks')
  <2> DEFINE a == PublishOf(s, job[s], w)
             b == Ending("publish", Source(s), w)
  <2>1. a \in Tasks /\ b \in Tasks /\ b.k = "end" /\ b.of = "publish" /\ b.st = Source(a.s)
      BY <1>6, TasksAreTyped DEF PublishOf, Ending
  <2>2. tasks' = tasks \o <<a, b>>
      BY <1>6
  <2> HIDE DEF a, b
  <2> QED BY <1>4, <2>1, <2>2
<1>7. ASSUME NEW s \in Loads, tasks' = Append(tasks, OverdueOf(s))
      PROVE  Fits(tasks')
  <2> DEFINE a == OverdueOf(s)
  <2>1. a \in Tasks /\ a.k = "overdue"
      BY TasksAreTyped DEF OverdueOf
  <2> HIDE DEF a
  <2>2. /\ DOMAIN tasks' = 1 .. Len(tasks) + 1
        /\ \A i \in 1 .. Len(tasks) : tasks'[i] = tasks[i]
        /\ tasks'[Len(tasks) + 1] = a
      BY <1>1, <1>7, <2>1, Pushed DEF a
  <2> QED BY <1>1, <1>2, <2>1, <2>2
<1>8. ASSUME tasks # <<>>, tasks' = Tail(tasks)
      PROVE  Fits(tasks')
  <2>1. /\ Len(tasks) \in Nat \ {0} /\ DOMAIN tasks' = 1 .. Len(tasks) - 1
        /\ \A i \in 1 .. Len(tasks) - 1 : tasks'[i] = tasks[i + 1]
    <3>1. /\ Tail(tasks) \in Seq(Tasks) /\ Len(Tail(tasks)) = Len(tasks) - 1
          /\ \A i \in 1 .. Len(Tail(tasks)) : Tail(tasks)[i] = tasks[i + 1]
        BY <1>1, <1>8
    <3> QED BY <1>1, <1>8, <3>1
  <2> SUFFICES ASSUME NEW i \in DOMAIN tasks', tasks'[i].k = "publish"
               PROVE  /\ i + 1 \in DOMAIN tasks' /\ tasks'[i+1].k = "end" /\ tasks'[i+1].of = "publish"
                      /\ tasks'[i+1].st = Source(tasks'[i].s)
      OBVIOUS
  <2>2. i + 1 \in DOMAIN tasks /\ tasks'[i] = tasks[i + 1] /\ tasks[i + 1].k = "publish" /\ i \in Nat
      BY <1>1, <2>1
  <2>3. (i + 1) + 1 \in 1 .. Len(tasks) /\ tasks[(i + 1) + 1].k = "end" /\ tasks[(i + 1) + 1].of = "publish"
        /\ tasks[(i + 1) + 1].st = Source(tasks[i + 1].s)
      BY <1>1, <1>2, <2>2
  <2>4. i + 1 \in 1 .. Len(tasks) - 1
      BY <2>1, <2>2, <2>3
  <2> QED BY <2>1, <2>2, <2>3, <2>4
<1>9. CASE tasks' = tasks
    BY <1>2, <1>9
<1> HIDE DEF Fits
<1> QED BY <1>5, <1>6, <1>7, <1>8, <1>9, TaskSteps, ZenonT(60)
-----------------------------------------------------------------------------
(* Counters.                                                               *)

\* A shifted set of positions is as large as before.
LEMMA ShiftedIsAsLarge ==
    ASSUME NEW S \in SUBSET Nat, IsFiniteSet(S), NEW T, T = {i + 1 : i \in S}
    PROVE  IsFiniteSet(T) /\ Cardinality(T) = Cardinality(S)
<1> DEFINE f == [i \in S |-> i + 1]
<1>1. f \in [S -> T] /\ \A i \in S : f[i] = i + 1
    OBVIOUS
<1>2. DOMAIN f = S
    OBVIOUS
<1> HIDE DEF f
<1>3. IsInjective(f)
    BY <1>1, <1>2 DEF IsInjective
<1>4. \A t \in T : \E i \in S : f[i] = t
    BY <1>1
<1>5. f \in Bijection(S, T)
    BY <1>1, <1>3, <1>4 DEF Bijection, Injection, Surjection
<1>6. ExistsBijection(S, T)
    BY <1>5 DEF ExistsBijection
<1> QED BY <1>6, FS_Bijection

\* How the queue counts the publications that are on their way.
LEMMA EndsAreFinite ==
    ASSUME NEW q \in Seq(Tasks), NEW st
    PROVE  IsFiniteSet(EndsOf(q, st)) /\ EndsOf(q, st) \in SUBSET Nat
           /\ Cardinality(EndsOf(q, st)) \in Nat /\ EndsOf(q, st) \subseteq 1 .. Len(q) /\ Len(q) \in Nat
<1>1. Len(q) \in Nat /\ EndsOf(q, st) \in SUBSET (1 .. Len(q))
    BY DEF EndsOf
<1>2. IsFiniteSet(1 .. Len(q))
    BY <1>1, FS_Interval
<1>3. IsFiniteSet(EndsOf(q, st))
    BY <1>1, <1>2, FS_Subset
<1> QED BY <1>1, <1>3, FS_CardinalityType

LEMMA EndsOfPair ==
    ASSUME NEW q \in Seq(Tasks), NEW a \in Tasks, NEW b \in Tasks, a.k # "end", b.k = "end", NEW st
    PROVE  Cardinality(EndsOf(q \o <<a, b>>, st)) =
              Cardinality(EndsOf(q, st)) + IF b.of = "publish" /\ b.st = st THEN 1 ELSE 0
<1> DEFINE p == q \o <<a, b>>
           n == Len(q)
<1>1. /\ p \in Seq(Tasks) /\ n \in Nat /\ Len(p) = n + 2
      /\ \A i \in 1 .. n : p[i] = q[i]
      /\ p[n + 1] = a /\ p[n + 2] = b
    BY TwoMore
<1> HIDE DEF p
<1>2. DOMAIN p = 1 .. n + 2 /\ DOMAIN q = 1 .. n
    BY <1>1
<1> HIDE DEF n
<1>3. IsFiniteSet(EndsOf(q, st)) /\ Cardinality(EndsOf(q, st)) \in Nat
    BY EndsAreFinite
<1>4. CASE b.of = "publish" /\ b.st = st
  <2>1. EndsOf(p, st) = EndsOf(q, st) \cup {n + 2}
      BY <1>1, <1>2, <1>4 DEF EndsOf
  <2>2. n + 2 \notin EndsOf(q, st)
      BY <1>1, <1>2 DEF EndsOf
  <2> QED BY <1>3, <1>4, <2>1, <2>2, FS_AddElement DEF p
<1>5. CASE ~(b.of = "publish" /\ b.st = st)
  <2>1. EndsOf(p, st) = EndsOf(q, st)
      BY <1>1, <1>2, <1>5 DEF EndsOf
  <2> QED BY <1>3, <1>5, <2>1 DEF p
<1> QED BY <1>4, <1>5

LEMMA EndsOfOne ==
    ASSUME NEW q \in Seq(Tasks), NEW a \in Tasks, a.k # "end", NEW st
    PROVE  EndsOf(Append(q, a), st) = EndsOf(q, st)
<1> DEFINE p == Append(q, a)
           n == Len(q)
<1>1. n \in Nat /\ DOMAIN p = 1 .. n + 1 /\ (\A i \in 1 .. n : p[i] = q[i]) /\ p[n + 1] = a
    BY Pushed
<1>2. DOMAIN q = 1 .. n
    OBVIOUS
<1> HIDE DEF p, n
<1>3. EndsOf(p, st) = EndsOf(q, st)
    BY <1>1, <1>2 DEF EndsOf
<1> QED BY <1>3 DEF p

LEMMA EndsOfTail ==
    ASSUME NEW q \in Seq(Tasks), q # <<>>, NEW st
    PROVE  Cardinality(EndsOf(Tail(q), st)) =
              Cardinality(EndsOf(q, st)) -
                 IF Head(q).k = "end" /\ Head(q).of = "publish" /\ Head(q).st = st THEN 1 ELSE 0
<1> DEFINE p == Tail(q)
           n == Len(q)
           S == EndsOf(p, st)
           T == EndsOf(q, st) \ {1}
<1>1. p \in Seq(Tasks) /\ n \in Nat \ {0} /\ Len(p) = n - 1 /\ (\A i \in 1 .. n - 1 : p[i] = q[i + 1]) /\ Head(q) = q[1]
    OBVIOUS
<1>2. DOMAIN q = 1 .. n
    OBVIOUS
<1>3. IsFiniteSet(S) /\ S \in SUBSET Nat /\ Cardinality(S) \in Nat
    BY <1>1, EndsAreFinite
<1>4. IsFiniteSet(EndsOf(q, st)) /\ Cardinality(EndsOf(q, st)) \in Nat
    BY EndsAreFinite
<1> HIDE DEF p, n
<1>5. DOMAIN p = 1 .. n - 1
    BY <1>1
<1>6. T = {i + 1 : i \in S}
  <2>1. ASSUME NEW x \in T PROVE x \in {i + 1 : i \in S}
    <3>1. x - 1 \in S /\ (x - 1) + 1 = x
        BY <1>1, <1>2, <1>5, <2>1 DEF EndsOf
    <3> QED BY <3>1
  <2>2. ASSUME NEW i \in S PROVE i + 1 \in T
      BY <1>1, <1>2, <1>5 DEF EndsOf
  <2> HIDE DEF S, T
  <2> QED BY <2>1, <2>2
<1> HIDE DEF S, T
<1>7. Cardinality(T) = Cardinality(S)
    BY <1>3, <1>6, ShiftedIsAsLarge
<1>8. Cardinality(T) = IF 1 \in EndsOf(q, st) THEN Cardinality(EndsOf(q, st)) - 1 ELSE Cardinality(EndsOf(q, st))
    BY <1>4, FS_RemoveElement DEF T
<1>9. 1 \in EndsOf(q, st) <=> q[1].k = "end" /\ q[1].of = "publish" /\ q[1].st = st
    BY <1>1, <1>2 DEF EndsOf
<1> QED BY <1>1, <1>3, <1>4, <1>7, <1>8, <1>9 DEF S, p

\* #queuedPublications counts the ends of windows in the queue.
LEMMA PublicationsKept ==
    ASSUME TypeOK, Logged, \A st \in Stores : publications[st] = Cardinality(EndsOf(tasks, st)), [Next]_vars
    PROVE  \A st \in Stores : publications'[st] = Cardinality(EndsOf(tasks', st))
<1> USE ParametersAreTyped
<1>1. tasks \in Seq(Tasks) /\ publications \in [Stores -> Int]
    BY DEF TypeOK, LoopTypes
<1> SUFFICES ASSUME NEW st \in Stores PROVE publications'[st] = Cardinality(EndsOf(tasks', st))
    OBVIOUS
<1>2. publications[st] = Cardinality(EndsOf(tasks, st)) /\ Cardinality(EndsOf(tasks, st)) \in Nat
    BY <1>1, EndsAreFinite
<1>3. CASE UNCHANGED <<tasks, publications>>
    BY <1>2, <1>3
<1>4. ASSUME NEW x \in Stores, NEW w \in Nat, tasks' = tasks \o <<FlushOf(x, w), Ending("flush", x, w)>>,
             publications' = publications
      PROVE  publications'[st] = Cardinality(EndsOf(tasks', st))
  <2> DEFINE a == FlushOf(x, w)
             b == Ending("flush", x, w)
  <2>1. a \in Tasks /\ b \in Tasks /\ a.k # "end" /\ b.k = "end" /\ b.of # "publish"
      BY TasksAreTyped DEF FlushOf, Ending
  <2>2. tasks' = tasks \o <<a, b>>
      BY <1>4
  <2> HIDE DEF a, b
  <2>3. Cardinality(EndsOf(tasks', st)) = Cardinality(EndsOf(tasks, st))
      BY <1>1, <1>2, <2>1, <2>2, EndsOfPair
  <2> QED BY <1>2, <1>4, <2>3
<1>5. ASSUME NEW s \in Loads, NEW w \in Nat, job[s] \in Jobs,
             tasks' = tasks \o <<PublishOf(s, job[s], w), Ending("publish", Source(s), w)>>,
             publications' = [publications EXCEPT ![Source(s)] = @ + 1]
      PROVE  publications'[st] = Cardinality(EndsOf(tasks', st))
  <2> DEFINE a == PublishOf(s, job[s], w)
             b == Ending("publish", Source(s), w)
  <2>1. a \in Tasks /\ b \in Tasks /\ a.k # "end" /\ b.k = "end" /\ b.of = "publish" /\ b.st = Source(s)
      BY <1>5, TasksAreTyped DEF PublishOf, Ending
  <2>2. tasks' = tasks \o <<a, b>>
      BY <1>5
  <2> HIDE DEF a, b
  <2>3. Cardinality(EndsOf(tasks', st)) = Cardinality(EndsOf(tasks, st)) + IF Source(s) = st THEN 1 ELSE 0
      BY <1>1, <2>1, <2>2, EndsOfPair
  <2>4. publications'[st] = publications[st] + IF Source(s) = st THEN 1 ELSE 0
      BY <1>1, <1>5
  <2> QED BY <1>2, <2>3, <2>4
<1>6. ASSUME NEW s \in Loads, tasks' = Append(tasks, OverdueOf(s)), publications' = publications
      PROVE  publications'[st] = Cardinality(EndsOf(tasks', st))
  <2>1. OverdueOf(s) \in Tasks /\ OverdueOf(s).k # "end"
      BY TasksAreTyped DEF OverdueOf
  <2>2. EndsOf(tasks', st) = EndsOf(tasks, st)
      BY <1>1, <1>6, <2>1, EndsOfOne
  <2> QED BY <1>2, <1>6, <2>2
<1>7. ASSUME tasks # <<>>, tasks' = Tail(tasks), Head(tasks).k # "end", publications' = publications
      PROVE  publications'[st] = Cardinality(EndsOf(tasks', st))
  <2>1. Cardinality(EndsOf(tasks', st)) = Cardinality(EndsOf(tasks, st)) - 0
      BY <1>1, <1>7, EndsOfTail
  <2> QED BY <1>2, <1>7, <2>1
<1>8. ASSUME tasks # <<>>, tasks' = Tail(tasks), Head(tasks).k = "end",
             publications' = IF Head(tasks).of = "publish"
                             THEN [publications EXCEPT ![Head(tasks).st] = @ - 1] ELSE publications
      PROVE  publications'[st] = Cardinality(EndsOf(tasks', st))
  <2> DEFINE t == Head(tasks)
  <2>1. t \in Tasks /\ t.k = "end"
      BY <1>1, <1>8
  <2>2. t.st \in Stores
      BY <2>1 DEF Tasks
  <2>3. Cardinality(EndsOf(tasks', st)) = Cardinality(EndsOf(tasks, st)) -
                 IF t.of = "publish" /\ t.st = st THEN 1 ELSE 0
      BY <1>1, <1>8, EndsOfTail
  <2>4. publications' = IF t.of = "publish" THEN [publications EXCEPT ![t.st] = @ - 1] ELSE publications
      BY <1>8
  <2> HIDE DEF t
  <2>5. publications'[st] = publications[st] - IF t.of = "publish" /\ t.st = st THEN 1 ELSE 0
      BY <1>1, <1>2, <2>2, <2>4
  <2> QED BY <1>2, <2>3, <2>5
<1> QED BY <1>3, <1>4, <1>5, <1>6, <1>7, <1>8, TaskSteps, ZenonT(60)

LEMMA LoadsAreFinite ==
    ASSUME RunTypes, NEW st
    PROVE  /\ IsFiniteSet(Running(st)) /\ Cardinality(Running(st)) \in Nat
           /\ IsFiniteSet(Held(st)) /\ Cardinality(Held(st)) \in Nat
<1>1. Running(st) \in SUBSET Working /\ Held(st) \in SUBSET Waiters
    BY DEF Running, Held, Working, Waiters
<1>2. IsFiniteSet(Running(st)) /\ IsFiniteSet(Held(st))
    BY <1>1, FewerAreFinite
<1> QED BY <1>2, FS_CardinalityType

\* How the count of runs of a store moves with the run of a load.
LEMMA RunningMoves ==
    ASSUME RunTypes, NEW s \in Loads, NEW v, run' = [run EXCEPT ![s] = v], NEW st
    PROVE  Cardinality(Running(st)') =
              IF Source(s) # st \/ (run[s] = "none" <=> v = "none") THEN Cardinality(Running(st))
              ELSE IF v = "none" THEN Cardinality(Running(st)) - 1 ELSE Cardinality(Running(st)) + 1
<1>1. IsFiniteSet(Running(st)) /\ Cardinality(Running(st)) \in Nat
    BY LoadsAreFinite
<1>2. \A t \in Loads : run'[t] = IF t = s THEN v ELSE run[t]
    BY DEF RunTypes
<1>3. CASE Source(s) # st \/ (run[s] = "none" <=> v = "none")
  <2>1. Running(st)' = Running(st)
      BY <1>2, <1>3 DEF Running
  <2> QED BY <1>3, <2>1
<1>4. CASE Source(s) = st /\ run[s] # "none" /\ v = "none"
  <2>1. Running(st)' = Running(st) \ {s} /\ s \in Running(st)
      BY <1>2, <1>4 DEF Running
  <2> QED BY <1>1, <1>4, <2>1, FS_RemoveElement
<1>5. CASE Source(s) = st /\ run[s] = "none" /\ v # "none"
  <2>1. Running(st)' = Running(st) \cup {s} /\ s \notin Running(st)
      BY <1>2, <1>5 DEF Running
  <2> QED BY <1>1, <1>5, <2>1, FS_AddElement
<1> QED BY <1>3, <1>4, <1>5

LEMMA HeldMoves ==
    ASSUME RunTypes, NEW s \in Loads, NEW v, waiting' = [waiting EXCEPT ![s] = v], NEW st
    PROVE  Cardinality(Held(st)') =
              IF Source(s) # st \/ (waiting[s] = NoJob <=> v = NoJob) THEN Cardinality(Held(st))
              ELSE IF v = NoJob THEN Cardinality(Held(st)) - 1 ELSE Cardinality(Held(st)) + 1
<1>1. IsFiniteSet(Held(st)) /\ Cardinality(Held(st)) \in Nat
    BY LoadsAreFinite
<1>2. \A t \in Loads : waiting'[t] = IF t = s THEN v ELSE waiting[t]
    BY DEF RunTypes
<1>3. CASE Source(s) # st \/ (waiting[s] = NoJob <=> v = NoJob)
  <2>1. Held(st)' = Held(st)
      BY <1>2, <1>3 DEF Held
  <2> QED BY <1>3, <2>1
<1>4. CASE Source(s) = st /\ waiting[s] # NoJob /\ v = NoJob
  <2>1. Held(st)' = Held(st) \ {s} /\ s \in Held(st)
      BY <1>2, <1>4 DEF Held
  <2> QED BY <1>1, <1>4, <2>1, FS_RemoveElement
<1>5. CASE Source(s) = st /\ waiting[s] = NoJob /\ v # NoJob
  <2>1. Held(st)' = Held(st) \cup {s} /\ s \notin Held(st)
      BY <1>2, <1>5 DEF Held
  <2> QED BY <1>1, <1>5, <2>1, FS_AddElement
<1> QED BY <1>3, <1>4, <1>5

\* The counters of active and pending loads are exact: delivered() and settled() read them.
LEMMA LoadsKept ==
    ASSUME TypeOK, Registered,
           \A st \in Stores : loads[st] = Cardinality(Running(st)) + Cardinality(Held(st)), [Next]_vars
    PROVE  \A st \in Stores : loads'[st] = Cardinality(Running(st)') + Cardinality(Held(st)')
<1> USE ParametersAreTyped
<1>1. RunTypes /\ loads \in [Stores -> Int]
    BY DEF TypeOK, RunTypes
<1> SUFFICES ASSUME NEW st \in Stores PROVE loads'[st] = Cardinality(Running(st)') + Cardinality(Held(st)')
    OBVIOUS
<1> DEFINE R == Cardinality(Running(st))
           H == Cardinality(Held(st))
           R1 == Cardinality(Running(st)')
           H1 == Cardinality(Held(st)')
<1>2. R \in Nat /\ H \in Nat /\ loads[st] = R + H
    BY <1>1, LoadsAreFinite
<1> SUFFICES loads'[st] = R1 + H1
    OBVIOUS
<1>3. run' = run => R1 = R
    BY DEF Running
<1>4. waiting' = waiting => H1 = H
    BY DEF Held
<1> HIDE DEF R, H, R1, H1
<1>5. CASE run' = run /\ waiting' = waiting /\ loads' = loads
    BY <1>2, <1>3, <1>4, <1>5
<1>6. CASE Leave \/ DetachClosed
  <2>1. PICK G \in SUBSET Subs :
              /\ waiting' = [s \in Loads |-> IF s \in G THEN NoJob ELSE waiting[s]]
              /\ loads' = [x \in Stores |-> loads[x] - Cleared(G)[x]]
      BY <1>6, Detaching, ZenonT(60)
  <2>2. run' = run
      BY <1>6 DEF Leave, DetachClosed
  <2> DEFINE C == {s \in G \cap Loads : Source(s) = st /\ waiting[s] # NoJob}
  <2>3. Cleared(G)[st] = Cardinality(C)
      BY DEF Cleared
  <2>4. Held(st)' = Held(st) \ C /\ C = Held(st) \cap C
      BY <2>1 DEF Held
  <2> HIDE DEF C
  <2>5. IsFiniteSet(Held(st))
      BY <1>1, LoadsAreFinite
  <2>6. Cardinality(Held(st) \ C) = Cardinality(Held(st)) - Cardinality(Held(st) \cap C)
      BY <2>5, FS_Difference
  <2>7. H1 = H - Cardinality(C)
      BY <2>4, <2>6 DEF H1, H
  <2>8. Cardinality(C) \in Nat
    <3>1. C \in SUBSET Held(st)
        BY <2>4
    <3> QED BY <2>5, <3>1, FS_Subset, FS_CardinalityType
  <2>9. loads'[st] = loads[st] - Cardinality(C)
      BY <2>1, <2>3
  <2> QED BY <1>2, <1>3, <2>2, <2>7, <2>8, <2>9
<1>7. ASSUME NEW s \in Loads, NEW v, run' = [run EXCEPT ![s] = v]
      PROVE  R1 = IF Source(s) # st \/ (run[s] = "none" <=> v = "none") THEN R
                  ELSE IF v = "none" THEN R - 1 ELSE R + 1
    BY <1>1, <1>7, RunningMoves DEF R, R1
<1>8. ASSUME NEW s \in Loads, NEW v, waiting' = [waiting EXCEPT ![s] = v]
      PROVE  H1 = IF Source(s) # st \/ (waiting[s] = NoJob <=> v = NoJob) THEN H
                  ELSE IF v = NoJob THEN H - 1 ELSE H + 1
    BY <1>1, <1>8, HeldMoves DEF H, H1
<1>9. CASE OfferStart
  <2> DEFINE s == Top.s
  <2>1. s \in Loads
      BY <1>9, OfferIsTyped DEF OfferStart, OfferFrame
  <2>2. /\ run[s] = "none" /\ run' = [run EXCEPT ![s] = "starting"] /\ waiting' = waiting
        /\ loads' = [loads EXCEPT ![Source(s)] = loads[Source(s)] + 1]
      BY <1>9 DEF OfferStart, Start
  <2> HIDE DEF s
  <2>3. R1 = IF Source(s) # st THEN R ELSE R + 1
    <3>1. R1 = IF Source(s) # st \/ (run[s] = "none" <=> "starting" = "none") THEN R
               ELSE IF "starting" = "none" THEN R - 1 ELSE R + 1
        BY <1>7, <2>1, <2>2, ZenonT(60)
    <3> QED BY <2>2, <3>1
  <2>4. loads'[st] = IF Source(s) # st THEN loads[st] ELSE loads[st] + 1
      BY <1>1, <2>2
  <2> QED BY <1>2, <1>4, <2>2, <2>3, <2>4
<1>10. CASE OfferWait
  <2> DEFINE s == Top.s
  <2>1. s \in Loads /\ Top.job \in Jobs
      BY <1>10, OfferIsTyped DEF OfferWait, OfferFrame
  <2>2. /\ waiting' = [waiting EXCEPT ![s] = Top.job] /\ run' = run
        /\ loads' = [loads EXCEPT ![Source(s)] = IF waiting[s] = NoJob THEN @ + 1 ELSE @]
      BY <1>10, ZenonT(60) DEF OfferWait
  <2>3. Top.job # NoJob
      BY <2>1 DEF Jobs, NoJob
  <2> HIDE DEF s
  <2>4. H1 = IF Source(s) # st \/ waiting[s] # NoJob THEN H ELSE H + 1
      BY <1>8, <2>1, <2>2, <2>3
  <2>5. loads'[st] = IF Source(s) # st \/ waiting[s] # NoJob THEN loads[st] ELSE loads[st] + 1
      BY <1>1, <2>2
  <2> QED BY <1>2, <1>3, <2>2, <2>4, <2>5
<1>11. ASSUME NEW s \in Loads, StartLoader(s) \/ LoaderSettles(s)
       PROVE  loads'[st] = R1 + H1
  <2>1. /\ run[s] # "none" /\ waiting' = waiting /\ loads' = loads
        /\ \E v : v # "none" /\ run' = [run EXCEPT ![s] = v]
      BY <1>11 DEF StartLoader, LoaderSettles
  <2>2. R1 = R
      BY <1>7, <2>1
  <2> QED BY <1>2, <1>4, <2>1, <2>2
<1>12. ASSUME NEW s \in Loads, RunEnds(s)
       PROVE  loads'[st] = R1 + H1
  <2> DEFINE held == IF waiting[s] = NoJob THEN 0 ELSE 1
             busy == loads[Source(s)] - 1 - held
  <2>1. run[s] # "none" /\ waiting' = [waiting EXCEPT ![s] = NoJob]
      BY <1>12 DEF RunEnds
  <2>2. H1 = IF Source(s) # st THEN H ELSE H - held
    <3>1. H1 = IF Source(s) # st \/ (waiting[s] = NoJob <=> NoJob = NoJob) THEN H
               ELSE IF NoJob = NoJob THEN H - 1 ELSE H + 1
        BY <1>8, <2>1, ZenonT(60)
    <3> QED BY <1>2, <3>1
  <2>3. CASE Continues(s)
    <3>1. Start(s, waiting[s], busy)
        BY <1>12, <2>3 DEF RunEnds
    <3>2. run' = [run EXCEPT ![s] = "starting"] /\ loads' = [loads EXCEPT ![Source(s)] = busy + 1]
        BY <3>1 DEF Start
    <3>3. R1 = R
        BY <1>7, <2>1, <3>2
    <3>4. loads'[st] = IF Source(s) # st THEN loads[st] ELSE loads[st] - held
        BY <1>1, <3>2
    <3> QED BY <1>2, <2>2, <3>3, <3>4
  <2>4. CASE ~Continues(s)
    <3>1. run' = [run EXCEPT ![s] = "none"] /\ loads' = [loads EXCEPT ![Source(s)] = busy]
        BY <1>12, <2>4 DEF RunEnds
    <3>2. R1 = IF Source(s) # st THEN R ELSE R - 1
        BY <1>7, <2>1, <3>1
    <3>3. loads'[st] = IF Source(s) # st THEN loads[st] ELSE loads[st] - 1 - held
        BY <1>1, <3>1
    <3> QED BY <1>2, <2>2, <3>2, <3>3
  <2> QED BY <2>3, <2>4
<1>13. CASE UserStep
  <2>1. \A x, ks, c : Set(x, ks, c) \/ Refuse(x, ks, c) \/ Watch(x, ks, c) \/ Load(x, c) \/ CloseStore(x, c)
                         \/ CloseScope(x, c) \/ EscalateDrain(x) => run' = run /\ waiting' = waiting /\ loads' = loads
      BY DEF Set, Refuse, Watch, Load, CloseScope, CloseStore, EscalateDrain, runVars
  <2> QED BY <1>5, <1>6, <1>13, <2>1, ZenonT(60) DEF UserStep
<1>14. CASE Machine
    BY <1>5, <1>6, <1>9, <1>10, <1>14 DEF Machine, EndTask, FlushTask, PublishTask, OverdueTask, FrameDone,
        FlushNothing, FlushDue, OfferClosed, ReportClosed, runVars
<1>15. CASE Return \/ Throw \/ \E s \in Loads : Continuation(s) \/ LoaderSettles(s)
    BY <1>5, <1>11, <1>12, <1>15 DEF Return, Throw, Continuation, Drain, runVars
<1>16. CASE UNCHANGED vars
    BY <1>5, <1>16 DEF vars, runVars
<1> QED BY <1>13, <1>14, <1>15, <1>16 DEF Next

LEMMA CountedKept ==
    ASSUME TypeOK, Logged, Registered, Counted, [Next]_vars
    PROVE  Counted'
<1>1. /\ \A st \in Stores : loads[st] = Cardinality(Running(st)) + Cardinality(Held(st))
      /\ \A st \in Stores : publications[st] = Cardinality(EndsOf(tasks, st))
    BY DEF Counted
<1>2. \A st \in Stores : loads'[st] = Cardinality(Running(st)') + Cardinality(Held(st)')
    BY <1>1, LoadsKept
<1>3. \A st \in Stores : publications'[st] = Cardinality(EndsOf(tasks', st))
    BY <1>1, PublicationsKept
<1> QED BY <1>2, <1>3 DEF Counted
-----------------------------------------------------------------------------
(* Outcomes.                                                               *)

\* The offer of a load waits under its onLoading until it is taken up.
LEMMA OffersStay ==
    ASSUME TypeOK, Logged, Registered, [Next]_vars, NEW i \in DOMAIN stack, stack[i].k = "offer"
    PROVE  \/ i \in DOMAIN stack' /\ stack'[i] = stack[i]
           \/ (OfferClosed \/ OfferStart \/ OfferWait) /\ Top = stack[i]
<1>1. Height \in Nat /\ DOMAIN stack = 1 .. Height
    BY StackIsTyped
<1>2. CASE SameWork
    BY <1>2 DEF SameWork, Work
<1>3. CASE \E st \in Stores, c \in Acting : CloseStore(st, c)
  <2>1. DOMAIN stack' = 1 .. Height + 1 /\ \A j \in 1 .. Height : stack'[j] = stack[j]
      BY <1>3, CloseStoreEffect, ZenonT(60)
  <2> QED BY <1>1, <2>1
<1>4. ASSUME Height \in Nat \ {0}, \A j \in 1 .. Height - 1 : stack'[j] = stack[j], stack[Height].k # "offer",
             \E n \in Nat : DOMAIN stack' = 1 .. (Height - 1) + n
      PROVE  i \in DOMAIN stack' /\ stack'[i] = stack[i]
    BY <1>1, <1>4
<1>5. CASE ReportClosed
  <2>1. /\ Height \in Nat \ {0} /\ DOMAIN stack' = 1 .. Height + 1
        /\ \A j \in 1 .. Height - 1 : stack'[j] = stack[j]
        /\ stack[Height] \in ClosingFrame
      BY <1>5, ReportClosedEffect, ZenonT(60)
  <2>2. Height + 1 = (Height - 1) + 2 /\ stack[Height].k # "offer"
      BY <2>1 DEF ClosingFrame
  <2> QED BY <1>4, <2>1, <2>2
<1>6. CASE DetachClosed
  <2>1. PICK n \in Nat : DOMAIN stack' = 1 .. Height + n
      BY <1>6, DetachClosedStack, ZenonT(60)
  <2>2. /\ Height \in Nat \ {0} /\ \A j \in 1 .. Height - 1 : stack'[j] = stack[j]
        /\ stack[Height] \in ClosingFrame
      BY <1>6, DetachClosedStack, ZenonT(60)
  <2>3. Height + n = (Height - 1) + (n + 1) /\ stack[Height].k # "offer"
      BY <2>1, <2>2 DEF ClosingFrame
  <2> QED BY <1>4, <2>1, <2>2, <2>3
<1>7. CASE FlushTask
    BY <1>7, FlushTaskEffect
<1>8. CASE FrameDone
    BY <1>1, <1>8, FrameDoneEffect
<1>9. CASE FlushNothing
  <2>1. /\ Height \in Nat \ {0} /\ DOMAIN stack' = 1 .. Height
        /\ \A j \in 1 .. Height - 1 : stack'[j] = stack[j]
        /\ stack[Height] \in FlushFrame
      BY <1>9, FlushNothingEffect, ZenonT(60)
  <2>2. Height = (Height - 1) + 1 /\ stack[Height].k # "offer"
      BY <2>1 DEF FlushFrame
  <2> QED BY <1>4, <2>1, <2>2
<1>10. CASE FlushDue
  <2>1. \A k \in Keys : touched[k] <= revision[StoreOf[k]]
      BY DEF Logged
  <2> DEFINE x == First(stack[Height].left)
  <2>2. /\ Height \in Nat \ {0}
        /\ \A j \in 1 .. Height - 1 : stack'[j] = stack[j]
        /\ stack[Height] \in FlushFrame
        /\ (DOMAIN stack' = 1 .. Height + 1 \/ DOMAIN stack' = 1 .. Height + 2)
      BY <1>10, <2>1, FlushDueEffect, ZenonT(60)
  <2>3. Height + 1 = (Height - 1) + 2 /\ Height + 2 = (Height - 1) + 3 /\ stack[Height].k # "offer"
      BY <2>2 DEF FlushFrame
  <2> QED BY <1>4, <2>2, <2>3
<1>11. CASE OfferClosed \/ OfferStart \/ OfferWait
  <2>1. /\ Height \in Nat \ {0} /\ \A j \in 1 .. Height - 1 : stack'[j] = stack[j]
        /\ Top = stack[Height]
        /\ (DOMAIN stack' = 1 .. Height - 1 \/ DOMAIN stack' = 1 .. Height)
      BY <1>11, OfferEffect, ZenonT(60)
  <2> QED BY <1>1, <1>11, <2>1
<1>12. CASE \E x \in Scopes, c \in Acting : CloseScope(x, c)
  <2>1. DOMAIN stack' = 1 .. Height + 1 /\ \A j \in 1 .. Height : stack'[j] = stack[j]
      BY <1>12, CloseScopeEffect, ZenonT(60)
  <2> QED BY <1>1, <2>1
<1>13. CASE Leave
  <2>1. PICK n \in Nat : DOMAIN stack' = 1 .. Height + n
      BY <1>13, LeaveStack, ZenonT(60)
  <2>2. /\ Height \in Nat \ {0} /\ \A j \in 1 .. Height - 1 : stack'[j] = stack[j]
        /\ stack[Height] \in LeavingFrame
      BY <1>13, LeaveStack, ZenonT(60)
  <2>3. Height + n = (Height - 1) + (n + 1) /\ stack[Height].k # "offer"
      BY <2>1, <2>2 DEF LeavingFrame
  <2> QED BY <1>4, <2>1, <2>2, <2>3
<1> QED BY <1>2, <1>3, <1>5, <1>6, <1>7, <1>8, <1>9, <1>10, <1>11, <1>12, <1>13, StackSteps, ZenonT(60)

\* A publication stays in the queue until its task runs.
Queued(s, r) == \E i \in DOMAIN tasks : tasks[i].k = "publish" /\ tasks[i].s = s /\ tasks[i].job.rev = r
LEMMA PublicationsStay ==
    ASSUME TypeOK, Logged, [Next]_vars, NEW s, NEW r, Queued(s, r)
    PROVE  \/ Queued(s, r)'
           \/ PublishTask /\ Head(tasks).s = s /\ Head(tasks).job.rev = r
<1> USE ParametersAreTyped
<1>1. tasks \in Seq(Tasks) /\ Len(tasks) \in Nat /\ DOMAIN tasks = 1 .. Len(tasks)
    BY DEF TypeOK, LoopTypes
<1>2. PICK i \in 1 .. Len(tasks) : tasks[i].k = "publish" /\ tasks[i].s = s /\ tasks[i].job.rev = r
    BY <1>1 DEF Queued
<1>3. CASE tasks' = tasks
    BY <1>1, <1>2, <1>3 DEF Queued
<1>4. ASSUME NEW a \in Tasks, NEW b \in Tasks, tasks' = tasks \o <<a, b>>
      PROVE  Queued(s, r)'
  <2> DEFINE q == tasks \o <<a, b>>
  <2>1. q \in Seq(Tasks) /\ Len(q) = Len(tasks) + 2 /\ \A j \in 1 .. Len(tasks) : q[j] = tasks[j]
      BY <1>1, TwoMore
  <2> HIDE DEF q
  <2>2. i \in DOMAIN q /\ q[i] = tasks[i]
      BY <1>1, <2>1
  <2>3. tasks' = q
      BY <1>4 DEF q
  <2> QED BY <1>2, <2>2, <2>3 DEF Queued
<1>5. ASSUME NEW x \in Loads, tasks' = Append(tasks, OverdueOf(x))
      PROVE  Queued(s, r)'
  <2>1. OverdueOf(x) \in Tasks
      BY TasksAreTyped
  <2>2. DOMAIN tasks' = 1 .. Len(tasks) + 1 /\ \A j \in 1 .. Len(tasks) : tasks'[j] = tasks[j]
      BY <1>1, <1>5, <2>1, Pushed
  <2> QED BY <1>1, <1>2, <2>2 DEF Queued
<1>6. ASSUME tasks # <<>>, tasks' = Tail(tasks)
      PROVE  i = 1 \/ Queued(s, r)'
  <2>1. Tail(tasks) \in Seq(Tasks) /\ Len(Tail(tasks)) = Len(tasks) - 1
        /\ \A j \in 1 .. Len(tasks) - 1 : Tail(tasks)[j] = tasks[j + 1]
      BY <1>1, <1>6
  <2>2. CASE i # 1
    <3>1. i - 1 \in 1 .. Len(tasks) - 1 /\ (i - 1) + 1 = i
        BY <2>2
    <3>2. i - 1 \in DOMAIN tasks' /\ tasks'[i - 1] = tasks[i]
        BY <1>6, <2>1, <3>1
    <3> QED BY <1>2, <3>2 DEF Queued
  <2> QED BY <2>2
<1>7. ASSUME NEW st \in Stores, NEW w \in Nat, tasks' = tasks \o <<FlushOf(st, w), Ending("flush", st, w)>>
      PROVE  Queued(s, r)'
  <2>1. FlushOf(st, w) \in Tasks /\ Ending("flush", st, w) \in Tasks
      BY TasksAreTyped
  <2> QED BY <1>4, <1>7, <2>1
<1>8. ASSUME NEW x \in Loads, NEW w \in Nat, job[x] \in Jobs,
             tasks' = tasks \o <<PublishOf(x, job[x], w), Ending("publish", Source(x), w)>>
      PROVE  Queued(s, r)'
  <2>1. PublishOf(x, job[x], w) \in Tasks /\ Ending("publish", Source(x), w) \in Tasks
      BY <1>8, TasksAreTyped
  <2> QED BY <1>4, <1>8, <2>1
<1>9. ASSUME tasks # <<>>, tasks' = Tail(tasks), i = 1, FlushTask \/ PublishTask \/ OverdueTask \/ EndTask
      PROVE  PublishTask /\ Head(tasks).s = s /\ Head(tasks).job.rev = r
  <2>1. Head(tasks) = tasks[1]
      BY <1>1, <1>9
  <2>2. Head(tasks).k = "publish"
      BY <1>2, <1>9, <2>1
  <2> QED BY <1>2, <1>9, <2>1, <2>2 DEF FlushTask, OverdueTask, EndTask, Runs
<1> QED BY <1>3, <1>5, <1>6, <1>7, <1>8, <1>9, TaskSteps, ZenonT(60)

\* What moves the run of a load.
LEMMA LoadSteps ==
    ASSUME TypeOK, Registered, [Next]_vars, NEW s \in Loads
    PROVE  \/ run'[s] = run[s] /\ job'[s] = job[s] /\ aborted'[s] = aborted[s] /\ waiting'[s] = waiting[s]
           \/ status'[s] = "off"
           \/ (OfferStart \/ OfferWait) /\ Top.s = s
           \/ StartLoader(s) \/ LoaderSettles(s) \/ RunEnds(s)
<1> USE ParametersAreTyped
<1> DEFINE Same(x) == run'[x] = run[x] /\ job'[x] = job[x] /\ aborted'[x] = aborted[x] /\ waiting'[x] = waiting[x]
<1>1. run' = run /\ job' = job /\ aborted' = aborted /\ waiting' = waiting => Same(s)
    OBVIOUS
<1>2. CASE Leave \/ DetachClosed
  <2>1. PICK G \in SUBSET Subs :
              /\ status' = [x \in Subs |-> IF x \in G THEN "off" ELSE status[x]]
              /\ waiting' = [x \in Loads |-> IF x \in G THEN NoJob ELSE waiting[x]]
              /\ \A x \in Loads \ G : aborted'[x] = aborted[x]
      BY <1>2, Detaching, ZenonT(60)
  <2>2. run' = run /\ job' = job
      BY <1>2 DEF Leave, DetachClosed
  <2> QED BY <2>1, <2>2
<1>3. CASE OfferStart /\ Top.s # s
  <2> DEFINE x == Top.s
             y == Top.job
  <2>1. /\ run' = [run EXCEPT ![x] = "starting"] /\ job' = [job EXCEPT ![x] = y]
        /\ aborted' = [aborted EXCEPT ![x] = FALSE] /\ waiting' = waiting /\ x # s
      BY <1>3, ZenonT(60) DEF OfferStart, Start
  <2> HIDE DEF x, y
  <2> QED BY <2>1 DEF TypeOK, RunTypes
<1>4. CASE OfferWait /\ Top.s # s
  <2> DEFINE x == Top.s
             y == Top.job
  <2>1. /\ run' = run /\ job' = job
        /\ aborted' = [aborted EXCEPT ![x] = TRUE] /\ waiting' = [waiting EXCEPT ![x] = y] /\ x # s
      BY <1>4, ZenonT(60) DEF OfferWait
  <2> HIDE DEF x, y
  <2> QED BY <2>1 DEF TypeOK, RunTypes
<1>5. ASSUME NEW x \in Loads, x # s, StartLoader(x) \/ LoaderSettles(x)
      PROVE  Same(s)
  <2>1. job' = job /\ aborted' = aborted /\ waiting' = waiting /\ \E v : run' = [run EXCEPT ![x] = v]
      BY <1>5 DEF StartLoader, LoaderSettles
  <2> QED BY <1>5, <2>1 DEF TypeOK, RunTypes
<1>6. ASSUME NEW x \in Loads, x # s, RunEnds(x)
      PROVE  Same(s)
  <2>1. /\ waiting' = [waiting EXCEPT ![x] = NoJob]
        /\ \/ run' = [run EXCEPT ![x] = "starting"] /\ job' = [job EXCEPT ![x] = waiting[x]]
              /\ aborted' = [aborted EXCEPT ![x] = FALSE]
           \/ run' = [run EXCEPT ![x] = "none"] /\ job' = job /\ aborted' = aborted
      BY <1>6 DEF RunEnds, Start
  <2> QED BY <1>6, <2>1 DEF TypeOK, RunTypes
<1>7. CASE UserStep
  <2>1. \A x, ks, c : Set(x, ks, c) \/ Refuse(x, ks, c) \/ Watch(x, ks, c) \/ Load(x, c) \/ CloseStore(x, c)
                         \/ CloseScope(x, c) \/ EscalateDrain(x) => run' = run /\ job' = job /\ aborted' = aborted /\ waiting' = waiting
      BY DEF Set, Refuse, Watch, Load, CloseScope, CloseStore, EscalateDrain, runVars
  <2> QED BY <1>1, <1>2, <1>7, <2>1, ZenonT(60) DEF UserStep
<1>8. CASE Machine
  <2>1. CASE ~(DetachClosed \/ Leave \/ OfferStart \/ OfferWait)
    <3>1. run' = run /\ job' = job /\ aborted' = aborted /\ waiting' = waiting
        BY <1>8, <2>1 DEF Machine, EndTask, FlushTask, PublishTask, OverdueTask, FrameDone,
            FlushNothing, FlushDue, OfferClosed, ReportClosed, runVars
    <3> QED BY <1>1, <3>1
  <2> QED BY <1>2, <1>3, <1>4, <2>1
<1>9. CASE Return \/ Throw \/ \E x \in Loads : Continuation(x) \/ LoaderSettles(x)
  <2>1. CASE \E x \in Loads : StartLoader(x) \/ LoaderSettles(x)
      BY <1>5, <2>1
  <2>2. CASE \E x \in Loads : RunEnds(x)
      BY <1>6, <2>2
  <2>3. CASE Return \/ Throw \/ \E x \in Loads : Drain(x)
    <3>1. run' = run /\ job' = job /\ aborted' = aborted /\ waiting' = waiting
        BY <2>3 DEF Return, Throw, Drain, runVars
    <3> QED BY <1>1, <3>1
  <2> QED BY <1>9, <2>1, <2>2, <2>3 DEF Continuation
<1>10. CASE UNCHANGED vars
    BY <1>1, <1>10 DEF vars, runVars
<1> QED BY <1>7, <1>8, <1>9, <1>10 DEF Next

\* Only a publication shows an outcome.
LEMMA ShownSteps ==
    ASSUME [Next]_vars
    PROVE  PublishTask \/ shown' = shown
<1>1. \A st, ks, c : Set(st, ks, c) \/ Refuse(st, ks, c) \/ Watch(st, ks, c) \/ Load(st, c) \/ CloseScope(st, c)
         \/ CloseStore(st, c) \/ EscalateDrain(st) => shown' = shown
    BY DEF Set, Refuse, Watch, Load, CloseScope, CloseStore, EscalateDrain, runVars
<1>2. CASE UserStep
    BY <1>1, <1>2, ZenonT(60) DEF UserStep
<1>3. CASE Machine
    BY <1>3 DEF Machine, EndTask, FlushTask, OverdueTask, FrameDone, FlushNothing, FlushDue,
        OfferClosed, OfferStart, OfferWait, ReportClosed, DetachClosed, Leave, runVars
<1>4. CASE Return \/ Throw \/ \E s \in Loads : Continuation(s) \/ LoaderSettles(s)
    BY <1>4 DEF Return, Throw, Continuation, StartLoader, RunEnds, Drain, LoaderSettles, runVars
<1>5. CASE UNCHANGED vars
    BY <1>5 DEF vars, runVars
<1> QED BY <1>2, <1>3, <1>4, <1>5 DEF Next

\* A live load that has not shown the newest revision is on its way to it.
LEMMA ShowsKept ==
    ASSUME TypeOK, Logged, Numbers, Registered, Nested, Shows, [Next]_vars
    PROVE  Shows'
<1> USE ParametersAreTyped
<1>0. SUFFICES ASSUME NEW s \in Loads, status'[s] = "live", offered'[s] = Latest(s)', shown'[s] # offered'[s]
               PROVE  \/ Offering(s)'
                      \/ waiting'[s].rev = offered'[s]
                      \/ run'[s] \in {"starting", "loading"} /\ ~aborted'[s] /\ job'[s].rev = offered'[s]
                      \/ Publishing(s)' /\ ~aborted'[s]
    BY DEF Shows
<1> DEFINE L == Latest(s)
           M == Latest(s)'
<1>1. /\ s \in Subs /\ L \in Nat /\ M \in Nat /\ L <= M
    BY LatestSteps
<1>2. /\ offered[s] \in Nat \cup {-1} /\ offered[s] = delivered[s] /\ delivered[s] <= L
      /\ (status[s] = "new" => offered[s] = -1)
    BY <1>1 DEF Numbers, TypeOK, RunTypes
<1>3. offered'[s] = M
    BY <1>0
<1>4. status[s] = "live" /\ offered[s] = L /\ shown[s] # offered[s] =>
         \/ Offering(s)
         \/ waiting[s].rev = offered[s]
         \/ run[s] \in {"starting", "loading"} /\ ~aborted[s] /\ job[s].rev = offered[s]
         \/ Publishing(s) /\ ~aborted[s]
    BY DEF Shows
<1> HIDE DEF L, M
<1>5. CASE FlushDue /\ First(stack[Height].left) = s
  <2> DEFINE x == First(stack[Height].left)
  <2>1. \A k \in Keys : touched[k] <= revision[StoreOf[k]]
      BY DEF Logged
  <2>2. /\ Height \in Nat \ {0}
        /\ \/ x \in Watches
           \/ /\ DOMAIN stack' = 1 .. Height + 2 /\ stack'[Height + 1] \in OfferFrame
              /\ stack'[Height + 1].s = x
      BY <1>5, <2>1, FlushDueEffect, ZenonT(60)
  <2>3. x = s
      BY <1>5
  <2> HIDE DEF x
  <2>4. Height + 1 \in DOMAIN stack' /\ stack'[Height + 1].k = "offer" /\ stack'[Height + 1].s = s
      BY <2>2, <2>3 DEF OfferFrame
  <2>5. Offering(s)'
      BY <2>4 DEF Offering
  <2> QED BY <2>5
<1>6. CASE ~(FlushDue /\ First(stack[Height].left) = s)
  <2>1. offered'[s] = offered[s]
    <3>1. CASE offered' = offered
        BY <3>1
    <3>2. CASE FlushDue
      <4> DEFINE x == First(Top.left)
      <4>1. Top = stack[Height]
          BY <3>2, FlushedIsOne DEF FlushDue, Height
      <4>2. x # s
          BY <1>6, <3>2, <4>1
      <4>3. offered' = offered \/ offered' = [offered EXCEPT ![x] = Latest(x)]
          BY <3>2, ZenonT(60) DEF FlushDue
      <4> HIDE DEF x
      <4> QED BY <4>2, <4>3 DEF TypeOK, RunTypes
    <3> QED BY <3>1, <3>2, OfferedSteps
  <2>2. status[s] = "live"
    <3>1. SUFFICES ASSUME status[s] # "live" PROVE FALSE
        OBVIOUS
    <3>2. status[s] = "new"
        BY <1>0, <1>1, <3>1, StatusMoves
    <3> QED BY <1>1, <1>2, <1>3, <2>1, <3>2
  <2>3. offered[s] = L /\ offered[s] \in Nat
      BY <1>1, <1>2, <1>3, <2>1
  <2>4. ASSUME PublishTask, Head(tasks).s = s, IsCurrent(s, Head(tasks).job)
        PROVE  FALSE
    <3> DEFINE t == Head(tasks)
    <3>1. shown' = [shown EXCEPT ![t.s] = t.job.rev]
      <4>1. t.s = s /\ IsCurrent(t.s, t.job)
          BY <2>4
      <4> QED BY <2>4, <4>1, ZenonT(60) DEF PublishTask
    <3>2. t.job.rev = offered[s] /\ t.s = s
        BY <2>4 DEF IsCurrent
    <3> HIDE DEF t
    <3>3. shown'[s] = offered[s]
        BY <3>1, <3>2 DEF TypeOK, RunTypes
    <3> QED BY <1>0, <2>1, <3>3
  <2>5. shown'[s] = shown[s]
    <3>1. CASE shown' = shown
        BY <3>1
    <3>2. CASE PublishTask
      <4> DEFINE t == Head(tasks)
      <4>1. shown' = shown \/ (IsCurrent(t.s, t.job) /\ shown' = [shown EXCEPT ![t.s] = t.job.rev])
          BY <3>2, ZenonT(60) DEF PublishTask
      <4>2. t.s = s => ~IsCurrent(t.s, t.job)
          BY <2>4, <3>2
      <4> HIDE DEF t
      <4> QED BY <4>1, <4>2 DEF TypeOK, RunTypes
    <3> QED BY <3>1, <3>2, ShownSteps
  <2>6. \/ Offering(s)
        \/ waiting[s].rev = offered[s]
        \/ run[s] \in {"starting", "loading"} /\ ~aborted[s] /\ job[s].rev = offered[s]
        \/ Publishing(s) /\ ~aborted[s]
      BY <1>0, <1>4, <2>1, <2>2, <2>3, <2>5
  <2>7. CASE OfferStart /\ Top.s = s
    <3>1. Top = stack[Height] /\ Height \in DOMAIN stack /\ Top.k = "offer"
        BY <2>7, OfferIsTyped, StackIsTyped DEF OfferStart, OfferFrame, Height
    <3>2. Top.job.rev = offered[s]
        BY <2>7, <3>1 DEF Nested
    <3> DEFINE j == Top.job
    <3>3. run' = [run EXCEPT ![s] = "starting"] /\ job' = [job EXCEPT ![s] = j] /\ aborted' = [aborted EXCEPT ![s] = FALSE]
        BY <2>7 DEF OfferStart, Start
    <3>4. j.rev = offered[s]
        BY <3>2
    <3> HIDE DEF j
    <3>5. run'[s] = "starting" /\ job'[s] = j /\ ~aborted'[s]
        BY <3>3 DEF TypeOK, RunTypes
    <3> QED BY <2>1, <3>4, <3>5
  <2>8. CASE OfferWait /\ Top.s = s
    <3>1. Top = stack[Height] /\ Height \in DOMAIN stack /\ Top.k = "offer"
        BY <2>8, OfferIsTyped, StackIsTyped DEF OfferWait, OfferFrame, Height
    <3>2. Top.job.rev = offered[s]
        BY <2>8, <3>1 DEF Nested
    <3> DEFINE j == Top.job
    <3>3. waiting' = [waiting EXCEPT ![s] = j]
        BY <2>8, ZenonT(60) DEF OfferWait
    <3>4. j.rev = offered[s]
        BY <3>2
    <3> HIDE DEF j
    <3>5. waiting'[s] = j
        BY <3>3 DEF TypeOK, RunTypes
    <3> QED BY <2>1, <3>4, <3>5
  <2>9. CASE ~((OfferStart \/ OfferWait) /\ Top.s = s)
    <3>1. Offering(s) => Offering(s)'
      <4>1. SUFFICES ASSUME Offering(s) PROVE Offering(s)'
          OBVIOUS
      <4>2. PICK i \in DOMAIN stack : stack[i].k = "offer" /\ stack[i].s = s
          BY <4>1 DEF Offering
      <4>3. ~(OfferClosed /\ Top = stack[i])
          BY <2>2, <4>2 DEF OfferClosed
      <4>4. i \in DOMAIN stack' /\ stack'[i] = stack[i]
          BY <2>9, <4>2, <4>3, OffersStay
      <4> QED BY <4>2, <4>4 DEF Offering
    <3>2. Publishing(s) /\ ~aborted[s] => Publishing(s)'
      <4>1. SUFFICES ASSUME Publishing(s), ~aborted[s] PROVE Publishing(s)'
          OBVIOUS
      <4>3. PICK r \in Nat : r = L /\ r = offered[s]
          BY <2>3
      <4>2. Queued(s, r)
          BY <4>1, <4>3 DEF Publishing, Queued
      <4>4. ~(PublishTask /\ Head(tasks).s = s /\ Head(tasks).job.rev = r)
        <5> SUFFICES ASSUME PublishTask, Head(tasks).s = s, Head(tasks).job.rev = r PROVE FALSE
            OBVIOUS
        <5> DEFINE j == Head(tasks).job
        <5>1. j.rev = r
            OBVIOUS
        <5> HIDE DEF j
        <5>2. IsCurrent(s, j)
            BY <2>2, <2>3, <4>1, <4>3, <5>1 DEF IsCurrent, L
        <5> QED BY <2>4, <5>2 DEF j
      <4>5. Queued(s, r)'
          BY <4>2, <4>4, PublicationsStay, ZenonT(60)
      <4>6. r = offered'[s]
          BY <2>1, <4>3
      <4> QED BY <4>5, <4>6 DEF Queued, Publishing
    <3>3. CASE run'[s] = run[s] /\ job'[s] = job[s] /\ aborted'[s] = aborted[s] /\ waiting'[s] = waiting[s]
        BY <2>1, <2>6, <3>1, <3>2, <3>3
    <3>4. CASE StartLoader(s)
      <4>1. /\ job' = job /\ aborted' = aborted /\ waiting' = waiting /\ run[s] = "starting"
            /\ (IsCurrent(s, job[s]) => run' = [run EXCEPT ![s] = "loading"])
          BY <3>4 DEF StartLoader
      <4>2. ~aborted[s] /\ job[s].rev = offered[s] => IsCurrent(s, job[s])
          BY <2>2, <2>3 DEF IsCurrent, L
      <4>3. ~aborted[s] /\ job[s].rev = offered[s] => run'[s] = "loading"
          BY <4>1, <4>2 DEF TypeOK, RunTypes
      <4> QED BY <2>1, <2>6, <3>1, <3>2, <4>1, <4>3
    <3>5. CASE LoaderSettles(s)
      <4>1. /\ aborted' = aborted /\ waiting' = waiting
            /\ (IsCurrent(s, job[s]) =>
                  \E w \in Nat : tasks' = tasks \o <<PublishOf(s, job[s], w), Ending("publish", Source(s), w)>>)
        <5>1. Unused \in Nat
            BY WindowIsTyped DEF TypeOK
        <5> DEFINE u == Unused
        <5>2. IsCurrent(s, job[s]) => tasks' = tasks \o <<PublishOf(s, job[s], u), Ending("publish", Source(s), u)>>
            BY <3>5, SMTT(30) DEF LoaderSettles, Delivery, PublishOf, Ending
        <5> HIDE DEF u
        <5> QED BY <3>5, <5>1, <5>2 DEF LoaderSettles, u
      <4>2. ASSUME ~aborted[s], job[s].rev = offered[s]
            PROVE  Publishing(s)'
        <5>1. IsCurrent(s, job[s])
            BY <2>2, <2>3, <4>2 DEF IsCurrent, L
        <5>2. job[s] \in Jobs
            BY <2>3, <4>2 DEF TypeOK, RunTypes, NoJob
        <5>3. PICK w \in Nat : tasks' = tasks \o <<PublishOf(s, job[s], w), Ending("publish", Source(s), w)>>
            BY <4>1, <5>1
        <5> DEFINE a == PublishOf(s, job[s], w)
                   b == Ending("publish", Source(s), w)
        <5>4. a \in Tasks /\ b \in Tasks /\ tasks \in Seq(Tasks)
            BY <5>2, TasksAreTyped DEF TypeOK, LoopTypes
        <5>5. a.k = "publish" /\ a.s = s /\ a.job.rev = offered'[s]
            BY <2>1, <4>2 DEF PublishOf
        <5> HIDE DEF a, b
        <5> DEFINE q == tasks \o <<a, b>>
        <5>6. q \in Seq(Tasks) /\ Len(tasks) \in Nat /\ Len(q) = Len(tasks) + 2 /\ q[Len(tasks) + 1] = a
            BY <5>4, TwoMore
        <5>7. tasks' = q
            BY <5>3 DEF a, b
        <5> HIDE DEF q
        <5>8. Len(tasks) + 1 \in DOMAIN q
            BY <5>6
        <5> QED BY <5>5, <5>6, <5>7, <5>8 DEF Publishing
      <4> QED BY <2>1, <2>6, <3>1, <3>2, <4>1, <4>2
    <3>6. CASE RunEnds(s)
      <4>1. run[s] = "settled"
          BY <3>6 DEF RunEnds
      <4>2. waiting[s].rev = offered[s] => Continues(s)
          BY <2>2, <2>3 DEF Continues, NoJob
      <4>3. CASE Continues(s)
        <5>1. run' = [run EXCEPT ![s] = "starting"] /\ job' = [job EXCEPT ![s] = waiting[s]]
              /\ aborted' = [aborted EXCEPT ![s] = FALSE]
            BY <3>6, <4>3 DEF RunEnds, Start
        <5>2. run'[s] = "starting" /\ job'[s] = waiting[s] /\ ~aborted'[s]
            BY <5>1 DEF TypeOK, RunTypes
        <5> QED BY <2>1, <2>6, <3>1, <3>2, <4>1, <5>2
      <4>4. CASE ~Continues(s)
        <5>1. aborted' = aborted
            BY <3>6, <4>4 DEF RunEnds
        <5> QED BY <2>1, <2>6, <3>1, <3>2, <4>1, <4>2, <4>4, <5>1
      <4> QED BY <4>3, <4>4
    <3> QED BY <1>0, <2>9, <3>3, <3>4, <3>5, <3>6, LoadSteps
  <2> QED BY <2>7, <2>8, <2>9
<1> QED BY <1>5, <1>6
-----------------------------------------------------------------------------
(* Depths.                                                                 *)

\* The depths of the commits to F after revision n, in a log of m commits.
MissedSince(l, m, F, n) == {l[r].depth : r \in {r \in 1 .. m : r > n /\ l[r].keys \cap F # {}}}

\* What characterises MaxOf.
LEMMA MaxOfIs ==
    ASSUME NEW n \in Nat, NEW S \in SUBSET (0 .. n), NEW m \in Nat, m \in S \/ m = 0, \A x \in S : x <= m
    PROVE  MaxOf(S) = m
<1> DEFINE g == MaxOf(S)
<1>1. /\ g \in 0 .. n
      /\ \A x \in S : x <= g
      /\ S # {} => g \in S
      /\ S = {} => g = 0
    BY MaxOfIsGreatest
<1> HIDE DEF g
<1> SUFFICES g = m
    BY DEF g
<1>2. CASE S = {}
    BY <1>1, <1>2
<1>3. CASE S # {}
    BY <1>1, <1>3
<1> QED BY <1>2, <1>3

\* A commit adds its depth to what its followers have missed, and nothing else does.
LEMMA MissedExtends ==
    ASSUME NEW m \in Nat, NEW l, NEW l1, NEW F, NEW n \in Int, n <= m, NEW ks, NEW d,
           \A r \in 1 .. m : l1[r] = l[r], l1[m + 1] = [keys |-> ks, depth |-> d]
    PROVE  MissedSince(l1, m + 1, F, n) =
              IF ks \cap F = {} THEN MissedSince(l, m, F, n) ELSE MissedSince(l, m, F, n) \cup {d}
<1> DEFINE R == {r \in 1 .. m : r > n /\ l[r].keys \cap F # {}}
           Q == {r \in 1 .. m + 1 : r > n /\ l1[r].keys \cap F # {}}
<1>1. Q = IF ks \cap F = {} THEN R ELSE R \cup {m + 1}
  <2>1. \A r : r \in Q <=> IF ks \cap F = {} THEN r \in R ELSE r \in R \cup {m + 1}
    <3> SUFFICES ASSUME NEW r PROVE r \in Q <=> IF ks \cap F = {} THEN r \in R ELSE r \in R \cup {m + 1}
        OBVIOUS
    <3>1. CASE r = m + 1
        BY <3>1
    <3>2. CASE r # m + 1
      <4>1. r \in 1 .. m + 1 <=> r \in 1 .. m
          BY <3>2
      <4> QED BY <3>2, <4>1
    <3> QED BY <3>1, <3>2
  <2> HIDE DEF Q, R
  <2> QED BY <2>1
<1>2. MissedSince(l, m, F, n) = {l[r].depth : r \in R} /\ MissedSince(l1, m + 1, F, n) = {l1[r].depth : r \in Q}
    BY DEF MissedSince
<1>3. R \subseteq 1 .. m
    OBVIOUS
<1> HIDE DEF Q, R
<1>4. {l1[r].depth : r \in R} = {l[r].depth : r \in R}
  <2>1. \A r \in R : l1[r].depth = l[r].depth
      BY <1>3
  <2> QED BY <2>1, ZenonT(60)
<1>5. {l1[r].depth : r \in R \cup {m + 1}} = {l1[r].depth : r \in R} \cup {l1[m + 1].depth}
    BY ZenonT(60)
<1>6. l1[m + 1].depth = d
    OBVIOUS
<1> QED BY <1>1, <1>2, <1>4, <1>5, <1>6

LEMMA MissedStays ==
    ASSUME NEW m \in Nat, NEW l, NEW l1, NEW F, NEW n, \A r \in 1 .. m : l1[r] = l[r]
    PROVE  MissedSince(l1, m, F, n) = MissedSince(l, m, F, n)
<1>1. {r \in 1 .. m : r > n /\ l1[r].keys \cap F # {}} = {r \in 1 .. m : r > n /\ l[r].keys \cap F # {}}
    OBVIOUS
<1> DEFINE R == {r \in 1 .. m : r > n /\ l[r].keys \cap F # {}}
<1>2. \A r \in R : l1[r].depth = l[r].depth
    OBVIOUS
<1>3. MissedSince(l, m, F, n) = {l[r].depth : r \in R} /\ MissedSince(l1, m, F, n) = {l1[r].depth : r \in R}
    BY <1>1 DEF MissedSince
<1> HIDE DEF R
<1> QED BY <1>2, <1>3, ZenonT(60)

\* The depths missed by a subscription are depths.
LEMMA MissedAreDepths ==
    ASSUME TypeOK, Logged, NEW s \in Subs, NEW n
    PROVE  MissedSince(log[Source(s)], revision[Source(s)], Follows[s], n) \in SUBSET Depths
<1> DEFINE st == Source(s)
<1>1. st \in Stores
    BY ParametersAreTyped
<1> HIDE DEF st
<1>4. log[st] \in Seq(Commits)
    BY <1>1 DEF TypeOK, StoreTypes
<1>5. Len(log[st]) = revision[st]
    BY <1>1 DEF Logged
<1>2. \A r \in 1 .. revision[st] : log[st][r].depth \in Depths
  <2>1. \A r \in 1 .. revision[st] : log[st][r] \in Commits
      BY <1>4, <1>5
  <2> QED BY <2>1 DEF Commits
<1>3. MissedSince(log[st], revision[st], Follows[s], n) \in SUBSET Depths
  <2> DEFINE R == {r \in 1 .. revision[st] : r > n /\ log[st][r].keys \cap Follows[s] # {}}
  <2>1. \A r \in R : log[st][r].depth \in Depths
      BY <1>2
  <2>2. MissedSince(log[st], revision[st], Follows[s], n) = {log[st][r].depth : r \in R}
      BY DEF MissedSince
  <2> HIDE DEF R
  <2> QED BY <2>1, <2>2, ZenonT(60)
<1> QED BY <1>3 DEF st

\* Nothing has been missed since the newest revision.
LEMMA NothingIsNewer ==
    ASSUME TypeOK, Logged, NEW s \in Subs, NEW n \in Nat, Latest(s) <= n
    PROVE  MissedSince(log[Source(s)], revision[Source(s)], Follows[s], n) = {}
<1> USE ParametersAreTyped
<1> DEFINE L == Latest(s)
           st == Source(s)
<1>1. L \in Nat /\ L <= n /\ \A k \in Follows[s] : touched[k] <= L
    BY LatestIsWritten DEF TypeOK, StoreTypes, Logged
<1> HIDE DEF L
<1>2. ASSUME NEW r \in 1 .. revision[Source(s)], r > n, NEW k \in log[Source(s)][r].keys \cap Follows[s]
      PROVE  FALSE
  <2>1. k \in Keys /\ StoreOf[k] = Source(s) /\ touched[k] \in Nat /\ touched[k] <= L
      BY <1>1 DEF TypeOK, StoreTypes
  <2>2. r <= touched[k]
      BY <1>2, <2>1 DEF Logged, Wrote
  <2>3. r \in Nat
      BY DEF TypeOK, StoreTypes
  <2> QED BY <1>1, <1>2, <2>1, <2>2, <2>3
<1>3. {r \in 1 .. revision[Source(s)] : r > n /\ log[Source(s)][r].keys \cap Follows[s] # {}} = {}
    BY <1>2
<1> QED BY <1>3, ZenonT(60) DEF MissedSince

\* What a subscriber has missed since its snapshot, read off the slots.
LEMMA SlotsTellWhatIsMissed ==
    ASSUME TypeOK, Logged, Slotted, NEW s \in Subs, ~closed[Source(s)], NEW n \in Nat
    PROVE  {d \in 0 .. MaxDepth : \E k \in Follows[s] : slots[k][d] > n} =
              MissedSince(log[Source(s)], revision[Source(s)], Follows[s], n)
<1> USE ParametersAreTyped
<1> DEFINE D == {d \in 0 .. MaxDepth : \E k \in Follows[s] : slots[k][d] > n}
           R == {r \in 1 .. revision[Source(s)] : r > n /\ log[Source(s)][r].keys \cap Follows[s] # {}}
           A == {log[Source(s)][r].depth : r \in R}
<1>1. ASSUME NEW d \in D PROVE \E r \in R : log[Source(s)][r].depth = d
  <2>1. PICK k \in Follows[s] : slots[k][d] > n
      OBVIOUS
  <2> DEFINE r == slots[k][d]
  <2>2. d \in Depths /\ k \in Keys /\ StoreOf[k] = Source(s) /\ r \in Nat /\ r > n /\ revision[Source(s)] \in Nat
      BY <2>1 DEF Depths, TypeOK, StoreTypes
  <2>3. r # 0
      BY <2>2
  <2>4. r <= revision[Source(s)] /\ k \in log[Source(s)][r].keys /\ log[Source(s)][r].depth = d
      BY <2>2, <2>3 DEF Slotted, Wrote
  <2> HIDE DEF r
  <2>5. r \in R
      BY <2>2, <2>3, <2>4
  <2> QED BY <2>4, <2>5
<1>2. ASSUME NEW r \in R PROVE log[Source(s)][r].depth \in D
  <2>1. PICK k \in Follows[s] : k \in log[Source(s)][r].keys
      OBVIOUS
  <2>2. k \in Keys /\ StoreOf[k] = Source(s) /\ Source(s) \in Stores
      OBVIOUS
  <2> DEFINE d == log[Source(s)][r].depth
  <2>3. d \in Depths
    <3>1. log[Source(s)] \in Seq(Commits) /\ r \in 1 .. Len(log[Source(s)])
        BY <2>2 DEF TypeOK, StoreTypes, Logged
    <3>2. log[Source(s)][r] \in Commits
        BY <3>1
    <3> QED BY <3>2 DEF Commits
  <2>4. d = log[StoreOf[k]][r].depth
      BY <2>2
  <2> HIDE DEF d
  <2>5. r <= slots[k][d]
      BY <2>1, <2>2, <2>3, <2>4 DEF Slotted, Wrote
  <2>6. slots[k][d] \in Nat /\ r \in Nat
      BY <2>2, <2>3 DEF TypeOK, StoreTypes
  <2>7. d \in D
      BY <2>3, <2>5, <2>6 DEF Depths
  <2> QED BY <2>7 DEF d
<1> HIDE DEF D, R
<1>3. D = A
  <2>1. \A d \in D : d \in A
      BY <1>1
  <2>2. \A r \in R : log[Source(s)][r].depth \in D
      BY <1>2
  <2>3. \A d \in A : d \in D
      BY <2>2
  <2> HIDE DEF A
  <2> QED BY <2>1, <2>3
<1> QED BY <1>3, ZenonT(60) DEF MissedSince, D, R

\* The deepest commit that a subscription has not been handed.
Deepest(s) == MaxOf(MissedSince(log[Source(s)], revision[Source(s)], Follows[s], delivered[s]))

\* The depth of a subscription stays that of the deepest commit it has missed.
LEMMA DepthKept ==
    ASSUME TypeOK, Logged, Slotted, Numbers, Registered, DepthIsExact, [Next]_vars
    PROVE  DepthIsExact'
<1> USE ParametersAreTyped
<1>1. \A s \in Subs : status[s] = "live" /\ delivered[s] # -1 /\ ~closed[Source(s)] => depth[s] = Deepest(s)
    BY ZenonT(60) DEF DepthIsExact, Deepest, MissedSince
<1>2. SUFFICES ASSUME NEW s \in Subs, status'[s] = "live", delivered'[s] # -1, ~closed'[Source(s)]
               PROVE  depth'[s] = Deepest(s)'
    BY ZenonT(60) DEF DepthIsExact, Deepest, MissedSince
<1> DEFINE st == Source(s)
           F == Follows[s]
<1>3. /\ st \in Stores /\ revision[st] \in Nat /\ Len(log[st]) = revision[st] /\ depth[s] \in Depths
      /\ delivered[s] \in Nat \cup {-1} /\ (status[s] = "new" => delivered[s] = -1)
  <2>1. st \in Stores
      OBVIOUS
  <2> HIDE DEF st
  <2>2. revision[st] \in Nat
      BY <2>1 DEF TypeOK, StoreTypes
  <2>3. Len(log[st]) = revision[st]
      BY <2>1 DEF Logged
  <2>4. depth[s] \in Depths /\ delivered[s] \in Nat \cup {-1}
      BY DEF TypeOK, SubTypes
  <2>5. status[s] = "new" => delivered[s] = -1
      BY DEF Numbers
  <2> QED BY <2>1, <2>2, <2>3, <2>4, <2>5
<1>4. ~closed[st]
  <2>1. closed' = closed \/ \E x \in Stores : closed' = [closed EXCEPT ![x] = TRUE]
      BY StoreSteps, ZenonT(60) DEF Set, CloseStore
  <2> QED BY <1>2, <1>3, <2>1 DEF TypeOK, StoreTypes
<1>5. delivered[s] <= revision[st]
  <2>1. Latest(s) \in Nat /\ Latest(s) <= revision[st]
      BY LatestIsWritten DEF TypeOK, StoreTypes, Logged
  <2>2. delivered[s] <= Latest(s)
      BY DEF Numbers
  <2> DEFINE L == Latest(s)
  <2>3. L \in Nat /\ L <= revision[st] /\ delivered[s] <= L
      BY <2>1, <2>2
  <2> HIDE DEF L
  <2> QED BY <1>3, <2>3
<1>6. ASSUME status[s] = "live", depth'[s] = depth[s], delivered'[s] = delivered[s],
             revision' = revision, log' = log
      PROVE  depth'[s] = Deepest(s)'
  <2>1. depth[s] = Deepest(s)
      BY <1>1, <1>2, <1>4, <1>6
  <2> QED BY <1>6, <2>1 DEF Deepest
<1>7. ASSUME NEW x \in Stores, NEW ks \in SUBSET KeysOf(x), NEW c \in Acting, Set(x, ks, c)
      PROVE  depth'[s] = Deepest(s)'
  <2> DEFINE d == c.depth + 1
             n == delivered[s]
             old == MissedSince(log[st], revision[st], F, n)
  <2>1. Written(x, ks, c)
      BY <1>7, SetEffect
  <2>2. /\ status' = status /\ delivered' = delivered
        /\ depth' = [t \in Subs |-> IF t \in {y \in Live(x) : Follows[y] \cap ks # {}}
                                    THEN Max({depth[t], d}) ELSE depth[t]]
      BY <1>7, ZenonT(60) DEF Set
  <2>3. depth[s] = MaxOf(old)
    <3>1. depth[s] = Deepest(s)
        BY <1>1, <1>2, <1>4, <2>2
    <3> QED BY <3>1 DEF Deepest
  <2>4. Deepest(s)' = MaxOf(MissedSince(log'[st], revision'[st], F, n))
      BY <2>2 DEF Deepest
  <2>5. d \in Depths
      BY <2>1 DEF Written
  <2>6. old \in SUBSET Depths
      BY MissedAreDepths
  <2>7. \A r \in 1 .. revision[st] : log'[st][r] = log[st][r]
      BY <1>3, <2>1 DEF Written
  <2>8. CASE st # x
    <3>1. revision'[st] = revision[st]
        BY <1>3, <2>1, <2>8 DEF Written
    <3>2. MissedSince(log'[st], revision[st], F, n) = old
        BY <1>3, <2>7, MissedStays
    <3>3. s \notin Live(x)
        BY <2>8 DEF Live
    <3>4. depth'[s] = depth[s]
        BY <2>2, <3>3
    <3> QED BY <2>3, <2>4, <3>1, <3>2, <3>4
  <2>9. CASE st = x
    <3>1. revision'[st] = revision[st] + 1 /\ log'[st][revision[st] + 1] = [keys |-> ks, depth |-> d]
        BY <1>3, <2>1, <2>9 DEF Written
    <3>2. MissedSince(log'[st], revision[st] + 1, F, n) = IF ks \cap F = {} THEN old ELSE old \cup {d}
      <4> DEFINE m == revision[st]
                 l == log[st]
                 l1 == log'[st]
      <4>1. m \in Nat /\ n \in Int /\ n <= m /\ (\A r \in 1 .. m : l1[r] = l[r])
            /\ l1[m + 1] = [keys |-> ks, depth |-> d]
          BY <1>3, <1>5, <2>7, <3>1
      <4> HIDE DEF m, l, l1, F, d, n
      <4>2. MissedSince(l1, m + 1, F, n) = IF ks \cap F = {} THEN MissedSince(l, m, F, n) ELSE MissedSince(l, m, F, n) \cup {d}
          BY <4>1, MissedExtends
      <4> QED BY <4>2 DEF m, l, l1
    <3>3. s \in {y \in Live(x) : Follows[y] \cap ks # {}} <=> ks \cap F # {}
        BY <1>2, <2>2, <2>9 DEF Live
    <3>4. CASE ks \cap F = {}
        BY <2>2, <2>3, <2>4, <3>1, <3>2, <3>3, <3>4
    <3>5. CASE ks \cap F # {}
      <4>1. depth'[s] = Max({depth[s], d})
          BY <2>2, <3>3, <3>5
      <4>2. Deepest(s)' = MaxOf(old \cup {d})
          BY <2>4, <3>1, <3>2, <3>5
      <4> DEFINE e == depth[s]
                 a == Max({e, d})
      <4> HIDE DEF d, old
      <4>3. e \in Depths /\ MaxDepth \in Nat
          BY <1>3
      <4>4. a \in {e, d} /\ e <= a /\ d <= a
        <5>1. {e, d} \in SUBSET Nat /\ {e, d} # {} /\ \A y \in {e, d} : y <= MaxDepth
            BY <2>5, <4>3 DEF Depths
        <5> HIDE DEF a, e
        <5> QED BY <4>3, <5>1, MaxIsGreatest DEF a
      <4>5. (\A y \in old : y <= e) /\ (e \in old \/ e = 0)
        <5>1. /\ MaxOf(old) \in 0 .. MaxDepth /\ \A y \in old : y <= MaxOf(old)
              /\ old # {} => MaxOf(old) \in old
              /\ old = {} => MaxOf(old) = 0
          <6>1. old \in SUBSET Nat /\ \A y \in old : y <= MaxDepth
              BY <2>6, <4>3 DEF Depths
          <6> QED BY <4>3, <6>1, MaxOfIsGreatest
        <5>2. e = MaxOf(old)
            BY <2>3
        <5> HIDE DEF e
        <5> QED BY <5>1, <5>2
      <4> HIDE DEF a
      <4>6. (\A y \in old \cup {d} : y <= a) /\ (a \in old \cup {d} \/ a = 0) /\ a \in Nat
        <5> HIDE DEF e
        <5>1. e \in Nat /\ d \in Nat /\ \A y \in old : y \in Nat
            BY <2>5, <2>6, <4>3 DEF Depths
        <5> QED BY <4>4, <4>5, <5>1
      <4>7. MaxOf(old \cup {d}) = a
        <5>1. old \cup {d} \in SUBSET (0 .. MaxDepth)
            BY <2>5, <2>6 DEF Depths
        <5> QED BY <4>3, <4>6, <5>1, MaxOfIs
      <4> QED BY <4>1, <4>2, <4>7 DEF a
    <3> QED BY <3>4, <3>5
  <2> QED BY <2>8, <2>9
<1>8. ASSUME NEW r \in Readable(s), NEW c \in Acting, Watch(s, r, c)
      PROVE  depth'[s] = Deepest(s)'
  <2>1. /\ depth' = [depth EXCEPT ![s] = MissedDepth(s, r)] /\ delivered' = [delivered EXCEPT ![s] = r]
        /\ revision' = revision /\ log' = log
      BY <1>8 DEF Watch, storeVars
  <2>2. r \in Nat
      BY ReadableIsOld
  <2>3. {d \in 0 .. MaxDepth : \E k \in Follows[s] : slots[k][d] > r} = MissedSince(log[st], revision[st], F, r)
      BY <1>4, <2>2, SlotsTellWhatIsMissed
  <2>4. MissedDepth(s, r) = MaxOf(MissedSince(log[st], revision[st], F, r))
      BY <2>3 DEF MissedDepth
  <2>5. delivered'[s] = r /\ depth'[s] = MissedDepth(s, r)
      BY <2>1 DEF TypeOK, SubTypes
  <2> QED BY <2>1, <2>4, <2>5 DEF Deepest
<1>9. ASSUME NEW n \in Nat, Latest(s) <= n, delivered'[s] = n, depth'[s] = 0, revision' = revision, log' = log
      PROVE  depth'[s] = Deepest(s)'
  <2>1. MissedSince(log[st], revision[st], F, n) = {}
      BY <1>9, NothingIsNewer
  <2>2. Deepest(s)' = MaxOf({})
      BY <1>9, <2>1 DEF Deepest
  <2> QED BY <1>9, <2>2 DEF MaxOf
<1>10. CASE status[s] # "live"
  <2>1. ASSUME NEW c \in Acting, Load(s, c) PROVE FALSE
    <3>1. delivered' = delivered
        BY <2>1 DEF Load
    <3>2. status[s] = "new"
        BY <1>2, <1>10, StatusMoves
    <3> QED BY <1>2, <1>3, <3>1, <3>2
  <2>2. \E c \in Acting : \E r \in Readable(s) : Watch(s, r, c)
      BY <1>2, <1>10, <2>1, StatusMoves, ZenonT(60)
  <2> QED BY <1>8, <2>2
<1>11. CASE status[s] = "live" /\ ~\E x \in Stores : \E ks \in SUBSET KeysOf(x), c \in Acting : Set(x, ks, c)
  <2>1. revision' = revision /\ log' = log
      BY <1>11, StoreSteps DEF CloseStore
  <2>2. CASE depth' = depth /\ delivered' = delivered
      BY <1>6, <1>11, <2>1, <2>2
  <2>3. ASSUME NEW t \in Watches, NEW c \in Acting, NEW r \in Readable(t), Watch(t, r, c)
        PROVE  depth'[s] = Deepest(s)'
    <3> DEFINE m == MissedDepth(t, r)
    <3>1. status[t] = "new" /\ depth' = [depth EXCEPT ![t] = m] /\ delivered' = [delivered EXCEPT ![t] = r]
        BY <2>3 DEF Watch, Admits
    <3> HIDE DEF m
    <3>2. depth'[s] = depth[s] /\ delivered'[s] = delivered[s]
        BY <1>11, <3>1 DEF TypeOK, SubTypes
    <3> QED BY <1>6, <1>11, <2>1, <3>2
  <2>4. ASSUME NEW t \in Loads, NEW c \in Acting, Load(t, c)
        PROVE  depth'[s] = Deepest(s)'
    <3> DEFINE m == InitialLoadDepth(t, c)
    <3>1. status[t] = "new" /\ depth' = [depth EXCEPT ![t] = m] /\ delivered' = delivered
        BY <2>4 DEF Load, Admits
    <3> HIDE DEF m
    <3>2. depth'[s] = depth[s] /\ delivered'[s] = delivered[s]
        BY <1>11, <3>1 DEF TypeOK, SubTypes
    <3> QED BY <1>6, <1>11, <2>1, <3>2
  <2>5. CASE FlushDue
    <3> DEFINE x == First(Top.left)
               n == Latest(x)
    <3>1. depth' = [depth EXCEPT ![x] = 0] /\ delivered' = [delivered EXCEPT ![x] = n]
        BY <2>5, ZenonT(60) DEF FlushDue
    <3>2. CASE x = s
      <4>1. n \in Nat /\ Latest(s) <= n
        <5>1. Latest(s) \in Nat
            BY LatestSteps
        <5>2. n = Latest(s)
            BY <3>2
        <5> DEFINE L == Latest(s)
        <5>3. L \in Nat /\ n = L
            BY <5>1, <5>2
        <5> HIDE DEF n, L
        <5>4. n \in Nat /\ L <= n
            BY <5>3
        <5> QED BY <5>4 DEF L
      <4> HIDE DEF x, n
      <4>2. delivered'[s] = n /\ depth'[s] = 0
          BY <3>1, <3>2 DEF TypeOK, SubTypes
      <4>3. PICK i \in Nat : i = n
          BY <4>1
      <4>4. Latest(s) <= i /\ delivered'[s] = i
          BY <4>1, <4>2, <4>3
      <4> QED BY <1>9, <2>1, <4>2, <4>4
    <3>3. CASE x # s
      <4> HIDE DEF x, n
      <4>1. depth'[s] = depth[s] /\ delivered'[s] = delivered[s]
          BY <3>1, <3>3 DEF TypeOK, SubTypes
      <4> QED BY <1>6, <1>11, <2>1, <4>1
    <3> QED BY <3>2, <3>3
  <2>6. CASE FlushNothing
    <3> DEFINE x == First(Top.left)
    <3>1. /\ depth' = IF status[x] = "live" THEN [depth EXCEPT ![x] = 0] ELSE depth
          /\ delivered' = delivered /\ ~Due(x)
        BY <2>6, ZenonT(60) DEF FlushNothing
    <3> HIDE DEF x
    <3>2. CASE x = s
      <4>1. depth'[s] = 0
          BY <1>11, <3>1, <3>2 DEF TypeOK, SubTypes
      <4>2. PICK n \in Nat : n = delivered[s]
          BY <1>2, <1>3, <3>1
      <4> DEFINE L == Latest(s)
      <4>3. L \in Nat
          BY LatestSteps
      <4>4. ~(L > n)
          BY <1>11, <3>1, <3>2, <4>2 DEF Due
      <4> HIDE DEF L
      <4>5. L <= n
          BY <4>3, <4>4
      <4>6. Latest(s) <= n
          BY <4>5 DEF L
      <4> QED BY <1>9, <2>1, <3>1, <4>1, <4>2, <4>6
    <3>3. CASE x # s
      <4>1. depth'[s] = depth[s] /\ delivered'[s] = delivered[s]
          BY <3>1, <3>3 DEF TypeOK, SubTypes
      <4> QED BY <1>6, <1>11, <2>1, <4>1
    <3> QED BY <3>2, <3>3
  <2>7. \A x, y : CloseStore(x, y) => depth' = depth /\ delivered' = delivered
      BY DEF CloseStore
  <2>8. FlushTask \/ DetachClosed \/ Leave => depth' = depth /\ delivered' = delivered
      BY DEF FlushTask, DetachClosed, Leave
  <2>9. CASE \E t \in Watches, c \in Acting : \E r \in Readable(t) : Watch(t, r, c)
      BY <2>3, <2>9
  <2> QED BY <1>11, <2>2, <2>4, <2>5, <2>6, <2>7, <2>8, <2>9, SubSteps
<1> QED BY <1>7, <1>10, <1>11
-----------------------------------------------------------------------------
(* The invariant, and what follows from it.                                *)

\* The invariant holds at first and is kept by every step.
LEMMA InvariantStarts == Init => IInv
<1> SUFFICES ASSUME Init PROVE IInv
    OBVIOUS
<1> USE ParametersAreTyped
<1>1. TypeOK
    BY TypeStarts
<1>2. revision = [st \in Stores |-> 0] /\ log = [st \in Stores |-> <<>>] /\ touched = [k \in Keys |-> 0]
    BY DEF Init
<1>3. Logged
  <2>1. \A k \in Keys : touched[k] <= revision[StoreOf[k]]
      BY <1>2
  <2>2. \A k \in Keys : 1 .. revision[StoreOf[k]] = {}
      BY <1>2
  <2>3. \A st \in Stores : Len(log[st]) = revision[st]
      BY <1>2
  <2> QED BY <2>1, <2>2, <2>3 DEF Logged
<1>4. Slotted
  <2>1. slots = [k \in Keys |-> [d \in Depths |-> 0]]
      BY DEF Init, Depths
  <2>2. \A k \in Keys : 1 .. revision[StoreOf[k]] = {}
      BY <1>2
  <2>3. \A k \in Keys, d \in Depths : slots[k][d] = 0
      BY <2>1
  <2> QED BY <2>2, <2>3 DEF Slotted
<1>5. \A s \in Subs : status[s] = "new" /\ delivered[s] = -1
    BY DEF Init
<1>6. Numbers
  <2>1. \A s \in Loads : offered[s] = -1 /\ shown[s] = -1
      BY DEF Init
  <2>2. \A s \in Subs : Latest(s) \in Nat
      BY <1>1, <1>3, LatestIsWritten DEF TypeOK, StoreTypes, Logged
  <2> DEFINE L(s) == Latest(s)
  <2>3. \A s \in Subs : L(s) \in Nat
      BY <2>2
  <2> HIDE DEF L
  <2>4. \A s \in Subs : delivered[s] <= L(s)
      BY <1>5, <2>3
  <2> QED BY <1>5, <2>1, <2>4 DEF Numbers, L
<1>7. stack = <<>> /\ tasks = <<>> /\ dirty = {}
    BY DEF Init
<1>8. Registered /\ Scheduled /\ Nested /\ Paired
    BY <1>5, <1>7 DEF Registered, Scheduled, Nested, Paired
<1>9. Reached /\ Leaving /\ Drains /\ Shows /\ DepthIsExact
    BY <1>5 DEF Reached, Leaving, Drains, Shows, DepthIsExact
<1>10. Counted
  <2>1. ASSUME NEW st \in Stores
        PROVE  Running(st) = {} /\ Held(st) = {} /\ EndsOf(tasks, st) = {} /\ loads[st] = 0 /\ publications[st] = 0
      BY <1>7 DEF Init, Running, Held, EndsOf
  <2>2. ASSUME NEW st \in Stores
        PROVE  loads[st] = Cardinality(Running(st)) + Cardinality(Held(st))
               /\ publications[st] = Cardinality(EndsOf(tasks, st))
    <3>1. Cardinality(Running(st)) = 0 /\ Cardinality(Held(st)) = 0 /\ Cardinality(EndsOf(tasks, st)) = 0
        BY <2>1, FS_EmptySet
    <3> QED BY <2>1, <3>1
  <2> QED BY <2>2 DEF Counted
<1> QED BY <1>1, <1>3, <1>4, <1>6, <1>8, <1>9, <1>10 DEF IInv

LEMMA InvariantKept == IInv /\ [Next]_vars => IInv'
<1> SUFFICES ASSUME IInv, [Next]_vars PROVE IInv'
    OBVIOUS
<1> USE DEF IInv
<1>1. TypeOK' /\ Logged' /\ Slotted'
    BY TypeKept, LoggedKept, SlottedKept
<1>2. Numbers' /\ Registered' /\ Scheduled' /\ Drains'
    BY NumbersKept, RegisteredKept, ScheduledKept, DrainsKept
<1>3. Reached' /\ Nested' /\ Paired' /\ Shows' /\ DepthIsExact'
    BY ReachedKept, NestedKept, PairedKept, ShowsKept, DepthKept
<1>4. Counted' /\ Leaving'
    BY CountedKept, LeavingKept
<1> QED BY <1>1, <1>2, <1>3, <1>4

\* The inductive invariant of the stores, their subscriptions and the delivery loop.
THEOREM ObservationInvariant == Spec => []IInv
BY InvariantStarts, InvariantKept, PTL DEF Spec

\* Every variable has its type: the depths are within MAX_CASCADE_DEPTH, and the stack
\* and the queue hold only frames and tasks of the known kinds.
THEOREM TypeCorrect == Spec => []TypeOK
<1>1. IInv => TypeOK
    BY DEF IInv
<1> QED BY <1>1, ObservationInvariant, PTL

LEMMA EmptyHasNoFrames ==
    ASSUME Idle, NEW s
    PROVE  ~InBatch(s) /\ ~InClosing(s) /\ ~Offering(s)
BY DEF Idle, InBatch, InClosing, Offering

\* delivered(): once no delivery is scheduled, every live subscription has been handed
\* the newest revision of what it follows.
THEOREM NothingIsMissed == Spec => []DeliveredWhenQuiet
<1>1. IInv => DeliveredWhenQuiet
  <2> SUFFICES ASSUME IInv, NEW st \in Stores, Idle, ~Pending(st), NEW s \in Live(st)
               PROVE  delivered[s] = Latest(s)
      BY DEF DeliveredWhenQuiet
  <2>1. s \in Subs /\ status[s] = "live" /\ Source(s) = st /\ ~flushScheduled[st]
      BY DEF Live, Pending
  <2>2. s \notin dirty
      BY <2>1 DEF IInv, Scheduled
  <2> QED BY <2>1, <2>2, EmptyHasNoFrames DEF IInv, Reached
<1> QED BY <1>1, ObservationInvariant, PTL

\* settled(): once no load runs or waits either, every live load has shown the outcome
\* for the newest revision.
THEOREM NewestIsShown == Spec => []SettledWhenQuiet
<1>1. IInv => SettledWhenQuiet
  <2> SUFFICES ASSUME IInv, NEW st \in Stores, Idle, ~Pending(st), loads[st] = 0, NEW s \in Live(st) \cap Loads
               PROVE  shown[s] = Latest(s)
      BY DEF SettledWhenQuiet
  <2>1. s \in Subs /\ s \in Loads /\ status[s] = "live" /\ Source(s) = st /\ ~flushScheduled[st] /\ ~(publications[st] > 0)
      BY DEF Live, Pending
  <2>2. s \notin dirty
      BY <2>1 DEF IInv, Scheduled
  <2>3. delivered[s] = Latest(s)
      BY <2>1, <2>2, EmptyHasNoFrames DEF IInv, Reached
  <2>4. offered[s] = Latest(s) /\ offered[s] = delivered[s]
      BY <2>1, <2>3 DEF IInv, Numbers
  <2> DEFINE R == Cardinality(Running(st))
             H == Cardinality(Held(st))
             E == Cardinality(EndsOf(tasks, st))
  <2>5. /\ IsFiniteSet(Running(st)) /\ R \in Nat /\ IsFiniteSet(Held(st)) /\ H \in Nat
      BY LoadsAreFinite DEF IInv, TypeOK
  <2>6. IsFiniteSet(EndsOf(tasks, st)) /\ E \in Nat
      BY EndsAreFinite DEF IInv, TypeOK, LoopTypes
  <2>7. R + H = 0 /\ E = publications[st]
      BY DEF IInv, Counted
  <2> HIDE DEF R, H, E
  <2>8. R = 0 /\ H = 0 /\ E = 0
      BY <2>1, <2>5, <2>6, <2>7
  <2>9. Running(st) = {} /\ Held(st) = {} /\ EndsOf(tasks, st) = {}
      BY <2>5, <2>6, <2>8, FS_EmptySet DEF R, H, E
  <2>10. run[s] = "none" /\ waiting[s] = NoJob
      BY <2>1, <2>9 DEF Running, Held
  <2>11. ~Publishing(s)
      BY <2>1, <2>9 DEF Publishing, EndsOf, IInv, Paired
  <2>12. waiting[s].rev # offered[s]
    <3>1. Latest(s) \in Nat
        BY <2>1, LatestIsWritten DEF IInv, TypeOK, StoreTypes, Logged
    <3> QED BY <2>4, <2>10, <3>1 DEF NoJob
  <2> QED BY <2>1, <2>4, <2>10, <2>11, <2>12, EmptyHasNoFrames DEF IInv, Shows
<1> QED BY <1>1, ObservationInvariant, PTL

\* close() of a store leaves no subscription behind, whatever its error port closed
\* meanwhile.
THEOREM NoneIsLeftBehind == Spec => []ClosedIsDetached
<1>1. IInv => ClosedIsDetached
  <2> SUFFICES ASSUME IInv, NEW st \in Stores, closed[st],
                      ~(\E i \in DOMAIN stack : stack[i].k = "closing" /\ stack[i].st = st)
               PROVE  Live(st) = {} /\ \A s \in Loads : Source(s) = st /\ status[s] # "new" => drain[s] # "none"
      BY DEF ClosedIsDetached
  <2>1. Live(st) = {}
      BY DEF Live, IInv, Reached, InClosing
  <2>2. \A s \in Loads : s \in Subs /\ status[s] \in {"new", "live", "off"}
      BY ParametersAreTyped DEF IInv, TypeOK, SubTypes
  <2> QED BY <2>1, <2>2 DEF Live, IInv, Drains
<1> QED BY <1>1, ObservationInvariant, PTL

\* A delivery has the largest depth among the commits that it coalesces.
THEOREM DepthAlwaysExact == Spec => []DepthIsExact
<1>1. IInv => DepthIsExact
    BY DEF IInv
<1> QED BY <1>1, ObservationInvariant, PTL

\* onResult and onError come only for the revision of the last onLoading, while it is
\* the newest.
THEOREM NeverOlder == Spec => NeverOlderThanLoading
<1> DEFINE A == \A s \in Loads : shown'[s] # shown[s] =>
                   shown'[s] = offered[s] /\ shown'[s] = Latest(s) /\ shown'[s] > shown[s]
<1>1. IInv /\ [Next]_vars => [A]_vars
  <2> SUFFICES ASSUME IInv, [Next]_vars, NEW s \in Loads, shown'[s] # shown[s]
               PROVE  shown'[s] = offered[s] /\ shown'[s] = Latest(s) /\ shown'[s] > shown[s]
      OBVIOUS
  <2>1. PublishTask
      BY ShownSteps
  <2> DEFINE t == Head(tasks)
  <2>2. IsCurrent(t.s, t.job) /\ shown' = [shown EXCEPT ![t.s] = t.job.rev]
    <3>1. shown' = shown \/ (IsCurrent(t.s, t.job) /\ shown' = [shown EXCEPT ![t.s] = t.job.rev])
        BY <2>1, ZenonT(60) DEF PublishTask
    <3> QED BY <3>1
  <2> DEFINE x == t.s
             r == t.job.rev
  <2>3. r = offered[x] /\ r = Latest(x)
      BY <2>2 DEF IsCurrent
  <2>4. shown' = [shown EXCEPT ![x] = r]
      BY <2>2
  <2> HIDE DEF t, x, r
  <2>5. x = s /\ shown'[s] = r
      BY <2>4 DEF IInv, TypeOK, RunTypes
  <2>6. shown[s] <= offered[s] /\ shown[s] \in Nat \cup {-1} /\ offered[s] \in Nat \cup {-1}
      BY DEF IInv, Numbers, TypeOK, RunTypes
  <2>8. r = offered[s]
      BY <2>3, <2>5
  <2>7. shown'[s] > shown[s]
      BY <2>5, <2>6, <2>8
  <2> QED BY <2>3, <2>5, <2>7
<1> QED BY <1>1, ObservationInvariant, PTL DEF Spec, NeverOlderThanLoading

\* No scope is telling its subscriptions that it closes.
NoneLeaves == \A i \in DOMAIN stack : stack[i].k # "leaving"

\* A callback or a loader is only ever called for a live subscription, and while no
\* scope does.
LEMMA CallsAreForTheLive ==
    ASSUME TypeOK, Logged, Registered, Nested, [Next]_vars, NEW i \in DOMAIN stack', stack'[i].k = "call"
    PROVE  \/ i \in DOMAIN stack /\ stack[i] = stack'[i]
           \/ status[stack'[i].s] = "live" /\ NoneLeaves
<1> USE StackIsTyped
<1> DEFINE Old == i \in DOMAIN stack /\ stack[i] = stack'[i]
           New == status[stack'[i].s] = "live" /\ NoneLeaves
<1> SUFFICES Old \/ New
    OBVIOUS
<1>1. CASE QuietStep
  <2>1. CASE \E st \in Stores : \E ks \in SUBSET KeysOf(st), c \in Acting : Refuse(st, ks, c)
    <3>1. PICK c \in Acting : stack' = Append(stack, Report(c))
        BY <2>1 DEF Refuse
    <3>2. Report(c) \in Frames /\ Report(c).k = "report"
        BY ActingIsTyped, QuietFrames DEF TypeOK
    <3>3. /\ DOMAIN stack' = 1 .. Height + 1 /\ \A j \in 1 .. Height : stack'[j] = stack[j]
          /\ stack'[Height + 1] = Report(c)
        BY <3>1, <3>2, Pushed DEF Height
    <3> QED BY <3>2, <3>3
  <2>2. CASE Return
    <3>1. ~Idle /\ stack' = Under
        BY <2>2 DEF Return
    <3> QED BY <3>1, TopOfWork
  <2>3. CASE Throw
    <3>1. ~Idle /\ stack' = Append(Under, Report(Outside))
        BY <2>3 DEF Throw, On
    <3>2. Report(Outside) \in Frames /\ Report(Outside).k = "report"
        BY OutsideIsTyped, QuietFrames
    <3>3. /\ DOMAIN stack' = 1 .. Len(Under) + 1 /\ \A j \in 1 .. Len(Under) : stack'[j] = Under[j]
          /\ stack'[Len(Under) + 1] = Report(Outside)
        BY <3>1, <3>2, TopOfWork, Pushed
    <3> QED BY <3>1, <3>2, <3>3, TopOfWork
  <2>4. CASE PublishTask
    <3> DEFINE t == Head(tasks)
               c == [depth |-> t.job.depth, of |-> t.s, win |-> t.win]
    <3>1. stack' = stack \/ (IsCurrent(t.s, t.job) /\ stack' = <<Call(t.s, c, "outcome")>>)
        BY <2>4, ZenonT(60) DEF PublishTask
    <3> HIDE DEF c, t
    <3>2. NoneLeaves
        BY <2>4 DEF NoneLeaves, PublishTask, Runs, Idle
    <3> QED BY <3>1, <3>2 DEF IsCurrent, Call
  <2>5. CASE OverdueTask
      BY <2>5 DEF OverdueTask, Report
  <2>6. CASE \E s \in Loads : StartLoader(s)
    <3>1. PICK s \in Loads : StartLoader(s)
        BY <2>6
    <3> DEFINE c == [depth |-> job[s].depth, of |-> s, win |-> Unused]
    <3>2. stack' = stack \/ (IsCurrent(s, job[s]) /\ stack' = <<Call(s, c, "loader")>>)
        BY <3>1, ZenonT(60) DEF StartLoader
    <3> HIDE DEF c
    <3>3. NoneLeaves
        BY <3>1 DEF NoneLeaves, StartLoader, Idle
    <3> QED BY <3>2, <3>3 DEF IsCurrent, Call
  <2> QED BY <1>1, <2>1, <2>2, <2>3, <2>4, <2>5, <2>6 DEF QuietStep
<1>2. CASE \E st \in Stores, c \in Acting : CloseStore(st, c)
  <2>1. PICK st \in Stores, c \in Acting : CloseStore(st, c)
      BY <1>2
  <2> DEFINE V == Live(st)
  <2>2. /\ DOMAIN stack' = 1 .. Height + 1 /\ \A j \in 1 .. Height : stack'[j] = stack[j]
        /\ stack'[Height + 1] = [k |-> "closing", st |-> st, ctx |-> c, told |-> FALSE, left |-> V]
      BY <2>1, CloseStoreEffect, ZenonT(60)
  <2> HIDE DEF V
  <2>3. stack'[Height + 1].k = "closing"
      BY <2>2
  <2> QED BY <2>2, <2>3
<1>3. CASE ReportClosed
  <2>1. /\ Height \in Nat \ {0} /\ DOMAIN stack' = 1 .. Height + 1
        /\ \A j \in 1 .. Height - 1 : stack'[j] = stack[j]
        /\ stack'[Height] \in ClosingFrame /\ stack'[Height + 1].k = "report"
      BY <1>3, ReportClosedEffect, ZenonT(60)
  <2>2. stack'[Height].k = "closing"
      BY <2>1 DEF ClosingFrame
  <2> QED BY <2>1, <2>2
<1>4. CASE DetachClosed
  <2>1. PICK n \in Nat : /\ DOMAIN stack' = 1 .. Height + n
                         /\ \A j \in Height + 1 .. Height + n : stack'[j].k = "abort"
      BY <1>4, DetachClosedStack, ZenonT(60)
  <2>2. /\ Height \in Nat \ {0} /\ \A j \in 1 .. Height - 1 : stack'[j] = stack[j]
        /\ stack'[Height] \in ClosingFrame
      BY <1>4, DetachClosedStack, ZenonT(60)
  <2>3. stack'[Height].k = "closing"
      BY <2>2 DEF ClosingFrame
  <2> QED BY <2>1, <2>2, <2>3
<1>5. CASE FlushTask
    BY <1>5, FlushTaskEffect
<1>6. CASE FrameDone
    BY <1>6, FrameDoneEffect
<1>7. CASE FlushNothing
  <2>1. /\ Height \in Nat \ {0} /\ DOMAIN stack' = 1 .. Height
        /\ \A j \in 1 .. Height - 1 : stack'[j] = stack[j]
        /\ stack'[Height] \in FlushFrame
      BY <1>7, FlushNothingEffect, ZenonT(60)
  <2>2. stack'[Height].k = "flush"
      BY <2>1 DEF FlushFrame
  <2> QED BY <2>1, <2>2
<1>8. CASE FlushDue
  <2>1. \A k \in Keys : touched[k] <= revision[StoreOf[k]]
      BY DEF Logged
  <2> DEFINE x == First(stack[Height].left)
  <2>2. /\ Height \in Nat \ {0} /\ \A j \in 1 .. Height - 1 : stack'[j] = stack[j]
        /\ stack'[Height] \in FlushFrame /\ Due(x)
        /\ \/ DOMAIN stack' = 1 .. Height + 1 /\ stack'[Height + 1].s = x
           \/ DOMAIN stack' = 1 .. Height + 2 /\ stack'[Height + 1] \in OfferFrame /\ stack'[Height + 2].s = x
      BY <1>8, <2>1, FlushDueEffect, ZenonT(60)
  <2> HIDE DEF x
  <2>3. stack'[Height].k = "flush" /\ status[x] = "live"
      BY <2>2 DEF FlushFrame, Due
  <2>4. stack'[Height + 1] \in OfferFrame => stack'[Height + 1].k = "offer"
      BY DEF OfferFrame
  <2>5. NoneLeaves
    <3>1. stack[Height].k = "flush" /\ Height \in DOMAIN stack
        BY <1>8, TopOfWork DEF FlushDue, Flushing, On
    <3>2. Height = 1
        BY <3>1 DEF Nested
    <3> QED BY <3>1, <3>2 DEF NoneLeaves
  <2> QED BY <2>2, <2>3, <2>4, <2>5
<1>9. CASE OfferClosed \/ OfferStart \/ OfferWait
  <2>1. /\ Height \in Nat \ {0} /\ \A j \in 1 .. Height - 1 : stack'[j] = stack[j]
        /\ \/ DOMAIN stack' = 1 .. Height - 1
           \/ DOMAIN stack' = 1 .. Height /\ stack'[Height].k = "abort"
      BY <1>9, OfferEffect, ZenonT(60)
  <2> QED BY <2>1
<1>10. CASE \E x \in Scopes, c \in Acting : CloseScope(x, c)
  <2>1. /\ DOMAIN stack' = 1 .. Height + 1 /\ \A j \in 1 .. Height : stack'[j] = stack[j]
        /\ stack'[Height + 1].k = "leaving"
      BY <1>10, CloseScopeEffect, ZenonT(60)
  <2> QED BY <2>1
<1>11. CASE Leave
  <2>1. PICK n \in Nat : /\ DOMAIN stack' = 1 .. Height + n
                         /\ \A j \in Height + 1 .. Height + n : stack'[j].k = "abort"
      BY <1>11, LeaveStack, ZenonT(60)
  <2>2. /\ Height \in Nat \ {0} /\ \A j \in 1 .. Height - 1 : stack'[j] = stack[j]
        /\ stack'[Height] \in LeavingFrame
      BY <1>11, LeaveStack, ZenonT(60)
  <2>3. stack'[Height].k = "leaving"
      BY <2>2 DEF LeavingFrame
  <2> QED BY <2>1, <2>2, <2>3
<1> HIDE DEF Old, New
<1> QED BY <1>1, <1>2, <1>3, <1>4, <1>5, <1>6, <1>7, <1>8, <1>9, <1>10, <1>11, StackMoves, ZenonT(60)

\* No callback and no loader is called of a subscription that is detached, or whose
\* scope has begun to close.
THEOREM DetachedIsSilent == Spec => SilentWhenDetached
<1> DEFINE A == \A s \in Subs : status[s] = "off" \/ ScopeOf[s] \notin open =>
                   \A i \in DOMAIN stack' : stack'[i].k = "call" /\ stack'[i].s = s =>
                       i \in DOMAIN stack /\ stack[i] = stack'[i]
<1>1. IInv /\ [Next]_vars => [A]_vars
  <2> SUFFICES ASSUME IInv, [Next]_vars, NEW s \in Subs, status[s] = "off" \/ ScopeOf[s] \notin open,
                      NEW i \in DOMAIN stack', stack'[i].k = "call", stack'[i].s = s
               PROVE  i \in DOMAIN stack /\ stack[i] = stack'[i]
      OBVIOUS
  <2>1. \/ i \in DOMAIN stack /\ stack[i] = stack'[i]
        \/ status[stack'[i].s] = "live" /\ NoneLeaves
      BY CallsAreForTheLive, ZenonT(60) DEF IInv
  <2>2. status[s] = "live" /\ NoneLeaves => ScopeOf[s] \in open
      BY DEF IInv, Leaving, InLeaving, NoneLeaves
  <2> QED BY <2>1, <2>2
<1> QED BY <1>1, ObservationInvariant, PTL DEF Spec, SilentWhenDetached
=============================================================================
