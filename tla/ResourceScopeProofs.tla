-------------------------- MODULE ResourceScopeProofs --------------------------
(***************************************************************************)
(* Theorems about the cleanup scopes, for any number of scopes, leaves and *)
(* calls, any compaction bound and whatever user code exercises.           *)
(***************************************************************************)
EXTENDS ResourceScopeProperties, SequenceTheorems, FiniteSetTheorems, WellFoundedInduction, TLAPS

-----------------------------------------------------------------------------
(* The tree of scopes.                                                     *)

\* The part of the type invariant that the tree needs.
TreeType ==
    /\ home \in [Items -> {0} \cup Scopes]
    /\ requested \in [Scopes -> BOOLEAN]
    /\ detached \in [Scopes -> BOOLEAN]
    /\ ledger \in [Scopes -> Seq(Items)]

TreeInv == TreeType /\ Sealed

\* Leaves are not scopes, and both are items.
LEMMA ItemKinds ==
    /\ \A n \in Scopes : n \in Items /\ n # 0
    /\ \A l \in Leaves : l \in Items /\ l \notin Scopes
    /\ Root \in Scopes
BY ScopeAssumption DEF Scopes, Leaves, Items, Root

\* Reach is closed under the relation it follows.
LEMMA ReachClosed ==
    ASSUME NEW n \in Scopes, NEW next, \A x \in Scopes : next[x] \subseteq Scopes,
           NEW a \in Reach(n, next), NEW b \in next[a]
    PROVE  b \in Reach(n, next)
<1>1. a \in Scopes /\ b \in Scopes
    BY DEF Reach
<1>2. ASSUME NEW T \in SUBSET Scopes, n \in T, \A x \in T : next[x] \subseteq T
      PROVE  b \in T
    <2>1. a \in T
        BY <1>2 DEF Reach
    <2> QED BY <1>2, <2>1
<1> QED BY <1>1, <1>2 DEF Reach

\* A scope reaches itself.
LEMMA ReachRoot ==
    ASSUME NEW n \in Scopes, NEW next PROVE n \in Reach(n, next)
BY DEF Reach

\* A close request seals every attached child of what it reaches: the pruned
\* walk stops only at scopes whose subtrees are sealed already.
LEMMA RequestSeals ==
    ASSUME TreeInv, NEW n \in Scopes,
           requested' = [m \in Scopes |-> requested[m] \/ m \in Unsealed(n)],
           home' = home,
           \A c \in Scopes : detached[c] => detached'[c]
    PROVE  Sealed'
<1> DEFINE open == {c \in Scopes : ~requested[c]}
           next == [a \in Scopes |-> Kids(a) \cap open]
<1> SUFFICES ASSUME NEW c \in Scopes, home[c] # 0, ~detached'[c], requested'[home[c]]
             PROVE  requested'[c]
    BY DEF Sealed
<1>1. home[c] \in Scopes /\ ~detached[c] /\ c \in Kids(home[c])
    BY ItemKinds DEF TreeInv, TreeType, Kids
<1>2. CASE requested[home[c]]
    BY <1>1, <1>2 DEF TreeInv, Sealed
<1>3. CASE ~requested[home[c]] /\ ~requested[c]
    <2>1. home[c] \in Unsealed(n)
        BY <1>1, <1>3
    <2>2. n \in open /\ home[c] \in Reach(n, next)
        BY <2>1 DEF Unsealed
    <2>3. c \in next[home[c]]
        BY <1>1, <1>3
    <2>4. \A x \in Scopes : next[x] \subseteq Scopes
        BY DEF Kids
    <2>5. c \in Reach(n, next)
        BY <2>2, <2>3, <2>4, ReachClosed
    <2>6. c \in Unsealed(n)
        BY <2>2, <2>5 DEF Unsealed
    <2> QED BY <2>6
<1> QED BY <1>2, <1>3

\* A scope that registers a new item is not requested, so nothing is left to seal.
LEMMA RegistrationSealed ==
    ASSUME TreeInv, NEW n \in Scopes, Accepts(n), NEW i \in Items,
           home' = [home EXCEPT ![i] = n], UNCHANGED <<requested, detached>>
    PROVE  Sealed'
BY ItemKinds DEF TreeInv, TreeType, Sealed, Accepts

\* Steps that leave the tree alone, but for scopes that detach.
LEMMA StillSealed ==
    ASSUME TreeInv, UNCHANGED <<home, requested>>,
           \A c \in Scopes : detached[c] => detached'[c]
    PROVE  Sealed'
BY ItemKinds DEF TreeInv, TreeType, Sealed

\* Detach only ever sets the flag.
LEMMA DetachSets ==
    ASSUME TreeType, NEW n, NEW w, NEW l, NEW t, Detach(n, w, l, t)
    PROVE  /\ detached' \in [Scopes -> BOOLEAN]
           /\ \A c \in Scopes : detached[c] => detached'[c]
BY DEF Detach, TreeType

\* Taking a flight requests what Unsealed visits, and detaches at most.
LEMMA TakeFlightTree ==
    ASSUME TreeType, NEW n, NEW v, TakeFlight(n, v)
    PROVE  /\ requested' = [m \in Scopes |-> requested[m] \/ m \in Unsealed(n)]
           /\ detached' \in [Scopes -> BOOLEAN]
           /\ \A c \in Scopes : detached[c] => detached'[c]
<1>1. CASE phase[n] # "none"
    BY <1>1 DEF TakeFlight, TreeType
<1>2. CASE phase[n] = "none"
    <2>1. Open(n, v)
        BY <1>2 DEF TakeFlight
    <2>2. CASE NothingLeft(n)
        BY <2>1, <2>2, DetachSets, <1>2 DEF Open, TakeFlight
    <2>3. CASE ~NothingLeft(n)
        BY <2>1, <2>3, <1>2 DEF Open, TakeFlight, TreeType
    <2> QED BY <2>2, <2>3
<1> QED BY <1>1, <1>2

\* A slot goes to the end of a ledger.
LEMMA LedgerType ==
    ASSUME TreeType, NEW n, NEW i \in Items,
           ledger' = [ledger EXCEPT ![n] = Append(@, i)]
    PROVE  ledger' \in [Scopes -> Seq(Items)]
<1> SUFFICES ASSUME NEW m \in Scopes PROVE ledger'[m] \in Seq(Items)
    BY DEF TreeType
<1>1. ledger[m] \in Seq(Items)
    BY DEF TreeType
<1>2. Append(ledger[m], i) \in Seq(Items)
    BY <1>1, AppendProperties
<1> QED BY <1>1, <1>2 DEF TreeType

\* What a step may do to the tree: register one new item in a scope that
\* accepts, or let a started setup take its slot, or neither.
Registers(n, i) ==
    /\ Accepts(n) /\ home[i] = 0
    /\ home' = [home EXCEPT ![i] = n]
    /\ ledger' \in {ledger, [ledger EXCEPT ![n] = Append(@, i)]}
    /\ UNCHANGED <<requested, detached>>
TakesSlot(l) ==
    /\ where[l] = "setup"
    /\ ledger' = [ledger EXCEPT ![home[l]] = Append(@, l)]
    /\ UNCHANGED <<home, requested, detached>>
Requests(n) ==
    /\ requested' = [m \in Scopes |-> requested[m] \/ m \in Unsealed(n)]
    /\ detached' \in [Scopes -> BOOLEAN]
    /\ \A c \in Scopes : detached[c] => detached'[c]
    /\ UNCHANGED <<home, ledger>>
Departs ==
    /\ detached' \in [Scopes -> BOOLEAN]
    /\ \A c \in Scopes : detached[c] => detached'[c]
    /\ UNCHANGED <<home, requested, ledger>>

TreeStep ==
    \/ \E n \in Scopes, i \in Items : Registers(n, i)
    \/ \E l \in Leaves : TakesSlot(l)
    \/ \E n \in Scopes : Requests(n)
    \/ Departs

\* Every step is one of these.
LEMMA NextIsTreeStep == ASSUME TreeType, [Next]_vars PROVE TreeStep
<1>1. ASSUME NEW n \in Scopes, Setup(n) PROVE TreeStep
    <2>1. PICK l \in NextLeaf : Registers(n, l)
        BY <1>1 DEF Setup, Registers, NextLeaf, signalVars
    <2> QED BY <2>1, ItemKinds DEF TreeStep, NextLeaf
<1>2. ASSUME NEW n \in Scopes, Use(n) PROVE TreeStep
    <2>1. PICK l \in NextLeaf : Registers(n, l)
        BY <1>2 DEF Use, Registers, NextLeaf, signalVars
    <2> QED BY <2>1, ItemKinds DEF TreeStep, NextLeaf
<1>3. ASSUME NEW n \in Scopes, NEW o, Child(n, o) PROVE TreeStep
    <2>1. PICK c \in NextScope : Registers(n, c)
        BY <1>3 DEF Child, Construct, Registers, NextScope, Created
    <2> QED BY <2>1, ItemKinds DEF TreeStep, NextScope
<1>4. ASSUME NEW n \in Scopes, OpenModule(n) PROVE TreeStep
    <2>1. PICK c \in NextScope : Registers(n, c)
        BY <1>4 DEF OpenModule, Construct, Registers, NextScope, Created
    <2> QED BY <2>1, ItemKinds DEF TreeStep, NextScope
<1>5. ASSUME NEW k \in Calls, NEW n \in Scopes, NEW e, NEW a, Close(k, n, e, a) PROVE TreeStep
    <2>1. TakeFlight(n, where) /\ UNCHANGED <<home, ledger>>
        BY <1>5 DEF Close
    <2>2. Requests(n)
        BY <2>1, TakeFlightTree DEF Requests
    <2> QED BY <2>2 DEF TreeStep
<1>6. ASSUME InvokeChild PROVE TreeStep
    <2> DEFINE c == Head(Top.left)
    <2>1. /\ TakeFlight(c, [where EXCEPT ![c] = "active"])
          /\ UNCHANGED <<home, ledger>> /\ c \in Scopes
        BY <1>6 DEF InvokeChild, HasChild
    <2>2. Requests(c)
        BY <2>1, TakeFlightTree DEF Requests
    <2> QED BY <2>1, <2>2 DEF TreeStep
<1>7. ASSUME Settle PROVE TreeStep
    <2> DEFINE n == Top.n
    <2>1. /\ UNCHANGED <<home, requested, ledger>>
          /\ \/ UNCHANGED detached
             \/ \E l, t : Detach(n, where, l, t)
        BY <1>7 DEF Settle, signalVars
    <2>2. Departs
        BY <2>1, DetachSets DEF Departs, TreeType
    <2> QED BY <2>2 DEF TreeStep
<1>8. ASSUME NEW l \in Leaves, SetupFulfil(l) PROVE TreeStep
    <2>1. TakesSlot(l)
        BY <1>8 DEF SetupFulfil, TakesSlot, treeVars, signalVars
    <2> QED BY <2>1 DEF TreeStep
<1>9. ASSUME UNCHANGED <<home, detached, requested, ledger>> PROVE TreeStep
    BY <1>9 DEF TreeStep, Departs, TreeType
<1>10. ASSUME \/ CancelRun
              \/ \E k \in Calls : EscalateSignal(k) \/ AbandonSignal(k) \/ AnswerCall(k)
              \/ \E c \in Scopes : Unlink(c) \/ Resume(c) \/ JoinSettled(c) \/ VoidReleased(c)
       PROVE  TreeStep
    BY <1>9, <1>10 DEF CancelRun, EscalateSignal, AbandonSignal, AnswerCall, Unlink, Resume,
           JoinSettled, VoidReleased, treeVars, signalVars
<1>11. ASSUME UserReturn \/ \E l \in Leaves : SetupReject(l) \/ CleanupFulfil(l) \/ CleanupReject(l)
       PROVE  TreeStep
    BY <1>9, <1>11 DEF UserReturn, SetupReturn, ListenerReturn, CleanupReturn, CleanupThrow,
           SetupReject, CleanupFulfil, CleanupReject, treeVars, signalVars
<1>12. ASSUME NotifyVisit \/ CancelVisit \/ EscalateVisit \/ WalkDone PROVE TreeStep
    BY <1>9, <1>12 DEF NotifyVisit, CancelVisit, EscalateVisit, WalkDone, treeVars, signalVars
<1>13. ASSUME \/ StartFlight \/ CloseReturn \/ DrainStep \/ AwaitSetups \/ TakeBatch
              \/ InvokeLeaf \/ InvokeVoid \/ AwaitBatch
       PROVE  TreeStep
    BY <1>9, <1>13 DEF StartFlight, CloseReturn, DrainStep, AwaitSetups, TakeBatch,
           InvokeLeaf, InvokeVoid, AwaitBatch, treeVars, signalVars
<1>14. CASE UNCHANGED vars
    BY <1>9, <1>14 DEF vars, treeVars, signalVars
<1>15. CASE Next
    BY <1>1, <1>2, <1>3, <1>4, <1>5, <1>6, <1>7, <1>8, <1>10, <1>11, <1>12, <1>13, <1>15
       DEF Next, UserStep, UserSettles, Machine, Continuation
<1> QED BY <1>14, <1>15

\* A step of the tree keeps its types.
LEMMA TreeStepType == ASSUME TreeType, TreeStep PROVE TreeType'
<1>1. ASSUME NEW n \in Scopes, NEW i \in Items, Registers(n, i) PROVE TreeType'
    <2>1. ledger' \in [Scopes -> Seq(Items)]
        BY <1>1, LedgerType DEF Registers, TreeType
    <2> QED BY <1>1, <2>1 DEF Registers, TreeType
<1>2. ASSUME NEW l \in Leaves, TakesSlot(l) PROVE TreeType'
    <2>1. ledger' \in [Scopes -> Seq(Items)]
        BY <1>2, LedgerType, ItemKinds DEF TakesSlot
    <2> QED BY <1>2, <2>1 DEF TakesSlot, TreeType
<1>3. ASSUME NEW n \in Scopes, Requests(n) PROVE TreeType'
    <2>1. \A m \in Scopes : (requested[m] \/ m \in Unsealed(n)) \in BOOLEAN
        BY DEF TreeType
    <2> QED BY <1>3, <2>1 DEF Requests, TreeType
<1>4. ASSUME Departs PROVE TreeType'
    BY <1>4 DEF Departs, TreeType
<1> QED BY <1>1, <1>2, <1>3, <1>4 DEF TreeStep

\* A step of the tree keeps requested subtrees sealed.
LEMMA TreeStepSealed == ASSUME TreeInv, TreeStep PROVE Sealed'
<1>1. ASSUME NEW n \in Scopes, NEW i \in Items, Registers(n, i) PROVE Sealed'
    BY <1>1, RegistrationSealed DEF Registers
<1>2. ASSUME NEW l \in Leaves, TakesSlot(l) PROVE Sealed'
    BY <1>2, StillSealed DEF TakesSlot
<1>3. ASSUME NEW n \in Scopes, Requests(n) PROVE Sealed'
    BY <1>3, RequestSeals DEF Requests
<1>4. ASSUME Departs PROVE Sealed'
    BY <1>4, StillSealed DEF Departs
<1> QED BY <1>1, <1>2, <1>3, <1>4 DEF TreeStep

\* The tree invariant holds in every reachable state.
THEOREM TreeInvariant == Spec => []TreeInv
<1>1. Init => TreeInv
    <2> SUFFICES ASSUME Init PROVE TreeInv
        OBVIOUS
    <2>1. TreeType
        BY ItemKinds DEF Init, TreeType
    <2>2. Sealed
        BY ItemKinds DEF Init, Sealed
    <2> QED BY <2>1, <2>2 DEF TreeInv
<1>2. TreeInv /\ [Next]_vars => TreeInv'
    <2> SUFFICES ASSUME TreeInv, [Next]_vars PROVE TreeInv'
        OBVIOUS
    <2>1. TreeStep
        BY NextIsTreeStep DEF TreeInv
    <2> QED BY <2>1, TreeStepType, TreeStepSealed DEF TreeInv
<1> QED BY <1>1, <1>2, PTL DEF Spec

\* The requested subtree is sealed: whatever is attached below a requested scope
\* is requested, however registration, reentrant closes and detaching interleave.
THEOREM AlwaysSealed == Spec => []Sealed
<1>1. TreeInv => Sealed
    BY DEF TreeInv
<1> QED BY <1>1, TreeInvariant, PTL

Refusal ==
    \A n \in Scopes : requested[n] =>
        /\ {i \in Items : home'[i] = n} = {i \in Items : home[i] = n}
        /\ \A j \in DOMAIN ledger'[n] \ DOMAIN ledger[n] : where[ledger'[n][j]] = "setup"

\* After a close request a scope takes nothing new, but the slots of the setups
\* that it had started.
THEOREM RequestedTakesNothing == Spec => NothingNew
<1>1. TreeInv /\ [Next]_vars => [Refusal]_vars
    <2> SUFFICES ASSUME TreeInv, TreeStep PROVE Refusal
        BY NextIsTreeStep DEF TreeInv
    <2> SUFFICES ASSUME NEW n \in Scopes, requested[n]
                 PROVE  /\ {i \in Items : home'[i] = n} = {i \in Items : home[i] = n}
                        /\ \A j \in DOMAIN ledger'[n] \ DOMAIN ledger[n] :
                              where[ledger'[n][j]] = "setup"
        BY DEF Refusal
    <2>1. ASSUME NEW m \in Scopes, NEW i \in Items, Registers(m, i), m # n
          PROVE  /\ {x \in Items : home'[x] = n} = {x \in Items : home[x] = n}
                 /\ ledger'[n] = ledger[n]
        BY <2>1, ItemKinds DEF Registers, TreeInv, TreeType
    <2>2. ASSUME NEW l \in Leaves, TakesSlot(l)
          PROVE  \A j \in DOMAIN ledger'[n] \ DOMAIN ledger[n] : where[ledger'[n][j]] = "setup"
        <3>1. CASE home[l] = n
            <4>1. ledger'[n] = Append(ledger[n], l) /\ ledger[n] \in Seq(Items) /\ l \in Items
                BY <2>2, <3>1, ItemKinds DEF TakesSlot, TreeInv, TreeType
            <4>2. \A j \in DOMAIN ledger'[n] \ DOMAIN ledger[n] : ledger'[n][j] = l
                BY <4>1
            <4> QED BY <4>2, <2>2 DEF TakesSlot
        <3>2. CASE home[l] # n
            BY <2>2, <3>2 DEF TakesSlot, TreeInv, TreeType
        <3> QED BY <3>1, <3>2
    <2>3. ASSUME NEW m \in Scopes, NEW i \in Items, Registers(m, i) PROVE m # n
        BY <2>3 DEF Registers, Accepts
    <2> QED BY <2>1, <2>2, <2>3 DEF TreeStep, TakesSlot, Requests, Departs
<1> QED BY <1>1, TreeInvariant, PTL DEF Spec, NothingNew, Refusal

-----------------------------------------------------------------------------
(* Numbers and lists.                                                      *)

\* The operators of the model: Min and Max of sets of numbers.
LEMMA MinIsLeast ==
    ASSUME NEW S \in SUBSET Nat, S # {}
    PROVE  Min(S) \in S /\ \A x \in S : Min(S) <= x
<1> DEFINE R == StrictSubsetOrdering(Nat)
           T == {0 .. x : x \in S}
<1>1. T \subseteq FiniteSubsetsOf(Nat)
  <2> SUFFICES ASSUME NEW x \in S PROVE 0 .. x \in FiniteSubsetsOf(Nat)
      BY ZenonT(60)
  <2>1. IsFiniteSet(0 .. x) /\ 0 .. x \in SUBSET Nat
      BY FS_Interval
  <2> QED BY <2>1 DEF FiniteSubsetsOf
<1>2. T # {}
    BY ZenonT(60)
<1>3. \E t \in T : \A u \in T : <<u, t>> \notin R
    BY <1>1, <1>2, FS_StrictSubsetOrderingWellFounded, WFMin, ZenonT(60)
<1>4. PICK x \in S : \A y \in S : <<0 .. y, 0 .. x>> \notin R
    BY <1>3, ZenonT(60)
<1>5. \A y \in S : x <= y
  <2> SUFFICES ASSUME NEW y \in S, y < x PROVE FALSE
      OBVIOUS
  <2>1. 0 .. y \subseteq 0 .. x /\ x \in 0 .. x /\ x \notin 0 .. y
      OBVIOUS
  <2>2. <<0 .. y, 0 .. x>> \in (SUBSET Nat) \X (SUBSET Nat)
      OBVIOUS
  <2> QED BY <1>4, <2>1, <2>2 DEF StrictSubsetOrdering
<1> QED BY <1>5 DEF Min

\* Max of a bounded set of numbers.
LEMMA MaxIsGreatest ==
    ASSUME NEW S \in SUBSET Nat, S # {}, NEW n \in Nat, \A x \in S : x <= n
    PROVE  Max(S) \in S /\ \A x \in S : x <= Max(S)
<1> DEFINE T == {n - x : x \in S}
<1>1. T \in SUBSET Nat /\ T # {}
  <2>1. \A x \in S : n - x \in Nat
      OBVIOUS
  <2> QED BY <2>1, ZenonT(60)
<1>2. Min(T) \in T /\ \A y \in T : Min(T) <= y
    BY <1>1, MinIsLeast
<1> HIDE DEF T
<1>3. PICK m \in S : \A y \in T : n - m <= y
    BY <1>2 DEF T
<1>4. \A x \in S : x <= m
  <2>1. \A x \in S : n - m <= n - x
      BY <1>3, ZenonT(60) DEF T
  <2> QED BY <2>1
<1>5. \E x \in S : \A y \in S : x >= y
    BY <1>4
<1> QED BY <1>5 DEF Max

\* The stack below its top.
LEMMA FrontIsBelow ==
    ASSUME NEW T, NEW q \in Seq(T), q # <<>>
    PROVE  /\ Front(q) \in Seq(T) /\ Len(q) \in Nat \ {0} /\ Len(Front(q)) = Len(q) - 1
           /\ \A i \in 1 .. Len(q) - 1 : Front(q)[i] = q[i]
           /\ Last(q) = q[Len(q)] /\ Last(q) \in T
<1> DEFINE n == Len(q) - 1
<1>1. Len(q) \in Nat \ {0} /\ \A i \in 1 .. Len(q) : q[i] \in T
    OBVIOUS
<1>2. n \in Nat /\ 1 \in Int /\ n \in Int /\ \A i \in 1 .. n : q[i] \in T
    BY <1>1
<1>3. /\ Front(q) \in Seq(T)
      /\ Len(Front(q)) = n
      /\ \A i \in 1 .. n : Front(q)[i] = q[i]
  <2>1. Front(q) = SubSeq(q, 1, n)
      BY DEF Front
  <2> HIDE DEF n
  <2> QED BY <1>2, <2>1, SubSeqProperties
<1>4. Last(q) = q[Len(q)] /\ Last(q) \in T
    BY <1>1 DEF Last
<1> QED BY <1>1, <1>2, <1>3, <1>4

\* The numbers of K up to j.
UpTo(K, j) == {k \in K : k <= j}

\* How many numbers of K are up to j, as j grows.
LEMMA Ranks ==
    ASSUME NEW len \in Nat, NEW K \in SUBSET (1 .. len)
    PROVE  /\ IsFiniteSet(K) /\ Cardinality(K) \in 0 .. len
           /\ \A j \in 0 .. len : Cardinality(UpTo(K, j)) \in 0 .. Cardinality(K)
           /\ Cardinality(UpTo(K, len)) = Cardinality(K)
           /\ \A j \in 1 .. len : Cardinality(UpTo(K, j)) =
                 Cardinality(UpTo(K, j - 1)) + (IF j \in K THEN 1 ELSE 0)
<1>1. IsFiniteSet(1 .. len) /\ Cardinality(1 .. len) = len
    BY FS_Interval
<1>2. IsFiniteSet(K) /\ Cardinality(K) \in 0 .. len
  <2>1. IsFiniteSet(K) /\ Cardinality(K) <= len
      BY <1>1, FS_Subset
  <2>2. Cardinality(K) \in Nat
      BY <2>1, FS_CardinalityType
  <2> QED BY <2>1, <2>2
<1>3. ASSUME NEW j \in Int
      PROVE  Cardinality(UpTo(K, j)) \in 0 .. Cardinality(K) /\ IsFiniteSet(UpTo(K, j))
  <2>1. UpTo(K, j) \in SUBSET K
      BY DEF UpTo
  <2>2. IsFiniteSet(UpTo(K, j)) /\ Cardinality(UpTo(K, j)) <= Cardinality(K)
      BY <1>2, <2>1, FS_Subset
  <2>3. Cardinality(UpTo(K, j)) \in Nat
      BY <2>2, FS_CardinalityType
  <2> QED BY <1>2, <2>2, <2>3
<1>4. UpTo(K, len) = K
  <2>1. \A k \in K : k <= len
      OBVIOUS
  <2> QED BY <2>1, Zenon DEF UpTo
<1>5. ASSUME NEW j \in 1 .. len
      PROVE  Cardinality(UpTo(K, j)) = Cardinality(UpTo(K, j - 1)) + (IF j \in K THEN 1 ELSE 0)
  <2>1. \A k \in K : k <= j <=> k <= j - 1 \/ k = j
      OBVIOUS
  <2>2. CASE j \in K
    <3>1. \A k \in K : (k <= j <=> k <= j - 1 \/ k = j) /\ ~ (j <= j - 1)
        BY <2>1
    <3>2. UpTo(K, j) = UpTo(K, j - 1) \cup {j} /\ j \notin UpTo(K, j - 1)
        BY <3>1, <2>2, Zenon DEF UpTo
    <3>3. IsFiniteSet(UpTo(K, j - 1)) /\ Cardinality(UpTo(K, j - 1)) \in Nat
        BY <1>2, <1>3
    <3>4. Cardinality(UpTo(K, j - 1) \cup {j}) = Cardinality(UpTo(K, j - 1)) + 1
        BY <3>2, <3>3, FS_AddElement
    <3> QED BY <3>2, <3>4, <2>2
  <2>3. CASE j \notin K
    <3>1. UpTo(K, j) = UpTo(K, j - 1)
      <4>1. \A k \in K : k <= j <=> k <= j - 1
          BY <2>1, <2>3
      <4> QED BY <4>1 DEF UpTo
    <3>2. Cardinality(UpTo(K, j - 1)) \in Nat
        BY <1>2, <1>3
    <3> QED BY <3>1, <3>2, <2>3
  <2> QED BY <2>2, <2>3
<1>6. \A j \in 0 .. len : Cardinality(UpTo(K, j)) \in 0 .. Cardinality(K)
    BY <1>3
<1> QED BY <1>2, <1>4, <1>5, <1>6

\* The i-th number of K is a number of K, with i - 1 others below it.
LEMMA NthIs ==
    ASSUME NEW len \in Nat, NEW K \in SUBSET (1 .. len), NEW i \in 1 .. Cardinality(K)
    PROVE  Nth(K, i) \in K /\ Cardinality(UpTo(K, Nth(K, i))) = i
<1> DEFINE C(j) == Cardinality(UpTo(K, j))
<1>1. /\ Cardinality(K) \in 0 .. len /\ C(len) = Cardinality(K)
      /\ \A j \in 0 .. len : C(j) \in 0 .. Cardinality(K)
      /\ \A j \in 1 .. len : C(j) = C(j - 1) + (IF j \in K THEN 1 ELSE 0)
    BY Ranks
<1>2. C(0) = 0
  <2>1. UpTo(K, 0) = {}
    <3>1. \A k \in K : ~ (k <= 0)
        OBVIOUS
    <3> QED BY <3>1 DEF UpTo
  <2>2. Cardinality({}) = 0
      BY FS_EmptySet
  <2> QED BY <2>1, <2>2
<1> HIDE DEF C
<1> DEFINE J == {j \in 1 .. len : C(j) >= i}
<1>3. len \in J
    BY <1>1
<1>4. Min(J) \in J /\ \A y \in J : Min(J) <= y
    BY <1>3, MinIsLeast
<1> DEFINE j == Min(J)
<1>5. j \in 1 .. len /\ C(j) >= i /\ \A y \in 1 .. len : C(y) >= i => j <= y
    BY <1>4
<1> HIDE DEF j, J
<1>6. C(j - 1) < i
  <2>1. CASE j = 1
    <3>1. j - 1 = 0
        BY <2>1
    <3> QED BY <3>1, <1>2
  <2>2. CASE j # 1
    <3>1. j - 1 \in 1 .. len /\ ~ (j <= j - 1)
        BY <1>5, <2>2
    <3>2. C(j - 1) \in Int
        BY <1>1, <3>1
    <3> QED BY <3>1, <3>2, <1>5
  <2> QED BY <2>1, <2>2
<1>7. C(j) = C(j - 1) + (IF j \in K THEN 1 ELSE 0) /\ C(j) \in Int /\ C(j - 1) \in Int
  <2>1. j - 1 \in 0 .. len /\ j \in 0 .. len
      BY <1>5
  <2> QED BY <2>1, <1>1, <1>5
<1>8. j \in K /\ C(j) = i
    BY <1>5, <1>6, <1>7
<1>9. \E k \in K : Cardinality({x \in K : x <= k}) = i
    BY <1>8 DEF C, UpTo
<1> QED BY <1>9 DEF Nth, UpTo

\* More numbers, or as many, are below a greater one.
LEMMA RanksGrow ==
    ASSUME NEW len \in Nat, NEW K \in SUBSET (1 .. len), NEW a \in 0 .. len, NEW b \in 0 .. len,
           a < b
    PROVE  /\ Cardinality(UpTo(K, a)) <= Cardinality(UpTo(K, b))
           /\ b \in K => Cardinality(UpTo(K, a)) < Cardinality(UpTo(K, b))
<1>1. IsFiniteSet(K)
    BY Ranks
<1>2. IsFiniteSet(UpTo(K, b)) /\ UpTo(K, a) \in SUBSET UpTo(K, b)
  <2>1. \A k \in K : k <= a => k <= b
      OBVIOUS
  <2>2. UpTo(K, b) \in SUBSET K /\ UpTo(K, a) \in SUBSET UpTo(K, b)
      BY <2>1 DEF UpTo
  <2> QED BY <1>1, <2>2, FS_Subset
<1>3. /\ Cardinality(UpTo(K, a)) <= Cardinality(UpTo(K, b))
      /\ Cardinality(UpTo(K, a)) = Cardinality(UpTo(K, b)) => UpTo(K, a) = UpTo(K, b)
    BY <1>2, FS_Subset
<1>4. Cardinality(UpTo(K, a)) \in Int /\ Cardinality(UpTo(K, b)) \in Int
  <2>1. \A j \in 0 .. len : Cardinality(UpTo(K, j)) \in 0 .. Cardinality(K)
      BY Ranks
  <2> QED BY <2>1
<1>5. ASSUME b \in K PROVE UpTo(K, a) # UpTo(K, b)
  <2>1. b <= b /\ ~ (b <= a)
      OBVIOUS
  <2> QED BY <1>5, <2>1 DEF UpTo
<1> QED BY <1>3, <1>4, <1>5

\* A filtered list is the list with entries left out: each of its places stands
\* for a place of the list, in order, and every wanted place is there.
LEMMA AmongIs ==
    ASSUME NEW T, NEW s \in Seq(T), NEW S
    PROVE  /\ Among(s, S) \in Seq(T)
           /\ \E g \in [1 .. Len(Among(s, S)) -> 1 .. Len(s)] :
                /\ \A i \in 1 .. Len(Among(s, S)) : Among(s, S)[i] = s[g[i]] /\ s[g[i]] \in S
                /\ \A i, j \in 1 .. Len(Among(s, S)) : i < j => g[i] < g[j]
                /\ \A k \in 1 .. Len(s) : s[k] \in S => \E i \in 1 .. Len(Among(s, S)) : g[i] = k
<1> DEFINE K == {j \in DOMAIN s : s[j] \in S}
           len == Len(s)
           m == Cardinality(K)
           g == [i \in 1 .. m |-> Nth(K, i)]
           C(j) == Cardinality(UpTo(K, j))
<1>1. len \in Nat /\ K \in SUBSET (1 .. len) /\ \A j \in 1 .. len : s[j] \in T
    OBVIOUS
<1>2. Among(s, S) = [i \in 1 .. m |-> s[g[i]]]
    BY Zenon DEF Among
<1>3. \A k \in 1 .. len : k \in K <=> s[k] \in S
    BY DEF K
<1> HIDE DEF K, len
<1>4. m \in 0 .. len /\ \A j \in 1 .. len : C(j) = C(j - 1) + (IF j \in K THEN 1 ELSE 0)
  <2>1. m \in 0 .. len
      BY <1>1, Ranks
  <2>2. \A j \in 1 .. len : C(j) = C(j - 1) + (IF j \in K THEN 1 ELSE 0)
    <3>1. len \in Nat /\ K \in SUBSET (1 .. len)
        BY <1>1
    <3> QED BY <3>1, Ranks, Zenon
  <2> QED BY <2>1, <2>2
<1>5. \A i \in 1 .. m : Nth(K, i) \in K /\ C(Nth(K, i)) = i
    BY <1>1, NthIs
<1>6. \A i \in 1 .. m : g[i] \in K /\ g[i] \in 1 .. len /\ C(g[i]) = i
    BY <1>1, <1>5
<1>7. g \in [1 .. m -> 1 .. len]
    BY <1>6
<1>8. \A j \in 0 .. len : C(j) \in 0 .. m
    BY <1>1, Ranks
<1>9. \A a, b \in 0 .. len : a < b => C(a) <= C(b) /\ (b \in K => C(a) < C(b))
    BY <1>1, RanksGrow
<1> HIDE DEF g, C, m
<1>10. ASSUME NEW i \in 1 .. m, NEW j \in 1 .. m, i < j PROVE g[i] < g[j]
  <2>1. g[i] \in 0 .. len /\ g[j] \in 0 .. len /\ C(g[i]) = i /\ C(g[j]) = j
      BY <1>1, <1>6
  <2>2. CASE g[j] < g[i]
      BY <1>9, <1>10, <2>1, <2>2
  <2>3. CASE g[j] = g[i]
      BY <1>10, <2>1, <2>3
  <2> QED BY <1>1, <2>1, <2>2, <2>3
<1>11. ASSUME NEW k \in K PROVE \E i \in 1 .. m : g[i] = k
  <2>1. k \in 1 .. len /\ C(k) \in 1 .. m
    <3>1. k \in 1 .. len /\ k - 1 \in 0 .. len /\ k \in 0 .. len
        BY <1>1
    <3>2. C(k) = C(k - 1) + 1 /\ C(k - 1) \in 0 .. m /\ C(k) \in 0 .. m /\ m \in Nat
        BY <1>4, <1>8, <3>1
    <3> QED BY <3>1, <3>2
  <2>2. g[C(k)] \in K /\ g[C(k)] \in 0 .. len /\ C(g[C(k)]) = C(k) /\ k \in 0 .. len /\ C(k) \in Int
      BY <1>1, <1>6, <2>1
  <2>3. ~ (g[C(k)] < k)
      BY <1>9, <2>2
  <2>4. ~ (k < g[C(k)])
      BY <1>9, <2>2
  <2>5. g[C(k)] = k
      BY <1>1, <2>2, <2>3, <2>4
  <2> QED BY <2>1, <2>5
<1>12. m \in Nat /\ \A i \in 1 .. m : s[g[i]] \in T /\ s[g[i]] \in S
    BY <1>1, <1>3, <1>4, <1>6
<1>13. Among(s, S) \in Seq(T) /\ Len(Among(s, S)) = m /\ \A i \in 1 .. m : Among(s, S)[i] = s[g[i]]
    BY <1>2, <1>12
<1>14. len = Len(s)
    BY DEF len
<1> DEFINE r == Among(s, S)
<1>15. r \in Seq(T) /\ Len(r) = m /\ g \in [1 .. Len(r) -> 1 .. Len(s)]
    BY <1>7, <1>13, <1>14
<1>16. \A i \in 1 .. Len(r) : r[i] = s[g[i]] /\ s[g[i]] \in S
    BY <1>12, <1>13, <1>15
<1>17. \A i, j \in 1 .. Len(r) : i < j => g[i] < g[j]
    BY <1>10, <1>15
<1>18. \A k \in 1 .. Len(s) : s[k] \in S => \E i \in 1 .. Len(r) : g[i] = k
    BY <1>3, <1>11, <1>14, <1>15
<1> HIDE DEF r
<1>19. \E f \in [1 .. Len(r) -> 1 .. Len(s)] :
          /\ \A i \in 1 .. Len(r) : r[i] = s[f[i]] /\ s[f[i]] \in S
          /\ \A i, j \in 1 .. Len(r) : i < j => f[i] < f[j]
          /\ \A k \in 1 .. Len(s) : s[k] \in S => \E i \in 1 .. Len(r) : f[i] = k
    BY <1>15, <1>16, <1>17, <1>18, Zenon
<1> QED BY <1>15, <1>19, Zenon DEF r

-----------------------------------------------------------------------------
(* The invariant of the whole scope.                                       *)

Phases == {"none", "open", "queued", "running", "setups", "batch"}
States == {"free", "setup", "live", "active", "failed", "gone", "void"}
Invocations == {"none", "body", "running", "join", "complete", "incomplete", "void"}

TypeOK ==
    /\ home \in [Items -> {0} \cup Scopes]
    /\ order \in [Scopes -> {"reverse", "concurrent"}]
    /\ requested \in [Scopes -> BOOLEAN]
    /\ detached \in [Scopes -> BOOLEAN]
    /\ phase \in [Scopes -> Phases]
    /\ live \in [Scopes -> Seq(Items)]
    /\ failed \in [Scopes -> Seq(Items)]
    /\ where \in [Items -> States]
    /\ inv \in [Items -> Invocations]
    /\ starts \in Seq(Scopes)
    /\ stack \in Seq(ToSet(stack))
    /\ ledger \in [Scopes -> Seq(Items)]

\* Whatever a scope registered or lists is its own, and no scope that was not
\* created registered anything.
Owns ==
    /\ \A i \in Items : home[i] # 0 => Created(home[i])
    /\ \A n \in Scopes :
         /\ \A j \in 1 .. Len(live[n]) : home[live[n][j]] = n
         /\ \A j \in 1 .. Len(failed[n]) : home[failed[n][j]] = n

\* A flight belongs to a scope whose close was requested.
Flights == \A n \in Scopes : phase[n] # "none" => requested[n] /\ Created(n)

\* A flight that waits for its start is queued once.
Queued ==
    /\ \A j \in 1 .. Len(starts) : phase[starts[j]] = "queued"
    /\ \A i, j \in 1 .. Len(starts) : i # j => starts[i] # starts[j]

NoneInvoked(n) == \A i \in Items : home[i] = n => inv[i] = "none"

\* What a frame stands for.
Steps == {"start", "run", "batch"}
Fit(f) ==
    /\ f.k \in Steps => f.n \in Scopes
    /\ f.k \in WalkKinds => f = [k |-> f.k, n |-> f.n, cur |-> f.cur]
    /\ f.k = "batch" => f = [k |-> f.k, n |-> f.n, left |-> f.left]
    /\ f.k = "start" => phase[f.n] = "open"
    /\ f.k \in {"run", "batch"} => phase[f.n] = "running"
    /\ f.k = "run" => NoneInvoked(f.n)
    /\ f.k = "batch" => /\ Setups(f.n) = {} /\ f.left \in Seq(Items)
                        /\ \A j \in 1 .. Len(f.left) : home[f.left[j]] = f.n
    /\ f.k = "cleanup" => /\ f.n \in Leaves /\ home[f.n] \in Scopes
                          /\ phase[home[f.n]] \in {"running", "batch"} /\ Setups(home[f.n]) = {}
Framed == \A f \in ToSet(stack) : Fit(f)

\* A flight has one frame at most, and does not go on below or above a cleanup of
\* its own.
Single == \A i, j \in 1 .. Len(stack) :
    /\ i # j /\ stack[i].k \in Steps /\ stack[j].k \in Steps => stack[i].n # stack[j].n
    /\ stack[i].k = "run" /\ stack[j].k = "cleanup" => home[stack[j].n] # stack[i].n

\* Nothing that releases or leads to a release is above an abort notification.
Releasing == {"drain", "run", "batch", "cleanup"}
Silent == \A i, j \in 1 .. Len(stack) :
    i < j /\ Notifies(stack[i]) => stack[j].k \notin Releasing

\* What is being released belongs to a flight past its setups.
Invoked == \A i \in Items : inv[i] # "none" =>
    /\ home[i] \in Scopes /\ phase[home[i]] \in {"running", "batch"}
    /\ Setups(home[i]) = {}

WInv == TypeOK /\ Owns /\ Flights /\ Queued /\ Framed /\ Single /\ Silent /\ Invoked
-----------------------------------------------------------------------------
(* The stack.                                                              *)

\* The step keeps the lowest m frames of the stack; the others are in F.
Stacks(m, F) ==
    /\ stack' \in Seq(ToSet(stack'))
    /\ m \in 0 .. Len(stack) /\ m <= Len(stack')
    /\ \A i \in 1 .. m : stack'[i] = stack[i]
    /\ \A i \in 1 .. Len(stack') : i > m => stack'[i] \in F

\* A sequence is a sequence of its own elements.
LEMMA OfItsOwn ==
    ASSUME NEW T, NEW q \in Seq(T)
    PROVE  q \in Seq(ToSet(q)) /\ Len(q) \in Nat /\ DOMAIN q = 1 .. Len(q)
           /\ \A f : f \in ToSet(q) <=> \E i \in 1 .. Len(q) : q[i] = f
<1>1. Len(q) \in Nat /\ DOMAIN q = 1 .. Len(q) /\ q \in [1 .. Len(q) -> T]
    OBVIOUS
<1>2. \A i \in 1 .. Len(q) : q[i] \in ToSet(q)
    BY <1>1 DEF ToSet
<1>3. q \in [1 .. Len(q) -> ToSet(q)]
    BY <1>1, <1>2
<1>4. q \in Seq(ToSet(q))
    BY <1>1, <1>3, SeqDef
<1>5. \A f : f \in ToSet(q) <=> \E i \in 1 .. Len(q) : q[i] = f
    BY <1>1, Zenon DEF ToSet
<1> QED BY <1>1, <1>4, <1>5

\* The ways a step changes the stack: it leaves it, drops the top, or puts frames
\* on it or in the place of the top.
LEMMA StackSame ==
    ASSUME TypeOK, stack' = stack PROVE Stacks(Len(stack), {})
<1>1. stack \in Seq(ToSet(stack)) /\ Len(stack) \in Nat
    BY OfItsOwn DEF TypeOK
<1> QED BY <1>1 DEF Stacks

\* The top is dropped.
LEMMA StackPop ==
    ASSUME TypeOK, stack # <<>>, stack' = Under PROVE Stacks(Len(stack) - 1, {})
<1>1. /\ stack' \in Seq(ToSet(stack)) /\ Len(stack) \in Nat \ {0} /\ Len(stack') = Len(stack) - 1
      /\ \A i \in 1 .. Len(stack) - 1 : stack'[i] = stack[i]
    BY FrontIsBelow DEF TypeOK, Under
<1>2. stack' \in Seq(ToSet(stack'))
    BY <1>1, OfItsOwn
<1> QED BY <1>1, <1>2 DEF Stacks

\* One sequence put after another.
LEMMA JoinIs ==
    ASSUME NEW T, NEW U, NEW q \in Seq(T), NEW r \in Seq(U)
    PROVE  /\ q \o r \in Seq(ToSet(q \o r)) /\ Len(q \o r) = Len(q) + Len(r)
           /\ Len(q) \in Nat /\ Len(r) \in Nat
           /\ \A i \in 1 .. Len(q) : (q \o r)[i] = q[i]
           /\ \A i \in 1 .. Len(r) : (q \o r)[Len(q) + i] = r[i]
           /\ \A i \in 1 .. Len(q) + Len(r) : i > Len(q) => (q \o r)[i] = r[i - Len(q)]
<1>1. q \in Seq(T \cup U) /\ r \in Seq(T \cup U)
    BY SeqMonotonic
<1>2. q \o r \in Seq(T \cup U)
    BY <1>1, ConcatProperties
<1>3. q \o r \in Seq(ToSet(q \o r))
    BY <1>2, OfItsOwn
<1> QED BY <1>1, <1>3, ConcatProperties

\* Frames are put on the stack.
LEMMA StackPush ==
    ASSUME TypeOK, NEW F, NEW r \in Seq(F), stack' = stack \o r
    PROVE  Stacks(Len(stack), F)
<1>1. stack \in Seq(ToSet(stack))
    BY DEF TypeOK
<1>2. /\ stack' \in Seq(ToSet(stack')) /\ Len(stack') = Len(stack) + Len(r)
      /\ Len(stack) \in Nat /\ Len(r) \in Nat
      /\ \A i \in 1 .. Len(stack) : stack'[i] = stack[i]
      /\ \A i \in 1 .. Len(stack) + Len(r) : i > Len(stack) => stack'[i] = r[i - Len(stack)]
    BY <1>1, JoinIs
<1>3. \A i \in 1 .. Len(r) : r[i] \in F
    OBVIOUS
<1> QED BY <1>2, <1>3 DEF Stacks

\* Frames take the place of the top.
LEMMA StackReplace ==
    ASSUME TypeOK, stack # <<>>, NEW F, NEW r \in Seq(F), stack' = Under \o r
    PROVE  Stacks(Len(stack) - 1, F) /\ Len(stack') = Len(stack) - 1 + Len(r)
<1>1. /\ Under \in Seq(ToSet(stack)) /\ Len(stack) \in Nat \ {0} /\ Len(Under) = Len(stack) - 1
      /\ \A i \in 1 .. Len(stack) - 1 : Under[i] = stack[i]
    BY FrontIsBelow DEF TypeOK, Under
<1> DEFINE u == Under
<1>2. u \in Seq(ToSet(stack)) /\ stack' = u \o r /\ Len(u) = Len(stack) - 1
    BY <1>1
<1> HIDE DEF u
<1>3. /\ stack' \in Seq(ToSet(stack')) /\ Len(stack') = Len(u) + Len(r)
      /\ Len(u) \in Nat /\ Len(r) \in Nat
      /\ \A i \in 1 .. Len(u) : stack'[i] = u[i]
      /\ \A i \in 1 .. Len(u) + Len(r) : i > Len(u) => stack'[i] = r[i - Len(u)]
    BY <1>2, JoinIs
<1>4. \A i \in 1 .. Len(r) : r[i] \in F
    OBVIOUS
<1>5. \A i \in 1 .. Len(u) : u[i] = stack[i]
    BY <1>1 DEF u
<1> QED BY <1>1, <1>2, <1>3, <1>4, <1>5 DEF Stacks

\* Two frames take the place of the top.
LEMMA PairOn ==
    ASSUME TypeOK, stack # <<>>, NEW b, NEW c, stack' = Under \o <<b, c>>, NEW m, m = Len(stack) - 1
    PROVE  Stacks(m, {b, c}) /\ Len(stack') = m + 2 /\ stack'[m + 1] = b /\ stack'[m + 2] = c
<1>1. PICK r, u : r = <<b, c>> /\ u = Under
    OBVIOUS
<1>2. r \in Seq({b, c}) /\ Len(r) = 2 /\ r[1] = b /\ r[2] = c
    BY <1>1
<1>3. stack' = Under \o r
    BY <1>1
<1>4. Stacks(Len(stack) - 1, {b, c}) /\ Len(stack') = Len(stack) - 1 + Len(r)
    BY <1>2, <1>3, StackReplace
<1>5. u \in Seq(ToSet(stack)) /\ Len(u) = m /\ m \in Nat
  <2>1. Under \in Seq(ToSet(stack)) /\ Len(stack) \in Nat \ {0} /\ Len(Under) = Len(stack) - 1
      BY FrontIsBelow DEF TypeOK, Under
  <2> QED BY <1>1, <2>1
<1>6. \A x \in 1 .. Len(r) : (u \o r)[Len(u) + x] = r[x]
  <2>1. PICK G, H : r \in Seq(G) /\ u \in Seq(H)
      BY <1>2, <1>5
  <2> QED BY <2>1, JoinIs
<1>7. 1 \in 1 .. Len(r) /\ 2 \in 1 .. Len(r)
    BY <1>2
<1>8. stack'[m + 1] = r[1] /\ stack'[m + 2] = r[2]
    BY <1>1, <1>3, <1>5, <1>6, <1>7
<1> QED BY <1>2, <1>4, <1>5, <1>8

\* One frame is a sequence of one.
LEMMA AppendIsJoin ==
    ASSUME NEW T, NEW q \in Seq(T), NEW f
    PROVE  Append(q, f) = q \o <<f>> /\ <<f>> \in Seq({f}) /\ Len(<<f>>) = 1
<1>1. q \in Seq(T \cup {f}) /\ f \in T \cup {f}
    BY SeqMonotonic
<1> QED BY <1>1, AppendIsConcat

-----------------------------------------------------------------------------
(* Lists of entries.                                                       *)

\* t is s with entries left out, none of them in S.
Thins(t, s, S) ==
    /\ t \in Seq(Items)
    /\ \E g \in [1 .. Len(t) -> 1 .. Len(s)] :
         /\ \A i \in 1 .. Len(t) : t[i] = s[g[i]]
         /\ \A i, j \in 1 .. Len(t) : i < j => g[i] < g[j]
         /\ \A k \in 1 .. Len(s) : s[k] \in S => \E i \in 1 .. Len(t) : g[i] = k

\* Filtering a list thins it.
LEMMA AmongThins ==
    ASSUME NEW s \in Seq(Items), NEW S PROVE Thins(Among(s, S), s, S)
BY AmongIs DEF Thins

\* A list that stays is thinned of nothing.
LEMMA SameThins ==
    ASSUME NEW s \in Seq(Items), NEW S PROVE Thins(s, s, S)
<1> DEFINE g == [i \in 1 .. Len(s) |-> i]
<1>1. /\ g \in [1 .. Len(s) -> 1 .. Len(s)]
      /\ \A i \in 1 .. Len(s) : s[i] = s[g[i]]
      /\ \A i, j \in 1 .. Len(s) : i < j => g[i] < g[j]
      /\ \A k \in 1 .. Len(s) : s[k] \in S => \E i \in 1 .. Len(s) : g[i] = k
    OBVIOUS
<1> HIDE DEF g
<1> QED BY <1>1 DEF Thins

\* Reverse mirrors the places.
LEMMA ReverseIs ==
    ASSUME NEW T, NEW s \in Seq(T)
    PROVE  /\ Reverse(s) \in Seq(T) /\ Len(Reverse(s)) = Len(s)
           /\ \A i \in 1 .. Len(s) : Reverse(s)[i] = s[Len(s) - i + 1]
<1> DEFINE r == [i \in 1 .. Len(s) |-> s[(Len(s) - i) + 1]]
<1>1. Len(s) \in Nat /\ \A i \in 1 .. Len(s) : s[(Len(s) - i) + 1] \in T
    OBVIOUS
<1>2. r \in Seq(T) /\ Len(r) = Len(s)
    BY <1>1
<1> QED BY <1>1, <1>2 DEF Reverse

\* The entries that a new flight retries: those in #failed that are failed, in the
\* opposite order.
LEMMA RetriedIs ==
    ASSUME TypeOK, NEW n \in Scopes
    PROVE  /\ Retried(n) \in Seq(Items)
           /\ \E g \in [1 .. Len(Retried(n)) -> 1 .. Len(failed[n])] :
                /\ \A i \in 1 .. Len(Retried(n)) :
                     Retried(n)[i] = failed[n][g[i]] /\ where[Retried(n)[i]] = "failed"
                /\ \A i, j \in 1 .. Len(Retried(n)) : i < j => g[j] < g[i]
                /\ \A k \in 1 .. Len(failed[n]) : where[failed[n][k]] = "failed" =>
                     \E i \in 1 .. Len(Retried(n)) : g[i] = k
<1> DEFINE s == failed[n]
           S == {i \in Items : where[i] = "failed"}
           a == Among(s, S)
           r == Reverse(a)
<1>1. s \in Seq(Items) /\ \A i \in 1 .. Len(s) : s[i] \in S <=> where[s[i]] = "failed"
    BY DEF TypeOK
<1>2. Retried(n) = r
    BY DEF Retried
<1>3. a \in Seq(Items) /\ r \in Seq(Items) /\ Len(r) = Len(a) /\ Len(a) \in Nat
      /\ \A i \in 1 .. Len(a) : r[i] = a[Len(a) - i + 1]
    BY <1>1, AmongIs, ReverseIs
<1>4. PICK g \in [1 .. Len(a) -> 1 .. Len(s)] :
                /\ \A i \in 1 .. Len(a) : a[i] = s[g[i]] /\ s[g[i]] \in S
                /\ \A i, j \in 1 .. Len(a) : i < j => g[i] < g[j]
                /\ \A k \in 1 .. Len(s) : s[k] \in S => \E i \in 1 .. Len(a) : g[i] = k
  <2>1. s \in Seq(Items)
      BY <1>1
  <2> HIDE DEF s, S, r
  <2> QED BY <2>1, AmongIs, SMTT(60)
<1> HIDE DEF r, a, S, s
<1> DEFINE h == [i \in 1 .. Len(r) |-> g[Len(a) - i + 1]]
<1>5. \A i \in 1 .. Len(r) : Len(a) - i + 1 \in 1 .. Len(a)
    BY <1>3
<1>6. h \in [1 .. Len(r) -> 1 .. Len(s)]
    BY <1>5
<1>7. ASSUME NEW i \in 1 .. Len(r) PROVE r[i] = s[h[i]] /\ where[r[i]] = "failed"
  <2>1. r[i] = a[Len(a) - i + 1] /\ Len(a) - i + 1 \in 1 .. Len(a)
      BY <1>3, <1>5
  <2>2. a[Len(a) - i + 1] = s[h[i]] /\ s[h[i]] \in S /\ h[i] \in 1 .. Len(s)
      BY <1>4, <2>1
  <2> QED BY <1>1, <2>1, <2>2
<1>8. ASSUME NEW i \in 1 .. Len(r), NEW j \in 1 .. Len(r), i < j PROVE h[j] < h[i]
  <2>1. Len(a) - j + 1 < Len(a) - i + 1
      BY <1>3, <1>8
  <2> QED BY <1>4, <1>5, <2>1
<1>9. ASSUME NEW k \in 1 .. Len(s), where[s[k]] = "failed" PROVE \E i \in 1 .. Len(r) : h[i] = k
  <2>1. PICK i \in 1 .. Len(a) : g[i] = k
      BY <1>1, <1>4, <1>9
  <2>2. Len(a) - i + 1 \in 1 .. Len(r) /\ Len(a) - (Len(a) - i + 1) + 1 = i
      BY <1>3
  <2>3. h[Len(a) - i + 1] = k
      BY <2>1, <2>2
  <2> QED BY <2>2, <2>3
<1> HIDE DEF h
<1>10. \E f \in [1 .. Len(r) -> 1 .. Len(s)] :
          /\ \A i \in 1 .. Len(r) : r[i] = s[f[i]] /\ where[r[i]] = "failed"
          /\ \A i, j \in 1 .. Len(r) : i < j => f[j] < f[i]
          /\ \A k \in 1 .. Len(s) : where[s[k]] = "failed" => \E i \in 1 .. Len(r) : f[i] = k
    BY <1>6, <1>7, <1>8, <1>9, Zenon
<1> QED BY <1>2, <1>3, <1>10, ZenonT(60) DEF s

\* What #detach does to the lists, on top of w and l.
Leaving(n, w, l) ==
    /\ where' \in [Items -> States]
    /\ \/ (n = Root \/ detached[n]) /\ where' = w
       \/ n # Root /\ ~detached[n] /\ where' = [w EXCEPT ![n] = "gone"]
    /\ live' \in [Scopes -> Seq(Items)]
    /\ \A m \in Scopes : Thins(live'[m], l[m], {i \in Items : where'[i] # "gone"})
    /\ detached' = [detached EXCEPT ![n] = TRUE]

\* #detach and the #forget of the parent only thin the lists.
LEMMA DetachIs ==
    ASSUME NEW n \in Scopes, NEW w \in [Items -> States], NEW l \in [Scopes -> Seq(Items)], NEW t,
           Detach(n, w, l, t)
    PROVE  Leaving(n, w, l)
<1> DEFINE p == home[n]
           gone == [w EXCEPT ![n] = "gone"]
           S == {i \in Items : gone[i] # "gone"}
           count == t[p] + Counted(w[n])
           compact == w[n] = "live" /\ count > CompactAt /\ count * 2 > Len(l[p])
<1>1. CASE n = Root \/ detached[n]
  <2>1. where' = w /\ live' = l /\ detached' = [detached EXCEPT ![n] = TRUE]
      BY <1>1 DEF Detach
  <2> QED BY <1>1, <2>1, SameThins DEF Leaving
<1>2. CASE ~ (n = Root \/ detached[n])
  <2>1. where' = gone /\ detached' = [detached EXCEPT ![n] = TRUE]
        /\ live' = IF compact THEN [l EXCEPT ![p] = Among(@, S)] ELSE l
      BY <1>2, Zenon DEF Detach
  <2>2. gone \in [Items -> States]
      BY DEF States
  <2>3. \A m \in Scopes : live'[m] = l[m] \/ live'[m] = Among(l[m], S)
    <3> HIDE DEF compact, p, S
    <3> QED BY <2>1
  <2>4. \A m \in Scopes : Thins(live'[m], l[m], S)
    <3> HIDE DEF S
    <3> SUFFICES ASSUME NEW m \in Scopes PROVE Thins(live'[m], l[m], S)
        OBVIOUS
    <3>1. PICK q \in Seq(Items) : q = l[m]
        OBVIOUS
    <3>2. Thins(q, q, S) /\ Thins(Among(q, S), q, S)
        BY AmongThins, SameThins
    <3> QED BY <2>3, <3>1, <3>2
  <2>5. \A m \in Scopes : live'[m] \in Seq(Items)
      BY <2>4 DEF Thins
  <2>6. DOMAIN live' = Scopes /\ live' = [m \in Scopes |-> live'[m]]
    <3> HIDE DEF compact, p, S
    <3> QED BY <2>1
  <2>7. live' \in [Scopes -> Seq(Items)]
      BY <2>5, <2>6
  <2>8. S = {i \in Items : where'[i] # "gone"}
      BY <2>1
  <2> QED BY <1>2, <2>1, <2>2, <2>4, <2>7, <2>8 DEF Leaving
<1> QED BY <1>1, <1>2

-----------------------------------------------------------------------------
(* Taking a flight.                                                        *)

\* The entries of n that a new flight retries, as a set.
Again(n) == {i \in Items : where[i] = "failed" /\ \E j \in 1 .. Len(failed[n]) : failed[n][j] = i}
Reopened(n, v) == [i \in Items |-> IF i \in Again(n) THEN "live" ELSE v[i]]
Relisted(n) == [live EXCEPT ![n] = @ \o Retried(n)]

\* The retried entries are those in #failed that are failed.
LEMMA RetriedSet ==
    ASSUME TypeOK, NEW n \in Scopes PROVE ToSet(Retried(n)) = Again(n)
<1> DEFINE r == Retried(n)
<1>1. r \in Seq(Items) /\ failed[n] \in Seq(Items)
    BY RetriedIs DEF TypeOK
<1>2. PICK g \in [1 .. Len(r) -> 1 .. Len(failed[n])] :
                /\ \A i \in 1 .. Len(r) : r[i] = failed[n][g[i]] /\ where[r[i]] = "failed"
                /\ \A i, j \in 1 .. Len(r) : i < j => g[j] < g[i]
                /\ \A k \in 1 .. Len(failed[n]) : where[failed[n][k]] = "failed" =>
                     \E i \in 1 .. Len(r) : g[i] = k
    BY RetriedIs
<1> HIDE DEF r
<1>3. \A f : f \in ToSet(r) <=> \E i \in 1 .. Len(r) : r[i] = f
    BY <1>1, OfItsOwn
<1>4. ASSUME NEW f \in ToSet(r) PROVE f \in Again(n)
  <2>1. PICK i \in 1 .. Len(r) : r[i] = f
      BY <1>3
  <2> QED BY <1>1, <1>2, <2>1 DEF Again
<1>5. ASSUME NEW f \in Again(n) PROVE f \in ToSet(r)
  <2>1. PICK k \in 1 .. Len(failed[n]) : failed[n][k] = f /\ where[f] = "failed"
      BY DEF Again
  <2>2. PICK i \in 1 .. Len(r) : g[i] = k
      BY <1>2, <2>1
  <2>3. r[i] = f
      BY <1>2, <2>1, <2>2
  <2> QED BY <1>3, <2>3
<1> QED BY <1>4, <1>5 DEF r

\* The retried entries go to the end of #live.
LEMMA RelistedType ==
    ASSUME TypeOK, NEW n \in Scopes
    PROVE  /\ Relisted(n) \in [Scopes -> Seq(Items)]
           /\ \A m \in Scopes : m # n => Relisted(n)[m] = live[m]
           /\ Relisted(n)[n] = live[n] \o Retried(n)
<1> DEFINE q == live[n] \o Retried(n)
<1>1. live[n] \in Seq(Items) /\ Retried(n) \in Seq(Items)
    BY RetriedIs DEF TypeOK
<1>2. q \in Seq(Items)
    BY <1>1, ConcatProperties
<1> HIDE DEF q
<1>3. Relisted(n) = [live EXCEPT ![n] = q]
    BY DEF Relisted, q
<1>4. [live EXCEPT ![n] = q] \in [Scopes -> Seq(Items)]
    BY <1>2 DEF TypeOK
<1> QED BY <1>3, <1>4 DEF TypeOK, q

\* What close() and #join do to a scope: seal it, and when no flight is under way
\* put the failed entries back; then a flight is opened, or nothing is left and
\* the scope leaves its parent.
LEMMA TakeFlightIs ==
    ASSUME TypeOK, NEW n \in Scopes, NEW v \in [Items -> States], TakeFlight(n, v)
    PROVE  /\ requested' \in [Scopes -> BOOLEAN] /\ requested'[n]
           /\ \A m \in Scopes : requested[m] => requested'[m]
           /\ phase[n] # "none" =>
                 where' = v /\ UNCHANGED <<live, failed, detached, phase>>
           /\ phase[n] = "none" =>
                 /\ failed' = [failed EXCEPT ![n] = <<>>]
                 /\ ~NothingLeft(n) => /\ where' = Reopened(n, v) /\ live' = Relisted(n)
                                       /\ UNCHANGED detached
                                       /\ phase' = [phase EXCEPT ![n] = "open"]
                 /\ NothingLeft(n) => /\ Leaving(n, Reopened(n, v), Relisted(n))
                                      /\ UNCHANGED phase
<1>1. requested' = [m \in Scopes |-> requested[m] \/ m \in Unsealed(n)]
    BY DEF TakeFlight
<1>2. requested[n] \/ n \in Unsealed(n)
    BY ReachRoot DEF Unsealed
<1>3. /\ requested' \in [Scopes -> BOOLEAN] /\ requested'[n]
      /\ \A m \in Scopes : requested[m] => requested'[m]
  <2>1. \A m \in Scopes : (requested[m] \/ m \in Unsealed(n)) \in BOOLEAN
      BY DEF TypeOK
  <2> QED BY <1>1, <1>2, <2>1 DEF TypeOK
<1>4. CASE phase[n] # "none"
  <2>1. where' = v /\ UNCHANGED <<live, failed, detached, phase>>
      BY <1>4 DEF TakeFlight
  <2> QED BY <1>3, <1>4, <2>1
<1>5. CASE phase[n] = "none"
  <2> DEFINE w == [i \in Items |-> IF i \in ToSet(Retried(n)) THEN "live" ELSE v[i]]
             l == [live EXCEPT ![n] = @ \o Retried(n)]
  <2>1. Open(n, v)
      BY <1>5 DEF TakeFlight
  <2>2. w = Reopened(n, v) /\ l = Relisted(n)
      BY RetriedSet DEF Reopened, Relisted
  <2>3. w \in [Items -> States]
      BY DEF States
  <2>4. l \in [Scopes -> Seq(Items)]
      BY <2>2, RelistedType
  <2> HIDE DEF w, l
  <2>5. /\ failed' = [failed EXCEPT ![n] = <<>>]
        /\ IF NothingLeft(n)
           THEN Detach(n, w, l, tombstones) /\ UNCHANGED <<phase, esc>>
           ELSE /\ where' = w /\ live' = l
                /\ phase' = [phase EXCEPT ![n] = "open"]
                /\ esc' = [esc EXCEPT ![n] = EscalatedAbove(n)]
                /\ UNCHANGED <<tombstones, detached>>
      BY <2>1, Zenon DEF Open, w, l
  <2>6. NothingLeft(n) => Leaving(n, w, l) /\ UNCHANGED phase
      BY <2>3, <2>4, <2>5, DetachIs
  <2> QED BY <1>3, <1>5, <2>2, <2>5, <2>6
<1> QED BY <1>4, <1>5

-----------------------------------------------------------------------------
(* What a step does to the entries and their lists.                        *)

\* The frame on top is on the stack, so it is fit.
LEMMA TopIs ==
    ASSUME TypeOK, Framed, NEW kinds, On(kinds)
    PROVE  /\ stack # <<>> /\ Len(stack) \in Nat \ {0} /\ Top = stack[Len(stack)]
           /\ Top.k \in kinds /\ Fit(Top)
<1>1. stack # <<>> /\ Top.k \in kinds
    BY DEF On, Idle
<1>2. Len(stack) \in Nat \ {0} /\ Top = stack[Len(stack)]
    BY <1>1, FrontIsBelow DEF TypeOK, Top
<1>3. Top \in ToSet(stack)
    BY <1>2, OfItsOwn DEF TypeOK
<1> QED BY <1>1, <1>2, <1>3 DEF Framed

Invokes(i) == (On({"batch"}) /\ home[i] = Top.n) \/ (On({"cleanup"}) /\ i = Top.n)

Lists ==
    /\ live \in [Scopes -> Seq(Items)]
    /\ failed \in [Scopes -> Seq(Items)]
    /\ where \in [Items -> States]
    /\ inv \in [Items -> Invocations]
    /\ order \in [Scopes -> {"reverse", "concurrent"}]

\* A leaf is set up only in a scope that was not requested; an entry is invoked
\* only by the batch on top.
Memory ==
    /\ Lists'
    /\ \A n \in Scopes :
         /\ \A j \in 1 .. Len(live'[n]) : home'[live'[n][j]] = n
         /\ \A j \in 1 .. Len(failed'[n]) : home'[failed'[n][j]] = n
    /\ \A l \in Leaves : where'[l] = "setup" =>
         (where[l] = "setup" /\ home'[l] = home[l]) \/ ~requested[home'[l]]
    /\ \A i \in Items : inv'[i] # "none" => inv[i] # "none" \/ Invokes(i)

Grown ==
    /\ \A n \in Scopes : requested[n] => requested'[n]
    /\ \A i \in Items : home[i] # 0 => home'[i] = home[i]

\* A step of the tree takes nothing back.
LEMMA GrownTree == ASSUME TypeOK, TreeStep PROVE Grown
<1>1. ASSUME NEW n \in Scopes, NEW i \in Items, Registers(n, i) PROVE Grown
    BY <1>1, ItemKinds DEF Registers, Grown, TypeOK
<1>2. ASSUME NEW l \in Leaves, TakesSlot(l) PROVE Grown
    BY <1>2 DEF TakesSlot, Grown
<1>3. ASSUME NEW n \in Scopes, Requests(n) PROVE Grown
    BY <1>3 DEF Requests, Grown, TypeOK
<1>4. ASSUME Departs PROVE Grown
    BY <1>4 DEF Departs, Grown
<1> QED BY <1>1, <1>2, <1>3, <1>4 DEF TreeStep

\* Steps that leave the entries alone.
MemoryIdle == UNCHANGED <<home, order, live, failed, where, inv>>

\* They keep the memory as it is.
LEMMA IdleListed == ASSUME TypeOK, Owns, MemoryIdle PROVE Memory
BY DEF TypeOK, Owns, MemoryIdle, Memory, Lists

\* A started setup belongs to a scope that was not requested.
LEMMA SetupListed == ASSUME TypeOK, Owns, NEW n \in Scopes, Setup(n) PROVE Memory
<1>1. PICK l \in NextLeaf :
        /\ home' = [home EXCEPT ![l] = n]
        /\ where' = [where EXCEPT ![l] = "setup"]
    BY DEF Setup
<1>2. ~requested[n] /\ UNCHANGED <<order, live, failed, inv>>
    BY DEF Setup, Accepts, listVars
<1>3. l \in Items /\ home[l] = 0
    BY ItemKinds DEF NextLeaf
<1>4. Lists'
    BY <1>1, <1>2, <1>3 DEF Lists, TypeOK, States
<1>5. \A i \in Items : i # l => home'[i] = home[i] /\ where'[i] = where[i]
    BY <1>1 DEF TypeOK
<1>6. \A m \in Scopes :
         /\ \A j \in 1 .. Len(live[m]) : live[m][j] \in Items /\ live[m][j] # l
         /\ \A j \in 1 .. Len(failed[m]) : failed[m][j] \in Items /\ failed[m][j] # l
    BY <1>3, ItemKinds, SMTT(30) DEF TypeOK, Owns
<1>7. home'[l] = n
    BY <1>1, <1>3 DEF TypeOK
<1>8. \A x \in Leaves : where'[x] = "setup" =>
         (where[x] = "setup" /\ home'[x] = home[x]) \/ ~requested[home'[x]]
    BY <1>2, <1>5, <1>7, ItemKinds
<1> QED BY <1>2, <1>4, <1>5, <1>6, <1>8 DEF Memory, Owns

\* A list of a scope gets one more entry.
LEMMA OneMore ==
    ASSUME NEW lists \in [Scopes -> Seq(Items)], NEW n, NEW i \in Items
    PROVE  /\ [lists EXCEPT ![n] = Append(@, i)] \in [Scopes -> Seq(Items)]
           /\ \A m \in Scopes : \A j \in 1 .. Len([lists EXCEPT ![n] = Append(@, i)][m]) :
                \/ j \in 1 .. Len(lists[m]) /\ [lists EXCEPT ![n] = Append(@, i)][m][j] = lists[m][j]
                \/ m = n /\ [lists EXCEPT ![n] = Append(@, i)][m][j] = i
<1> DEFINE q == [lists EXCEPT ![n] = Append(@, i)]
<1>1. ASSUME NEW m \in Scopes
      PROVE  /\ q[m] \in Seq(Items)
             /\ \A j \in 1 .. Len(q[m]) : \/ j \in 1 .. Len(lists[m]) /\ q[m][j] = lists[m][j]
                                          \/ m = n /\ q[m][j] = i
  <2>1. lists[m] \in Seq(Items)
      OBVIOUS
  <2>2. CASE m = n
    <3>1. q[m] = Append(lists[m], i)
        BY <2>2
    <3> HIDE DEF q
    <3>2. /\ Append(lists[m], i) \in Seq(Items) /\ Len(Append(lists[m], i)) = Len(lists[m]) + 1
          /\ Len(lists[m]) \in Nat
          /\ \A j \in 1 .. Len(lists[m]) : Append(lists[m], i)[j] = lists[m][j]
          /\ Append(lists[m], i)[Len(lists[m]) + 1] = i
        BY <2>1, AppendProperties
    <3> QED BY <2>2, <3>1, <3>2
  <2>3. CASE m # n
    <3>1. q[m] = lists[m]
        BY <2>3
    <3> QED BY <2>1, <3>1
  <2> QED BY <2>2, <2>3
<1>2. q \in [Scopes -> Seq(Items)]
  <2>1. DOMAIN q = Scopes /\ q = [m \in Scopes |-> q[m]]
      OBVIOUS
  <2> QED BY <1>1, <2>1
<1> QED BY <1>1, <1>2

\* The step of a new or a set up entry that takes its slot in #live.
LEMMA SlotListed ==
    ASSUME TypeOK, Owns, NEW n \in Scopes, NEW i \in Items,
           where' = [where EXCEPT ![i] = "live"],
           live' = [live EXCEPT ![n] = Append(@, i)],
           (home' = home /\ home[i] = n) \/ (home' = [home EXCEPT ![i] = n] /\ home[i] = 0),
           order' \in [Scopes -> {"reverse", "concurrent"}],
           UNCHANGED <<failed, inv>>
    PROVE  Memory
<1>1. live' \in [Scopes -> Seq(Items)]
      /\ \A m \in Scopes : \A j \in 1 .. Len(live'[m]) :
           \/ j \in 1 .. Len(live[m]) /\ live'[m][j] = live[m][j]
           \/ m = n /\ live'[m][j] = i
  <2>1. live \in [Scopes -> Seq(Items)]
      BY DEF TypeOK
  <2> QED BY <2>1, OneMore
<1>2. \A x \in Items : (x # i => home'[x] = home[x] /\ where'[x] = where[x])
    BY DEF TypeOK
<1>3. home'[i] = n /\ where'[i] = "live"
    BY DEF TypeOK
<1>4. Lists'
    BY <1>1 DEF Lists, TypeOK, States
<1>5. \A x \in Items : home[x] # 0 => home'[x] = home[x]
    BY <1>2, <1>3
<1>6. \A m \in Scopes : m # 0 /\
         /\ \A j \in 1 .. Len(live[m]) : live[m][j] \in Items /\ home[live[m][j]] = m
         /\ \A j \in 1 .. Len(failed[m]) : failed[m][j] \in Items /\ home[failed[m][j]] = m
    BY ItemKinds DEF TypeOK, Owns
<1>7. \A m \in Scopes : \A j \in 1 .. Len(live'[m]) : home'[live'[m][j]] = m
    BY <1>1, <1>3, <1>5, <1>6
<1>8. \A m \in Scopes : \A j \in 1 .. Len(failed'[m]) : home'[failed'[m][j]] = m
    BY <1>5, <1>6
<1>9. \A l \in Leaves : where'[l] = "setup" => where[l] = "setup" /\ home'[l] = home[l]
    BY <1>2, <1>3, ItemKinds
<1> QED BY <1>4, <1>7, <1>8, <1>9 DEF Memory

\* use(), child() and scoped() list one new entry.
LEMMA RegisterListed ==
    ASSUME TypeOK, Owns, NEW n \in Scopes,
           \/ Use(n) \/ OpenModule(n) \/ \E o : Child(n, o)
    PROVE  Memory
<1>1. ASSUME Use(n) PROVE Memory
  <2>1. PICK l \in NextLeaf :
          /\ home' = [home EXCEPT ![l] = n]
          /\ where' = [where EXCEPT ![l] = "live"]
          /\ live' = [live EXCEPT ![n] = Append(@, l)]
      BY <1>1 DEF Use
  <2>2. l \in Items /\ home[l] = 0 /\ UNCHANGED <<order, failed, inv>>
      BY <1>1, ItemKinds DEF NextLeaf, Use
  <2> QED BY <2>1, <2>2, SlotListed DEF TypeOK
<1>2. ASSUME NEW o \in Orders, NEW c \in NextScope, NEW a, Construct(c, n, o, a),
             UNCHANGED <<failed, inv>>
      PROVE  Memory
  <2>1. c \in Items /\ home[c] = 0 /\ o \in {"reverse", "concurrent"}
      BY ItemKinds DEF NextScope, Created, Orders, TypeOK
  <2>2. /\ home' = [home EXCEPT ![c] = n] /\ order' = [order EXCEPT ![c] = o]
        /\ where' = [where EXCEPT ![c] = "live"]
        /\ live' = [live EXCEPT ![n] = Append(@, c)]
      BY <1>2 DEF Construct
  <2>3. order' \in [Scopes -> {"reverse", "concurrent"}]
      BY <2>1, <2>2 DEF TypeOK
  <2> QED BY <1>2, <2>1, <2>2, <2>3, SlotListed
<1>3. ASSUME OpenModule(n) PROVE Memory
  <2>1. PICK c \in NextScope : Construct(c, n, "reverse", runAborted)
      BY <1>3 DEF OpenModule
  <2>2. "reverse" \in Orders /\ UNCHANGED <<failed, inv>>
      BY <1>3 DEF OpenModule, Orders
  <2> QED BY <1>2, <2>1, <2>2
<1>4. ASSUME NEW o, Child(n, o) PROVE Memory
  <2>1. PICK c \in NextScope : Construct(c, n, o, FALSE)
      BY <1>4 DEF Child
  <2>2. o \in Orders /\ UNCHANGED <<failed, inv>>
      BY <1>4 DEF Child
  <2> QED BY <1>2, <2>1, <2>2
<1> QED BY <1>1, <1>3, <1>4

\* A setup that settles takes its slot or is void.
LEMMA SetupEndMemory ==
    ASSUME TypeOK, Owns, NEW l \in Leaves, SetupFulfil(l) \/ SetupReject(l)
    PROVE  Memory
<1>1. l \in Items
    BY ItemKinds
<1>2. ASSUME SetupFulfil(l), home[l] \in Scopes PROVE Memory
  <2>1. PICK n \in Scopes : n = home[l]
      BY <1>2
  <2>2. /\ where' = [where EXCEPT ![l] = "live"]
        /\ live' = [live EXCEPT ![n] = Append(@, l)]
        /\ UNCHANGED <<home, order, failed, inv>>
      BY <1>2, <2>1 DEF SetupFulfil, treeVars
  <2> QED BY <1>1, <2>1, <2>2, SlotListed DEF TypeOK
<1>3. ASSUME SetupFulfil(l), home[l] \notin Scopes PROVE Memory
  <2>1. /\ where' = [where EXCEPT ![l] = "live"]
        /\ live' = [live EXCEPT ![home[l]] = Append(@, l)]
        /\ UNCHANGED <<home, order, failed, inv>>
      BY <1>3 DEF SetupFulfil, treeVars
  <2>2. live' = live
    <3> DEFINE n == home[l]
               q == Append(live[n], l)
    <3>1. n \notin Scopes /\ live' = [live EXCEPT ![n] = q] /\ live \in [Scopes -> Seq(Items)]
        BY <1>3, <2>1 DEF TypeOK
    <3> HIDE DEF n, q
    <3> QED BY <3>1
  <2>3. Lists'
      BY <1>1, <2>1, <2>2 DEF Lists, TypeOK, States
  <2> QED BY <1>1, <2>1, <2>2, <2>3 DEF TypeOK, Owns, Memory
<1>4. ASSUME SetupReject(l) PROVE Memory
    BY <1>1, <1>4 DEF SetupReject, treeVars, listVars, TypeOK, Owns, Memory, Lists, States
<1> QED BY <1>2, <1>3, <1>4

\* An item that is being released fails, or its state of release changes.
LEMMA FailMemory ==
    ASSUME TypeOK, Owns, NEW i \in Items, Fail(i), inv' = [inv EXCEPT ![i] = "none"],
           UNCHANGED <<home, order, live>>
    PROVE  Memory
<1>1. /\ where' = [where EXCEPT ![i] = "failed"]
      /\ failed' = [failed EXCEPT ![home[i]] = Append(@, i)]
    BY DEF Fail
<1>2. /\ failed' \in [Scopes -> Seq(Items)]
      /\ \A m \in Scopes : \A j \in 1 .. Len(failed'[m]) :
           \/ j \in 1 .. Len(failed[m]) /\ failed'[m][j] = failed[m][j]
           \/ m = home[i] /\ failed'[m][j] = i
  <2>1. failed \in [Scopes -> Seq(Items)]
      BY DEF TypeOK
  <2>2. PICK n : n = home[i]
      OBVIOUS
  <2>3. failed' = [failed EXCEPT ![n] = Append(@, i)]
      BY <1>1, <2>2
  <2> QED BY <2>1, <2>2, <2>3, OneMore
<1>3. Lists'
    BY <1>1, <1>2 DEF Lists, TypeOK, States, Invocations
<1> QED BY <1>1, <1>2, <1>3 DEF Memory, Owns, TypeOK

\* Steps that change the invocation of one entry.
LEMMA InvMemory ==
    ASSUME TypeOK, Owns, NEW i \in Items, NEW x \in Invocations,
           inv' = [inv EXCEPT ![i] = x], x = "none" \/ inv[i] # "none" \/ Invokes(i),
           where' = where \/ (\E s \in States \ {"setup"} : where' = [where EXCEPT ![i] = s]),
           UNCHANGED <<home, order, live, failed>>
    PROVE  Memory
<1>1. Lists'
    BY DEF Lists, TypeOK
<1>2. \A l \in Items : where'[l] = "setup" => where[l] = "setup"
    BY DEF TypeOK
<1>3. \A j \in Items : inv'[j] # "none" => inv[j] # "none" \/ Invokes(j)
    BY DEF TypeOK
<1> QED BY <1>1, <1>2, <1>3, ItemKinds DEF Memory, Owns

\* A cleanup that returns runs on or fails.
LEMMA CleanupMemory ==
    ASSUME TypeOK, Owns, Framed, CleanupReturn \/ CleanupThrow
    PROVE  Memory
<1>1. On({"cleanup"})
    BY DEF CleanupReturn, CleanupThrow
<1>2. PICK i \in Items : i = Top.n /\ Invokes(i)
    BY <1>1, TopIs, ItemKinds DEF Fit, Invokes
<1>3. ASSUME CleanupReturn PROVE Memory
  <2>1. inv' = [inv EXCEPT ![i] = "running"] /\ UNCHANGED <<home, order, live, failed, where>>
      BY <1>2, <1>3 DEF CleanupReturn, treeVars, listVars
  <2> QED BY <1>2, <2>1, InvMemory DEF Invocations
<1>4. ASSUME CleanupThrow PROVE Memory
  <2>1. Fail(i) /\ inv' = [inv EXCEPT ![i] = "none"] /\ UNCHANGED <<home, order, live>>
      BY <1>2, <1>4 DEF CleanupThrow, treeVars
  <2> QED BY <1>2, <2>1, FailMemory
<1> QED BY <1>3, <1>4

\* An invocation that ends leaves its entry gone or failed.
LEMMA EndMemory ==
    ASSUME TypeOK, Owns, NEW i \in Items,
           CleanupFulfil(i) \/ CleanupReject(i) \/ JoinSettled(i) \/ VoidReleased(i)
    PROVE  Memory
<1>1. "none" \in Invocations /\ "gone" \in States \ {"setup"}
    BY DEF Invocations, States
<1>2. ASSUME CleanupFulfil(i) \/ VoidReleased(i) PROVE Memory
  <2>1. /\ where' = [where EXCEPT ![i] = "gone"] /\ inv' = [inv EXCEPT ![i] = "none"]
        /\ UNCHANGED <<home, order, live, failed>>
      BY <1>2 DEF CleanupFulfil, VoidReleased, treeVars, listVars
  <2> QED BY <1>1, <2>1, InvMemory
<1>3. ASSUME CleanupReject(i) PROVE Memory
  <2>1. Fail(i) /\ inv' = [inv EXCEPT ![i] = "none"] /\ UNCHANGED <<home, order, live>>
      BY <1>3 DEF CleanupReject, treeVars
  <2> QED BY <2>1, FailMemory
<1>4. ASSUME JoinSettled(i) PROVE Memory
  <2>1. /\ Fail(i) \/ UNCHANGED <<where, failed>>
        /\ inv' = [inv EXCEPT ![i] = "none"] /\ UNCHANGED <<home, order, live>>
      BY <1>4 DEF JoinSettled, treeVars
  <2> QED BY <1>1, <2>1, FailMemory, InvMemory
<1> QED BY <1>2, <1>3, <1>4

\* What is retried comes from #failed.
LEMMA RetriedOnes ==
    ASSUME TypeOK, NEW n \in Scopes, NEW i \in 1 .. Len(Retried(n))
    PROVE  /\ Retried(n)[i] \in Items /\ where[Retried(n)[i]] = "failed"
           /\ \E j \in 1 .. Len(failed[n]) : Retried(n)[i] = failed[n][j]
<1> DEFINE r == Retried(n)
<1>1. r \in Seq(Items)
    BY RetriedIs
<1>2. PICK g \in [1 .. Len(r) -> 1 .. Len(failed[n])] :
                /\ \A x \in 1 .. Len(r) : r[x] = failed[n][g[x]] /\ where[r[x]] = "failed"
                /\ \A x, y \in 1 .. Len(r) : x < y => g[y] < g[x]
                /\ \A k \in 1 .. Len(failed[n]) : where[failed[n][k]] = "failed" =>
                     \E x \in 1 .. Len(r) : g[x] = k
    BY RetriedIs
<1> HIDE DEF r
<1>3. i \in 1 .. Len(r)
    BY DEF r
<1>4. r[i] \in Items /\ where[r[i]] = "failed" /\ g[i] \in 1 .. Len(failed[n]) /\ r[i] = failed[n][g[i]]
    BY <1>1, <1>2, <1>3
<1> QED BY <1>4 DEF r

\* Taking a flight moves failed entries to #live and invokes nothing else.
LEMMA TakeFlightMemory ==
    ASSUME TypeOK, Owns, NEW c \in Scopes, NEW v \in [Items -> States], TakeFlight(c, v),
           \A l \in Leaves : v[l] = "setup" => where[l] = "setup",
           UNCHANGED <<home, order>>,
           inv' \in [Items -> Invocations],
           \A i \in Items : inv'[i] # "none" => inv[i] # "none" \/ Invokes(i)
    PROVE  Memory
<1>1. /\ where' \in [Items -> States] /\ live' \in [Scopes -> Seq(Items)]
      /\ failed' \in [Scopes -> Seq(Items)]
      /\ \A m \in Scopes : failed'[m] = failed[m] \/ failed'[m] = <<>>
      /\ \A m \in Scopes : \A j \in 1 .. Len(live'[m]) : home[live'[m][j]] = m
      /\ \A l \in Leaves : where'[l] = "setup" => v[l] = "setup"
  <2>1. CASE phase[c] # "none"
    <3>1. where' = v /\ UNCHANGED <<live, failed>>
        BY <2>1, TakeFlightIs
    <3> QED BY <3>1 DEF TypeOK, Owns
  <2>2. CASE phase[c] = "none"
    <3>1. failed' = [failed EXCEPT ![c] = <<>>]
        BY <2>2, TakeFlightIs
    <3>2. Relisted(c) \in [Scopes -> Seq(Items)]
        BY RelistedType
    <3>3. \A m \in Scopes : \A j \in 1 .. Len(Relisted(c)[m]) : home[Relisted(c)[m][j]] = m
      <4> SUFFICES ASSUME NEW m \in Scopes, NEW j \in 1 .. Len(Relisted(c)[m])
                   PROVE  home[Relisted(c)[m][j]] = m
          OBVIOUS
      <4>1. CASE m # c
          BY <4>1, RelistedType DEF Owns
      <4>2. CASE m = c
        <5> DEFINE r == Retried(c)
        <5>1. live[c] \in Seq(Items) /\ r \in Seq(Items) /\ Relisted(c)[c] = live[c] \o r
            BY RetriedIs, RelistedType DEF TypeOK
        <5>2. \A k \in 1 .. Len(r) : home[r[k]] = c
            BY RetriedOnes DEF Owns
        <5> HIDE DEF r
        <5>3. j \in 1 .. Len(live[c]) + Len(r)
            BY <4>2, <5>1, ConcatProperties
        <5>4. (live[c] \o r)[j] = IF j <= Len(live[c]) THEN live[c][j] ELSE r[j - Len(live[c])]
            BY <5>1, <5>3, ConcatProperties
        <5>5. j > Len(live[c]) => j - Len(live[c]) \in 1 .. Len(r)
            BY <5>1, <5>3
        <5> QED BY <4>2, <5>1, <5>2, <5>3, <5>4, <5>5 DEF Owns
      <4> QED BY <4>1, <4>2
    <3>4. /\ Reopened(c, v) \in [Items -> States]
          /\ \A i \in Items : Reopened(c, v)[i] = v[i] \/ Reopened(c, v)[i] = "live"
        BY DEF Reopened, States
    <3>5. CASE ~NothingLeft(c)
      <4>1. where' = Reopened(c, v) /\ live' = Relisted(c)
          BY <2>2, <3>5, TakeFlightIs
      <4>2. \A l \in Leaves : where'[l] = "setup" => v[l] = "setup"
          BY <3>4, <4>1, ItemKinds
      <4>3. failed' \in [Scopes -> Seq(Items)] /\ \A m \in Scopes : failed'[m] = failed[m] \/ failed'[m] = <<>>
          BY <3>1 DEF TypeOK
      <4> QED BY <3>2, <3>3, <3>4, <4>1, <4>2, <4>3
    <3>6. CASE NothingLeft(c)
      <4>1. Leaving(c, Reopened(c, v), Relisted(c))
          BY <2>2, <3>6, TakeFlightIs
      <4>2. where' \in [Items -> States] /\ live' \in [Scopes -> Seq(Items)]
            /\ \A i \in Items : where'[i] = v[i] \/ where'[i] \in {"live", "gone"}
          BY <3>4, <4>1 DEF Leaving
      <4>3. \A m \in Scopes : \A j \in 1 .. Len(live'[m]) : home[live'[m][j]] = m
        <5> DEFINE l == Relisted(c)
        <5>1. l \in [Scopes -> Seq(Items)] /\ \A m \in Scopes : \A j \in 1 .. Len(l[m]) : home[l[m][j]] = m
            BY <3>2, <3>3
        <5>2. \A m \in Scopes : Thins(live'[m], l[m], {i \in Items : where'[i] # "gone"})
            BY <4>1 DEF Leaving
        <5> HIDE DEF l
        <5>3. \A m \in Scopes : \A j \in 1 .. Len(live'[m]) : \E k \in 1 .. Len(l[m]) : live'[m][j] = l[m][k]
          <6> SUFFICES ASSUME NEW m \in Scopes
                       PROVE  \A j \in 1 .. Len(live'[m]) : \E k \in 1 .. Len(l[m]) : live'[m][j] = l[m][k]
              OBVIOUS
          <6>1. PICK g \in [1 .. Len(live'[m]) -> 1 .. Len(l[m])] :
                    \A i \in 1 .. Len(live'[m]) : live'[m][i] = l[m][g[i]]
              BY <5>2, Zenon DEF Thins
          <6>2. \A i \in 1 .. Len(live'[m]) : g[i] \in 1 .. Len(l[m])
              OBVIOUS
          <6> QED BY <6>1, <6>2, Zenon
        <5> SUFFICES ASSUME NEW m \in Scopes, NEW j \in 1 .. Len(live'[m]) PROVE home[live'[m][j]] = m
            OBVIOUS
        <5>4. PICK k \in 1 .. Len(l[m]) : live'[m][j] = l[m][k]
            BY <5>3
        <5> QED BY <5>1, <5>4
      <4>4. \A l \in Leaves : where'[l] = "setup" => v[l] = "setup"
          BY <4>2, ItemKinds
      <4>5. failed' \in [Scopes -> Seq(Items)] /\ \A m \in Scopes : failed'[m] = failed[m] \/ failed'[m] = <<>>
          BY <3>1 DEF TypeOK
      <4> QED BY <4>2, <4>3, <4>4, <4>5
    <3> QED BY <3>5, <3>6
  <2> QED BY <2>1, <2>2
<1>2. \A m \in Scopes : \A j \in 1 .. Len(failed'[m]) : home[failed'[m][j]] = m
    BY <1>1 DEF Owns
<1>3. Lists'
    BY <1>1 DEF Lists, TypeOK
<1> QED BY <1>1, <1>2, <1>3 DEF Memory

\* The next entry of the batch on top.
LEMMA HeadIs ==
    ASSUME TypeOK, Framed, On({"batch"}), Top.left # <<>>
    PROVE  /\ Top.left \in Seq(Items) /\ Len(Top.left) \in Nat \ {0}
           /\ Head(Top.left) \in Items /\ Head(Top.left) = Top.left[1]
           /\ home[Head(Top.left)] = Top.n
           /\ Top.n \in Scopes /\ phase[Top.n] = "running" /\ Setups(Top.n) = {}
           /\ Tail(Top.left) \in Seq(Items) /\ Len(Tail(Top.left)) = Len(Top.left) - 1
           /\ \A j \in 1 .. Len(Top.left) - 1 : Tail(Top.left)[j] = Top.left[j + 1]
<1>1. Fit(Top) /\ Top.k = "batch"
    BY TopIs
<1>2. /\ Top.left \in Seq(Items) /\ \A j \in 1 .. Len(Top.left) : home[Top.left[j]] = Top.n
      /\ Top.n \in Scopes /\ phase[Top.n] = "running" /\ Setups(Top.n) = {}
    BY <1>1 DEF Fit, Steps
<1> DEFINE q == Top.left
<1>3. q \in Seq(Items) /\ q # <<>>
    BY <1>2
<1> HIDE DEF q
<1>4. /\ Len(q) \in Nat \ {0} /\ Head(q) \in Items /\ Head(q) = q[1]
      /\ Tail(q) \in Seq(Items) /\ Len(Tail(q)) = Len(q) - 1
      /\ \A j \in 1 .. Len(q) - 1 : Tail(q)[j] = q[j + 1]
    BY <1>3
<1> QED BY <1>2, <1>4 DEF q

\* Invoking the next entry of the batch.
LEMMA InvokeMemory ==
    ASSUME TypeOK, Owns, Framed, InvokeLeaf \/ InvokeVoid \/ InvokeChild
    PROVE  Memory
<1>1. On({"batch"}) /\ Top.left # <<>>
    BY DEF InvokeLeaf, InvokeVoid, InvokeChild
<1>2. PICK i \in Items : i = Head(Top.left) /\ home[i] = Top.n
    BY <1>1, HeadIs
<1>3. Invokes(i)
    BY <1>1, <1>2 DEF Invokes
<1>4. {"body", "void", "join", "complete"} \subseteq Invocations /\ "active" \in States \ {"setup"}
    BY DEF Invocations, States
<1>5. ASSUME InvokeLeaf PROVE Memory
  <2>1. where' = [where EXCEPT ![i] = "active"] /\ inv' = [inv EXCEPT ![i] = "body"]
        /\ UNCHANGED <<home, order, live, failed>>
      BY <1>2, <1>5 DEF InvokeLeaf, treeVars, listVars
  <2> QED BY <1>3, <1>4, <2>1, InvMemory
<1>6. ASSUME InvokeVoid PROVE Memory
  <2>1. where' = [where EXCEPT ![i] = "active"] /\ inv' = [inv EXCEPT ![i] = "void"]
        /\ UNCHANGED <<home, order, live, failed>>
      BY <1>2, <1>6 DEF InvokeVoid, treeVars, listVars
  <2> QED BY <1>3, <1>4, <2>1, InvMemory
<1>7. ASSUME InvokeChild PROVE Memory
  <2>1. /\ TakeFlight(i, [where EXCEPT ![i] = "active"]) /\ i \in Scopes
        /\ inv' = [inv EXCEPT ![i] = IF HasFlight(i) THEN "join" ELSE "complete"]
        /\ UNCHANGED <<home, order>>
      BY <1>2, <1>7 DEF InvokeChild, HasChild
  <2> DEFINE v == [where EXCEPT ![i] = "active"]
  <2>2. v \in [Items -> States] /\ \A l \in Leaves : v[l] = "setup" => where[l] = "setup"
      BY <1>4, ItemKinds DEF TypeOK
  <2>3. inv' \in [Items -> Invocations]
      BY <1>4, <2>1 DEF TypeOK
  <2>4. \A j \in Items : inv'[j] # "none" => inv[j] # "none" \/ Invokes(j)
      BY <1>3, <2>1 DEF TypeOK
  <2> HIDE DEF v
  <2>5. TakeFlight(i, v)
      BY <2>1 DEF v
  <2> QED BY <2>1, <2>2, <2>3, <2>4, <2>5, TakeFlightMemory
<1> QED BY <1>5, <1>6, <1>7

\* A call of close().
LEMMA CloseMemory ==
    ASSUME TypeOK, Owns, NEW k, NEW n \in Scopes, NEW e, NEW a, Close(k, n, e, a)
    PROVE  Memory
<1>1. TakeFlight(n, where) /\ UNCHANGED <<home, order, inv>>
    BY DEF Close
<1>2. /\ where \in [Items -> States] /\ inv' \in [Items -> Invocations]
      /\ \A i \in Items : inv'[i] # "none" => inv[i] # "none"
    BY <1>1 DEF TypeOK
<1> QED BY <1>1, <1>2, TakeFlightMemory

\* What #run leaves in #live when it takes a batch.
LEMMA KeptIs ==
    ASSUME TypeOK, NEW n \in Scopes, Standing(n) # {}
    PROVE  /\ Kept(n) \in 0 .. Len(live[n]) - 1
           /\ order[n] = "reverse" =>
                /\ where[live[n][Kept(n) + 1]] # "gone"
                /\ \A j \in 1 .. Len(live[n]) : j > Kept(n) + 1 => where[live[n][j]] = "gone"
<1> DEFINE S == Standing(n)
           m == Max(S)
<1>1. live[n] \in Seq(Items) /\ Len(live[n]) \in Nat
    BY DEF TypeOK
<1>2. S \in SUBSET (1 .. Len(live[n])) /\ S # {}
      /\ \A j \in 1 .. Len(live[n]) : j \in S <=> where[live[n][j]] # "gone"
    BY <1>1 DEF Standing
<1> HIDE DEF S
<1>3. m \in S /\ \A x \in S : x <= m
  <2>1. S \in SUBSET Nat /\ \A x \in S : x <= Len(live[n])
      BY <1>1, <1>2
  <2> QED BY <1>1, <1>2, <2>1, MaxIsGreatest
<1>4. Kept(n) = IF order[n] = "concurrent" THEN 0 ELSE m - 1
    BY DEF Kept, S
<1> HIDE DEF m
<1>5. m \in 1 .. Len(live[n]) /\ order[n] \in {"reverse", "concurrent"}
    BY <1>2, <1>3 DEF TypeOK
<1>6. Kept(n) \in 0 .. Len(live[n]) - 1
    BY <1>1, <1>4, <1>5
<1>7. ASSUME order[n] = "reverse"
      PROVE  /\ where[live[n][Kept(n) + 1]] # "gone"
             /\ \A j \in 1 .. Len(live[n]) : j > Kept(n) + 1 => where[live[n][j]] = "gone"
  <2>1. Kept(n) + 1 = m
      BY <1>4, <1>5, <1>7
  <2> QED BY <1>1, <1>2, <1>3, <1>5, <2>1
<1> QED BY <1>6, <1>7

\* Taking a batch shortens #live.
LEMMA BatchMemory ==
    ASSUME TypeOK, Owns, Framed, TakeBatch PROVE Memory
<1>1. Top.n \in Scopes
    BY TopIs DEF TakeBatch, Fit, Steps
<1>2. PICK n \in Scopes : n = Top.n
    BY <1>1
<1>3. Standing(n) # {} /\ live' = [live EXCEPT ![n] = SubSeq(@, 1, Kept(n))]
      /\ UNCHANGED <<home, order, failed, where, inv>>
    BY <1>2 DEF TakeBatch, treeVars, entryVars
<1>4. Kept(n) \in 0 .. Len(live[n]) - 1 /\ live[n] \in Seq(Items) /\ Len(live[n]) \in Nat
    BY <1>3, KeptIs DEF TypeOK
<1> DEFINE q == SubSeq(live[n], 1, Kept(n))
<1>5. q \in Seq(Items) /\ Len(q) = Kept(n) /\ \A j \in 1 .. Kept(n) : q[j] = live[n][j]
    BY <1>4, SubSeqProperties
<1> HIDE DEF q
<1>6. live' = [live EXCEPT ![n] = q]
    BY <1>3 DEF q
<1>7. Lists'
    BY <1>3, <1>5, <1>6 DEF Lists, TypeOK
<1>8. \A m \in Scopes : \A j \in 1 .. Len(live'[m]) : home[live'[m][j]] = m
    BY <1>4, <1>5, <1>6 DEF TypeOK, Owns
<1> QED BY <1>3, <1>7, <1>8 DEF Memory, Owns

\* The report of a flight empties #live.
LEMMA SettleMemory ==
    ASSUME TypeOK, Owns, Framed, Settle PROVE Memory
<1>1. PICK n \in Scopes : n = Top.n
    BY TopIs DEF Settle, Fit, Steps
<1> DEFINE l == [live EXCEPT ![n] = <<>>]
           t == [tombstones EXCEPT ![n] = @ - Len(live[n])]
           complete == Debts(n) = {}
<1>2. /\ IF complete THEN Detach(n, where, l, t)
         ELSE live' = l /\ tombstones' = t /\ UNCHANGED <<where, detached>>
      /\ inv' = [inv EXCEPT ![n] = IF @ = "join" THEN Outcome(complete) ELSE @]
      /\ UNCHANGED <<home, order, failed>>
    BY <1>1 DEF Settle
<1>3. /\ l \in [Scopes -> Seq(Items)]
      /\ \A m \in Scopes : \A j \in 1 .. Len(l[m]) : home[l[m][j]] = m
  <2>1. \A m \in Scopes : l[m] = live[m] \/ l[m] = <<>>
      BY DEF TypeOK
  <2>2. l \in [Scopes -> Seq(Items)]
      BY DEF TypeOK
  <2> QED BY <2>1, <2>2 DEF Owns
<1>4. inv' \in [Items -> Invocations] /\ \A i \in Items : inv'[i] # "none" => inv[i] # "none"
  <2>1. Outcome(complete) \in Invocations
      BY DEF Outcome, Invocations
  <2> HIDE DEF complete
  <2> QED BY <1>2, <2>1 DEF TypeOK
<1> HIDE DEF l, t, complete
<1>5. /\ where' \in [Items -> States] /\ live' \in [Scopes -> Seq(Items)]
      /\ \A i \in Items : where'[i] = where[i] \/ where'[i] = "gone"
      /\ \A m \in Scopes : \A j \in 1 .. Len(live'[m]) : home[live'[m][j]] = m
  <2>1. CASE ~complete
      BY <1>2, <1>3, <2>1 DEF TypeOK
  <2>2. CASE complete
    <3>1. Leaving(n, where, l)
        BY <1>2, <1>3, <2>2, DetachIs DEF TypeOK
    <3>2. \A i \in Items : where'[i] = where[i] \/ where'[i] = "gone"
        BY <3>1 DEF Leaving, TypeOK
    <3>3. where' \in [Items -> States] /\ live' \in [Scopes -> Seq(Items)]
          /\ \A m \in Scopes : Thins(live'[m], l[m], {i \in Items : where'[i] # "gone"})
        BY <3>1 DEF Leaving
    <3>4. \A m \in Scopes : \A j \in 1 .. Len(live'[m]) : \E k \in 1 .. Len(l[m]) : live'[m][j] = l[m][k]
      <4> SUFFICES ASSUME NEW m \in Scopes
                   PROVE  \A j \in 1 .. Len(live'[m]) : \E k \in 1 .. Len(l[m]) : live'[m][j] = l[m][k]
          OBVIOUS
      <4>1. PICK g \in [1 .. Len(live'[m]) -> 1 .. Len(l[m])] :
                \A i \in 1 .. Len(live'[m]) : live'[m][i] = l[m][g[i]]
          BY <3>3, Zenon DEF Thins
      <4> QED BY <4>1
    <3> QED BY <1>3, <3>2, <3>3, <3>4
  <2> QED BY <2>1, <2>2
<1>6. Lists'
    BY <1>2, <1>4, <1>5 DEF Lists, TypeOK
<1> QED BY <1>2, <1>4, <1>5, <1>6, ItemKinds DEF Memory, Owns

\* Every step keeps the entries and their lists in order.
LEMMA NextMemory == ASSUME WInv, [Next]_vars PROVE Memory
<1> USE DEF WInv
<1>1. ASSUME NEW n \in Scopes, Setup(n) PROVE Memory
    BY <1>1, SetupListed
<1>2. ASSUME NEW n \in Scopes, Use(n) \/ OpenModule(n) \/ \E o : Child(n, o) PROVE Memory
    BY <1>2, RegisterListed
<1>3. ASSUME NEW k \in Calls, NEW n \in Scopes, NEW e, NEW a, Close(k, n, e, a) PROVE Memory
    BY <1>3, CloseMemory
<1>4. ASSUME NEW l \in Leaves, UserSettles(l) PROVE Memory
    BY <1>4, SetupEndMemory, EndMemory, ItemKinds DEF UserSettles
<1>5. ASSUME NEW c \in Scopes, JoinSettled(c) \/ VoidReleased(c) PROVE Memory
    BY <1>5, EndMemory, ItemKinds
<1>6. ASSUME \/ CancelRun
             \/ \E k \in Calls : EscalateSignal(k) \/ AbandonSignal(k) \/ AnswerCall(k)
             \/ \E c \in Scopes : Unlink(c) \/ Resume(c)
      PROVE  Memory
  <2>1. MemoryIdle
      BY <1>6 DEF CancelRun, EscalateSignal, AbandonSignal, AnswerCall, Unlink, Resume,
             MemoryIdle, treeVars, listVars, entryVars
  <2> QED BY <2>1, IdleListed
<1>7. ASSUME SetupReturn \/ ListenerReturn \/ NotifyVisit \/ CancelVisit \/ EscalateVisit \/ WalkDone
      PROVE  Memory
  <2>1. MemoryIdle
      BY <1>7 DEF SetupReturn, ListenerReturn, NotifyVisit, CancelVisit, EscalateVisit, WalkDone,
             MemoryIdle, treeVars, listVars, entryVars
  <2> QED BY <2>1, IdleListed
<1>8. ASSUME StartFlight \/ CloseReturn \/ DrainStep \/ AwaitSetups \/ AwaitBatch PROVE Memory
  <2>1. MemoryIdle
      BY <1>8 DEF StartFlight, CloseReturn, DrainStep, AwaitSetups, AwaitBatch,
             MemoryIdle, treeVars, listVars, entryVars
  <2> QED BY <2>1, IdleListed
<1>9. ASSUME CleanupReturn \/ CleanupThrow \/ TakeBatch \/ Settle
             \/ InvokeLeaf \/ InvokeChild \/ InvokeVoid
      PROVE  Memory
    BY <1>9, CleanupMemory, BatchMemory, SettleMemory, InvokeMemory
<1>10. CASE UNCHANGED vars
  <2>1. MemoryIdle
      BY <1>10 DEF vars, MemoryIdle, treeVars, listVars, entryVars
  <2> QED BY <2>1, IdleListed
<1>11. CASE Next
    BY <1>1, <1>2, <1>3, <1>4, <1>5, <1>6, <1>7, <1>8, <1>9, <1>11
       DEF Next, UserStep, UserReturn, Machine, Continuation
<1> QED BY <1>10, <1>11

-----------------------------------------------------------------------------
(* What a step does to the stack and the flights.                          *)

\* Every step keeps what was requested and who owns what.
LEMMA NextGrows == ASSUME TypeOK, [Next]_vars PROVE Grown /\ TreeType'
<1>1. TreeType
    BY DEF TypeOK, TreeType
<1> QED BY <1>1, NextIsTreeStep, TreeStepType, GrownTree

\* Once a requested scope has no pending setup, it never has one again.
LEMMA SetupsStay ==
    ASSUME TypeOK, Memory, Grown, NEW n \in Scopes, requested[n], Setups(n) = {}
    PROVE  Setups(n)' = {}
<1> SUFFICES ASSUME NEW l \in Leaves, home'[l] = n, where'[l] = "setup" PROVE FALSE
    BY DEF Setups
<1>1. where[l] = "setup" /\ home[l] = n
    BY DEF Memory
<1> QED BY <1>1 DEF Setups

\* The flight of n leaves its release phase.
Ends(n) == On({"run"}) /\ Top.n = n
LightKinds == {"setup", "listener", "notify", "cancel", "escalate", "answer"}
Light(f) == f.k \in LightKinds /\ (f.k \in WalkKinds => f = [k |-> f.k, n |-> f.n, cur |-> f.cur])

\* The flights of the frames that stay keep their phase, and only a run on top
\* leaves the release phase.
Flow(m) ==
    /\ phase' \in [Scopes -> Phases]
    /\ \A n \in Scopes : phase'[n] # phase[n] =>
         \A i \in 1 .. m : stack[i].k \in Steps => stack[i].n # n
    /\ \A n \in Scopes :
         phase[n] \in {"running", "batch"} /\ phase'[n] \notin {"running", "batch"} => Ends(n)

\* What is being released stays in its flight, past its setups.
LEMMA InvokedStays ==
    ASSUME WInv, Memory, Grown, NEW m, Flow(m)
    PROVE  /\ Invoked'
           /\ \A n \in Scopes : ~Ends(n) /\ Setups(n) = {} /\ phase[n] \in {"running", "batch"} =>
                 Setups(n)' = {} /\ phase'[n] \in {"running", "batch"}
<1> USE DEF WInv
<1>1. ASSUME NEW n \in Scopes, ~Ends(n), Setups(n) = {}, phase[n] \in {"running", "batch"}
      PROVE  Setups(n)' = {} /\ phase'[n] \in {"running", "batch"}
  <2>1. requested[n]
      BY <1>1 DEF Flights
  <2> QED BY <1>1, <2>1, SetupsStay DEF Flow
<1>2. ASSUME NEW i \in Items, inv'[i] # "none"
      PROVE  /\ home[i] \in Scopes /\ phase[home[i]] \in {"running", "batch"}
             /\ Setups(home[i]) = {} /\ ~Ends(home[i])
  <2>1. inv[i] # "none" \/ Invokes(i)
      BY <1>2 DEF Memory
  <2>2. CASE inv[i] # "none"
    <3>1. home[i] \in Scopes /\ phase[home[i]] \in {"running", "batch"} /\ Setups(home[i]) = {}
        BY <2>2 DEF Invoked
    <3>2. Ends(home[i]) => NoneInvoked(home[i])
        BY TopIs DEF Ends, Fit
    <3> QED BY <2>2, <3>1, <3>2 DEF NoneInvoked
  <2>3. CASE On({"batch"}) /\ home[i] = Top.n
    <3>1. Fit(Top) /\ Top.k = "batch"
        BY <2>3, TopIs
    <3>2. home[i] \in Scopes /\ phase[home[i]] \in {"running", "batch"} /\ Setups(home[i]) = {}
        BY <2>3, <3>1 DEF Fit, Steps
    <3>3. ~Ends(home[i])
        BY <3>1 DEF Ends, On
    <3> QED BY <3>2, <3>3
  <2>4. CASE On({"cleanup"}) /\ i = Top.n
    <3>1. Fit(Top) /\ Top.k = "cleanup"
        BY <2>4, TopIs
    <3>2. home[i] \in Scopes /\ phase[home[i]] \in {"running", "batch"} /\ Setups(home[i]) = {}
        BY <2>4, <3>1 DEF Fit
    <3>3. ~Ends(home[i])
        BY <3>1 DEF Ends, On
    <3> QED BY <3>2, <3>3
  <2> QED BY <2>1, <2>2, <2>3, <2>4 DEF Invokes
<1>3. Invoked'
  <2> SUFFICES ASSUME NEW i \in Items, inv'[i] # "none"
               PROVE  /\ home'[i] \in Scopes /\ phase'[home'[i]] \in {"running", "batch"}
                      /\ Setups(home[i])' = {}
      BY DEF Invoked
  <2>1. PICK n \in Scopes : n = home[i]
      BY <1>2
  <2>2. phase[n] \in {"running", "batch"} /\ Setups(n) = {} /\ ~Ends(n)
      BY <1>2, <2>1
  <2>3. home'[i] = n
      BY <2>1, ItemKinds DEF Grown
  <2> QED BY <1>1, <2>2, <2>3
<1> QED BY <1>1, <1>3

\* The frames above the lowest m are fit, each flight has one frame only, and
\* nothing that releases is above a notification.
New(m) ==
    \A j \in 1 .. Len(stack') : j > m =>
        /\ \A f : f = stack'[j] => Fit(f)'
        /\ \A i \in 1 .. Len(stack') : i < j =>
             /\ stack'[i].k \in Steps /\ stack'[j].k \in Steps => stack'[i].n # stack'[j].n
             /\ Notifies(stack[i])' => stack'[j].k \notin Releasing
        /\ \A i \in 1 .. Len(stack') :
             /\ stack'[i].k = "run" /\ stack'[j].k = "cleanup" => home'[stack'[j].n] # stack'[i].n
             /\ stack'[j].k = "run" /\ stack'[i].k = "cleanup" => home'[stack'[i].n] # stack'[j].n

\* A frame that stays is as fit as it was.
LEMMA FrameStays ==
    ASSUME WInv, Memory, Grown, NEW m, NEW F, Stacks(m, F), Flow(m),
           NEW i \in 1 .. m, NEW f, f = stack[i]
    PROVE  Fit(f)'
<1> USE DEF WInv
<1>1. i \in 1 .. Len(stack) /\ Fit(f) /\ Len(stack) \in Nat /\ m \in Nat
  <2>1. Len(stack) \in Nat /\ i \in 1 .. Len(stack) /\ m \in Nat
      BY OfItsOwn DEF Stacks, TypeOK
  <2>2. f \in ToSet(stack)
      BY <2>1, OfItsOwn DEF TypeOK
  <2> QED BY <2>1, <2>2 DEF Framed
<1>2. f.k \in Steps => f.n \in Scopes /\ phase'[f.n] = phase[f.n]
    BY <1>1 DEF Fit, Flow
<1>3. ASSUME f.k = "run" PROVE NoneInvoked(f.n)'
  <2> SUFFICES ASSUME NEW x \in Items, home'[x] = f.n, inv'[x] # "none" PROVE FALSE
      BY DEF NoneInvoked
  <2>1. f.n \in Scopes /\ NoneInvoked(f.n)
      BY <1>1, <1>3 DEF Fit, Steps
  <2>2. inv[x] # "none" \/ Invokes(x)
      BY DEF Memory
  <2>3. CASE inv[x] # "none"
      BY <2>1, <2>3, ItemKinds DEF Invoked, Grown, NoneInvoked
  <2>4. CASE On({"batch"}) /\ home[x] = Top.n
    <3>1. Top = stack[Len(stack)] /\ Top.k = "batch" /\ Len(stack) \in 1 .. Len(stack) /\ Fit(Top)
        BY <1>1, <2>4, TopIs
    <3>2. home[x] = f.n
        BY <2>4, <3>1, ItemKinds DEF Grown, Fit, Steps
    <3>3. i # Len(stack)
        BY <1>3, <3>1
    <3> QED BY <1>1, <1>3, <2>4, <3>1, <3>2, <3>3 DEF Single, Steps
  <2>5. CASE On({"cleanup"}) /\ x = Top.n
    <3>1. Top = stack[Len(stack)] /\ Top.k = "cleanup" /\ Len(stack) \in 1 .. Len(stack) /\ Fit(Top)
        BY <1>1, <2>5, TopIs
    <3>2. home[x] = f.n
        BY <2>5, <3>1, ItemKinds DEF Grown, Fit
    <3> QED BY <1>1, <1>3, <2>5, <3>1, <3>2 DEF Single
  <2> QED BY <2>2, <2>3, <2>4, <2>5 DEF Invokes
<1>4. ASSUME f.k = "batch"
      PROVE  /\ Setups(f.n)' = {} /\ f.left \in Seq(Items)
             /\ \A j \in 1 .. Len(f.left) : home'[f.left[j]] = f.n
  <2>1. /\ f.n \in Scopes /\ Setups(f.n) = {} /\ f.left \in Seq(Items) /\ phase[f.n] = "running"
        /\ \A j \in 1 .. Len(f.left) : home[f.left[j]] = f.n
      BY <1>1, <1>4 DEF Fit, Steps
  <2>2. requested[f.n]
      BY <2>1 DEF Flights
  <2>3. \A j \in 1 .. Len(f.left) : f.left[j] \in Items
      BY <2>1
  <2> QED BY <2>1, <2>2, <2>3, SetupsStay, ItemKinds DEF Grown
<1>5. ASSUME f.k = "cleanup"
      PROVE  /\ f.n \in Leaves /\ home'[f.n] \in Scopes
             /\ phase'[home'[f.n]] \in {"running", "batch"} /\ Setups(home[f.n])' = {}
  <2>1. f.n \in Leaves /\ home[f.n] \in Scopes
        /\ phase[home[f.n]] \in {"running", "batch"} /\ Setups(home[f.n]) = {}
      BY <1>1, <1>5 DEF Fit
  <2>2. PICK n \in Scopes : n = home[f.n]
      BY <2>1
  <2>3. home'[f.n] = n
      BY <2>1, <2>2, ItemKinds DEF Grown
  <2>4. ~Ends(n)
    <3>1. ASSUME Ends(n) PROVE FALSE
      <4>1. Top = stack[Len(stack)] /\ Top.k = "run" /\ Len(stack) \in 1 .. Len(stack) /\ Top.n = n
          BY <1>1, <3>1, TopIs DEF Ends
      <4> QED BY <1>1, <1>5, <2>2, <4>1 DEF Single
    <3> QED BY <3>1
  <2>5. Setups(n)' = {} /\ phase'[n] \in {"running", "batch"}
      BY <2>1, <2>2, <2>4, InvokedStays
  <2> QED BY <2>1, <2>2, <2>3, <2>5 DEF Setups
<1>6. f.k \in {"start", "run", "batch"} => f.k \in Steps
    BY DEF Steps
<1>7. /\ f.k \in WalkKinds => f = [k |-> f.k, n |-> f.n, cur |-> f.cur]
      /\ f.k = "batch" => f = [k |-> f.k, n |-> f.n, left |-> f.left]
      /\ f.k = "start" => phase[f.n] = "open"
      /\ f.k \in {"run", "batch"} => phase[f.n] = "running"
    BY <1>1 DEF Fit
<1> QED BY <1>2, <1>3, <1>4, <1>5, <1>6, <1>7 DEF Fit

\* When the old frames stay and the new ones are new to the stack, the order of
\* the stack is kept.
LEMMA ControlKept ==
    ASSUME WInv, Memory, Grown, NEW m, NEW F, Stacks(m, F), Flow(m), New(m)
    PROVE  Framed' /\ Single' /\ Silent' /\ Invoked'
<1> USE DEF WInv
<1>1. /\ Len(stack) \in Nat /\ m \in 0 .. Len(stack) /\ stack' \in Seq(ToSet(stack')) /\ Len(stack') \in Nat
      /\ \A i \in 1 .. m : i \in 1 .. Len(stack') /\ i \in 1 .. Len(stack) /\ stack'[i] = stack[i]
  <2>1. stack \in Seq(ToSet(stack)) /\ stack' \in Seq(ToSet(stack'))
      BY DEF Stacks, TypeOK
  <2>2. Len(stack) \in Nat /\ Len(stack') \in Nat
      BY <2>1
  <2>3. m \in 0 .. Len(stack) /\ m <= Len(stack') /\ \A i \in 1 .. m : stack'[i] = stack[i]
      BY DEF Stacks
  <2> QED BY <2>1, <2>2, <2>3
<1>2. Framed'
  <2> SUFFICES ASSUME NEW f \in ToSet(stack') PROVE Fit(f)'
      BY DEF Framed
  <2>1. PICK j \in 1 .. Len(stack') : stack'[j] = f
      BY <1>1, OfItsOwn
  <2>2. CASE j > m
      BY <2>1, <2>2 DEF New
  <2>3. CASE ~(j > m)
    <3>1. j \in 1 .. m /\ f = stack[j]
        BY <1>1, <2>1, <2>3
    <3> QED BY <3>1, FrameStays
  <2> QED BY <2>2, <2>3
<1>3. Single'
  <2> SUFFICES ASSUME NEW i \in 1 .. Len(stack'), NEW j \in 1 .. Len(stack')
               PROVE  /\ i # j /\ stack'[i].k \in Steps /\ stack'[j].k \in Steps => stack'[i].n # stack'[j].n
                      /\ stack'[i].k = "run" /\ stack'[j].k = "cleanup" => home'[stack'[j].n] # stack'[i].n
      BY DEF Single
  <2>1. CASE i <= m /\ j <= m
    <3>1. i \in 1 .. m /\ j \in 1 .. m
        BY <1>1, <2>1
    <3>2. stack[j].k = "cleanup" => home[stack[j].n] \in Scopes /\ stack[j].n \in Leaves
      <4>1. PICK f : f = stack[j]
          OBVIOUS
      <4>2. f \in ToSet(stack)
          BY <1>1, <3>1, <4>1, OfItsOwn DEF TypeOK
      <4> QED BY <4>1, <4>2 DEF Framed, Fit
    <3>3. stack[j].k = "cleanup" => home'[stack[j].n] = home[stack[j].n]
        BY <3>2, ItemKinds DEF Grown
    <3> QED BY <1>1, <3>1, <3>3 DEF Single
  <2>2. CASE i > m
    <3>1. j < i \/ j = i \/ (i < j /\ j > m)
        BY <1>1, <2>2
    <3> QED BY <2>2, <3>1 DEF New
  <2>3. CASE j > m
    <3>1. i < j \/ j = i \/ (j < i /\ i > m)
        BY <1>1, <2>3
    <3> QED BY <2>3, <3>1 DEF New
  <2> QED BY <1>1, <2>1, <2>2, <2>3
<1>4. Silent'
  <2> SUFFICES ASSUME NEW i \in 1 .. Len(stack'), NEW j \in 1 .. Len(stack'), i < j,
                      Notifies(stack[i])'
               PROVE  stack'[j].k \notin Releasing
      BY DEF Silent
  <2>1. CASE j > m
      BY <2>1 DEF New
  <2>2. CASE ~(j > m)
    <3>1. i \in 1 .. m /\ j \in 1 .. m
        BY <1>1, <2>2
    <3>2. Notifies(stack[i])
        BY <1>1, <3>1 DEF Notifies
    <3> QED BY <1>1, <3>1, <3>2 DEF Silent
  <2> QED BY <2>1, <2>2
<1> QED BY <1>2, <1>3, <1>4, InvokedStays
-----------------------------------------------------------------------------
(* One step at a time.                                                     *)

Control ==
    /\ phase \in [Scopes -> Phases] /\ starts \in Seq(Scopes) /\ stack \in Seq(ToSet(stack))
    /\ Flights /\ Queued /\ Framed /\ Single /\ Silent /\ Invoked

\* Frames that neither release nor belong to a flight may go anywhere.
LEMMA LightNew ==
    ASSUME NEW m, NEW F, Stacks(m, F), \A f \in F : Light(f)
    PROVE  New(m)
<1> SUFFICES ASSUME NEW j \in 1 .. Len(stack'), j > m
             PROVE  /\ \A f : f = stack'[j] => Fit(f)'
                    /\ \A i \in 1 .. Len(stack') : i < j =>
                         /\ stack'[i].k \in Steps /\ stack'[j].k \in Steps => stack'[i].n # stack'[j].n
                         /\ Notifies(stack[i])' => stack'[j].k \notin Releasing
                    /\ \A i \in 1 .. Len(stack') :
                         /\ stack'[i].k = "run" /\ stack'[j].k = "cleanup" => home'[stack'[j].n] # stack'[i].n
                         /\ stack'[j].k = "run" /\ stack'[i].k = "cleanup" => home'[stack'[i].n] # stack'[j].n
    BY DEF New
<1>1. PICK f : f = stack'[j] /\ Light(f)
    BY DEF Stacks
<1>2. stack'[j].k \notin Steps /\ stack'[j].k \notin Releasing
    BY <1>1 DEF Light, LightKinds, Steps, Releasing
<1>3. stack'[j].k # "run" /\ stack'[j].k # "cleanup"
    BY <1>1 DEF Light, LightKinds
<1>4. Fit(f)'
    BY <1>1 DEF Light, LightKinds, Fit, Steps
<1> QED BY <1>1, <1>2, <1>3, <1>4

\* Steps that touch no flight.
LEMMA CalmFlow ==
    ASSUME WInv, Memory, Grown, UNCHANGED <<phase, starts>>
    PROVE  /\ \A m : Flow(m)
           /\ Flights' /\ Queued' /\ starts' \in Seq(Scopes)
<1> USE DEF WInv
<1>1. Flights'
    BY ItemKinds DEF Flights, Grown, Created, TypeOK
<1>2. Queued'
    BY DEF Queued
<1> QED BY <1>1, <1>2 DEF Flow, TypeOK

\* A step that changes no flight keeps the order when its frames are new.
LEMMA CalmKept ==
    ASSUME WInv, Memory, Grown, UNCHANGED <<phase, starts>>, NEW m, NEW F, Stacks(m, F), New(m)
    PROVE  Control'
<1>1. Flow(m) /\ Flights' /\ Queued' /\ starts' \in Seq(Scopes)
    BY CalmFlow
<1>2. Framed' /\ Single' /\ Silent' /\ Invoked'
    BY <1>1, ControlKept
<1>3. stack' \in Seq(ToSet(stack')) /\ phase' \in [Scopes -> Phases]
    BY DEF Stacks, WInv, TypeOK
<1> QED BY <1>1, <1>2, <1>3 DEF Control

\* And so when all its frames are light.
LEMMA LightKept ==
    ASSUME WInv, Memory, Grown, UNCHANGED <<phase, starts>>, NEW m, NEW F, Stacks(m, F),
           \A f \in F : Light(f)
    PROVE  Control'
BY LightNew, CalmKept

\* The step leaves the stack, or drops its top, or puts a light frame on it.
LEMMA CalmStack ==
    ASSUME WInv, Memory, Grown, UNCHANGED <<phase, starts>>,
           \/ UNCHANGED stack
           \/ stack # <<>> /\ stack' = Under
           \/ \E f : stack' = Append(stack, f) /\ Light(f)
    PROVE  Control'
<1>1. TypeOK
    BY DEF WInv
<1>2. CASE UNCHANGED stack
  <2>1. PICK m : m = Len(stack)
      OBVIOUS
  <2>2. Stacks(m, {})
      BY <1>1, <1>2, <2>1, StackSame
  <2> QED BY <2>2, LightKept
<1>3. CASE stack # <<>> /\ stack' = Under
  <2>1. PICK m : m = Len(stack) - 1
      OBVIOUS
  <2>2. Stacks(m, {})
      BY <1>1, <1>3, <2>1, StackPop
  <2> QED BY <2>2, LightKept
<1>4. ASSUME NEW f, stack' = Append(stack, f), Light(f) PROVE Control'
  <2>1. PICK m : m = Len(stack)
      OBVIOUS
  <2>2. stack' = stack \o <<f>> /\ <<f>> \in Seq({f})
      BY <1>1, <1>4, AppendIsJoin DEF TypeOK
  <2>3. Stacks(m, {f})
      BY <1>1, <2>1, <2>2, StackPush
  <2> QED BY <1>4, <2>3, LightKept
<1> QED BY <1>2, <1>3, <1>4

\* Callbacks, promises and signals change no flight and put light frames at most.
LEMMA CallbackControl ==
    ASSUME WInv, Memory, Grown,
           \/ \E n \in Scopes : Setup(n) \/ Use(n) \/ OpenModule(n) \/ Unlink(n) \/ \E o : Child(n, o)
           \/ SetupReturn \/ ListenerReturn \/ CleanupReturn \/ CleanupThrow \/ CloseReturn
           \/ \E l \in Items : SetupFulfil(l) \/ SetupReject(l) \/ CleanupFulfil(l) \/ CleanupReject(l)
                                \/ JoinSettled(l) \/ VoidReleased(l)
           \/ \E k \in Calls : EscalateSignal(k) \/ AbandonSignal(k) \/ AnswerCall(k)
           \/ UNCHANGED vars
    PROVE  Control'
<1>1. ASSUME NEW n \in Scopes, Setup(n) PROVE Control'
  <2>1. PICK l \in NextLeaf : stack' = Append(stack, Frame("setup", l))
      BY <1>1 DEF Setup
  <2>2. PICK f : f = Frame("setup", l)
      OBVIOUS
  <2>3. stack' = Append(stack, f) /\ Light(f) /\ UNCHANGED <<phase, starts>>
      BY <1>1, <2>1, <2>2 DEF Setup, Frame, Light, LightKinds, WalkKinds, flightVars
  <2> QED BY <2>3, CalmStack
<1>2. ASSUME NEW n \in Scopes, Use(n) \/ OpenModule(n) \/ Unlink(n) \/ \E o : Child(n, o)
      PROVE  Control'
  <2>1. UNCHANGED <<phase, starts, stack>>
      BY <1>2 DEF Use, OpenModule, Unlink, Child, flightVars, turnVars
  <2> QED BY <2>1, CalmStack
<1>3. ASSUME SetupReturn \/ ListenerReturn \/ CleanupReturn \/ CleanupThrow \/ CloseReturn
      PROVE  Control'
  <2>1. UNCHANGED <<phase, starts>> /\ stack # <<>> /\ stack' = Under
      BY <1>3 DEF SetupReturn, ListenerReturn, CleanupReturn, CleanupThrow, CloseReturn,
             flightVars, On, Idle
  <2> QED BY <2>1, CalmStack
<1>4. ASSUME NEW l \in Items,
             SetupFulfil(l) \/ SetupReject(l) \/ CleanupFulfil(l) \/ CleanupReject(l)
               \/ JoinSettled(l) \/ VoidReleased(l)
      PROVE  Control'
  <2>1. UNCHANGED <<phase, starts, stack>>
      BY <1>4 DEF SetupFulfil, SetupReject, CleanupFulfil, CleanupReject, JoinSettled,
             VoidReleased, flightVars, turnVars
  <2> QED BY <2>1, CalmStack
<1>5. ASSUME NEW k \in Calls, EscalateSignal(k) PROVE Control'
  <2>1. PICK f : f = WalkFrame("escalate", call[k].on)
      OBVIOUS
  <2>2. /\ UNCHANGED <<phase, starts>> /\ Light(f)
        /\ UNCHANGED stack \/ stack' = Append(stack, f)
      BY <1>5, <2>1 DEF EscalateSignal, WalkFrame, Light, LightKinds, flightVars
  <2> QED BY <2>2, CalmStack
<1>6. ASSUME NEW k \in Calls, AbandonSignal(k) \/ AnswerCall(k) PROVE Control'
  <2>1. UNCHANGED <<phase, starts, stack>>
      BY <1>6 DEF AbandonSignal, AnswerCall, flightVars, turnVars
  <2> QED BY <2>1, CalmStack
<1>7. ASSUME UNCHANGED vars PROVE Control'
  <2>1. UNCHANGED <<phase, starts, stack>>
      BY <1>7 DEF vars, flightVars, turnVars
  <2> QED BY <2>1, CalmStack
<1> QED BY <1>1, <1>2, <1>3, <1>4, <1>5, <1>6, <1>7

\* The frames of the scopes that follow the run.
LEMMA CancelControl == ASSUME WInv, Memory, Grown, CancelRun PROVE Control'
<1> DEFINE followers == {c \in Scopes : module[c]}
           count == Cardinality(followers)
           frames == [i \in 1 .. count |-> WalkFrame("cancel", Nth(followers, i))]
<1>1. UNCHANGED <<phase, starts>> /\ stack' = stack \o Reverse(frames)
    BY DEF CancelRun, flightVars
<1>2. count \in Nat
  <2>1. followers \in SUBSET (1 .. NScopes) /\ NScopes \in Nat
      BY ScopeAssumption DEF Scopes
  <2> HIDE DEF followers
  <2> QED BY <2>1, Ranks
<1>3. \A i \in 1 .. count : Light(frames[i])
    BY DEF WalkFrame, Light, LightKinds
<1> HIDE DEF count
<1>4. DOMAIN frames = 1 .. count /\ frames = [i \in 1 .. count |-> frames[i]]
    OBVIOUS
<1> HIDE DEF frames
<1>5. PICK F : F = {frames[i] : i \in 1 .. count}
    OBVIOUS
<1>6. frames \in Seq(F) /\ \A f \in F : Light(f)
    BY <1>2, <1>3, <1>4, <1>5
<1>7. PICK r \in Seq(F) : stack' = stack \o r
    BY <1>1, <1>6, ReverseIs
<1>8. PICK m : m = Len(stack)
    OBVIOUS
<1>9. Stacks(m, F)
    BY <1>7, <1>8, StackPush DEF WInv
<1> QED BY <1>1, <1>6, <1>9, LightKept

\* The frame on top changes and frames are put on it.
LEMMA StackTurn ==
    ASSUME TypeOK, stack # <<>>, NEW F, NEW t \in F, NEW r \in Seq(F), stack' = Append(Under, t) \o r
    PROVE  Stacks(Len(stack) - 1, F)
<1>1. Under \in Seq(ToSet(stack))
    BY FrontIsBelow DEF TypeOK, Under
<1> DEFINE u == Under
           T == ToSet(stack) \cup F
<1>2. u \in Seq(ToSet(stack))
    BY <1>1
<1>3. u \in Seq(T) /\ r \in Seq(T) /\ t \in T
    BY <1>2, SeqMonotonic
<1> HIDE DEF u, T
<1>4. Append(u, t) = u \o <<t>> /\ <<t>> \in Seq(T) /\ <<t>> \in Seq(F)
    BY <1>3, AppendIsConcat
<1>5. (u \o <<t>>) \o r = u \o (<<t>> \o r)
    BY <1>3, <1>4, ConcatAssociative
<1>6. PICK q : q = <<t>> \o r
    OBVIOUS
<1>7. q \in Seq(F)
    BY <1>4, <1>6, ConcatProperties
<1>8. stack' = Under \o q
    BY <1>4, <1>5, <1>6 DEF u
<1> QED BY <1>7, <1>8, StackReplace

\* A walk goes on by a light frame and perhaps a listener.
LEMMA VisitControl ==
    ASSUME WInv, Memory, Grown, NotifyVisit \/ CancelVisit \/ EscalateVisit
    PROVE  Control'
<1> USE DEF WInv
<1>1. On(WalkKinds) /\ UNCHANGED <<phase, starts>>
    BY DEF NotifyVisit, CancelVisit, EscalateVisit, On, WalkKinds, flightVars
<1>2. PICK cur, signalled : signalled \in BOOLEAN /\ stack' = Visited(cur, signalled)
  <2>1. ASSUME NotifyVisit PROVE \E cur, signalled : signalled \in BOOLEAN /\ stack' = Visited(cur, signalled)
    <3>1. PICK b \in BOOLEAN : b <=> ~aborted[At]
        OBVIOUS
    <3>2. stack' = Visited(Passed, FALSE) \/ stack' = Visited(Entered, b)
        BY <2>1, <3>1 DEF NotifyVisit, Visited
    <3> QED BY <3>1, <3>2
  <2>2. ASSUME CancelVisit PROVE \E cur, signalled : signalled \in BOOLEAN /\ stack' = Visited(cur, signalled)
      BY <2>2 DEF CancelVisit
  <2>3. ASSUME EscalateVisit PROVE \E cur, signalled : signalled \in BOOLEAN /\ stack' = Visited(cur, signalled)
    <3>1. PICK b \in BOOLEAN : b <=> (phase[At] # "none" /\ ~esc[At])
        OBVIOUS
    <3>2. stack' = Visited(Entered, b)
        BY <2>3, <3>1 DEF EscalateVisit, Visited
    <3> QED BY <3>1, <3>2
  <2> QED BY <2>1, <2>2, <2>3
<1>3. stack # <<>> /\ Top.k \in WalkKinds /\ Fit(Top)
    BY <1>1, TopIs
<1>4. Top = [k |-> Top.k, n |-> Top.n, cur |-> Top.cur]
    BY <1>3 DEF Fit
<1>5. PICK t : t = [Top EXCEPT !.cur = cur]
    OBVIOUS
<1>6. t = [k |-> Top.k, n |-> Top.n, cur |-> cur]
    BY <1>4, <1>5
<1>7. Light(t)
    BY <1>3, <1>6 DEF Light, LightKinds, WalkKinds
<1>8. PICK l : l = Frame("listener", At)
    OBVIOUS
<1>9. Light(l)
    BY <1>8 DEF Light, LightKinds, Frame, WalkKinds
<1>10. PICK r \in Seq({t, l}) : stack' = Append(Under, t) \o r
  <2>1. stack' = Append(Under, t) \o (IF signalled THEN <<l>> ELSE <<>>)
      BY <1>2, <1>5, <1>8 DEF Visited
  <2>2. <<l>> \in Seq({t, l}) /\ <<>> \in Seq({t, l})
      OBVIOUS
  <2> QED BY <2>1, <2>2
<1>11. PICK m : m = Len(stack) - 1
    OBVIOUS
<1>12. t \in {t, l} /\ \A f \in {t, l} : Light(f)
    BY <1>7, <1>9
<1>13. Stacks(m, {t, l})
    BY <1>3, <1>10, <1>11, <1>12, StackTurn
<1> QED BY <1>1, <1>12, <1>13, LightKept

\* Draining starts only where no abort notification is on the stack.
LEMMA DrainedIs ==
    ASSUME TypeOK, stack # <<>>, NEW q, stack' = Drained(Under, q)
    PROVE  \/ stack' = Under
           \/ \E d : /\ d.k = "drain" /\ stack' = Under \o <<d>> /\ <<d>> \in Seq({d})
                     /\ \A i \in 1 .. Len(stack) - 1 : ~Notifies(stack[i])
<1>1. PICK d : d = Frame("drain", 0)
    OBVIOUS
<1>2. d.k = "drain" /\ <<d>> \in Seq({d})
    BY <1>1 DEF Frame
<1>3. stack' = Under \/ (stack' = Append(Under, d) /\ ~Notifying(Under))
    BY <1>1 DEF Drained
<1>4. /\ Under \in Seq(ToSet(stack)) /\ Len(stack) \in Nat \ {0} /\ Len(Under) = Len(stack) - 1
      /\ \A i \in 1 .. Len(stack) - 1 : Under[i] = stack[i]
    BY FrontIsBelow DEF TypeOK, Under
<1>5. Append(Under, d) = Under \o <<d>>
  <2> DEFINE u == Under
  <2>1. u \in Seq(ToSet(stack))
      BY <1>4
  <2> HIDE DEF u
  <2>2. Append(u, d) = u \o <<d>>
      BY <2>1, AppendIsJoin
  <2> QED BY <2>2 DEF u
<1>6. ASSUME ~Notifying(Under), NEW i \in 1 .. Len(stack) - 1 PROVE ~Notifies(stack[i])
  <2>1. i \in DOMAIN Under /\ Under[i] = stack[i]
      BY <1>4
  <2> QED BY <1>6, <2>1 DEF Notifying
<1> QED BY <1>2, <1>3, <1>5, <1>6

\* A drain goes only where no abort notification is below.
LEMMA DrainNew ==
    ASSUME NEW m, NEW d, Stacks(m, {d}), d.k = "drain", Len(stack') = m + 1,
           \A i \in 1 .. m : ~Notifies(stack[i])
    PROVE  New(m)
<1> SUFFICES ASSUME NEW j \in 1 .. Len(stack'), j > m
             PROVE  /\ \A f : f = stack'[j] => Fit(f)'
                    /\ \A i \in 1 .. Len(stack') : i < j =>
                         /\ stack'[i].k \in Steps /\ stack'[j].k \in Steps => stack'[i].n # stack'[j].n
                         /\ Notifies(stack[i])' => stack'[j].k \notin Releasing
                    /\ \A i \in 1 .. Len(stack') :
                         /\ stack'[i].k = "run" /\ stack'[j].k = "cleanup" => home'[stack'[j].n] # stack'[i].n
                         /\ stack'[j].k = "run" /\ stack'[i].k = "cleanup" => home'[stack'[i].n] # stack'[j].n
    BY DEF New
<1>1. m \in Nat /\ j = m + 1
  <2>1. m \in 0 .. Len(stack)
      BY DEF Stacks
  <2> QED BY <2>1
<1>2. stack'[j] = d
    BY DEF Stacks
<1>3. stack'[j].k \notin Steps /\ stack'[j].k # "run" /\ stack'[j].k # "cleanup"
    BY <1>2 DEF Steps
<1>4. Fit(d)'
    BY DEF Fit, Steps, WalkKinds
<1>5. ASSUME NEW i \in 1 .. Len(stack'), i < j PROVE ~ Notifies(stack[i])'
  <2>1. i \in 1 .. m
      BY <1>1, <1>5
  <2>2. stack'[i] = stack[i]
      BY <2>1 DEF Stacks
  <2> QED BY <2>1, <2>2 DEF Notifies
<1> QED BY <1>2, <1>3, <1>4, <1>5

\* The frame on top goes away and the starts may be drained.
LEMMA DrainedNew ==
    ASSUME TypeOK, stack # <<>>, NEW q, stack' = Drained(Under, q)
    PROVE  \E m, F : Stacks(m, F) /\ New(m) /\ m = Len(stack) - 1
<1>1. PICK m : m = Len(stack) - 1
    OBVIOUS
<1>2. CASE stack' = Under
  <2>1. Stacks(m, {})
      BY <1>1, <1>2, StackPop
  <2>2. New(m)
      BY <2>1, LightNew
  <2> QED BY <1>1, <2>1, <2>2
<1>3. ASSUME NEW d, d.k = "drain", stack' = Under \o <<d>>, <<d>> \in Seq({d}),
             \A i \in 1 .. Len(stack) - 1 : ~Notifies(stack[i])
      PROVE  \E F : Stacks(m, F) /\ New(m) /\ m = Len(stack) - 1
  <2>1. Stacks(m, {d}) /\ Len(stack') = m + 1
    <3>1. Stacks(Len(stack) - 1, {d}) /\ Len(stack') = Len(stack) - 1 + Len(<<d>>)
        BY <1>3, StackReplace
    <3> QED BY <1>1, <3>1
  <2>2. New(m)
      BY <1>1, <1>3, <2>1, DrainNew
  <2> QED BY <1>1, <2>1, <2>2
<1> QED BY <1>2, <1>3, DrainedIs

\* A walk ends, and the drain it held back begins.
LEMMA WalkDoneControl ==
    ASSUME WInv, Memory, Grown, WalkDone PROVE Control'
<1>1. /\ UNCHANGED <<phase, starts>> /\ stack # <<>>
      /\ stack' = Under \/ stack' = Drained(Under, starts)
    BY DEF WalkDone, flightVars, On, Idle
<1>2. CASE stack' = Under
    BY <1>1, <1>2, CalmStack
<1>3. CASE stack' = Drained(Under, starts)
  <2>1. PICK q : stack' = Drained(Under, q)
      BY <1>3
  <2>2. PICK m, F : Stacks(m, F) /\ New(m)
      BY <1>1, <2>1, DrainedNew DEF WInv
  <2> QED BY <1>1, <2>2, CalmKept
<1> QED BY <1>1, <1>2, <1>3

\* The flight of the frame on top changes its phase.
LEMMA TopFlow ==
    ASSUME WInv, Memory, Grown, NEW n \in Scopes, NEW p \in Phases, On(Steps), Top.n = n,
           phase' = [phase EXCEPT ![n] = p], p \in {"running", "batch"} \/ Top.k \in {"start", "run"}
    PROVE  /\ Flow(Len(stack) - 1) /\ Flights' /\ phase[n] \in {"open", "running"}
           /\ phase' \in [Scopes -> Phases]
<1> USE DEF WInv
<1>1. /\ Len(stack) \in Nat \ {0} /\ Top = stack[Len(stack)] /\ Top.k \in Steps /\ Fit(Top)
      /\ \A i \in 1 .. Len(stack) - 1 : i \in 1 .. Len(stack) /\ i # Len(stack)
    BY TopIs
<1>2. phase[n] \in {"open", "running"} /\ (phase[n] = "running" => Top.k # "start")
    BY <1>1 DEF Fit, Steps
<1>3. phase' \in [Scopes -> Phases] /\ \A x \in Scopes : phase'[x] = IF x = n THEN p ELSE phase[x]
    BY DEF TypeOK
<1>4. ASSUME NEW i \in 1 .. Len(stack) - 1, stack[i].k \in Steps PROVE stack[i].n # n
    BY <1>1, <1>4 DEF Single
<1>5. ASSUME NEW x \in Scopes, phase[x] \in {"running", "batch"}, phase'[x] \notin {"running", "batch"}
      PROVE  Ends(x)
  <2>1. x = n /\ phase[n] = "running" /\ Top.k = "run"
      BY <1>2, <1>3, <1>5
  <2> QED BY <2>1 DEF Ends, On
<1>6. Flights'
  <2>1. \A x \in Scopes : phase'[x] # "none" => phase[x] # "none"
      BY <1>2, <1>3
  <2> QED BY <2>1, ItemKinds DEF Flights, Grown, Created, TypeOK
<1> QED BY <1>2, <1>3, <1>4, <1>5, <1>6 DEF Flow

\* The queue stays when the flight that changes is not in it.
LEMMA QueuedStays ==
    ASSUME WInv, NEW n \in Scopes, NEW p, phase[n] # "queued",
           phase' = [phase EXCEPT ![n] = p], starts' = starts
    PROVE  Queued' /\ starts' \in Seq(Scopes)
<1>1. starts \in Seq(Scopes) /\ \A j \in 1 .. Len(starts) : starts[j] \in Scopes
    BY DEF WInv, TypeOK
<1> QED BY <1>1 DEF WInv, Queued, TypeOK

\* The flight on top ends its turn.
LEMMA TopEnds ==
    ASSUME WInv, Memory, Grown, NEW n \in Scopes, NEW p \in Phases, On({"run", "batch"}), Top.n = n,
           phase' = [phase EXCEPT ![n] = p], p = "batch" \/ Top.k = "run",
           starts' = starts, stack' = Under
    PROVE  Control'
<1> USE DEF WInv
<1>1. Top.k \in {"run", "batch"} /\ stack # <<>>
    BY DEF On, Idle
<1>2. On(Steps)
    BY DEF On, Steps
<1>3. PICK m : m = Len(stack) - 1
    OBVIOUS
<1>4. Flow(m) /\ Flights' /\ phase[n] \in {"open", "running"} /\ phase' \in [Scopes -> Phases]
    BY <1>1, <1>2, <1>3, TopFlow
<1>5. Queued' /\ starts' \in Seq(Scopes)
    BY <1>4, QueuedStays
<1>6. Stacks(m, {})
    BY <1>1, <1>3, StackPop
<1>7. New(m)
    BY <1>6, LightNew
<1>8. Framed' /\ Single' /\ Silent' /\ Invoked'
    BY <1>4, <1>6, <1>7, ControlKept
<1>9. stack' \in Seq(ToSet(stack'))
    BY <1>6 DEF Stacks
<1> QED BY <1>4, <1>5, <1>8, <1>9 DEF Control

\* A flight suspends itself or ends.
LEMMA EndsControl ==
    ASSUME WInv, Memory, Grown, AwaitSetups \/ AwaitBatch \/ Settle PROVE Control'
<1> USE DEF WInv
<1>1. On({"run", "batch"}) /\ starts' = starts /\ stack' = Under
    BY DEF AwaitSetups, AwaitBatch, Settle, On
<1>2. PICK n \in Scopes : n = Top.n
    BY <1>1, TopIs DEF Fit, Steps
<1>3. {"setups", "batch", "none"} \subseteq Phases
    BY DEF Phases
<1>4. CASE AwaitSetups
  <2>1. phase' = [phase EXCEPT ![n] = "setups"] /\ Top.k = "run"
      BY <1>2, <1>4 DEF AwaitSetups, On
  <2> QED BY <1>1, <1>2, <1>3, <2>1, TopEnds
<1>5. CASE AwaitBatch
  <2>1. phase' = [phase EXCEPT ![n] = "batch"]
      BY <1>2, <1>5 DEF AwaitBatch
  <2> QED BY <1>1, <1>2, <1>3, <2>1, TopEnds
<1>6. CASE Settle
  <2>1. phase' = [phase EXCEPT ![n] = "none"] /\ Top.k = "run"
      BY <1>2, <1>6 DEF Settle, On
  <2> QED BY <1>1, <1>2, <1>3, <2>1, TopEnds
<1> QED BY <1>4, <1>5, <1>6

\* A flight is queued.
LEMMA StartControl == ASSUME WInv, Memory, Grown, StartFlight PROVE Control'
<1> USE DEF WInv
<1>1. On(Steps) /\ Top.k = "start" /\ stack # <<>>
    BY DEF StartFlight, On, Steps, Idle
<1>2. PICK n \in Scopes : n = Top.n /\ phase[n] = "open"
    BY <1>1, TopIs DEF Fit, Steps
<1>3. /\ starts' = Append(starts, n) /\ phase' = [phase EXCEPT ![n] = "queued"]
      /\ stack' = Drained(Under, starts')
    BY <1>2 DEF StartFlight
<1>4. PICK q : q = starts'
    OBVIOUS
<1>5. PICK m, F : Stacks(m, F) /\ New(m) /\ m = Len(stack) - 1
    BY <1>1, <1>3, <1>4, DrainedNew
<1>6. "queued" \in Phases
    BY DEF Phases
<1>7. Flow(m) /\ Flights' /\ phase' \in [Scopes -> Phases]
    BY <1>1, <1>2, <1>3, <1>5, <1>6, TopFlow
<1>8. Framed' /\ Single' /\ Silent' /\ Invoked'
    BY <1>5, <1>7, ControlKept
<1>9. stack' \in Seq(ToSet(stack'))
    BY <1>5 DEF Stacks
<1>10. Queued' /\ starts' \in Seq(Scopes)
  <2>1. /\ starts \in Seq(Scopes) /\ Len(starts) \in Nat
        /\ \A j \in 1 .. Len(starts) : starts[j] \in Scopes /\ starts[j] # n
      BY <1>2 DEF TypeOK, Queued
  <2>2. /\ starts' \in Seq(Scopes) /\ Len(starts') = Len(starts) + 1 /\ starts'[Len(starts) + 1] = n
        /\ \A j \in 1 .. Len(starts) : starts'[j] = starts[j]
      BY <1>3, <2>1, AppendProperties
  <2>3. \A j \in 1 .. Len(starts') : j \in 1 .. Len(starts) \/ j = Len(starts) + 1
      BY <2>1, <2>2
  <2>4. phase'[n] = "queued" /\ \A x \in Scopes : x # n => phase'[x] = phase[x]
      BY <1>3 DEF TypeOK
  <2>5. \A j \in 1 .. Len(starts') : phase'[starts'[j]] = "queued"
      BY <2>1, <2>2, <2>3, <2>4 DEF Queued
  <2>6. \A i, j \in 1 .. Len(starts') : i # j => starts'[i] # starts'[j]
      BY <2>1, <2>2, <2>3 DEF Queued
  <2> QED BY <2>2, <2>5, <2>6 DEF Queued
<1> QED BY <1>7, <1>8, <1>9, <1>10 DEF Control

\* The frames that a flight, or a call that opens one, puts on the stack.
Ordered(m) ==
    \A j \in 1 .. Len(stack') : j > m =>
        \/ Light(stack'[j])
        \/ /\ stack'[j].k = "batch" /\ j = m + 1 /\ m = Len(stack) - 1
           /\ On({"run", "batch"}) /\ stack'[j].n = Top.n
        \/ stack'[j].k = "start" /\ j = m + 2 /\ phase[stack'[j].n] = "none"
        \/ /\ stack'[j].k = "cleanup" /\ j = m + 2 /\ m = Len(stack) - 1
           /\ On({"batch"}) /\ stack'[m + 1].k = "batch" /\ home'[stack'[j].n] = Top.n

\* Such frames are new to the stack.
LEMMA FlightNew ==
    ASSUME WInv, Memory, Grown, NEW m, NEW F, Stacks(m, F), \A f \in F : Fit(f)', Ordered(m)
    PROVE  New(m)
<1> USE DEF WInv
<1>1. /\ Len(stack) \in Nat /\ m \in 0 .. Len(stack) /\ m <= Len(stack') /\ Len(stack') \in Nat
      /\ \A i \in 1 .. m : i \in 1 .. Len(stack) /\ stack'[i] = stack[i]
      /\ \A j \in 1 .. Len(stack') : j > m => stack'[j] \in F
  <2>1. stack \in Seq(ToSet(stack)) /\ stack' \in Seq(ToSet(stack'))
      BY DEF Stacks, TypeOK
  <2>2. Len(stack) \in Nat /\ Len(stack') \in Nat
      BY <2>1
  <2>3. /\ m \in 0 .. Len(stack) /\ m <= Len(stack') /\ \A i \in 1 .. m : stack'[i] = stack[i]
        /\ \A j \in 1 .. Len(stack') : j > m => stack'[j] \in F
      BY DEF Stacks
  <2> QED BY <2>2, <2>3
<1>2. On({"run", "batch"}) \/ On({"batch"}) =>
        /\ Top = stack[Len(stack)] /\ Top.k \in {"run", "batch"} /\ Len(stack) \in 1 .. Len(stack)
        /\ phase[Top.n] = "running" /\ Top.n \in Scopes
  <2>1. On({"batch"}) => On({"run", "batch"})
      BY DEF On
  <2>2. ASSUME On({"run", "batch"})
        PROVE  /\ Top = stack[Len(stack)] /\ Top.k \in {"run", "batch"} /\ Len(stack) \in 1 .. Len(stack)
               /\ Fit(Top)
      BY <2>2, TopIs
  <2> QED BY <2>1, <2>2 DEF Fit, Steps
<1>3. \A i \in 1 .. m : stack[i].k \in Steps => phase[stack[i].n] \in {"open", "running"}
  <2> SUFFICES ASSUME NEW i \in 1 .. m, stack[i].k \in Steps PROVE phase[stack[i].n] \in {"open", "running"}
      OBVIOUS
  <2>1. PICK f : f = stack[i]
      OBVIOUS
  <2>2. f \in ToSet(stack)
      BY <1>1, <2>1, OfItsOwn DEF TypeOK
  <2> QED BY <2>1, <2>2 DEF Framed, Fit, Steps
<1>4. \A f : Light(f) => f.k \notin {"batch", "start", "cleanup", "run", "drain"}
    BY DEF Light, LightKinds
<1> SUFFICES ASSUME NEW j \in 1 .. Len(stack'), j > m
             PROVE  /\ \A f : f = stack'[j] => Fit(f)'
                    /\ \A i \in 1 .. Len(stack') : i < j =>
                         /\ stack'[i].k \in Steps /\ stack'[j].k \in Steps => stack'[i].n # stack'[j].n
                         /\ Notifies(stack[i])' => stack'[j].k \notin Releasing
                    /\ \A i \in 1 .. Len(stack') :
                         /\ stack'[i].k = "run" /\ stack'[j].k = "cleanup" => home'[stack'[j].n] # stack'[i].n
                         /\ stack'[j].k = "run" /\ stack'[i].k = "cleanup" => home'[stack'[i].n] # stack'[j].n
    BY DEF New
<1>5. \A f : f = stack'[j] => Fit(f)'
    BY <1>1
<1>6. stack'[j].k # "run" /\ stack'[j].k # "drain"
  <2>1. \/ Light(stack'[j]) \/ stack'[j].k \in {"batch", "start", "cleanup"}
      BY DEF Ordered
  <2> QED BY <1>4, <2>1
<1>7. ASSUME NEW i \in 1 .. Len(stack'), i < j, stack'[i].k \in Steps, stack'[j].k \in Steps
      PROVE  stack'[i].n # stack'[j].n
  <2>1. stack'[j].k \in {"batch", "start"}
      BY <1>6, <1>7 DEF Steps
  <2>2. CASE stack'[j].k = "batch"
    <3>1. j = m + 1 /\ m = Len(stack) - 1 /\ On({"run", "batch"}) /\ stack'[j].n = Top.n
        BY <1>4, <2>2 DEF Ordered
    <3>2. i \in 1 .. m /\ i # Len(stack)
        BY <1>1, <1>7, <3>1
    <3> QED BY <1>1, <1>2, <1>7, <3>1, <3>2 DEF Single, Steps
  <2>3. CASE stack'[j].k = "start"
    <3>1. j = m + 2 /\ phase[stack'[j].n] = "none"
        BY <1>4, <2>3 DEF Ordered
    <3>2. CASE i <= m
      <4>1. i \in 1 .. m
          BY <1>1, <3>2
      <4> QED BY <1>1, <1>3, <1>7, <3>1, <4>1
    <3>3. CASE ~(i <= m)
      <4>1. i = m + 1 /\ i > m
          BY <1>1, <1>7, <3>1, <3>3
      <4>2. stack'[i].k = "batch" /\ On({"run", "batch"}) /\ stack'[i].n = Top.n
        <5>1. i # m + 2
            BY <1>1, <4>1
        <5>2. ~Light(stack'[i])
            BY <1>4, <1>7 DEF Steps
        <5> QED BY <4>1, <5>1, <5>2 DEF Ordered
      <4> QED BY <1>2, <3>1, <4>2
    <3> QED BY <3>2, <3>3
  <2> QED BY <2>1, <2>2, <2>3
<1>8. ASSUME NEW i \in 1 .. Len(stack'), i < j, Notifies(stack[i])', stack'[j].k \in Releasing
      PROVE  FALSE
  <2>1. stack'[j].k \in {"batch", "cleanup"}
      BY <1>6, <1>8 DEF Releasing
  <2>2. m = Len(stack) - 1 /\ (On({"run", "batch"}) \/ On({"batch"}))
      BY <1>4, <2>1 DEF Ordered
  <2>3. CASE i <= m
    <3>1. i \in 1 .. m /\ i < Len(stack) /\ Notifies(stack[i])
        BY <1>1, <1>8, <2>2, <2>3 DEF Notifies
    <3> QED BY <1>1, <1>2, <2>2, <3>1 DEF Silent, Releasing
  <2>4. CASE ~(i <= m)
    <3>1. j = m + 2 /\ i = m + 1 /\ stack'[m + 1].k = "batch"
      <4>1. j # m + 1
          BY <1>1, <1>8, <2>4
      <4>2. j = m + 2 /\ stack'[m + 1].k = "batch"
          BY <1>4, <2>1, <4>1 DEF Ordered
      <4> QED BY <1>1, <1>8, <2>4, <4>2
    <3> QED BY <1>8, <3>1 DEF Notifies
  <2> QED BY <2>3, <2>4
<1>9. ASSUME NEW i \in 1 .. Len(stack'), stack'[i].k = "run", stack'[j].k = "cleanup"
      PROVE  home'[stack'[j].n] # stack'[i].n
  <2>1. m = Len(stack) - 1 /\ On({"batch"}) /\ home'[stack'[j].n] = Top.n
      BY <1>4, <1>9 DEF Ordered
  <2>2. ~(i > m)
    <3>1. ASSUME i > m PROVE FALSE
        BY <1>4, <1>9, <3>1 DEF Ordered
    <3> QED BY <3>1
  <2>3. i \in 1 .. m /\ i # Len(stack)
      BY <1>1, <2>1, <2>2
  <2>4. stack[i].n # Top.n
      BY <1>1, <1>2, <1>9, <2>1, <2>3 DEF Single, Steps
  <2> QED BY <1>1, <2>1, <2>3, <2>4
<1> QED BY <1>5, <1>6, <1>7, <1>8, <1>9

\* A drain starts the next flight, or ends.
LEMMA DrainControl == ASSUME WInv, Memory, Grown, DrainStep PROVE Control'
<1> USE DEF WInv
<1>1. stack # <<>> /\ Top.k = "drain" /\ On({"drain"})
    BY DEF DrainStep, On, Idle
<1>2. CASE starts = <<>>
  <2>1. stack' = Under /\ UNCHANGED <<starts, phase>>
      BY <1>2 DEF DrainStep
  <2> QED BY <1>1, <2>1, CalmStack
<1>3. CASE starts # <<>>
  <2>1. PICK h : h = Head(starts)
      OBVIOUS
  <2>2. /\ starts' = Tail(starts) /\ stack' = Append(stack, Frame("run", h))
        /\ phase' = [phase EXCEPT ![h] = "running"] /\ UNCHANGED <<home, inv>>
      BY <1>3, <2>1 DEF DrainStep, treeVars, entryVars
  <2>3. PICK f : f = Frame("run", h)
      OBVIOUS
  <2>4. PICK m : m = Len(stack)
      OBVIOUS
  <2>5. /\ starts \in Seq(Scopes) /\ Len(starts) \in Nat \ {0} /\ h = starts[1] /\ h \in Scopes
        /\ Tail(starts) \in Seq(Scopes) /\ Len(Tail(starts)) = Len(starts) - 1
        /\ \A j \in 1 .. Len(starts) - 1 : Tail(starts)[j] = starts[j + 1]
      BY <1>3, <2>1 DEF TypeOK
  <2>6. phase[h] = "queued"
      BY <2>5 DEF Queued
  <2>7. f.k = "run" /\ f.n = h
      BY <2>3 DEF Frame
  <2>8. Stacks(m, {f}) /\ Len(stack') = m + 1 /\ stack'[m + 1] = f /\ m \in Nat
    <3>1. stack' = stack \o <<f>> /\ <<f>> \in Seq({f}) /\ Len(<<f>>) = 1
        BY <2>2, <2>3, AppendIsJoin DEF TypeOK
    <3>2. Stacks(m, {f})
        BY <2>4, <3>1, StackPush
    <3>3. Len(stack') = m + 1 /\ m \in Nat
        BY <2>4, <3>1, JoinIs DEF TypeOK
    <3> QED BY <3>2, <3>3 DEF Stacks
  <2>9. \A i \in 1 .. m : i \in 1 .. Len(stack) /\ stack'[i] = stack[i]
        /\ (stack[i].k \in Steps => stack[i].n # h)
    <3> SUFFICES ASSUME NEW i \in 1 .. m
                 PROVE  i \in 1 .. Len(stack) /\ stack'[i] = stack[i] /\ (stack[i].k \in Steps => stack[i].n # h)
        OBVIOUS
    <3>1. i \in 1 .. Len(stack) /\ stack'[i] = stack[i]
        BY <2>4, <2>8 DEF Stacks
    <3>2. PICK g : g = stack[i]
        OBVIOUS
    <3>3. g \in ToSet(stack)
        BY <3>1, <3>2, OfItsOwn DEF TypeOK
    <3> QED BY <2>6, <3>1, <3>2, <3>3 DEF Framed, Fit, Steps
  <2>10. phase' \in [Scopes -> Phases] /\ \A x \in Scopes : phase'[x] = IF x = h THEN "running" ELSE phase[x]
      BY <2>2, <2>5 DEF TypeOK, Phases
  <2>11. Flow(m)
      BY <2>9, <2>10 DEF Flow
  <2>12. NoneInvoked(h)
      BY <2>6 DEF Invoked, NoneInvoked
  <2>13. Fit(f)'
      BY <2>2, <2>5, <2>7, <2>10, <2>12 DEF Fit, NoneInvoked, WalkKinds
  <2>14. New(m)
    <3>1. ASSUME NEW j \in 1 .. Len(stack'), j > m PROVE j = m + 1 /\ stack'[j] = f
        BY <2>8, <3>1
    <3>2. ASSUME NEW i \in 1 .. Len(stack'), i < m + 1 PROVE i \in 1 .. m
        BY <2>8, <3>2
    <3>3. ASSUME NEW i \in 1 .. m PROVE ~ Notifies(stack[i])'
      <4>1. Top = stack[Len(stack)] /\ i <= Len(stack) /\ Len(stack) \in 1 .. Len(stack)
          BY <1>1, <2>9, TopIs
      <4>2. CASE i = Len(stack)
          BY <1>1, <2>9, <4>1, <4>2 DEF Notifies
      <4>3. CASE i # Len(stack)
        <5>1. ~Notifies(stack[i])
            BY <1>1, <2>9, <4>1, <4>3 DEF Silent, Releasing
        <5> QED BY <2>9, <5>1 DEF Notifies
      <4> QED BY <4>2, <4>3
    <3>4. ASSUME NEW i \in 1 .. m, stack[i].k = "cleanup" PROVE home'[stack[i].n] # h
      <4>1. PICK g : g = stack[i]
          OBVIOUS
      <4>2. g \in ToSet(stack)
          BY <2>9, <4>1, OfItsOwn DEF TypeOK
      <4> QED BY <2>2, <2>6, <3>4, <4>1, <4>2 DEF Framed, Fit
    <3>5. f.k # "cleanup"
        BY <2>7
    <3>6. \A i \in 1 .. Len(stack') : i \in 1 .. m \/ i = m + 1
        BY <2>8
    <3> QED BY <2>7, <2>8, <2>9, <2>13, <3>1, <3>2, <3>3, <3>4, <3>5, <3>6 DEF New
  <2>15. Framed' /\ Single' /\ Silent' /\ Invoked'
      BY <2>8, <2>11, <2>14, ControlKept
  <2>16. Queued' /\ starts' \in Seq(Scopes)
    <3>1. \A j \in 1 .. Len(starts') : starts'[j] = starts[j + 1] /\ j + 1 \in 1 .. Len(starts) /\ j + 1 # 1
        BY <2>2, <2>5
    <3>2. \A j \in 1 .. Len(starts') : starts'[j] \in Scopes /\ starts'[j] # h /\ phase[starts'[j]] = "queued"
        BY <2>5, <3>1 DEF Queued
    <3>3. \A i, j \in 1 .. Len(starts') : i # j => i + 1 # j + 1
        BY <2>2, <2>5
    <3> QED BY <2>2, <2>5, <2>10, <3>1, <3>2, <3>3 DEF Queued
  <2>17. Flights'
    <3>1. \A x \in Scopes : phase'[x] # "none" => phase[x] # "none"
        BY <2>6, <2>10
    <3> QED BY <3>1, ItemKinds DEF Flights, Grown, Created, TypeOK
  <2>18. stack' \in Seq(ToSet(stack'))
      BY <2>8 DEF Stacks
  <2> QED BY <2>10, <2>15, <2>16, <2>17, <2>18 DEF Control
<1> QED BY <1>2, <1>3

\* A suspended flight goes on, on an empty stack.
LEMMA ResumeControl == ASSUME WInv, Memory, Grown, NEW n \in Scopes, Resume(n) PROVE Control'
<1> USE DEF WInv
<1>1. /\ stack = <<>> /\ phase[n] \in {"setups", "batch"} /\ UNCHANGED <<starts, home, inv>>
      /\ phase' = [phase EXCEPT ![n] = "running"] /\ stack' = <<Frame("run", n)>>
      /\ phase[n] = "batch" => NoneInvoked(n)
    BY DEF Resume, Idle, treeVars, entryVars, NoneInvoked
<1>2. PICK f : f = Frame("run", n)
    OBVIOUS
<1>3. f.k = "run" /\ f.n = n
    BY <1>2 DEF Frame
<1>4. /\ stack' = <<f>> /\ <<f>> \in Seq({f}) /\ Len(stack') = 1 /\ stack'[1] = f
      /\ stack' \in Seq(ToSet(stack')) /\ Len(stack) = 0
  <2>1. stack' = <<f>> /\ <<f>> \in Seq({f}) /\ Len(<<f>>) = 1
      BY <1>1, <1>2
  <2>2. stack' \in Seq({f})
      BY <2>1
  <2>3. stack' \in Seq(ToSet(stack'))
      BY <2>2, OfItsOwn
  <2>4. Len(<<f>>) = 1 /\ <<f>>[1] = f /\ Len(<<>>) = 0
      OBVIOUS
  <2> QED BY <1>1, <2>1, <2>3, <2>4
<1>5. Stacks(0, {f})
    BY <1>4 DEF Stacks
<1>6. phase' \in [Scopes -> Phases] /\ \A x \in Scopes : phase'[x] = IF x = n THEN "running" ELSE phase[x]
    BY <1>1 DEF TypeOK, Phases
<1>7. Flow(0)
    BY <1>6 DEF Flow
<1>8. NoneInvoked(n)
    BY <1>1 DEF Invoked, NoneInvoked
<1>9. Fit(f)'
    BY <1>1, <1>3, <1>6, <1>8 DEF Fit, NoneInvoked, WalkKinds
<1>10. New(0)
  <2>1. \A j \in 1 .. Len(stack') : j = 1
      BY <1>4
  <2> QED BY <1>3, <1>4, <1>9, <2>1 DEF New
<1>11. Framed' /\ Single' /\ Silent' /\ Invoked'
    BY <1>5, <1>7, <1>10, ControlKept
<1>12. Queued' /\ starts' \in Seq(Scopes)
    BY <1>1, QueuedStays
<1>13. Flights'
  <2>1. \A x \in Scopes : phase'[x] # "none" => phase[x] # "none"
      BY <1>1, <1>6
  <2> QED BY <2>1, ItemKinds DEF Flights, Grown, Created, TypeOK
<1> QED BY <1>4, <1>6, <1>11, <1>12, <1>13 DEF Control

\* A batch in the place of the frame on top, and a cleanup above it.
LEMMA BatchOn ==
    ASSUME WInv, Memory, Grown, On({"run", "batch"}), phase'[Top.n] = phase[Top.n],
           NEW b, b.k = "batch", b.n = Top.n, b = [k |-> b.k, n |-> b.n, left |-> b.left],
           b.left \in Seq(Items), \A j \in 1 .. Len(b.left) : home[b.left[j]] = b.n,
           Setups(b.n) = {}
    PROVE  Fit(b)'
<1> USE DEF WInv
<1>1. Fit(Top) /\ Top.k \in {"run", "batch"}
    BY TopIs
<1>2. b.n \in Scopes /\ phase[b.n] = "running"
    BY <1>1 DEF Fit, Steps
<1>3. requested[b.n]
    BY <1>2 DEF Flights
<1>4. Setups(b.n)' = {}
    BY <1>2, <1>3, SetupsStay
<1>5. \A j \in 1 .. Len(b.left) : b.left[j] \in Items /\ home'[b.left[j]] = b.n
    BY <1>2, ItemKinds DEF Grown
<1> QED BY <1>2, <1>4, <1>5 DEF Fit, Steps, WalkKinds

\* The batch on top without its next entry.
LEMMA BatchNext ==
    ASSUME WInv, Memory, Grown, On({"batch"}), Top.left # <<>>, phase'[Top.n] = phase[Top.n]
    PROVE  \E b : /\ b = [Top EXCEPT !.left = Tail(@)] /\ Fit(b)' /\ b.k = "batch" /\ b.n = Top.n
<1> USE DEF WInv
<1>1. On({"run", "batch"}) /\ Fit(Top)
  <2>1. On({"run", "batch"})
      BY DEF On
  <2> QED BY <2>1, TopIs
<1>2. Top.k = "batch"
    BY DEF On
<1>3. Top = [k |-> Top.k, n |-> Top.n, left |-> Top.left]
    BY <1>1, <1>2 DEF Fit
<1>4. PICK b : b = [Top EXCEPT !.left = Tail(@)]
    OBVIOUS
<1>5. b = [k |-> Top.k, n |-> Top.n, left |-> Tail(Top.left)]
    BY <1>3, <1>4
<1>6. /\ Tail(Top.left) \in Seq(Items) /\ Len(Tail(Top.left)) = Len(Top.left) - 1
      /\ \A j \in 1 .. Len(Top.left) - 1 : Tail(Top.left)[j] = Top.left[j + 1]
      /\ Len(Top.left) \in Nat /\ Setups(Top.n) = {}
    BY HeadIs
<1>7. \A j \in 1 .. Len(Top.left) : home[Top.left[j]] = Top.n
    BY <1>1, <1>2 DEF Fit
<1>8. \A j \in 1 .. Len(Tail(Top.left)) : home[Tail(Top.left)[j]] = Top.n
    BY <1>6, <1>7
<1>9. b.k = "batch" /\ b.n = Top.n /\ b.left = Tail(Top.left) /\ b = [k |-> b.k, n |-> b.n, left |-> b.left]
    BY <1>2, <1>5
<1>10. Fit(b)'
    BY <1>1, <1>6, <1>8, <1>9, BatchOn
<1> QED BY <1>4, <1>9, <1>10

\* A flight takes its batch and invokes the entries that are not children.
LEMMA BatchControl ==
    ASSUME WInv, Memory, Grown, TakeBatch \/ InvokeVoid \/ InvokeLeaf PROVE Control'
<1> USE DEF WInv
<1>1. On({"run", "batch"}) /\ UNCHANGED <<phase, starts>>
    BY DEF TakeBatch, InvokeVoid, InvokeLeaf, On, flightVars
<1>2. /\ stack # <<>> /\ Top.k \in {"run", "batch"} /\ Fit(Top) /\ Len(stack) \in Nat \ {0}
      /\ Top.n \in Scopes
    BY <1>1, TopIs DEF Fit, Steps
<1>3. PICK m : m = Len(stack) - 1
    OBVIOUS
<1>4. ASSUME NEW b, b.k = "batch", b.n = Top.n, Fit(b)', stack' = Append(Under, b) PROVE Control'
  <2>1. stack' = Under \o <<b>> /\ <<b>> \in Seq({b}) /\ Len(<<b>>) = 1
    <3> DEFINE u == Under
    <3>1. u \in Seq(ToSet(stack))
        BY <1>2, FrontIsBelow DEF TypeOK, Under
    <3>2. stack' = Append(u, b)
        BY <1>4
    <3> HIDE DEF u
    <3>3. stack' = u \o <<b>> /\ <<b>> \in Seq({b}) /\ Len(<<b>>) = 1
        BY <3>1, <3>2, AppendIsJoin
    <3> QED BY <3>3 DEF u
  <2>2. Stacks(m, {b}) /\ Len(stack') = m + 1
    <3>1. Stacks(Len(stack) - 1, {b}) /\ Len(stack') = Len(stack) - 1 + Len(<<b>>)
        BY <1>2, <2>1, StackReplace
    <3> QED BY <1>2, <1>3, <2>1, <3>1
  <2>3. \A j \in 1 .. Len(stack') : j > m => j = m + 1 /\ stack'[j] = b
      BY <1>2, <1>3, <2>2 DEF Stacks
  <2>4. Ordered(m)
      BY <1>1, <1>3, <1>4, <2>3 DEF Ordered
  <2>5. New(m)
      BY <1>4, <2>2, <2>4, FlightNew
  <2> QED BY <1>1, <2>2, <2>5, CalmKept
<1>5. CASE TakeBatch
  <2>1. PICK n \in Scopes : n = Top.n
      BY <1>2
  <2> DEFINE popped == SubSeq(live[n], Kept(n) + 1, Len(live[n]))
             batch == Reverse(Among(popped, {i \in Items : where[i] # "gone"}))
  <2>2. /\ Standing(n) # {} /\ Setups(n) = {}
        /\ stack' = Append(Under, [k |-> "batch", n |-> n, left |-> batch])
      BY <1>5, <2>1 DEF TakeBatch, MustWait
  <2>3. /\ Kept(n) + 1 \in 1 .. Len(live[n]) /\ live[n] \in Seq(Items) /\ Len(live[n]) \in Nat
        /\ Kept(n) + 1 \in Int /\ Kept(n) \in Nat
        /\ \A j \in 1 .. Len(live[n]) : live[n][j] \in Items /\ home[live[n][j]] = n
    <3>1. live[n] \in Seq(Items) /\ Len(live[n]) \in Nat
        BY DEF TypeOK
    <3>2. Kept(n) \in 0 .. Len(live[n]) - 1
        BY <2>2, KeptIs
    <3> QED BY <3>1, <3>2 DEF Owns
  <2>4. popped \in Seq(Items) /\ \A j \in 1 .. Len(popped) : home[popped[j]] = n
    <3> DEFINE a == Kept(n) + 1
               q == live[n]
    <3>1. a \in 1 .. Len(q) /\ q \in Seq(Items) /\ Len(q) \in Nat /\ \A j \in 1 .. Len(q) : home[q[j]] = n /\ q[j] \in Items
        BY <2>3
    <3> HIDE DEF a, q
    <3>2. /\ SubSeq(q, a, Len(q)) \in Seq(Items) /\ Len(SubSeq(q, a, Len(q))) = Len(q) - a + 1
          /\ \A j \in 1 .. Len(q) - a + 1 : SubSeq(q, a, Len(q))[j] = q[a + j - 1]
        BY <3>1, SubSeqProperties
    <3>3. \A j \in 1 .. Len(q) - a + 1 : a + j - 1 \in 1 .. Len(q)
        BY <3>1
    <3>4. \A j \in 1 .. Len(SubSeq(q, a, Len(q))) : home[SubSeq(q, a, Len(q))[j]] = n
        BY <3>1, <3>2, <3>3
    <3> QED BY <3>2, <3>4 DEF a, q
  <2>5. batch \in Seq(Items) /\ \A j \in 1 .. Len(batch) : home[batch[j]] = n
    <3> DEFINE S == {i \in Items : where[i] # "gone"}
               p == popped
               a == Among(p, S)
    <3> HIDE DEF S
    <3>1. p \in Seq(Items) /\ \A j \in 1 .. Len(p) : home[p[j]] = n
        BY <2>4
    <3> HIDE DEF p
    <3>2. a \in Seq(Items) /\ \A j \in 1 .. Len(a) : \E x \in 1 .. Len(p) : a[j] = p[x]
      <4>1. PICK g \in [1 .. Len(a) -> 1 .. Len(p)] : \A i \in 1 .. Len(a) : a[i] = p[g[i]]
          BY <3>1, AmongIs
      <4>2. a \in Seq(Items)
          BY <3>1, AmongIs
      <4> QED BY <4>1, <4>2
    <3>3. \A j \in 1 .. Len(a) : home[a[j]] = n
        BY <3>1, <3>2
    <3> HIDE DEF a
    <3>4. /\ Reverse(a) \in Seq(Items) /\ Len(Reverse(a)) = Len(a)
          /\ \A j \in 1 .. Len(a) : Reverse(a)[j] = a[Len(a) - j + 1]
        BY <3>2, ReverseIs
    <3>5. \A j \in 1 .. Len(a) : Len(a) - j + 1 \in 1 .. Len(a)
        BY <3>2
    <3>6. ASSUME NEW j \in 1 .. Len(Reverse(a)) PROVE home[Reverse(a)[j]] = n
      <4>1. j \in 1 .. Len(a)
          BY <3>4
      <4> QED BY <3>3, <3>4, <3>5, <4>1
    <3> QED BY <3>4, <3>6 DEF a, p, S
  <2> HIDE DEF batch, popped
  <2>6. PICK b : b = [k |-> "batch", n |-> n, left |-> batch]
      OBVIOUS
  <2>7. b.k = "batch" /\ b.n = n /\ b.left = batch /\ b = [k |-> b.k, n |-> b.n, left |-> b.left]
      BY <2>6
  <2>8. Fit(b)'
      BY <1>1, <2>1, <2>2, <2>5, <2>7, BatchOn
  <2> QED BY <1>4, <2>1, <2>2, <2>6, <2>7, <2>8
<1>6. CASE InvokeVoid
  <2>1. On({"batch"}) /\ Top.left # <<>> /\ stack' = Append(Under, [Top EXCEPT !.left = Tail(@)])
      BY <1>6 DEF InvokeVoid
  <2>2. PICK b : /\ b = [Top EXCEPT !.left = Tail(@)] /\ Fit(b)' /\ b.k = "batch" /\ b.n = Top.n
      BY <1>1, <2>1, BatchNext
  <2> QED BY <1>4, <2>1, <2>2
<1>7. CASE InvokeLeaf
  <2>1. /\ On({"batch"}) /\ Top.left # <<>> /\ Head(Top.left) \in Leaves /\ home' = home
        /\ stack' = Under \o <<[Top EXCEPT !.left = Tail(@)], Frame("cleanup", Head(Top.left))>>
      BY <1>7 DEF InvokeLeaf, treeVars
  <2>2. PICK b : /\ b = [Top EXCEPT !.left = Tail(@)] /\ Fit(b)' /\ b.k = "batch" /\ b.n = Top.n
      BY <1>1, <2>1, BatchNext
  <2>3. PICK i \in Leaves : i = Head(Top.left) /\ home[i] = Top.n
      BY <2>1, HeadIs
  <2>4. PICK c : c = Frame("cleanup", i)
      OBVIOUS
  <2>5. c.k = "cleanup" /\ c.n = i
      BY <2>4 DEF Frame
  <2>6. Fit(c)'
    <3>1. Setups(Top.n) = {} /\ phase[Top.n] = "running"
        BY <2>1, HeadIs
    <3>2. PICK n \in Scopes : n = Top.n
        BY <1>2
    <3>3. requested[n]
        BY <3>1, <3>2 DEF Flights
    <3>4. Setups(n)' = {}
        BY <3>1, <3>2, <3>3, SetupsStay
    <3>5. home'[c.n] = n
        BY <2>1, <2>3, <2>5, <3>2
    <3>6. Setups(home[c.n])' = {}
        BY <3>4, <3>5 DEF Setups
    <3>7. phase'[n] \in {"running", "batch"}
        BY <1>1, <3>1, <3>2
    <3>8. c.n \in Leaves
        BY <2>3, <2>5
    <3> QED BY <2>5, <3>5, <3>6, <3>7, <3>8 DEF Fit, Steps, WalkKinds
  <2>7. PICK r : r = <<b, c>>
      OBVIOUS
  <2>8. r \in Seq({b, c}) /\ Len(r) = 2 /\ stack' = Under \o r /\ r[1] = b /\ r[2] = c
      BY <2>1, <2>2, <2>3, <2>4, <2>7
  <2>9. Stacks(m, {b, c}) /\ Len(stack') = m + 2 /\ stack'[m + 1] = b /\ stack'[m + 2] = c
    <3>1. stack' = Under \o <<b, c>>
        BY <2>7, <2>8
    <3> QED BY <1>2, <1>3, <3>1, PairOn
  <2>10. m \in Nat /\ \A j \in 1 .. Len(stack') : j > m => j = m + 1 \/ j = m + 2
      BY <1>2, <1>3, <2>9
  <2>11. Ordered(m)
      BY <1>1, <1>3, <2>1, <2>2, <2>3, <2>5, <2>9, <2>10 DEF Ordered
  <2>12. New(m)
    <3>1. \A f \in {b, c} : Fit(f)'
        BY <2>2, <2>6
    <3> QED BY <2>9, <2>11, <3>1, FlightNew
  <2> QED BY <1>1, <2>9, <2>12, CalmKept
<1> QED BY <1>5, <1>6, <1>7

\* A frame and then others are put on a stack.
LEMMA PlacedOn ==
    ASSUME NEW T, NEW q \in Seq(T), NEW t, NEW F, NEW r \in Seq(F), NEW V, V = F \cup {t},
           NEW p, p = <<t>> \o r, NEW s, s = q \o p
    PROVE  /\ p \in Seq(V) /\ (q \o <<t>>) \o r = s
           /\ \A j \in 1 .. Len(s) : j > Len(q) =>
                /\ j - Len(q) - 1 \in 0 .. Len(r)
                /\ s[j] = IF j = Len(q) + 1 THEN t ELSE r[j - Len(q) - 1]
<1> DEFINE U == T \cup F \cup {t}
<1>1. q \in Seq(U) /\ r \in Seq(U) /\ r \in Seq(V)
    BY SeqMonotonic
<1>2. <<t>> \in Seq(U) /\ <<t>> \in Seq(V) /\ Len(<<t>>) = 1 /\ <<t>>[1] = t
    OBVIOUS
<1> HIDE DEF U
<1>3. s = (q \o <<t>>) \o r
    BY <1>1, <1>2, ConcatAssociative
<1>4. p \in Seq(V)
    BY <1>1, <1>2, ConcatProperties
<1>5. PICK a : a = q \o <<t>>
    OBVIOUS
<1>6. a \in Seq(U) /\ Len(a) = Len(q) + 1 /\ Len(q) \in Nat /\ a[Len(q) + 1] = t /\ Len(r) \in Nat
  <2>1. /\ q \o <<t>> \in Seq(U) /\ Len(q \o <<t>>) = Len(q) + Len(<<t>>)
        /\ \A i \in 1 .. Len(q) + Len(<<t>>) : (q \o <<t>>)[i] = IF i <= Len(q) THEN q[i] ELSE <<t>>[i - Len(q)]
      BY <1>1, <1>2, ConcatProperties
  <2>2. Len(q) \in Nat /\ Len(r) \in Nat
      BY <1>1
  <2>3. Len(q) + 1 \in 1 .. Len(q) + Len(<<t>>) /\ ~(Len(q) + 1 <= Len(q)) /\ (Len(q) + 1) - Len(q) = 1
      BY <1>2, <2>2
  <2>4. (q \o <<t>>)[Len(q) + 1] = <<t>>[1]
      BY <2>1, <2>3
  <2> QED BY <1>2, <1>5, <2>1, <2>2, <2>4
<1>7. s = a \o r
    BY <1>3, <1>5
<1>8. /\ Len(s) = Len(a) + Len(r)
      /\ \A i \in 1 .. Len(a) + Len(r) : s[i] = IF i <= Len(a) THEN a[i] ELSE r[i - Len(a)]
    BY <1>1, <1>6, <1>7, ConcatProperties
<1>9. ASSUME NEW j \in 1 .. Len(s), j > Len(q)
      PROVE  /\ j - Len(q) - 1 \in 0 .. Len(r)
             /\ s[j] = IF j = Len(q) + 1 THEN t ELSE r[j - Len(q) - 1]
  <2>1. CASE j = Len(q) + 1
      BY <1>6, <1>8, <2>1
  <2>2. CASE j # Len(q) + 1
    <3>1. ~(j <= Len(a)) /\ j - Len(a) \in 1 .. Len(r) /\ j = Len(q) + 1 + (j - Len(a)) /\ j \in 1 .. Len(a) + Len(r)
        BY <1>6, <1>8, <1>9, <2>2
    <3>2. s[j] = r[j - Len(a)] /\ j - Len(a) = j - Len(q) - 1
        BY <1>6, <1>8, <1>9, <3>1
    <3>3. j - Len(q) - 1 \in 0 .. Len(r)
        BY <1>6, <3>1, <3>2
    <3> QED BY <2>2, <3>2, <3>3
  <2> QED BY <2>1, <2>2
<1> QED BY <1>3, <1>4, <1>9

\* What close() and #join do after they took the flight.
LEMMA RestIs ==
    ASSUME NEW n \in Scopes, NEW e \in BOOLEAN
    PROVE  \E F : /\ Rest(n, e) \in Seq(F)
                  /\ \A f \in F : \/ Light(f)
                                  \/ f.k = "start" /\ f.n = n /\ phase[n] = "none" /\ HasFlight(n)
                  /\ \A j \in 1 .. Len(Rest(n, e)) : ~Light(Rest(n, e)[j]) => j = 1
<1> DEFINE opens == phase[n] = "none" /\ HasFlight(n)
<1>1. PICK s : s = Frame("start", n)
    OBVIOUS
<1>2. PICK w : w = WalkFrame("notify", n)
    OBVIOUS
<1>3. PICK x : x = WalkFrame("escalate", n)
    OBVIOUS
<1>4. Light(w) /\ Light(x) /\ s.k = "start" /\ s.n = n
    BY <1>1, <1>2, <1>3 DEF Light, LightKinds, Frame, WalkFrame
<1>5. Rest(n, e) = (IF opens THEN <<s>> ELSE <<>>) \o <<w>> \o (IF e THEN <<x>> ELSE <<>>)
    BY <1>1, <1>2, <1>3 DEF Rest
<1>6. PICK F : F = {w, x} \cup (IF opens THEN {s} ELSE {})
    OBVIOUS
<1>7. \A f \in F : Light(f) \/ (f.k = "start" /\ f.n = n /\ opens)
    BY <1>4, <1>6
<1>8. PICK a, b : /\ a = (IF opens THEN <<s>> ELSE <<>>) /\ b = (IF e THEN <<x>> ELSE <<>>)
    OBVIOUS
<1>9. a \in Seq(F) /\ b \in Seq(F) /\ <<w>> \in Seq(F) /\ Len(a) \in 0 .. 1 /\ Len(b) \in 0 .. 1
      /\ \A j \in 1 .. Len(b) : b[j] = x
  <2>1. w \in F /\ x \in F /\ (opens => s \in F)
      BY <1>6
  <2>2. <<w>> \in Seq(F) /\ <<x>> \in Seq(F) /\ <<>> \in Seq(F) /\ (opens => <<s>> \in Seq(F))
      BY <2>1
  <2>3. Len(<<>>) = 0 /\ Len(<<x>>) = 1 /\ Len(<<s>>) = 1 /\ <<x>>[1] = x
      OBVIOUS
  <2>4. a = <<>> \/ (opens /\ a = <<s>>)
      BY <1>8
  <2>5. b = <<>> \/ b = <<x>>
      BY <1>8
  <2>6. a \in Seq(F) /\ Len(a) \in 0 .. 1
    <3>1. CASE a = <<>>
        BY <2>2, <2>3, <3>1
    <3>2. CASE opens /\ a = <<s>>
        BY <2>2, <2>3, <3>2
    <3> QED BY <2>4, <3>1, <3>2
  <2>7. b \in Seq(F) /\ Len(b) \in 0 .. 1 /\ \A j \in 1 .. Len(b) : b[j] = x
    <3>1. CASE b = <<>>
        BY <2>2, <2>3, <3>1
    <3>2. CASE b = <<x>>
        BY <2>2, <2>3, <3>2
    <3> QED BY <2>5, <3>1, <3>2
  <2> QED BY <2>2, <2>6, <2>7
<1>10. PICK c : c = <<w>> \o b
    OBVIOUS
<1>11. c \in Seq(F) /\ \A j \in 1 .. Len(c) : Light(c[j])
  <2>1. /\ <<w>> \o b \in Seq(F) /\ Len(<<w>> \o b) = Len(<<w>>) + Len(b)
        /\ \A i \in 1 .. Len(<<w>>) + Len(b) : (<<w>> \o b)[i] = IF i <= Len(<<w>>) THEN <<w>>[i] ELSE b[i - Len(<<w>>)]
      BY <1>9, ConcatProperties
  <2>2. Len(<<w>>) = 1 /\ <<w>>[1] = w
      OBVIOUS
  <2>3. \A i \in 1 .. Len(c) : c[i] = w \/ c[i] = x
    <3>1. Len(c) = 1 + Len(b) /\ Len(b) \in Nat
        BY <1>9, <1>10, <2>1, <2>2
    <3>2. \A i \in 1 .. Len(c) : c[i] = IF i <= 1 THEN <<w>>[i] ELSE b[i - 1]
        BY <1>10, <2>1, <2>2, <3>1
    <3>3. \A i \in 1 .. Len(c) : i = 1 \/ (~(i <= 1) /\ i - 1 \in 1 .. Len(b))
        BY <3>1
    <3> QED BY <1>9, <2>2, <3>2, <3>3
  <2> QED BY <1>4, <1>10, <2>1, <2>3
<1>12. Rest(n, e) = a \o c
  <2>1. (a \o <<w>>) \o b = a \o (<<w>> \o b)
      BY <1>9, ConcatAssociative
  <2> QED BY <1>5, <1>8, <1>10, <2>1
<1>13. /\ a \o c \in Seq(F) /\ Len(a \o c) = Len(a) + Len(c)
       /\ \A i \in 1 .. Len(a) + Len(c) : (a \o c)[i] = IF i <= Len(a) THEN a[i] ELSE c[i - Len(a)]
    BY <1>9, <1>11, ConcatProperties
<1>14. ASSUME NEW j \in 1 .. Len(a \o c), j # 1 PROVE Light((a \o c)[j])
  <2>1. ~(j <= Len(a)) /\ j - Len(a) \in 1 .. Len(c) /\ j \in 1 .. Len(a) + Len(c)
    <3>1. Len(c) \in Nat /\ Len(a) \in 0 .. 1 /\ j \in 1 .. Len(a) + Len(c)
        BY <1>9, <1>11, <1>13
    <3>2. j # 1 /\ (Len(a) = 0 \/ Len(a) = 1) /\ j \in Nat \ {0}
        BY <1>14, <3>1
    <3>3. CASE Len(a) = 0
        BY <3>1, <3>2, <3>3
    <3>4. CASE Len(a) = 1
        BY <3>1, <3>2, <3>4
    <3> QED BY <3>2, <3>3, <3>4
  <2> QED BY <1>11, <1>13, <2>1
<1> QED BY <1>7, <1>12, <1>13, <1>14

\* A flight is taken: the only phase that may change is that of a flight opened.
LEMMA TakeFlow ==
    ASSUME WInv, Memory, Grown, NEW n \in Scopes, Created(n), NEW v \in [Items -> States],
           TakeFlight(n, v), UNCHANGED <<home, starts>>
    PROVE  /\ phase' \in [Scopes -> Phases] /\ Flights' /\ Queued' /\ starts' \in Seq(Scopes)
           /\ phase[n] = "none" /\ HasFlight(n) => phase'[n] = "open"
           /\ \A m \in 0 .. Len(stack) : Flow(m)
<1> USE DEF WInv
<1>1. requested'[n] /\ \A m \in Scopes : requested[m] => requested'[m]
    BY TakeFlightIs
<1>2. \/ phase' = phase /\ (phase[n] = "none" => ~HasFlight(n))
      \/ phase[n] = "none" /\ phase' = [phase EXCEPT ![n] = "open"]
  <2>1. CASE phase[n] # "none"
      BY <2>1, TakeFlightIs
  <2>2. CASE phase[n] = "none"
      BY <2>2, TakeFlightIs DEF HasFlight
  <2> QED BY <2>1, <2>2
<1>3. /\ phase' \in [Scopes -> Phases]
      /\ \A x \in Scopes : phase'[x] # phase[x] => x = n /\ phase[n] = "none" /\ phase'[n] = "open"
      /\ phase[n] = "none" /\ HasFlight(n) => phase'[n] = "open"
    BY <1>2 DEF TypeOK, Phases
<1>4. Flights'
    BY <1>1, <1>3 DEF Flights, Created
<1>5. Queued' /\ starts' \in Seq(Scopes)
  <2>1. starts \in Seq(Scopes) /\ \A j \in 1 .. Len(starts) : starts[j] \in Scopes /\ phase[starts[j]] = "queued"
      BY DEF TypeOK, Queued
  <2>2. \A j \in 1 .. Len(starts) : phase'[starts[j]] = "queued"
      BY <1>3, <2>1
  <2> QED BY <2>1, <2>2 DEF Queued
<1>6. ASSUME NEW m \in 0 .. Len(stack) PROVE Flow(m)
  <2>1. \A i \in 1 .. m : i \in 1 .. Len(stack)
    <3>1. Len(stack) \in Nat
        BY OfItsOwn DEF TypeOK
    <3> QED BY <3>1
  <2>2. ASSUME NEW i \in 1 .. m, stack[i].k \in Steps PROVE phase[stack[i].n] # "none"
    <3>1. PICK f : f = stack[i]
        OBVIOUS
    <3>2. f \in ToSet(stack)
        BY <2>1, <3>1, OfItsOwn DEF TypeOK
    <3> QED BY <2>2, <3>1, <3>2 DEF Framed, Fit, Steps
  <2> QED BY <1>3, <2>2 DEF Flow
<1> QED BY <1>3, <1>4, <1>5, <1>6

\* A call, or the batch that joins a child, and what it leaves to do.
LEMMA RestKept ==
    ASSUME WInv, Memory, Grown, NEW n \in Scopes, Created(n), NEW v \in [Items -> States],
           TakeFlight(n, v), UNCHANGED <<home, starts>>, NEW e \in BOOLEAN, NEW t, NEW q,
           stack' = (q \o <<t>>) \o Rest(n, e),
           \/ q = stack /\ Light(t)
           \/ q = Under /\ On({"batch"}) /\ t.k = "batch" /\ t.n = Top.n /\ Fit(t)'
    PROVE  Control'
<1> USE DEF WInv
<1>1. /\ phase' \in [Scopes -> Phases] /\ Flights' /\ Queued' /\ starts' \in Seq(Scopes)
      /\ phase[n] = "none" /\ HasFlight(n) => phase'[n] = "open"
      /\ \A m \in 0 .. Len(stack) : Flow(m)
    BY TakeFlow
<1>2. PICK r : r = Rest(n, e)
    OBVIOUS
<1>3. PICK F : /\ r \in Seq(F)
               /\ \A f \in F : Light(f) \/ (f.k = "start" /\ f.n = n /\ phase[n] = "none" /\ HasFlight(n))
               /\ \A j \in 1 .. Len(r) : ~Light(r[j]) => j = 1
    BY <1>2, RestIs
<1>4. /\ q \in Seq(ToSet(stack)) /\ Len(q) \in 0 .. Len(stack) /\ Len(stack) \in Nat
      /\ q = Under /\ On({"batch"}) => stack # <<>> /\ Len(q) = Len(stack) - 1
  <2>1. stack \in Seq(ToSet(stack)) /\ Len(stack) \in Nat
      BY OfItsOwn DEF TypeOK
  <2>2. CASE q = stack
      BY <2>1, <2>2 DEF On, Idle, Under, Front
  <2>3. CASE q = Under /\ On({"batch"})
    <3>1. stack # <<>>
        BY <2>3 DEF On, Idle
    <3>2. PICK G : G = ToSet(stack)
        OBVIOUS
    <3>3. stack \in Seq(G) /\ Len(stack) \in Nat \ {0}
        BY <2>1, <3>1, <3>2, EmptySeq
    <3>4. Under \in Seq(G) /\ Len(Under) = Len(stack) - 1
        BY <3>1, <3>3, FrontIsBelow DEF Under
    <3>5. Len(stack) - 1 \in 0 .. Len(stack)
        BY <3>3
    <3> QED BY <2>1, <2>3, <3>1, <3>2, <3>4, <3>5
  <2> QED BY <2>2, <2>3
<1> DEFINE m == Len(q)
<1>5. PICK V : V = F \cup {t}
    OBVIOUS
<1>6. PICK p : p = <<t>> \o r
    OBVIOUS
<1>7. /\ stack' = q \o p /\ p \in Seq(V)
      /\ \A j \in 1 .. Len(stack') : j > m =>
            /\ j - m - 1 \in 0 .. Len(r)
            /\ stack'[j] = IF j = m + 1 THEN t ELSE r[j - m - 1]
  <2>1. PICK s : s = q \o p
      OBVIOUS
  <2>2. PICK G : G = ToSet(stack)
      OBVIOUS
  <2>3. r \in Seq(F) /\ q \in Seq(G)
      BY <1>3, <1>4, <2>2
  <2> HIDE DEF WInv, m
  <2>4. p \in Seq(V) /\ (q \o <<t>>) \o r = s
      BY <1>5, <1>6, <2>1, <2>3, PlacedOn
  <2>5. \A j \in 1 .. Len(s) : j > Len(q) =>
             /\ j - Len(q) - 1 \in 0 .. Len(r)
             /\ s[j] = IF j = Len(q) + 1 THEN t ELSE r[j - Len(q) - 1]
      BY <1>5, <1>6, <2>1, <2>3, PlacedOn
  <2>6. stack' = s
      BY <1>2, <2>4
  <2> QED BY <2>1, <2>4, <2>5, <2>6 DEF m
<1>8. Stacks(m, V)
  <2>1. CASE q = stack
      BY <1>7, <2>1, StackPush
  <2>2. CASE q = Under /\ On({"batch"})
    <3>1. stack # <<>> /\ m = Len(stack) - 1 /\ stack' = Under \o p
        BY <1>4, <1>7, <2>2
    <3> HIDE DEF m
    <3> QED BY <1>7, <3>1, StackReplace
  <2> QED BY <2>1, <2>2
<1>9. m \in 0 .. Len(stack) /\ (q = Under /\ On({"batch"}) => m = Len(stack) - 1)
    BY <1>4
<1> HIDE DEF m
<1>10. \A f \in V : Fit(f)'
  <2>1. ASSUME NEW f, Light(f) PROVE Fit(f)'
      BY <2>1 DEF Light, LightKinds, Fit, Steps
  <2>2. ASSUME NEW f, f.k = "start", f.n = n, phase[n] = "none", HasFlight(n) PROVE Fit(f)'
      BY <1>1, <2>2 DEF Fit, Steps, WalkKinds
  <2> QED BY <1>3, <1>5, <2>1, <2>2
<1>11. Ordered(m)
  <2> SUFFICES ASSUME NEW j \in 1 .. Len(stack'), j > m
               PROVE  \/ Light(stack'[j])
                      \/ /\ stack'[j].k = "batch" /\ j = m + 1 /\ m = Len(stack) - 1
                         /\ On({"run", "batch"}) /\ stack'[j].n = Top.n
                      \/ stack'[j].k = "start" /\ j = m + 2 /\ phase[stack'[j].n] = "none"
      BY DEF Ordered
  <2>1. CASE j = m + 1 /\ stack'[j] = t
    <3>1. On({"batch"}) => On({"run", "batch"})
        BY DEF On
    <3> QED BY <1>9, <2>1, <3>1
  <2>2. ASSUME j # m + 1, ~Light(stack'[j])
        PROVE  stack'[j].k = "start" /\ j = m + 2 /\ phase[stack'[j].n] = "none"
    <3>1. PICK i : i = j - m - 1
        OBVIOUS
    <3>2. m \in Nat /\ Len(r) \in Nat /\ i \in 1 .. Len(r) /\ stack'[j] = r[i] /\ j = m + 1 + i
      <4>1. Len(stack') \in Nat /\ m \in Nat /\ Len(r) \in Nat
          BY <1>3, <1>4, <1>9, <1>8 DEF Stacks
      <4>2. j - m - 1 \in 0 .. Len(r) /\ stack'[j] = r[j - m - 1]
          BY <1>7, <2>2
      <4>3. j \in Nat
          BY <4>1
      <4> QED BY <2>2, <3>1, <4>1, <4>2, <4>3
    <3>3. i = 1 /\ r[i] \in F
        BY <1>3, <2>2, <3>2
    <3>4. j = m + 2
        BY <3>2, <3>3
    <3> QED BY <1>3, <2>2, <3>2, <3>3, <3>4
  <2> QED BY <1>7, <2>1, <2>2
<1>12. New(m)
    BY <1>8, <1>10, <1>11, FlightNew
<1>13. Framed' /\ Single' /\ Silent' /\ Invoked'
    BY <1>1, <1>8, <1>9, <1>12, ControlKept
<1>14. stack' \in Seq(ToSet(stack'))
    BY <1>8 DEF Stacks
<1> QED BY <1>1, <1>13, <1>14 DEF Control

\* A call of close() keeps the order of the stack.
LEMMA CloseControl ==
    ASSUME WInv, Memory, Grown, NEW k, NEW n \in Scopes, NEW e, NEW a, Close(k, n, e, a)
    PROVE  Control'
<1>1. Created(n) /\ TakeFlight(n, where) /\ UNCHANGED <<home, starts>> /\ where \in [Items -> States]
    BY DEF Close, WInv, TypeOK
<1>2. PICK b \in BOOLEAN : b <=> (HasFlight(n) /\ e # "absent" /\ ~esc'[n]) /\ e = "fired"
    OBVIOUS
<1>3. PICK t : t = [k |-> "answer", n |-> n, call |-> k, flight |-> HasFlight(n)]
    OBVIOUS
<1>4. Light(t)
    BY <1>3 DEF Light, LightKinds, WalkKinds
<1>5. stack' = (stack \o <<t>>) \o Rest(n, b)
    BY <1>2, <1>3 DEF Close, Rest
<1>6. PICK q : q = stack
    OBVIOUS
<1> QED BY <1>1, <1>4, <1>5, <1>6, RestKept

\* A batch that joins a child keeps the order of the stack.
LEMMA InvokeChildControl ==
    ASSUME WInv, Memory, Grown, InvokeChild PROVE Control'
<1> USE DEF WInv
<1>1. On({"batch"}) /\ Top.left # <<>> /\ HasChild(Head(Top.left))
    BY DEF InvokeChild
<1>2. PICK c \in Scopes : c = Head(Top.left) /\ home[c] = Top.n
    BY <1>1, HeadIs DEF HasChild
<1>3. Created(c)
    BY <1>1, <1>2, HeadIs, ItemKinds DEF Created
<1>4. PICK v : v = [where EXCEPT ![c] = "active"]
    OBVIOUS
<1>5. v \in [Items -> States]
    BY <1>4 DEF TypeOK, States
<1>6. TakeFlight(c, v) /\ UNCHANGED <<home, starts>>
    BY <1>2, <1>4 DEF InvokeChild
<1>7. phase'[Top.n] = phase[Top.n]
  <2>1. phase[Top.n] = "running" /\ Top.n \in Scopes
      BY <1>1, HeadIs
  <2>2. \A x \in Scopes : phase[x] # "none" => phase'[x] = phase[x]
      BY <1>5, <1>6, TakeFlightIs DEF TypeOK
  <2> QED BY <2>1, <2>2
<1>8. PICK t : t = [Top EXCEPT !.left = Tail(@)] /\ Fit(t)' /\ t.k = "batch" /\ t.n = Top.n
    BY <1>1, <1>7, BatchNext
<1>9. PICK b \in BOOLEAN : b <=> esc[Top.n]
    OBVIOUS
<1>10. PICK q : q = Under
    OBVIOUS
<1>11. stack' = (q \o <<t>>) \o Rest(c, b)
    BY <1>2, <1>8, <1>9, <1>10 DEF InvokeChild, Rest
<1> QED BY <1>1, <1>3, <1>5, <1>6, <1>8, <1>10, <1>11, RestKept

-----------------------------------------------------------------------------
(* The theorems.                                                           *)

\* Every step keeps the flights and the stack in order.
LEMMA NextControl ==
    ASSUME WInv, Memory, Grown, [Next]_vars PROVE Control'
<1>1. ASSUME NEW n \in Scopes, Setup(n) \/ Use(n) \/ OpenModule(n) \/ (\E o : Child(n, o)) \/ Unlink(n)
      PROVE  Control'
    BY <1>1, CallbackControl
<1>2. ASSUME NEW k \in Calls, EscalateSignal(k) \/ AbandonSignal(k) \/ AnswerCall(k) PROVE Control'
    BY <1>2, CallbackControl
<1>3. ASSUME NEW k \in Calls, NEW n \in Scopes, NEW e, NEW a, Close(k, n, e, a) PROVE Control'
    BY <1>3, CloseControl
<1>4. ASSUME NEW l \in Leaves, UserSettles(l) PROVE Control'
    BY <1>4, CallbackControl, ItemKinds DEF UserSettles
<1>5. ASSUME NEW c \in Scopes, JoinSettled(c) \/ VoidReleased(c) PROVE Control'
    BY <1>5, CallbackControl, ItemKinds
<1>6. ASSUME NEW n \in Scopes, Resume(n) PROVE Control'
    BY <1>6, ResumeControl
<1>7. ASSUME UserReturn \/ CloseReturn \/ UNCHANGED vars PROVE Control'
    BY <1>7, CallbackControl DEF UserReturn
<1>8. CASE CancelRun
    BY <1>8, CancelControl
<1>9. CASE NotifyVisit \/ CancelVisit \/ EscalateVisit \/ WalkDone
    BY <1>9, VisitControl, WalkDoneControl
<1>10. CASE StartFlight \/ DrainStep
    BY <1>10, StartControl, DrainControl
<1>11. CASE AwaitSetups \/ AwaitBatch \/ Settle
    BY <1>11, EndsControl
<1>12. CASE TakeBatch \/ InvokeLeaf \/ InvokeVoid
    BY <1>12, BatchControl
<1>13. CASE InvokeChild
    BY <1>13, InvokeChildControl
<1>14. CASE Next
    BY <1>1, <1>2, <1>3, <1>4, <1>5, <1>6, <1>7, <1>8, <1>9, <1>10, <1>11, <1>12, <1>13, <1>14
       DEF Next, UserStep, Machine, Continuation
<1> QED BY <1>7, <1>14

\* An item is registered only in a scope that was created.
LEMMA NextCreated ==
    ASSUME TypeOK, Owns, Grown, TreeStep, home' \in [Items -> {0} \cup Scopes]
    PROVE  \A i \in Items : home'[i] # 0 => Created(home[i])'
<1> SUFFICES ASSUME NEW i \in Items, home'[i] # 0 PROVE home'[i] = Root \/ home'[home'[i]] # 0
    BY DEF Created
<1>1. CASE home[i] # 0
  <2>1. PICK n \in Scopes : n = home[i]
      BY <1>1 DEF TypeOK
  <2>2. home'[i] = n /\ (n = Root \/ home[n] # 0)
      BY <1>1, <2>1 DEF Grown, Owns, Created
  <2> QED BY <2>1, <2>2, ItemKinds DEF Grown
<1>2. CASE home[i] = 0
  <2>1. PICK n \in Scopes, j \in Items : Registers(n, j)
      BY <1>2 DEF TreeStep, TakesSlot, Requests, Departs
  <2>2. i = j /\ home'[i] = n
      BY <1>2, <2>1 DEF Registers, TypeOK
  <2>3. n = Root \/ home[n] # 0
      BY <2>1 DEF Registers, Accepts, Created
  <2> QED BY <2>2, <2>3, ItemKinds DEF Grown
<1> QED BY <1>1, <1>2

\* Every step keeps the invariant.
LEMMA NextInvariant == WInv /\ [Next]_vars => WInv'
<1> SUFFICES ASSUME WInv, [Next]_vars PROVE WInv'
    OBVIOUS
<1>1. TypeOK /\ Owns
    BY DEF WInv
<1>2. Memory /\ Grown /\ TreeType'
    BY <1>1, NextMemory, NextGrows
<1>3. Control'
    BY <1>2, NextControl
<1>4. TypeOK'
    BY <1>2, <1>3 DEF TypeOK, Memory, Lists, TreeType, Control
<1>5. TreeType
    BY <1>1 DEF TypeOK, TreeType
<1>6. \A i \in Items : home'[i] # 0 => Created(home[i])'
    BY <1>1, <1>2, <1>5, NextIsTreeStep, NextCreated DEF TreeType
<1>7. Owns'
    BY <1>2, <1>6 DEF Owns, Memory
<1> QED BY <1>3, <1>4, <1>7 DEF WInv, Control

\* It holds at the start.
LEMMA InitInvariant == Init => WInv
<1> SUFFICES ASSUME Init PROVE WInv
    OBVIOUS
<1>1. TypeOK
  <2>1. order \in [Scopes -> {"reverse", "concurrent"}]
    <3>1. PICK o \in Orders : order = [n \in Scopes |-> IF n = Root THEN o ELSE "reverse"]
        BY DEF Init
    <3>2. o \in {"reverse", "concurrent"}
        BY <3>1 DEF Orders
    <3> QED BY <3>1, <3>2
  <2>2. stack = <<>> /\ <<>> \in Seq(ToSet(stack))
      BY DEF Init
  <2> QED BY <2>1, <2>2, ItemKinds DEF Init, TypeOK, Phases, States, Invocations
<1>2. stack = <<>> /\ Len(stack) = 0 /\ ToSet(stack) = {}
    BY DEF Init, ToSet
<1>3. Framed /\ Single /\ Silent
    BY <1>2 DEF Framed, Single, Silent
<1>4. Owns /\ Flights /\ Queued /\ Invoked
    BY ItemKinds DEF Init, Owns, Flights, Queued, Invoked
<1> QED BY <1>1, <1>3, <1>4 DEF WInv

\* The entries, the flights and the call stack fit together in every reachable
\* state, however callbacks, reentrant closes, signals and promises interleave.
THEOREM ScopeInvariant == Spec => []WInv
BY InitInvariant, NextInvariant, PTL DEF Spec

\* No cleanup starts above an abort notification, and nothing of a scope is
\* released while a setup it started is pending, for any tree of scopes and any
\* reentrancy of the callbacks.
THEOREM CleanupsAlwaysWait == Spec => []CleanupsWait
<1>1. WInv => CleanupsWait
  <2> SUFFICES ASSUME WInv PROVE CleanupAfterListeners /\ CleanupAfterSetups
      BY DEF CleanupsWait
  <2>1. ASSUME NEW i \in DOMAIN stack, NEW j \in DOMAIN stack,
               Notifies(stack[i]), stack[j].k = "cleanup"
        PROVE  j < i
    <3>1. i \in 1 .. Len(stack) /\ j \in 1 .. Len(stack) /\ Len(stack) \in Nat
        BY OfItsOwn, SMTT(30) DEF WInv, TypeOK
    <3>2. stack[i].k # "cleanup"
        BY <2>1 DEF Notifies
    <3>3. ~(i < j)
        BY <2>1, <3>1 DEF WInv, Silent, Releasing
    <3> QED BY <2>1, <3>1, <3>2, <3>3
  <2>2. CleanupAfterListeners
      BY <2>1 DEF CleanupAfterListeners
  <2>3. CleanupAfterSetups
      BY DEF WInv, Invoked, CleanupAfterSetups
  <2> QED BY <2>2, <2>3
<1> QED BY <1>1, ScopeInvariant, PTL

-----------------------------------------------------------------------------
(* What has been released.                                                 *)

\* The entries of the scopes that release in reverse order.
Backward(i) == home[i] \in Scopes /\ order[home[i]] = "reverse"

\* A child is gone when it left its parent, and only then.
Departed ==
    /\ home[Root] = 0
    /\ \A c \in Scopes : detached[c] => Created(c)
    /\ \A c \in Scopes : where[c] = "gone" \/ inv[c] = "void" => detached[c]
    /\ \A c \in Scopes : detached[c] /\ Backward(c) => where[c] = "gone"

\* A leaf that is being invoked is not gone.
Unfinished ==
    /\ \A l \in Leaves : inv[l] # "none" => where[l] # "gone"
    /\ \A f \in ToSet(stack) : f.k = "cleanup" => where[f.n] # "gone"

\* A reverse scope takes one entry at a time and invokes it at once, so that
\* nothing releases it in between.
Prompt ==
    \A f \in ToSet(stack) :
        f.k = "batch" /\ order[f.n] = "reverse" /\ f.left # <<>> =>
            On({"batch"}) /\ f = Top /\ Len(f.left) = 1 /\ where[f.left[1]] # "gone"

Lasting == WInv /\ Departed /\ Unfinished /\ Prompt

\* What every step does to the entries.
Remains == \A i \in Items : Backward(i) /\ where[i] = "gone" => where'[i] = "gone"
Entries ==
    /\ Remains /\ Departed'
    /\ \A n \in Scopes : Created(n) => order'[n] = order[n]
    /\ \A l \in Leaves : inv'[l] # "none" => where'[l] # "gone"
    /\ \A l \in Leaves : where'[l] = "gone" => where[l] = "gone" \/ Idle

\* Steps that register nothing keep the entries when what was released stays so
\* and a child is gone only with its parent's knowledge.
LEMMA EntriesKept ==
    ASSUME Lasting, UNCHANGED <<home, order>>, Remains,
           \A c \in Scopes : detached[c] => detached'[c],
           \A c \in Scopes : detached'[c] => detached[c] \/ (Created(c) /\ (c = Root \/ where'[c] = "gone")),
           \A c \in Scopes : where'[c] = "gone" => where[c] = "gone" \/ detached'[c],
           \A c \in Scopes : inv'[c] = "void" => inv[c] = "void" \/ detached'[c],
           \A l \in Leaves : inv'[l] # "none" => where'[l] # "gone",
           \A l \in Leaves : where'[l] = "gone" => where[l] = "gone" \/ Idle
    PROVE  Entries
<1>1. home'[Root] = 0 /\ \A c \in Scopes : detached'[c] => Created(c)'
    BY DEF Lasting, Departed, Created
<1>2. \A c \in Scopes : where'[c] = "gone" \/ inv'[c] = "void" => detached'[c]
    BY DEF Lasting, Departed
<1>3. ASSUME NEW c \in Scopes, detached'[c], Backward(c)' PROVE where'[c] = "gone"
  <2>1. Backward(c) /\ c # Root
      BY <1>1, <1>3, ItemKinds DEF Backward
  <2> QED BY <1>3, <2>1, ItemKinds DEF Lasting, Departed, Remains
<1> QED BY <1>1, <1>2, <1>3 DEF Entries, Departed

\* One entry changes.
LEMMA PointEntries ==
    ASSUME Lasting, UNCHANGED <<home, order, detached>>, NEW i \in Items, NEW s, NEW x,
           where' = [where EXCEPT ![i] = s], inv' = [inv EXCEPT ![i] = x],
           Backward(i) /\ where[i] = "gone" => s = "gone",
           i \in Scopes /\ (s = "gone" \/ x = "void") => detached[i],
           i \in Leaves => (x # "none" => s # "gone") /\ (s = "gone" => where[i] = "gone" \/ Idle)
    PROVE  Entries
<1>1. /\ \A j \in Items : where'[j] = IF j = i THEN s ELSE where[j]
      /\ \A j \in Items : inv'[j] = IF j = i THEN x ELSE inv[j]
    BY DEF Lasting, WInv, TypeOK
<1>2. Remains
    BY <1>1 DEF Remains
<1>3. \A c \in Scopes : where'[c] = "gone" => where[c] = "gone" \/ detached'[c]
    BY <1>1, ItemKinds
<1>4. \A c \in Scopes : inv'[c] = "void" => inv[c] = "void" \/ detached'[c]
    BY <1>1, ItemKinds
<1>5. ASSUME NEW l \in Leaves
      PROVE  (inv'[l] # "none" => where'[l] # "gone") /\ (where'[l] = "gone" => where[l] = "gone" \/ Idle)
    BY <1>1, ItemKinds DEF Lasting, Unfinished
<1> QED BY <1>2, <1>3, <1>4, <1>5, EntriesKept

\* No entry changes.
LEMMA IdleEntries ==
    ASSUME Lasting, UNCHANGED <<home, order, detached, where, inv>> PROVE Entries
<1>1. Remains
    BY DEF Remains
<1>2. \A l \in Leaves : inv'[l] # "none" => where'[l] # "gone"
    BY DEF Lasting, Unfinished
<1> QED BY <1>1, <1>2, EntriesKept

\* A new item is neither gone nor detached.
LEMMA RegisterEntries ==
    ASSUME Lasting, NEW n \in Scopes, Created(n), NEW i \in Items, i # Root, home[i] = 0,
           home' = [home EXCEPT ![i] = n],
           NEW s \in {"setup", "live"}, where' = [where EXCEPT ![i] = s],
           UNCHANGED <<inv, detached>>,
           order' = order \/ (i \in Scopes /\ \E o : order' = [order EXCEPT ![i] = o])
    PROVE  Entries
<1>1. /\ \A j \in Items : where'[j] = IF j = i THEN s ELSE where[j]
      /\ \A j \in Items : home'[j] = IF j = i THEN n ELSE home[j]
    BY DEF Lasting, WInv, TypeOK
<1>2. \A m \in Scopes : Created(m) => order'[m] = order[m] /\ m # i
    BY DEF Lasting, WInv, TypeOK, Created
<1>3. Remains
    BY <1>1, ItemKinds DEF Remains, Backward
<1>4. home'[Root] = 0
    BY <1>1, ItemKinds DEF Lasting, Departed
<1>5. \A c \in Scopes : detached[c] => c # i
    BY <1>2 DEF Lasting, Departed
<1>6. \A c \in Scopes : detached'[c] => Created(c)'
    BY <1>1, <1>5, ItemKinds DEF Lasting, Departed, Created
<1>7. \A c \in Scopes : where'[c] = "gone" \/ inv'[c] = "void" => detached'[c]
    BY <1>1, ItemKinds DEF Lasting, Departed
<1>8. ASSUME NEW c \in Scopes, detached'[c], Backward(c)' PROVE where'[c] = "gone"
  <2>1. c # i /\ home'[c] = home[c] /\ where'[c] = where[c]
      BY <1>1, <1>5, <1>8, ItemKinds
  <2>2. Created(home[c]) /\ home[c] \in Scopes
      BY <1>8, <2>1, ItemKinds DEF Backward, Lasting, WInv, Owns
  <2>3. Backward(c)
      BY <1>2, <1>8, <2>1, <2>2 DEF Backward
  <2> QED BY <1>8, <2>1, <2>3 DEF Lasting, Departed
<1>9. ASSUME NEW l \in Leaves
      PROVE  (inv'[l] # "none" => where'[l] # "gone") /\ (where'[l] = "gone" => where[l] = "gone" \/ Idle)
    BY <1>1, ItemKinds DEF Lasting, Unfinished
<1> QED BY <1>2, <1>3, <1>4, <1>6, <1>7, <1>8, <1>9 DEF Entries, Departed

\* A flight that is taken releases nothing but the scope that owes nothing.
LEMMA TakeFlightEntries ==
    ASSUME Lasting, UNCHANGED <<home, order>>, NEW n \in Scopes, Created(n),
           NEW v \in [Items -> States], TakeFlight(n, v),
           v = where \/ (v = [where EXCEPT ![n] = "active"] /\ ~detached[n]),
           \A l \in Leaves : inv'[l] = inv[l],
           \A c \in Scopes : inv'[c] = "void" => inv[c] = "void"
    PROVE  Entries
<1> USE DEF Lasting
<1>1. TypeOK /\ \A i \in Items : v[i] = where[i] \/ (i = n /\ v[i] = "active" /\ ~detached[n])
    BY DEF WInv, TypeOK
<1>2. \A i \in Items : where[i] = "gone" => v[i] = "gone"
    BY <1>1 DEF Departed
<1>3. /\ \A i \in Items : where'[i] = v[i] \/ (i \in Again(n) /\ where'[i] = "live")
                                \/ (i = n /\ where'[i] = "gone" /\ detached'[i])
      /\ \A c \in Scopes : detached[c] => detached'[c]
      /\ \A c \in Scopes : detached'[c] => detached[c] \/ (c = n /\ (c = Root \/ where'[c] = "gone"))
  <2>1. CASE phase[n] # "none"
    <3>1. where' = v /\ detached' = detached
        BY <1>1, <2>1, TakeFlightIs
    <3> QED BY <3>1
  <2>2. CASE phase[n] = "none" /\ ~NothingLeft(n)
    <3>1. where' = Reopened(n, v) /\ detached' = detached
        BY <1>1, <2>2, TakeFlightIs
    <3> QED BY <3>1 DEF Reopened
  <2>3. CASE phase[n] = "none" /\ NothingLeft(n)
    <3>1. Leaving(n, Reopened(n, v), Relisted(n))
        BY <1>1, <2>3, TakeFlightIs
    <3>2. detached' = [detached EXCEPT ![n] = TRUE] /\ detached \in [Scopes -> BOOLEAN]
        BY <1>1, <3>1 DEF Leaving, TypeOK
    <3>3. \/ (n = Root \/ detached[n]) /\ where' = Reopened(n, v)
          \/ n # Root /\ ~detached[n] /\ where' = [Reopened(n, v) EXCEPT ![n] = "gone"]
        BY <3>1 DEF Leaving
    <3> QED BY <3>2, <3>3, ItemKinds DEF Reopened
  <2> QED BY <2>1, <2>2, <2>3
<1>4. \A i \in Items : i \in Again(n) => where[i] = "failed"
    BY DEF Again
<1>5. Remains
    BY <1>2, <1>3, <1>4 DEF Remains
<1>6. \A i \in Items : v[i] = "gone" => where[i] = "gone"
    BY <1>1
<1>7. \A c \in Scopes : where'[c] = "gone" => where[c] = "gone" \/ detached'[c]
    BY <1>3, <1>6, ItemKinds
<1>8. \A l \in Leaves : where'[l] = "gone" => where[l] = "gone"
    BY <1>3, <1>6, ItemKinds
<1>9. \A l \in Leaves : inv'[l] # "none" => where'[l] # "gone"
    BY <1>8 DEF Unfinished
<1> QED BY <1>3, <1>5, <1>7, <1>8, <1>9, EntriesKept

\* The report of a flight releases its scope at most.
LEMMA SettleEntries == ASSUME Lasting, Settle PROVE Entries
<1> USE DEF Lasting
<1>1. TypeOK /\ Framed
    BY DEF WInv
<1>2. PICK n \in Scopes : n = Top.n
    BY <1>1, TopIs DEF Settle, Fit, Steps
<1>3. phase[n] = "running" /\ Created(n)
    BY <1>1, <1>2, TopIs DEF Settle, Fit, WInv, Flights, On
<1> DEFINE l == [live EXCEPT ![n] = <<>>]
           t == [tombstones EXCEPT ![n] = @ - Len(live[n])]
           complete == Debts(n) = {}
<1>4. /\ IF complete THEN Detach(n, where, l, t)
         ELSE live' = l /\ tombstones' = t /\ UNCHANGED <<where, detached>>
      /\ inv' = [inv EXCEPT ![n] = IF @ = "join" THEN Outcome(complete) ELSE @]
      /\ UNCHANGED <<home, order>>
    BY <1>2 DEF Settle
<1>5. \A i \in Items : inv'[i] # inv[i] => i = n /\ inv'[i] # "void"
  <2>1. Outcome(complete) # "void"
      BY DEF Outcome
  <2> HIDE DEF complete
  <2> QED BY <1>1, <1>4, <2>1 DEF TypeOK
<1>6. l \in [Scopes -> Seq(Items)] /\ where \in [Items -> States] /\ detached \in [Scopes -> BOOLEAN]
    BY <1>1 DEF TypeOK
<1> HIDE DEF l, t, complete
<1>7. /\ \A i \in Items : where'[i] = where[i] \/ (i = n /\ where'[i] = "gone" /\ detached'[i])
      /\ \A c \in Scopes : detached[c] => detached'[c]
      /\ \A c \in Scopes : detached'[c] => detached[c] \/ (c = n /\ (c = Root \/ where'[c] = "gone"))
  <2>1. CASE ~complete
      BY <1>4, <2>1
  <2>2. CASE complete
    <3>1. Leaving(n, where, l)
        BY <1>4, <1>6, <2>2, DetachIs
    <3> QED BY <1>6, <3>1, ItemKinds DEF Leaving
  <2> QED BY <2>1, <2>2
<1>8. Remains
    BY <1>7 DEF Remains
<1>9. \A c \in Scopes : where'[c] = "gone" => where[c] = "gone" \/ detached'[c]
    BY <1>7, ItemKinds
<1>10. \A x \in Leaves : where'[x] = where[x] /\ inv'[x] = inv[x]
    BY <1>5, <1>7, ItemKinds
<1>11. \A c \in Scopes : inv'[c] = "void" => inv[c] = "void"
    BY <1>5, ItemKinds
<1>12. \A x \in Leaves : inv'[x] # "none" => where'[x] # "gone"
    BY <1>10 DEF Unfinished
<1> QED BY <1>3, <1>4, <1>7, <1>8, <1>9, <1>10, <1>11, <1>12, EntriesKept

-----------------------------------------------------------------------------
(* What is put on the stack.                                               *)

\* The frame on top is on the stack.
LEMMA TopIn == ASSUME TypeOK, stack # <<>> PROVE Top \in ToSet(stack)
<1>1. Len(stack) \in Nat \ {0} /\ Top = stack[Len(stack)]
    BY FrontIsBelow DEF TypeOK, Top
<1>2. Len(stack) \in 1 .. Len(stack)
    BY <1>1
<1> QED BY <1>1, <1>2, OfItsOwn DEF TypeOK

\* A frame of the next stack is new or was there before.
LEMMA StackIn ==
    ASSUME NEW m, NEW F, Stacks(m, F), NEW f \in ToSet(stack')
    PROVE  f \in F \/ \E i \in 1 .. m : f = stack[i]
<1>1. /\ stack' \in Seq(ToSet(stack')) /\ \A i \in 1 .. m : stack'[i] = stack[i]
      /\ \A i \in 1 .. Len(stack') : i > m => stack'[i] \in F
      /\ m \in Nat
    BY DEF Stacks
<1>2. PICK j \in 1 .. Len(stack') : stack'[j] = f
    BY <1>1, OfItsOwn
<1>3. j > m \/ j \in 1 .. m
    BY <1>1
<1> QED BY <1>1, <1>2, <1>3

\* Frames that are not of a flight.
Bystanders(F) == \A f \in F : f.k \notin {"batch", "cleanup"}
Piles(F) == Bystanders(F) /\ \E m : Stacks(m, F)

\* So the frames of a flight were there before.
LEMMA PileIn ==
    ASSUME TypeOK, NEW F, Piles(F), NEW f \in ToSet(stack'), f.k \in {"batch", "cleanup"}
    PROVE  f \in ToSet(stack)
<1>1. PICK m : Stacks(m, F)
    BY DEF Piles
<1>2. f \notin F
    BY DEF Piles, Bystanders
<1>3. PICK i \in 1 .. m : f = stack[i]
    BY <1>1, <1>2, StackIn
<1>4. Len(stack) \in Nat /\ m \in 0 .. Len(stack)
    BY <1>1 DEF Stacks, TypeOK
<1>5. i \in 1 .. Len(stack)
    BY <1>3, <1>4
<1> QED BY <1>3, <1>5, OfItsOwn DEF TypeOK

\* When nothing is about to be invoked, other frames may come and go.
LEMMA PilesKept ==
    ASSUME Lasting, Entries, NEW F, Piles(F), ~On({"batch"}) \/ Top.left = <<>>
    PROVE  Prompt' /\ Unfinished'
<1> USE DEF Lasting
<1>1. TypeOK /\ Framed /\ Flights
    BY DEF WInv
<1>2. ASSUME NEW f \in ToSet(stack'), f.k = "batch", order'[f.n] = "reverse", f.left # <<>>
      PROVE  FALSE
  <2>1. f \in ToSet(stack) /\ Fit(f)
      BY <1>1, <1>2, PileIn DEF Framed
  <2>2. f.n \in Scopes /\ phase[f.n] = "running"
      BY <1>2, <2>1 DEF Fit, Steps
  <2>3. order[f.n] = "reverse"
      BY <1>1, <1>2, <2>2 DEF Flights, Entries
  <2> QED BY <1>2, <2>1, <2>3 DEF Prompt
<1>3. ASSUME NEW f \in ToSet(stack'), f.k = "cleanup" PROVE where'[f.n] # "gone"
  <2>1. f \in ToSet(stack) /\ Fit(f)
      BY <1>1, <1>3, PileIn DEF Framed
  <2>2. f.n \in Leaves /\ where[f.n] # "gone"
      BY <1>3, <2>1 DEF Fit, Unfinished
  <2>3. ~Idle
      BY <1>1, <2>1, OfItsOwn DEF Idle, TypeOK
  <2> QED BY <2>2, <2>3 DEF Entries
<1>4. Prompt'
    BY <1>2 DEF Prompt
<1> QED BY <1>3, <1>4 DEF Unfinished, Entries

\* The ways most steps change the stack.
LEMMA CommonPiles ==
    ASSUME TypeOK,
           \/ UNCHANGED stack
           \/ stack # <<>> /\ stack' = Under
           \/ \E f : f.k \notin {"batch", "cleanup"} /\ stack' = Append(stack, f)
           \/ stack # <<>> /\ \E q : stack' = Drained(Under, q)
    PROVE  \E F : Piles(F)
<1>1. CASE UNCHANGED stack
  <2>1. Stacks(Len(stack), {})
      BY <1>1, StackSame
  <2>2. Piles({})
      BY <2>1 DEF Piles, Bystanders
  <2> QED BY <2>2
<1>2. CASE stack # <<>> /\ stack' = Under
  <2>1. Stacks(Len(stack) - 1, {})
      BY <1>2, StackPop
  <2>2. Piles({})
      BY <2>1 DEF Piles, Bystanders
  <2> QED BY <2>2
<1>3. ASSUME NEW f, f.k \notin {"batch", "cleanup"}, stack' = Append(stack, f) PROVE \E F : Piles(F)
  <2>1. stack' = stack \o <<f>> /\ <<f>> \in Seq({f})
      BY <1>3, AppendIsJoin DEF TypeOK
  <2>2. Stacks(Len(stack), {f})
      BY <2>1, StackPush
  <2>3. Piles({f})
      BY <1>3, <2>2 DEF Piles, Bystanders
  <2> QED BY <2>3
<1>4. ASSUME stack # <<>>, NEW q, stack' = Drained(Under, q) PROVE \E F : Piles(F)
  <2>1. CASE stack' = Under
      BY <1>2, <1>4, <2>1
  <2>2. ASSUME NEW d, d.k = "drain", stack' = Under \o <<d>>, <<d>> \in Seq({d}) PROVE Piles({d})
    <3>1. Stacks(Len(stack) - 1, {d})
        BY <1>4, <2>2, StackReplace
    <3> QED BY <2>2, <3>1 DEF Piles, Bystanders
  <2> QED BY <1>4, <2>1, <2>2, DrainedIs
<1> QED BY <1>1, <1>2, <1>3, <1>4

-----------------------------------------------------------------------------
(* What most steps do to the entries.                                      *)

\* Steps that leave the flights in progress alone.
Aside == (\E F : Piles(F)) /\ (~On({"batch"}) \/ Top.left = <<>>)

\* They keep what the flights owe.
LEMMA AsideKept ==
    ASSUME Lasting, Entries, Aside PROVE Entries /\ Prompt' /\ Unfinished'
BY PilesKept DEF Aside

\* User code is not under a batch.
LEMMA TurnIsAside ==
    ASSUME UserTurn \/ On({"setup", "listener", "notify", "cancel", "escalate", "start", "answer",
                           "drain", "run", "cleanup"})
    PROVE  ~On({"batch"})
BY DEF UserTurn, On, UserKinds, Idle

\* Registration.
LEMMA RegisterLasts ==
    ASSUME Lasting, NEW n \in Scopes, Setup(n) \/ Use(n) \/ OpenModule(n) \/ \E o : Child(n, o)
    PROVE  Entries /\ Aside
<1> USE DEF Lasting
<1>1. TypeOK /\ ~On({"batch"}) /\ Created(n)
    BY TurnIsAside DEF WInv, Setup, Use, OpenModule, Child, Accepts
<1>2. \A l \in NextLeaf : l \in Items /\ l \notin Scopes /\ l # Root /\ home[l] = 0
    BY ItemKinds DEF NextLeaf
<1>3. \A c \in NextScope : c \in Items /\ c \in Scopes /\ c # Root /\ home[c] = 0
    BY ItemKinds DEF NextScope, Created
<1>4. ASSUME Setup(n) PROVE Entries /\ Aside
  <2>1. PICK l \in NextLeaf :
            /\ home' = [home EXCEPT ![l] = n] /\ where' = [where EXCEPT ![l] = "setup"]
            /\ stack' = Append(stack, Frame("setup", l))
      BY <1>4 DEF Setup
  <2>2. UNCHANGED <<inv, detached, order>>
      BY <1>4 DEF Setup
  <2>3. Entries
      BY <1>1, <1>2, <2>1, <2>2, RegisterEntries
  <2>4. \E F : Piles(F)
    <3>1. PICK f : f = Frame("setup", l)
        OBVIOUS
    <3>2. f.k \notin {"batch", "cleanup"} /\ stack' = Append(stack, f)
        BY <2>1, <3>1 DEF Frame
    <3> QED BY <1>1, <3>2, CommonPiles
  <2> QED BY <1>1, <2>3, <2>4 DEF Aside
<1>5. ASSUME Use(n) PROVE Entries /\ Aside
  <2>1. PICK l \in NextLeaf : home' = [home EXCEPT ![l] = n] /\ where' = [where EXCEPT ![l] = "live"]
      BY <1>5 DEF Use
  <2>2. UNCHANGED <<inv, detached, order, stack>>
      BY <1>5 DEF Use, turnVars
  <2>3. Entries
      BY <1>1, <1>2, <2>1, <2>2, RegisterEntries
  <2> QED BY <1>1, <2>2, <2>3, CommonPiles DEF Aside
<1>6. ASSUME NEW o, Child(n, o) \/ OpenModule(n) PROVE Entries /\ Aside
  <2>1. PICK c \in NextScope :
            /\ home' = [home EXCEPT ![c] = n] /\ where' = [where EXCEPT ![c] = "live"]
            /\ \E p : order' = [order EXCEPT ![c] = p]
    <3>1. CASE Child(n, o)
      <4>1. PICK c \in NextScope : Construct(c, n, o, FALSE)
          BY <3>1 DEF Child
      <4> QED BY <4>1 DEF Construct
    <3>2. CASE OpenModule(n)
      <4>1. PICK c \in NextScope : Construct(c, n, "reverse", runAborted)
          BY <3>2 DEF OpenModule
      <4> QED BY <4>1 DEF Construct
    <3> QED BY <1>6, <3>1, <3>2
  <2>2. UNCHANGED <<inv, detached, stack>>
      BY <1>6 DEF Child, OpenModule, turnVars
  <2>3. Entries
    <3>1. c \in Items /\ c \in Scopes /\ c # Root /\ home[c] = 0 /\ "live" \in {"setup", "live"}
        BY <1>3
    <3>2. \E q : order' = [order EXCEPT ![c] = q]
        BY <2>1
    <3> QED BY <1>1, <2>1, <2>2, <3>1, <3>2, RegisterEntries
  <2> QED BY <1>1, <2>2, <2>3, CommonPiles DEF Aside
<1> QED BY <1>4, <1>5, <1>6

\* A setup or an invocation ends.
LEMMA EndLasts ==
    ASSUME Lasting, NEW i \in Items,
           \/ i \in Leaves /\ UserSettles(i)
           \/ i \in Scopes /\ (JoinSettled(i) \/ VoidReleased(i))
    PROVE  Entries /\ Aside
<1> USE DEF Lasting
<1>1. TypeOK /\ Idle /\ UNCHANGED <<home, order, detached, stack>>
    BY DEF WInv, UserSettles, SetupFulfil, SetupReject, CleanupFulfil, CleanupReject, JoinSettled,
           VoidReleased, treeVars, turnVars
<1>2. Aside
    BY <1>1, CommonPiles, TurnIsAside DEF Aside, UserTurn
<1>3. where = [where EXCEPT ![i] = where[i]] /\ inv = [inv EXCEPT ![i] = inv[i]]
    BY <1>1 DEF TypeOK
<1>4. i \in Leaves => i \notin Scopes
    BY ItemKinds
<1>5. ASSUME i \in Leaves, SetupFulfil(i) \/ SetupReject(i) PROVE Entries
  <2>1. PICK s \in {"live", "void"} : where' = [where EXCEPT ![i] = s]
      BY <1>5 DEF SetupFulfil, SetupReject
  <2>2. where[i] = "setup" /\ inv' = [inv EXCEPT ![i] = inv[i]]
      BY <1>3, <1>5 DEF SetupFulfil, SetupReject
  <2> QED BY <1>1, <1>4, <1>5, <2>1, <2>2, PointEntries
<1>6. ASSUME i \in Leaves, CleanupFulfil(i) PROVE Entries
  <2>1. where' = [where EXCEPT ![i] = "gone"] /\ inv' = [inv EXCEPT ![i] = "none"]
      BY <1>6 DEF CleanupFulfil
  <2> QED BY <1>1, <1>4, <1>6, <2>1, PointEntries
<1>7. ASSUME i \in Leaves, CleanupReject(i) PROVE Entries
  <2>1. where' = [where EXCEPT ![i] = "failed"] /\ inv' = [inv EXCEPT ![i] = "none"] /\ inv[i] = "running"
      BY <1>7 DEF CleanupReject, Fail
  <2>2. where[i] # "gone"
      BY <1>7, <2>1 DEF Unfinished
  <2> QED BY <1>1, <1>4, <1>7, <2>1, <2>2, PointEntries
<1>8. ASSUME i \in Scopes, JoinSettled(i) PROVE Entries
  <2>1. i \notin Leaves
      BY <1>8, ItemKinds
  <2>2. inv' = [inv EXCEPT ![i] = "none"]
      BY <1>8 DEF JoinSettled
  <2>3. CASE where' = [where EXCEPT ![i] = "failed"] /\ where[i] = "active"
      BY <1>1, <2>1, <2>2, <2>3, PointEntries
  <2>4. CASE where' = where
    <3>1. where[i] = "gone" => detached[i]
        BY <1>8 DEF Departed
    <3>2. where' = [where EXCEPT ![i] = where[i]]
        BY <1>3, <2>4
    <3> QED BY <1>1, <2>1, <2>2, <3>1, <3>2, PointEntries
  <2> QED BY <1>8, <2>3, <2>4 DEF JoinSettled, Fail
<1>9. ASSUME i \in Scopes, VoidReleased(i) PROVE Entries
  <2>1. /\ where' = [where EXCEPT ![i] = "gone"] /\ inv' = [inv EXCEPT ![i] = "none"] /\ inv[i] = "void"
        /\ i \notin Leaves
      BY <1>9, ItemKinds DEF VoidReleased
  <2>2. detached[i]
      BY <1>9, <2>1 DEF Departed
  <2> QED BY <1>1, <2>1, <2>2, PointEntries
<1> QED BY <1>2, <1>5, <1>6, <1>7, <1>8, <1>9 DEF UserSettles

\* The synchronous part of a cleanup ends.
LEMMA CleanupLasts ==
    ASSUME Lasting, CleanupReturn \/ CleanupThrow PROVE Entries /\ Aside
<1> USE DEF Lasting
<1>1. On({"cleanup"}) /\ stack' = Under /\ UNCHANGED <<home, order, detached>>
    BY DEF CleanupReturn, CleanupThrow, treeVars
<1>2. TypeOK /\ Framed /\ stack # <<>> /\ Top.k = "cleanup" /\ Fit(Top)
    BY <1>1, TopIs DEF WInv
<1>3. Aside
    BY <1>1, <1>2, CommonPiles, TurnIsAside DEF Aside, On
<1>4. PICK l \in Leaves : l = Top.n
    BY <1>2 DEF Fit
<1>5. where[l] # "gone" /\ l \in Items /\ l \notin Scopes
  <2>1. Top \in ToSet(stack)
      BY <1>2, TopIn
  <2> QED BY <1>2, <1>4, <2>1, ItemKinds DEF Unfinished
<1>6. ASSUME CleanupReturn PROVE Entries
  <2>1. inv' = [inv EXCEPT ![l] = "running"] /\ where' = [where EXCEPT ![l] = where[l]]
      BY <1>2, <1>4, <1>6 DEF CleanupReturn, TypeOK
  <2> QED BY <1>1, <1>5, <2>1, PointEntries
<1>7. ASSUME CleanupThrow PROVE Entries
  <2>1. inv' = [inv EXCEPT ![l] = "none"] /\ where' = [where EXCEPT ![l] = "failed"]
      BY <1>2, <1>4, <1>7 DEF CleanupThrow, Fail
  <2> QED BY <1>1, <1>5, <2>1, PointEntries
<1> QED BY <1>3, <1>6, <1>7

\* A call of close().
LEMMA CloseLasts ==
    ASSUME Lasting, NEW k, NEW n \in Scopes, NEW e, NEW a, Close(k, n, e, a)
    PROVE  Entries /\ Aside
<1> USE DEF Lasting
<1>1. /\ TypeOK /\ Created(n) /\ TakeFlight(n, where) /\ UNCHANGED <<home, order, inv>>
      /\ ~On({"batch"})
    BY TurnIsAside DEF Close, WInv
<1>2. Entries
    BY <1>1, TakeFlightEntries DEF TypeOK
<1>3. PICK b \in BOOLEAN : b <=> (HasFlight(n) /\ e # "absent" /\ ~esc'[n]) /\ e = "fired"
    OBVIOUS
<1>4. PICK t : t = [k |-> "answer", n |-> n, call |-> k, flight |-> HasFlight(n)]
    OBVIOUS
<1>5. PICK r : r = Rest(n, b)
    OBVIOUS
<1>6. PICK F : /\ r \in Seq(F)
               /\ \A f \in F : Light(f) \/ (f.k = "start" /\ f.n = n /\ phase[n] = "none" /\ HasFlight(n))
    BY <1>5, RestIs
<1>7. stack' = (stack \o <<t>>) \o r
    BY <1>3, <1>4, <1>5 DEF Close, Rest
<1>8. PICK p, V : p = <<t>> \o r /\ V = F \cup {t}
    OBVIOUS
<1>9. p \in Seq(V) /\ stack' = stack \o p
  <2>1. PICK q, s : q = stack /\ s = q \o p
      OBVIOUS
  <2>2. q \in Seq(ToSet(stack))
      BY <1>1, <2>1 DEF TypeOK
  <2>3. p \in Seq(V) /\ (q \o <<t>>) \o r = s
      BY <1>6, <1>8, <2>1, <2>2, PlacedOn
  <2> QED BY <1>7, <2>1, <2>3
<1>10. Stacks(Len(stack), V)
    BY <1>1, <1>9, StackPush
<1>11. Piles(V)
  <2>1. ASSUME NEW f \in V PROVE f.k \notin {"batch", "cleanup"}
      BY <1>4, <1>6, <1>8 DEF Light, LightKinds
  <2> QED BY <1>10, <2>1 DEF Piles, Bystanders
<1> QED BY <1>1, <1>2, <1>11 DEF Aside

-----------------------------------------------------------------------------
(* Walks and calls.                                                        *)

\* Steps that change no entry.
LEMMA CalmLasts ==
    ASSUME Lasting,
           \/ \E k \in Calls : EscalateSignal(k) \/ AbandonSignal(k) \/ AnswerCall(k)
           \/ \E c \in Scopes : Unlink(c) \/ Resume(c)
           \/ SetupReturn \/ ListenerReturn \/ CloseReturn \/ WalkDone
           \/ StartFlight \/ DrainStep \/ AwaitSetups \/ AwaitBatch
    PROVE  Entries /\ Aside
<1> USE DEF Lasting
<1>1. TypeOK
    BY DEF WInv
<1>2. Entries
  <2>1. UNCHANGED <<home, order, detached, where, inv>>
      BY DEF EscalateSignal, AbandonSignal, AnswerCall, Unlink, Resume, SetupReturn,
             ListenerReturn, CloseReturn, WalkDone, StartFlight, DrainStep, AwaitSetups, AwaitBatch,
             treeVars, entryVars
  <2> QED BY <2>1, IdleEntries
<1>3. ~On({"batch"}) \/ Top.left = <<>>
    BY TurnIsAside DEF EscalateSignal, AbandonSignal, AnswerCall, Unlink, Resume, UserTurn,
       SetupReturn, ListenerReturn, CloseReturn, WalkDone, StartFlight, DrainStep, AwaitSetups,
       AwaitBatch, On, WalkKinds
<1>4. ASSUME NEW k \in Calls, EscalateSignal(k) PROVE \E F : Piles(F)
  <2>1. PICK f : f = WalkFrame("escalate", call[k].on)
      OBVIOUS
  <2>2. f.k \notin {"batch", "cleanup"} /\ (UNCHANGED stack \/ stack' = Append(stack, f))
      BY <1>4, <2>1 DEF EscalateSignal, WalkFrame
  <2> QED BY <1>1, <2>2, CommonPiles
<1>5. ASSUME \/ \E k \in Calls : AbandonSignal(k) \/ AnswerCall(k)
             \/ \E c \in Scopes : Unlink(c)
      PROVE  \E F : Piles(F)
  <2>1. UNCHANGED stack
      BY <1>5 DEF AbandonSignal, AnswerCall, Unlink, turnVars
  <2> QED BY <1>1, <2>1, CommonPiles
<1>6. ASSUME NEW c \in Scopes, Resume(c) PROVE \E F : Piles(F)
  <2>1. PICK f : f = Frame("run", c)
      OBVIOUS
  <2>2. stack = <<>> /\ stack' = <<f>>
      BY <1>6, <2>1 DEF Resume, Idle
  <2>3. f.k \notin {"batch", "cleanup"} /\ stack' = Append(stack, f)
      BY <2>1, <2>2 DEF Frame
  <2> QED BY <1>1, <2>3, CommonPiles
<1>7. ASSUME SetupReturn \/ ListenerReturn \/ CloseReturn \/ AwaitSetups \/ AwaitBatch PROVE \E F : Piles(F)
  <2>1. stack # <<>> /\ stack' = Under
      BY <1>7 DEF SetupReturn, ListenerReturn, CloseReturn, AwaitSetups, AwaitBatch, On, Idle
  <2> QED BY <1>1, <2>1, CommonPiles
<1>8. ASSUME WalkDone \/ StartFlight PROVE \E F : Piles(F)
  <2>1. stack # <<>> /\ (stack' = Under \/ \E q : stack' = Drained(Under, q))
    <3>1. CASE WalkDone
      <4>1. stack # <<>> /\ (stack' = Under \/ stack' = Drained(Under, starts))
          BY <3>1 DEF WalkDone, On, Idle
      <4> QED BY <4>1
    <3>2. CASE StartFlight
      <4>1. PICK q : q = starts'
          OBVIOUS
      <4>2. stack # <<>> /\ stack' = Drained(Under, q)
          BY <3>2, <4>1 DEF StartFlight, On, Idle
      <4> QED BY <4>2
    <3> QED BY <1>8, <3>1, <3>2
  <2> QED BY <1>1, <2>1, CommonPiles
<1>9. ASSUME DrainStep PROVE \E F : Piles(F)
  <2>1. PICK f : f = Frame("run", Head(starts))
      OBVIOUS
  <2>2. f.k \notin {"batch", "cleanup"} /\ stack # <<>> /\ (stack' = Under \/ stack' = Append(stack, f))
      BY <1>9, <2>1 DEF DrainStep, On, Idle, Frame
  <2> QED BY <1>1, <2>2, CommonPiles
<1>10. \E F : Piles(F)
    BY <1>4, <1>5, <1>6, <1>7, <1>8, <1>9
<1> QED BY <1>2, <1>3, <1>10 DEF Aside

\* Walks change no entry.
LEMMA WalkLasts ==
    ASSUME Lasting, NotifyVisit \/ CancelVisit \/ EscalateVisit PROVE Entries /\ Aside
<1> USE DEF Lasting
<1>1. On(WalkKinds) /\ UNCHANGED <<home, order, detached, where, inv>>
    BY DEF NotifyVisit, CancelVisit, EscalateVisit, On, WalkKinds, treeVars, entryVars
<1>2. TypeOK /\ stack # <<>> /\ Top.k \in WalkKinds /\ Fit(Top)
    BY <1>1, TopIs DEF WInv
<1>3. Entries
    BY <1>1, IdleEntries
<1>4. ~On({"batch"})
    BY <1>2 DEF On, WalkKinds
<1>5. PICK cur, b : stack' = Visited(cur, b)
  <2>1. ASSUME NotifyVisit PROVE \E cur, b : stack' = Visited(cur, b)
    <3>1. stack' = Visited(Passed, FALSE) \/ stack' = Visited(Entered, ~aborted[At])
        BY <2>1 DEF NotifyVisit
    <3> QED BY <3>1
  <2>2. ASSUME CancelVisit PROVE \E cur, b : stack' = Visited(cur, b)
    <3>1. stack' = Visited(Passed, FALSE) \/ stack' = Visited(Entered, TRUE)
        BY <2>2 DEF CancelVisit
    <3> QED BY <3>1
  <2>3. ASSUME EscalateVisit PROVE \E cur, b : stack' = Visited(cur, b)
    <3>1. stack' = Visited(Entered, phase[At] # "none" /\ ~esc[At])
        BY <2>3 DEF EscalateVisit
    <3> QED BY <3>1
  <2> QED BY <2>1, <2>2, <2>3
<1>6. PICK t : t = [Top EXCEPT !.cur = cur]
    OBVIOUS
<1>7. t.k \notin {"batch", "cleanup"}
  <2>1. Top = [k |-> Top.k, n |-> Top.n, cur |-> Top.cur]
      BY <1>2 DEF Fit
  <2>2. t = [k |-> Top.k, n |-> Top.n, cur |-> cur]
      BY <1>6, <2>1
  <2> QED BY <1>2, <2>2 DEF WalkKinds
<1>8. PICK l : l = Frame("listener", At)
    OBVIOUS
<1>9. PICK r : r = IF b THEN <<l>> ELSE <<>>
    OBVIOUS
<1>10. PICK F : F = {t, l}
    OBVIOUS
<1>11. t \in F /\ r \in Seq(F)
  <2>1. <<l>> \in Seq(F) /\ <<>> \in Seq(F)
      BY <1>10
  <2>2. CASE b
      BY <1>9, <1>10, <2>1, <2>2
  <2>3. CASE ~b
      BY <1>9, <1>10, <2>1, <2>3
  <2> QED BY <2>2, <2>3
<1>12. stack' = Append(Under, t) \o r
  <2>1. r = IF b THEN <<Frame("listener", At)>> ELSE <<>>
      BY <1>8, <1>9
  <2>2. stack' = Append(Under, [Top EXCEPT !.cur = cur]) \o (IF b THEN <<Frame("listener", At)>> ELSE <<>>)
      BY <1>5 DEF Visited
  <2> QED BY <1>6, <2>1, <2>2
<1>13. Stacks(Len(stack) - 1, F)
    BY <1>2, <1>11, <1>12, StackTurn
<1>14. Piles(F)
  <2>1. l.k = "listener"
      BY <1>8 DEF Frame
  <2> QED BY <1>7, <1>10, <1>13, <2>1 DEF Piles, Bystanders
<1> QED BY <1>3, <1>4, <1>14 DEF Aside

\* The run is cancelled.
LEMMA CancelLasts == ASSUME Lasting, CancelRun PROVE Entries /\ Aside
<1> USE DEF Lasting
<1> DEFINE followers == {c \in Scopes : module[c]}
           count == Cardinality(followers)
           frames == [i \in 1 .. count |-> WalkFrame("cancel", Nth(followers, i))]
<1>1. /\ UNCHANGED <<home, order, detached, where, inv>> /\ stack' = stack \o Reverse(frames)
      /\ ~On({"batch"}) /\ TypeOK
    BY TurnIsAside DEF CancelRun, treeVars, entryVars, WInv
<1>2. count \in Nat
  <2>1. followers \in SUBSET (1 .. NScopes) /\ NScopes \in Nat
      BY ScopeAssumption DEF Scopes
  <2> HIDE DEF followers
  <2> QED BY <2>1, Ranks
<1>3. \A i \in 1 .. count : frames[i].k = "cancel"
    BY DEF WalkFrame
<1> HIDE DEF count
<1>4. DOMAIN frames = 1 .. count /\ frames = [i \in 1 .. count |-> frames[i]]
    OBVIOUS
<1> HIDE DEF frames
<1>5. PICK F : F = {frames[i] : i \in 1 .. count}
    OBVIOUS
<1>6. frames \in Seq(F) /\ \A f \in F : f.k = "cancel"
    BY <1>2, <1>3, <1>4, <1>5
<1>7. PICK r \in Seq(F) : stack' = stack \o r
    BY <1>1, <1>6, ReverseIs
<1>8. Stacks(Len(stack), F)
    BY <1>1, <1>7, StackPush
<1>9. Piles(F)
    BY <1>6, <1>8 DEF Piles, Bystanders
<1> QED BY <1>1, <1>9, IdleEntries DEF Aside

\* A flight reports.
LEMMA SettleLasts == ASSUME Lasting, Settle PROVE Entries /\ Aside
<1>1. On({"run"}) /\ stack' = Under /\ stack # <<>> /\ TypeOK
    BY DEF Settle, On, Idle, Lasting, WInv
<1>2. ~On({"batch"}) /\ \E F : Piles(F)
    BY <1>1, TurnIsAside, CommonPiles DEF On
<1> QED BY <1>2, SettleEntries DEF Aside

-----------------------------------------------------------------------------
(* The entry that is invoked next.                                         *)

\* A flight has one frame, so a frame below its batch is of another flight.
LEMMA OtherFlights ==
    ASSUME WInv, On(Steps), NEW i \in 1 .. Len(stack) - 1, stack[i].k \in Steps
    PROVE  stack[i].n # Top.n /\ stack[i] \in ToSet(stack)
<1>1. TypeOK /\ Framed /\ Single
    BY DEF WInv
<1>2. stack # <<>> /\ Len(stack) \in Nat \ {0} /\ Top = stack[Len(stack)] /\ Top.k \in Steps
    BY <1>1, TopIs
<1>3. i \in 1 .. Len(stack) /\ Len(stack) \in 1 .. Len(stack) /\ i # Len(stack)
    BY <1>2
<1>4. stack[i] \in ToSet(stack)
    BY <1>1, <1>3, OfItsOwn DEF TypeOK
<1> QED BY <1>1, <1>2, <1>3, <1>4 DEF Single

\* What a reverse scope is about to invoke is on top, and alone.
Alone(b) ==
    order[b.n] = "reverse" /\ b.left # <<>> =>
        On({"batch"})' /\ b = Top' /\ Len(b.left) = 1 /\ where'[b.left[1]] # "gone"

\* The batch on top goes on with b, and other frames are put on it.
LEMMA BatchKept ==
    ASSUME Lasting, Entries, On({"run", "batch"}), NEW b, b.k = "batch", b.n = Top.n,
           NEW F, Stacks(Len(stack) - 1, {b} \cup F),
           \A f \in F : f.k # "batch",
           \A f \in F : f.k = "cleanup" => where'[f.n] # "gone",
           Alone(b)
    PROVE  Prompt' /\ Unfinished'
<1> USE DEF Lasting
<1>1. TypeOK /\ Framed /\ Flights /\ On(Steps)
    BY DEF WInv, On, Steps
<1>2. stack # <<>> /\ Fit(Top) /\ Top.n \in Scopes /\ phase[Top.n] = "running" /\ Len(stack) \in Nat
    BY <1>1, TopIs DEF Fit, Steps, On
<1>3. ASSUME NEW f \in ToSet(stack'), f.k = "batch", order'[f.n] = "reverse", f.left # <<>>
      PROVE  f = b
  <2>1. ASSUME NEW i \in 1 .. Len(stack) - 1, f = stack[i] PROVE FALSE
    <3>1. f.n # Top.n /\ f \in ToSet(stack)
        BY <1>1, <1>3, <2>1, OtherFlights DEF Steps
    <3>2. Fit(f)
        BY <1>1, <3>1 DEF Framed
    <3>3. f.n \in Scopes /\ phase[f.n] = "running"
        BY <1>3, <3>2 DEF Fit, Steps
    <3>4. order[f.n] = "reverse"
        BY <1>1, <1>3, <3>3 DEF Flights, Entries
    <3> QED BY <1>3, <3>1, <3>4 DEF Prompt
  <2> QED BY <1>3, <2>1, StackIn
<1>4. order'[Top.n] = order[Top.n]
    BY <1>1, <1>2 DEF Flights, Entries
<1>5. Prompt'
  <2> SUFFICES ASSUME NEW f \in ToSet(stack'), f.k = "batch", order'[f.n] = "reverse", f.left # <<>>
               PROVE  On({"batch"})' /\ f = Top' /\ Len(f.left) = 1 /\ where'[f.left[1]] # "gone"
      BY DEF Prompt
  <2>1. f = b
      BY <1>3
  <2> QED BY <1>4, <2>1 DEF Alone
<1>6. ASSUME NEW f \in ToSet(stack'), f.k = "cleanup" PROVE where'[f.n] # "gone"
  <2>1. ASSUME NEW i \in 1 .. Len(stack) - 1, f = stack[i] PROVE where'[f.n] # "gone"
    <3>1. i \in 1 .. Len(stack)
        BY <1>2
    <3>2. f \in ToSet(stack)
        BY <1>1, <2>1, <3>1, OfItsOwn DEF TypeOK
    <3>3. f.n \in Leaves /\ where[f.n] # "gone"
        BY <1>1, <1>6, <3>2 DEF Framed, Fit, Unfinished
    <3> QED BY <1>2, <3>3 DEF Entries, Idle
  <2> QED BY <1>6, <2>1, StackIn
<1> QED BY <1>5, <1>6 DEF Unfinished, Entries

\* The next entry of the batch is not gone, and the batch of a reverse scope ends
\* with it.
LEMMA NextEntry ==
    ASSUME Lasting, On({"batch"}), Top.left # <<>>, NEW i, i = Head(Top.left)
    PROVE  /\ i \in Items /\ home[i] = Top.n /\ Top.n \in Scopes
           /\ Backward(i) => where[i] # "gone"
           /\ \E b : /\ b = [Top EXCEPT !.left = Tail(@)] /\ b.k = "batch" /\ b.n = Top.n
                     /\ order[Top.n] = "reverse" => b.left = <<>>
<1> USE DEF Lasting
<1>1. TypeOK /\ Framed
    BY DEF WInv
<1>2. /\ Top.left \in Seq(Items) /\ Len(Top.left) \in Nat \ {0} /\ i \in Items /\ i = Top.left[1]
      /\ home[i] = Top.n /\ Top.n \in Scopes
    BY <1>1, HeadIs
<1>3. Fit(Top) /\ Top.k = "batch" /\ Top \in ToSet(stack)
    BY <1>1, TopIs, TopIn
<1>4. order[Top.n] = "reverse" => Len(Top.left) = 1 /\ where[i] # "gone"
    BY <1>2, <1>3 DEF Prompt
<1>5. Top = [k |-> Top.k, n |-> Top.n, left |-> Top.left]
    BY <1>3 DEF Fit
<1>6. PICK b : b = [Top EXCEPT !.left = Tail(@)]
    OBVIOUS
<1>7. b = [k |-> Top.k, n |-> Top.n, left |-> Tail(Top.left)]
    BY <1>5, <1>6
<1>8. b.k = "batch" /\ b.n = Top.n /\ b.left = Tail(Top.left)
    BY <1>3, <1>7
<1>9. order[Top.n] = "reverse" => Tail(Top.left) = <<>>
  <2>1. PICK q : q = Top.left
      OBVIOUS
  <2>2. q \in Seq(Items) /\ q # <<>>
      BY <1>2, <2>1
  <2>3. ASSUME Len(q) = 1 PROVE Tail(q) = <<>>
    <3>1. PICK r : r = Tail(q)
        OBVIOUS
    <3>2. r \in Seq(Items) /\ Len(r) = 0
        BY <2>2, <2>3, <3>1
    <3> QED BY <3>1, <3>2, EmptySeq
  <2> QED BY <1>4, <2>1, <2>3
<1> QED BY <1>2, <1>4, <1>6, <1>8, <1>9 DEF Backward

-----------------------------------------------------------------------------
(* Steps of a flight.                                                      *)

\* The stack goes on with the rest of the batch, and at most one cleanup above it.
LEMMA InvokeStack ==
    ASSUME Lasting, InvokeLeaf \/ InvokeVoid \/ InvokeChild
    PROVE  \E b, F :
             /\ b.k = "batch" /\ b.n = Top.n /\ (order[Top.n] = "reverse" => b.left = <<>>)
             /\ Stacks(Len(stack) - 1, {b} \cup F)
             /\ \A f \in F : f.k # "batch" /\ (f.k = "cleanup" => InvokeLeaf /\ f.n = Head(Top.left))
             /\ \A p, q \in Len(stack) .. Len(stack') :
                  stack'[p].k = "cleanup" /\ stack'[q].k = "cleanup" => p = q
<1> USE DEF Lasting
<1>1. On({"batch"}) /\ Top.left # <<>> /\ TypeOK /\ stack # <<>> /\ Len(stack) \in Nat \ {0}
  <2>1. On({"batch"}) /\ Top.left # <<>> /\ TypeOK
      BY DEF InvokeLeaf, InvokeVoid, InvokeChild, WInv
  <2> QED BY <2>1, TopIs DEF WInv
<1>2. PICK i : i = Head(Top.left)
    OBVIOUS
<1>3. i \in Items /\ home[i] = Top.n /\ Top.n \in Scopes
    BY <1>1, <1>2, NextEntry
<1>4. PICK b : /\ b = [Top EXCEPT !.left = Tail(@)] /\ b.k = "batch" /\ b.n = Top.n
               /\ order[Top.n] = "reverse" => b.left = <<>>
    BY <1>1, <1>2, NextEntry
<1>5. ASSUME NEW F, NEW V, V = {b} \cup F, NEW r \in Seq(V), stack' = Under \o r,
             \A f \in F : f.k \notin {"batch", "cleanup"}
      PROVE  /\ Stacks(Len(stack) - 1, {b} \cup F)
             /\ \A p \in Len(stack) .. Len(stack') : stack'[p].k # "cleanup"
  <2>1. Stacks(Len(stack) - 1, V)
      BY <1>1, <1>5, StackReplace
  <2>2. \A f \in V : f.k # "cleanup"
      BY <1>4, <1>5
  <2>3. \A p \in Len(stack) .. Len(stack') : p \in 1 .. Len(stack') /\ p > Len(stack) - 1
      BY <1>1, <2>1 DEF Stacks
  <2> QED BY <1>5, <2>1, <2>2, <2>3 DEF Stacks
<1>6. CASE InvokeLeaf
  <2>1. PICK c : c = Frame("cleanup", i)
      OBVIOUS
  <2>2. PICK m : m = Len(stack) - 1
      OBVIOUS
  <2>3. stack' = Under \o <<b, c>>
      BY <1>2, <1>4, <1>6, <2>1 DEF InvokeLeaf
  <2>4. Stacks(m, {b, c}) /\ Len(stack') = m + 2 /\ stack'[m + 1] = b /\ stack'[m + 2] = c
      BY <1>1, <2>2, <2>3, PairOn
  <2>5. PICK F : F = {c}
      OBVIOUS
  <2>6. Stacks(Len(stack) - 1, {b} \cup F)
    <3>1. {b} \cup F = {b, c}
        BY <2>5
    <3> QED BY <2>2, <2>4, <3>1
  <2>7. c.k = "cleanup" /\ c.n = i
      BY <2>1 DEF Frame
  <2>8. \A p \in Len(stack) .. Len(stack') : p = m + 1 \/ p = m + 2
      BY <1>1, <2>2, <2>4
  <2>9. \A p, q \in Len(stack) .. Len(stack') :
           stack'[p].k = "cleanup" /\ stack'[q].k = "cleanup" => p = q
      BY <1>4, <2>4, <2>8
  <2>10. \A f \in F : f.k # "batch" /\ (f.k = "cleanup" => InvokeLeaf /\ f.n = Head(Top.left))
      BY <1>2, <1>6, <2>5, <2>7
  <2> QED BY <1>4, <2>6, <2>9, <2>10
<1>7. CASE InvokeVoid
  <2>1. stack' = Append(Under, b)
      BY <1>4, <1>7 DEF InvokeVoid
  <2>2. PICK u : u = Under
      OBVIOUS
  <2>3. u \in Seq(ToSet(stack))
      BY <1>1, <2>2, FrontIsBelow DEF TypeOK, Under
  <2>4. stack' = Under \o <<b>> /\ <<b>> \in Seq({b})
      BY <2>1, <2>2, <2>3, AppendIsJoin
  <2>5. PICK F, V : F = {} /\ V = {b} \cup F
      OBVIOUS
  <2>6. <<b>> \in Seq(V) /\ \A f \in F : FALSE
      BY <2>4, <2>5
  <2>7. /\ Stacks(Len(stack) - 1, {b} \cup F)
        /\ \A p \in Len(stack) .. Len(stack') : stack'[p].k # "cleanup"
      BY <1>5, <2>4, <2>5, <2>6
  <2> QED BY <1>4, <2>6, <2>7
<1>8. CASE InvokeChild
  <2>1. i \in Scopes
      BY <1>2, <1>8 DEF InvokeChild, HasChild
  <2>2. PICK e \in BOOLEAN : e <=> esc[Top.n]
      OBVIOUS
  <2>3. PICK r, u : r = Rest(i, e) /\ u = Under
      OBVIOUS
  <2>4. stack' = (u \o <<b>>) \o r
      BY <1>2, <1>4, <1>8, <2>2, <2>3 DEF InvokeChild, Rest
  <2>5. PICK F : /\ r \in Seq(F)
                 /\ \A f \in F : Light(f) \/ (f.k = "start" /\ f.n = i /\ phase[i] = "none" /\ HasFlight(i))
      BY <2>1, <2>3, RestIs
  <2>6. PICK p, V, s : p = <<b>> \o r /\ V = F \cup {b} /\ s = u \o p
      OBVIOUS
  <2>7. u \in Seq(ToSet(stack))
      BY <1>1, <2>3, FrontIsBelow DEF TypeOK, Under
  <2>8. p \in Seq(V) /\ (u \o <<b>>) \o r = s
      BY <2>5, <2>6, <2>7, PlacedOn
  <2>9. \A f \in F : f.k \notin {"batch", "cleanup"}
      BY <2>5 DEF Light, LightKinds
  <2>10. stack' = Under \o p /\ V = {b} \cup F
      BY <2>3, <2>4, <2>6, <2>8
  <2>11. /\ Stacks(Len(stack) - 1, {b} \cup F)
         /\ \A x \in Len(stack) .. Len(stack') : stack'[x].k # "cleanup"
      BY <1>5, <2>8, <2>9, <2>10
  <2> QED BY <1>4, <2>9, <2>11
<1> QED BY <1>6, <1>7, <1>8

\* An entry is invoked.
LEMMA InvokeLasts ==
    ASSUME Lasting, InvokeLeaf \/ InvokeVoid \/ InvokeChild
    PROVE  Entries /\ Prompt' /\ Unfinished'
<1> USE DEF Lasting
<1>1. On({"batch"}) /\ Top.left # <<>> /\ On({"run", "batch"}) /\ TypeOK
    BY DEF InvokeLeaf, InvokeVoid, InvokeChild, On, WInv
<1>2. PICK i : i = Head(Top.left)
    OBVIOUS
<1>3. i \in Items /\ home[i] = Top.n /\ Top.n \in Scopes /\ (Backward(i) => where[i] # "gone")
    BY <1>1, <1>2, NextEntry
<1>4. Entries /\ (InvokeLeaf => where'[i] # "gone")
  <2>1. CASE InvokeLeaf
    <3>1. i \in Leaves /\ i \notin Scopes
        BY <1>2, <2>1, ItemKinds DEF InvokeLeaf
    <3>2. /\ where' = [where EXCEPT ![i] = "active"] /\ inv' = [inv EXCEPT ![i] = "body"]
          /\ UNCHANGED <<home, order, detached>>
        BY <1>2, <2>1 DEF InvokeLeaf, treeVars
    <3>3. Entries
        BY <1>3, <3>1, <3>2, PointEntries
    <3> QED BY <1>1, <1>3, <3>2, <3>3 DEF TypeOK
  <2>2. CASE InvokeVoid
    <3>1. i \in Scopes /\ i \notin Leaves /\ detached[i]
        BY <1>2, <2>2, ItemKinds DEF InvokeVoid, HasChild
    <3>2. /\ where' = [where EXCEPT ![i] = "active"] /\ inv' = [inv EXCEPT ![i] = "void"]
          /\ UNCHANGED <<home, order, detached>>
        BY <1>2, <2>2 DEF InvokeVoid, treeVars
    <3>3. Entries
        BY <1>3, <3>1, <3>2, PointEntries
    <3> QED BY <1>1, <1>3, <3>2, <3>3 DEF TypeOK
  <2>3. CASE InvokeChild
    <3>1. i \in Scopes /\ i \notin Leaves /\ ~detached[i]
        BY <1>2, <2>3, ItemKinds DEF InvokeChild, HasChild
    <3>2. PICK v : v = [where EXCEPT ![i] = "active"]
        OBVIOUS
    <3>3. /\ TakeFlight(i, v) /\ UNCHANGED <<home, order>>
          /\ inv' = [inv EXCEPT ![i] = IF HasFlight(i) THEN "join" ELSE "complete"]
        BY <1>2, <2>3, <3>2 DEF InvokeChild
    <3>4. v \in [Items -> States]
        BY <1>1, <3>2 DEF TypeOK, States
    <3>5. Created(i)
        BY <1>3, ItemKinds DEF Created
    <3>6. /\ \A l \in Leaves : inv'[l] = inv[l]
          /\ \A c \in Scopes : inv'[c] = "void" => inv[c] = "void"
        BY <1>1, <3>1, <3>3, ItemKinds DEF TypeOK
    <3>7. Entries
        BY <3>1, <3>2, <3>3, <3>4, <3>5, <3>6, TakeFlightEntries
    <3>8. ~InvokeLeaf
        BY <1>2, <3>1 DEF InvokeLeaf
    <3> QED BY <3>7, <3>8
  <2> QED BY <2>1, <2>2, <2>3
<1>5. PICK b, F : /\ b.k = "batch" /\ b.n = Top.n /\ (order[Top.n] = "reverse" => b.left = <<>>)
                  /\ Stacks(Len(stack) - 1, {b} \cup F)
                  /\ \A f \in F : f.k # "batch" /\ (f.k = "cleanup" => InvokeLeaf /\ f.n = Head(Top.left))
    BY InvokeStack
<1>6. \A f \in F : f.k = "cleanup" => where'[f.n] # "gone"
    BY <1>2, <1>4, <1>5
<1>7. Alone(b)
    BY <1>5 DEF Alone
<1> QED BY <1>1, <1>4, <1>5, <1>6, <1>7, BatchKept

\* The batch of a reverse scope is its newest entry that is not gone.
LEMMA BatchIs ==
    ASSUME TypeOK, NEW n \in Scopes, Standing(n) # {}, order[n] = "reverse", NEW batch,
           batch = Reverse(Among(SubSeq(live[n], Kept(n) + 1, Len(live[n])), {i \in Items : where[i] # "gone"}))
    PROVE  /\ Len(batch) = 1 /\ batch # <<>> /\ Head(batch) = batch[1]
           /\ batch[1] = live[n][Kept(n) + 1] /\ where[batch[1]] # "gone"
<1> DEFINE S == {i \in Items : where[i] # "gone"}
<1>1. PICK q, a : q = live[n] /\ a = Kept(n) + 1
    OBVIOUS
<1>2. /\ q \in Seq(Items) /\ Len(q) \in Nat /\ a \in 1 .. Len(q) /\ where[q[a]] # "gone"
      /\ \A j \in 1 .. Len(q) : j > a => where[q[j]] = "gone"
  <2>1. live[n] \in Seq(Items) /\ Len(live[n]) \in Nat
      BY DEF TypeOK
  <2>2. Kept(n) \in 0 .. Len(live[n]) - 1
      BY KeptIs
  <2>3. where[live[n][Kept(n) + 1]] # "gone" /\ \A j \in 1 .. Len(live[n]) : j > Kept(n) + 1 => where[live[n][j]] = "gone"
      BY KeptIs
  <2> QED BY <1>1, <2>1, <2>2, <2>3
<1>3. PICK p : p = SubSeq(q, a, Len(q))
    OBVIOUS
<1>4. /\ p \in Seq(Items) /\ Len(p) = Len(q) - a + 1
      /\ \A j \in 1 .. Len(q) - a + 1 : p[j] = q[a + j - 1]
    BY <1>2, <1>3, SubSeqProperties
<1>5. /\ Len(p) \in Nat /\ 1 \in 1 .. Len(p) /\ p[1] = q[a] /\ q[a] \in Items
      /\ \A j \in 1 .. Len(p) : where[p[j]] # "gone" => j = 1
  <2>1. Len(p) \in Nat /\ 1 \in 1 .. Len(p) /\ a + 1 - 1 = a /\ 1 \in 1 .. Len(q) - a + 1
      BY <1>2, <1>4
  <2>2. ASSUME NEW j \in 1 .. Len(p), where[p[j]] # "gone" PROVE j = 1
    <3>1. j \in 1 .. Len(q) - a + 1 /\ a + j - 1 \in 1 .. Len(q) /\ p[j] = q[a + j - 1]
        BY <1>2, <1>4
    <3>2. ~(a + j - 1 > a)
        BY <1>2, <2>2, <3>1
    <3> QED BY <1>2, <3>1, <3>2
  <2> QED BY <1>2, <1>4, <2>1, <2>2
<1>7. /\ Among(p, S) \in Seq(Items)
      /\ \E g \in [1 .. Len(Among(p, S)) -> 1 .. Len(p)] :
           /\ \A i \in 1 .. Len(Among(p, S)) : Among(p, S)[i] = p[g[i]] /\ p[g[i]] \in S
           /\ \A i, j \in 1 .. Len(Among(p, S)) : i < j => g[i] < g[j]
           /\ \A k \in 1 .. Len(p) : p[k] \in S => \E i \in 1 .. Len(Among(p, S)) : g[i] = k
  <2> p \in Seq(Items)
      BY <1>4
  <2> HIDE DEF S
  <2> QED BY AmongIs
<1>8. PICK t : t = Among(p, S)
    OBVIOUS
<1> HIDE DEF S
<1>9. PICK g \in [1 .. Len(t) -> 1 .. Len(p)] :
          /\ \A i \in 1 .. Len(t) : t[i] = p[g[i]] /\ p[g[i]] \in S
          /\ \A i, j \in 1 .. Len(t) : i < j => g[i] < g[j]
          /\ \A k \in 1 .. Len(p) : p[k] \in S => \E i \in 1 .. Len(t) : g[i] = k
    BY <1>7, <1>8
<1>10. t \in Seq(Items) /\ Len(t) \in Nat
    BY <1>7, <1>8
<1>11. \A i \in 1 .. Len(t) : g[i] = 1 /\ t[i] = q[a]
    BY <1>5, <1>9 DEF S
<1>12. PICK i \in 1 .. Len(t) : g[i] = 1
    BY <1>2, <1>5, <1>9 DEF S
<1>13. Len(t) = 1
  <2>1. PICK m \in Nat : m = Len(t)
      BY <1>10
  <2>2. i \in 1 .. m
      BY <1>12, <2>1
  <2>3. ASSUME m # 1 PROVE 1 \in 1 .. m /\ 2 \in 1 .. m
      BY <2>1, <2>2, <2>3
  <2>4. 1 \in 1 .. m /\ 2 \in 1 .. m => g[1] < g[2] /\ g[1] = 1 /\ g[2] = 1
      BY <1>9, <1>11, <2>1
  <2> QED BY <2>1, <2>3, <2>4
<1>14. /\ Reverse(t) \in Seq(Items) /\ Len(Reverse(t)) = Len(t)
       /\ \A j \in 1 .. Len(t) : Reverse(t)[j] = t[Len(t) - j + 1]
    BY <1>10, ReverseIs
<1>15. batch = Reverse(t)
    BY <1>1, <1>3, <1>8 DEF S
<1>16. 1 \in 1 .. Len(t) /\ Len(t) - 1 + 1 = 1
    BY <1>13
<1>17. batch # <<>> /\ Head(batch) = batch[1]
    BY <1>13, <1>14, <1>15
<1> QED BY <1>1, <1>2, <1>11, <1>13, <1>14, <1>15, <1>16, <1>17

-----------------------------------------------------------------------------
(* What is released stays released.                                        *)

\* The batch that #run takes is on top, and in a reverse scope it is one entry.
LEMMA BatchTaken ==
    ASSUME TypeOK, Framed, TakeBatch
    PROVE  \E n, b :
             /\ n \in Scopes /\ n = Top.n /\ On({"run"}) /\ Standing(n) # {}
             /\ b.k = "batch" /\ b.n = n /\ Stacks(Len(stack) - 1, {b})
             /\ On({"batch"})' /\ Top' = b
             /\ order[n] = "reverse" =>
                  /\ Len(b.left) = 1 /\ b.left # <<>> /\ Head(b.left) = b.left[1]
                  /\ b.left[1] = live[n][Kept(n) + 1] /\ where[b.left[1]] # "gone"
<1>1. On({"run"}) /\ stack # <<>>
    BY DEF TakeBatch, On, Idle
<1>2. PICK n \in Scopes : n = Top.n
    BY <1>1, TopIs DEF Fit, Steps
<1>3. PICK batch : batch = Reverse(Among(SubSeq(live[n], Kept(n) + 1, Len(live[n])),
                                         {i \in Items : where[i] # "gone"}))
    OBVIOUS
<1>4. PICK b : b = [k |-> "batch", n |-> n, left |-> batch]
    OBVIOUS
<1>5. Standing(n) # {} /\ stack' = Append(Under, b)
    BY <1>2, <1>3, <1>4 DEF TakeBatch
<1>6. PICK u : u = Under
    OBVIOUS
<1>7. u \in Seq(ToSet(stack))
    BY <1>1, <1>6, FrontIsBelow DEF TypeOK, Under
<1>8. Stacks(Len(stack) - 1, {b})
  <2>1. Append(u, b) = u \o <<b>> /\ <<b>> \in Seq({b})
      BY <1>7, AppendIsJoin
  <2> QED BY <1>1, <1>5, <1>6, <2>1, StackReplace
<1>9. On({"batch"})' /\ Top' = b
  <2>1. /\ u \in Seq(ToSet(stack) \cup {b}) /\ b \in ToSet(stack) \cup {b}
      BY <1>7, SeqMonotonic
  <2>2. PICK r : r = Append(u, b)
      OBVIOUS
  <2>3. /\ r \in Seq(ToSet(stack) \cup {b}) /\ Len(r) = Len(u) + 1 /\ r[Len(u) + 1] = b
        /\ Len(u) \in Nat
      BY <2>1, <2>2
  <2>4. r # <<>> /\ Last(r) = b
      BY <2>3 DEF Last
  <2>5. stack' = r
      BY <1>5, <1>6, <2>2
  <2> QED BY <1>4, <2>4, <2>5 DEF On, Idle, Top
<1>10. b.k = "batch" /\ b.n = n /\ b.left = batch
    BY <1>4
<1>11. order[n] = "reverse" =>
           /\ Len(batch) = 1 /\ batch # <<>> /\ Head(batch) = batch[1]
           /\ batch[1] = live[n][Kept(n) + 1] /\ where[batch[1]] # "gone"
    BY <1>3, <1>5, BatchIs
<1> QED BY <1>1, <1>2, <1>5, <1>8, <1>9, <1>10, <1>11

\* A batch is taken.
LEMMA TakeBatchLasts == ASSUME Lasting, TakeBatch PROVE Entries /\ Prompt' /\ Unfinished'
<1> USE DEF Lasting
<1>1. /\ On({"run", "batch"}) /\ TypeOK /\ Framed /\ UNCHANGED <<home, order, detached, where, inv>>
    BY DEF TakeBatch, On, WInv, treeVars, entryVars
<1>2. Entries
    BY <1>1, IdleEntries
<1>3. PICK n, b :
          /\ n \in Scopes /\ n = Top.n /\ b.k = "batch" /\ b.n = n /\ Stacks(Len(stack) - 1, {b})
          /\ On({"batch"})' /\ Top' = b
          /\ order[n] = "reverse" => Len(b.left) = 1 /\ where[b.left[1]] # "gone"
    BY <1>1, BatchTaken
<1>4. Alone(b)
    BY <1>1, <1>3 DEF Alone
<1>5. PICK F : F = {}
    OBVIOUS
<1>6. {b} \cup F = {b} /\ \A f \in F : FALSE
    BY <1>5
<1> QED BY <1>1, <1>2, <1>3, <1>4, <1>6, BatchKept

\* Every step keeps what was released.
LEMMA NextLasts ==
    ASSUME Lasting, [Next]_vars PROVE Lasting' /\ Remains
<1>1. WInv'
    BY NextInvariant DEF Lasting
<1> DEFINE Goal == Entries /\ Prompt' /\ Unfinished'
<1>2. Entries /\ Aside => Goal
    BY AsideKept
<1> HIDE DEF Goal
<1>3. ASSUME NEW n \in Scopes, Setup(n) \/ Use(n) \/ OpenModule(n) \/ \E o : Child(n, o)
      PROVE  Goal
    BY <1>2, <1>3, RegisterLasts
<1>4. ASSUME NEW k \in Calls, NEW n \in Scopes, NEW e, NEW a, Close(k, n, e, a) PROVE Goal
    BY <1>2, <1>4, CloseLasts
<1>5. ASSUME NEW l \in Leaves, UserSettles(l) PROVE Goal
    BY <1>2, <1>5, EndLasts, ItemKinds
<1>6. ASSUME NEW c \in Scopes, JoinSettled(c) \/ VoidReleased(c) PROVE Goal
    BY <1>2, <1>6, EndLasts, ItemKinds
<1>7. ASSUME \/ \E k \in Calls : EscalateSignal(k) \/ AbandonSignal(k) \/ AnswerCall(k)
             \/ \E c \in Scopes : Unlink(c) \/ Resume(c)
             \/ SetupReturn \/ ListenerReturn \/ CloseReturn \/ WalkDone
             \/ StartFlight \/ DrainStep \/ AwaitSetups \/ AwaitBatch
      PROVE  Goal
    BY <1>2, <1>7, CalmLasts
<1>8. ASSUME CleanupReturn \/ CleanupThrow \/ CancelRun \/ Settle
             \/ NotifyVisit \/ CancelVisit \/ EscalateVisit
      PROVE  Goal
    BY <1>2, <1>8, CleanupLasts, CancelLasts, SettleLasts, WalkLasts
<1>9. ASSUME TakeBatch \/ InvokeLeaf \/ InvokeVoid \/ InvokeChild PROVE Goal
    BY <1>9, TakeBatchLasts, InvokeLasts DEF Goal
<1>10. ASSUME UNCHANGED vars PROVE Goal
  <2>1. UNCHANGED <<home, order, detached, where, inv, stack>>
      BY <1>10 DEF vars, treeVars, entryVars, turnVars
  <2>2. Entries
      BY <2>1, IdleEntries
  <2>3. Prompt' /\ Unfinished'
      BY <2>1 DEF Lasting, Prompt, Unfinished, On, Idle, Top
  <2> QED BY <2>2, <2>3 DEF Goal
<1>11. ASSUME Next PROVE Goal
    BY <1>3, <1>4, <1>5, <1>6, <1>7, <1>8, <1>9, <1>11
       DEF Next, UserStep, UserReturn, Machine, Continuation
<1>12. Goal
    BY <1>10, <1>11
<1> QED BY <1>1, <1>12 DEF Goal, Lasting, Entries

\* It holds at the start.
LEMMA InitLasting == Init => Lasting
<1> SUFFICES ASSUME Init PROVE Lasting
    OBVIOUS
<1>1. WInv
    BY InitInvariant
<1>2. Departed
    BY ItemKinds DEF Init, Departed
<1>3. ToSet(stack) = {}
    BY DEF Init, ToSet
<1>4. Unfinished /\ Prompt
    BY <1>3, ItemKinds DEF Init, Unfinished, Prompt
<1> QED BY <1>1, <1>2, <1>4 DEF Lasting

\* What was released of a reverse scope is out of the reach of its flights, in
\* every reachable state.
THEOREM LastingInvariant == Spec => []Lasting
<1>1. Lasting /\ [Next]_vars => Lasting'
    BY NextLasts
<1> QED BY <1>1, InitLasting, PTL DEF Spec

\* What a reverse scope has released is never released again, nor retried, by
\* whatever close, escalation or retry comes after it.
THEOREM GoneForGood == Spec => ReleasedForGood
<1> DEFINE Stays == \A i \in Items :
              home[i] # 0 /\ order[home[i]] = "reverse" /\ where[i] = "gone" => where'[i] = "gone"
<1>1. Lasting /\ [Next]_vars => [Stays]_vars
  <2> SUFFICES ASSUME Lasting, [Next]_vars, NEW i \in Items,
                      home[i] # 0, order[home[i]] = "reverse", where[i] = "gone"
               PROVE  where'[i] = "gone"
      OBVIOUS
  <2>1. Backward(i)
      BY DEF Backward, Lasting, WInv, TypeOK
  <2> QED BY <2>1, NextLasts DEF Remains
<1> QED BY <1>1, LastingInvariant, PTL DEF Spec, ReleasedForGood

-----------------------------------------------------------------------------
(* Walks over the tree.                                                    *)

\* The cursors of a walk, and what a walk carries: a notification visits only
\* scopes whose close was requested.
Cursors == [of : {"self", "children"}, at : Scopes, last : 0 .. NScopes]
Walk(f) == f.cur \in Seq(Cursors) /\ Len(f.cur) # 0
Marked(f) == f.k = "notify" => \A j \in 1 .. Len(f.cur) : requested[f.cur[j].at]
Walked == \A i \in 1 .. Len(stack) :
    stack[i].k \in WalkKinds => Walk(stack[i]) /\ Marked(stack[i])

\* What a cursor has ahead are scopes: its own, or children of its own.
LEMMA AheadIs ==
    ASSUME NEW c \in Cursors
    PROVE  /\ Ahead(c) \in SUBSET Scopes /\ Ahead(c) \in SUBSET Nat
           /\ \A x \in Ahead(c) : x > c.last /\ (x = c.at \/ x \in Kids(c.at))
           /\ c.of = "self" => Ahead(c) \subseteq {c.at}
<1>1. \A n \in Scopes : n \in Nat
    BY ScopeAssumption DEF Scopes
<1> QED BY <1>1 DEF Ahead, Kids, Cursors

\* A cursor that has not begun at its scope has it ahead.
LEMMA SelfAhead ==
    ASSUME NEW n \in Scopes, NEW c, c = [of |-> "self", at |-> n, last |-> 0]
    PROVE  c \in Cursors /\ Ahead(c) = {n}
<1>1. n > 0 /\ 0 \in 0 .. NScopes
    BY ScopeAssumption DEF Scopes
<1> QED BY <1>1 DEF Ahead, Cursors

\* A walk that begins.
LEMMA WalkFrameIs ==
    ASSUME NEW kind, NEW n \in Scopes, NEW f, f = WalkFrame(kind, n)
    PROVE  /\ f.k = kind /\ f.n = n /\ Walk(f) /\ Len(f.cur) = 1
           /\ f.cur[1] = [of |-> "self", at |-> n, last |-> 0] /\ Ahead(f.cur[1]) = {n}
<1>1. PICK c : c = [of |-> "self", at |-> n, last |-> 0]
    OBVIOUS
<1>2. f = [k |-> kind, n |-> n, cur |-> <<c>>]
    BY <1>1 DEF WalkFrame
<1>3. c \in Cursors /\ Ahead(c) = {n}
    BY <1>1, SelfAhead
<1>4. f.cur = <<c>> /\ <<c>> \in Seq(Cursors) /\ Len(<<c>>) = 1 /\ <<c>>[1] = c
    BY <1>2, <1>3
<1> QED BY <1>1, <1>2, <1>3, <1>4 DEF Walk

\* The cursor where the walk on top goes on, and the scope it goes on to.
LEMMA TurnIs ==
    ASSUME Walk(Top), Ready(Top.cur) # {}
    PROVE  /\ Turn \in 1 .. Len(Top.cur) /\ At \in Scopes
           /\ At \in Ahead(Top.cur[Turn])
           /\ \A x \in Ahead(Top.cur[Turn]) : At <= x
           /\ \A j \in 1 .. Len(Top.cur) : Ahead(Top.cur[j]) # {} => j <= Turn
<1>1. PICK cur : cur = Top.cur
    OBVIOUS
<1>2. cur \in Seq(Cursors) /\ Len(cur) \in Nat /\ DOMAIN cur = 1 .. Len(cur)
    BY <1>1 DEF Walk
<1>3. PICK S : S = Ready(cur)
    OBVIOUS
<1>4. \A j : j \in S <=> j \in 1 .. Len(cur) /\ Ahead(cur[j]) # {}
    BY <1>2, <1>3 DEF Ready
<1>5. Max(S) \in S /\ (\A x \in S : x <= Max(S)) /\ Turn = Max(S)
  <2>1. S \in SUBSET Nat /\ S # {} /\ \A x \in S : x <= Len(cur)
      BY <1>1, <1>2, <1>3, <1>4
  <2> QED BY <1>1, <1>2, <1>3, <2>1, MaxIsGreatest DEF Turn
<1>6. Turn \in 1 .. Len(cur) /\ \A j \in 1 .. Len(cur) : Ahead(cur[j]) # {} => j <= Turn
    BY <1>4, <1>5
<1>7. PICK c \in Cursors : c = cur[Turn]
    BY <1>2, <1>6
<1>8. Ahead(c) # {}
    BY <1>4, <1>5, <1>7
<1>9. Ahead(c) \in SUBSET Scopes /\ Ahead(c) \in SUBSET Nat
    BY AheadIs
<1>10. Min(Ahead(c)) \in Ahead(c) /\ \A x \in Ahead(c) : Min(Ahead(c)) <= x
    BY <1>8, <1>9, MinIsLeast
<1>11. At = Min(Ahead(c))
    BY <1>1, <1>7 DEF At
<1> QED BY <1>1, <1>6, <1>7, <1>9, <1>10, <1>11

\* What a visit leaves of the cursors: it passes At, and forgets only cursors that
\* have nothing ahead.
Leads(t, cur) ==
    /\ t \in Seq(Cursors) /\ Len(t) # 0
    /\ \A j \in 1 .. Len(t) : t[j].at = At \/ \E i \in 1 .. Len(cur) : t[j].at = cur[i].at
    /\ \A i \in 1 .. Len(cur) : \A x \in Ahead(cur[i]) :
         x # At => \E j \in 1 .. Len(t) : x \in Ahead(t[j])
    /\ t[1] = cur[1] \/ At \in Ahead(cur[1])

\* The walk passes the scope.
LEMMA PassedIs ==
    ASSUME Walk(Top), Ready(Top.cur) # {}
    PROVE  Leads(Passed, Top.cur) /\ Len(Passed) = Turn
<1>1. PICK cur : cur = Top.cur
    OBVIOUS
<1>2. PICK u \in 1 .. Len(cur) : u = Turn
    BY <1>1, TurnIs
<1>3. PICK a \in Scopes : a = At
    BY TurnIs
<1>4. cur \in Seq(Cursors) /\ Len(cur) \in Nat
    BY <1>1 DEF Walk
<1>5. /\ a \in Ahead(cur[u]) /\ \A x \in Ahead(cur[u]) : a <= x
      /\ \A j \in 1 .. Len(cur) : Ahead(cur[j]) # {} => j <= u
    BY <1>1, <1>2, <1>3, TurnIs
<1>6. PICK s : s = SubSeq(cur, 1, u)
    OBVIOUS
<1>7. s \in Seq(Cursors) /\ Len(s) = u /\ \A j \in 1 .. u : s[j] = cur[j]
    BY <1>2, <1>4, <1>6, SubSeqProperties
<1>8. PICK d : d = [cur[u] EXCEPT !.last = a]
    OBVIOUS
<1>9. cur[u] \in Cursors /\ a \in 0 .. NScopes /\ a \in Nat
    BY <1>2, <1>4, ScopeAssumption DEF Scopes
<1>10. d \in Cursors /\ d.at = cur[u].at /\ d.of = cur[u].of /\ d.last = a
    BY <1>8, <1>9 DEF Cursors
<1>11. PICK t : t = [s EXCEPT ![u] = d]
    OBVIOUS
<1>12. s \in [1 .. u -> Cursors] /\ u \in 1 .. u
    BY <1>7, <1>2
<1>13. /\ t \in Seq(Cursors) /\ Len(t) = u /\ t[u] = d
       /\ \A j \in 1 .. u : j # u => t[j] = cur[j]
  <2>1. t \in [1 .. u -> Cursors]
      BY <1>10, <1>11, <1>12
  <2>2. t \in Seq(Cursors) /\ Len(t) = u
      BY <2>1, <1>2, SeqDef
  <2> QED BY <2>2, <1>7, <1>11, <1>12
<1>14. Passed = t
  <2>1. [s EXCEPT ![u].last = a] = [s EXCEPT ![u] = [s[u] EXCEPT !.last = a]]
      OBVIOUS
  <2>2. [s EXCEPT ![u].last = a] = t
      BY <2>1, <1>7, <1>8, <1>11, <1>12
  <2> QED BY <2>2, <1>1, <1>2, <1>3, <1>6 DEF Passed
<1>15. ASSUME NEW i \in 1 .. Len(cur), NEW x \in Ahead(cur[i]), x # a
       PROVE  \E j \in 1 .. Len(t) : x \in Ahead(t[j])
  <2>1. i <= u
      BY <1>5, <1>15
  <2>2. CASE i = u
    <3>1. x \in Nat /\ x >= a /\ x > a
        BY <1>5, <1>9, <1>15, <2>2, AheadIs
    <3>2. x \in Ahead(d)
        BY <1>10, <1>15, <2>2, <3>1 DEF Ahead
    <3> QED BY <1>13, <3>2, <1>2
  <2>3. CASE i # u
      BY <1>13, <1>15, <2>1, <2>3
  <2> QED BY <2>2, <2>3
<1>16. \A j \in 1 .. Len(t) : \E i \in 1 .. Len(cur) : t[j].at = cur[i].at
    BY <1>2, <1>10, <1>13
<1>17. t[1] = cur[1] \/ a \in Ahead(cur[1])
    BY <1>5, <1>13, <1>2
<1>18. Leads(t, cur)
  <2>1. t \in Seq(Cursors) /\ Len(t) # 0
      BY <1>2, <1>13
  <2> QED BY <2>1, <1>3, <1>15, <1>16, <1>17, Zenon DEF Leads
<1> QED BY <1>1, <1>2, <1>13, <1>14, <1>18

\* The walk passes the scope and goes on to its children.
LEMMA EnteredIs ==
    ASSUME Walk(Top), Ready(Top.cur) # {}
    PROVE  /\ Leads(Entered, Top.cur)
           /\ \E j \in 1 .. Len(Entered) : Entered[j] = [of |-> "children", at |-> At, last |-> 0]
<1>1. PICK p \in Seq(Cursors) : p = Passed
    BY PassedIs DEF Leads
<1>2. Leads(p, Top.cur)
    BY <1>1, PassedIs
<1>3. PICK c : c = [of |-> "children", at |-> At, last |-> 0]
    OBVIOUS
<1>4. c \in Cursors /\ c.at = At
    BY <1>3, TurnIs, ScopeAssumption DEF Cursors
<1>5. PICK t : t = Append(p, c)
    OBVIOUS
<1>6. /\ t \in Seq(Cursors) /\ Len(t) = Len(p) + 1 /\ Len(p) \in Nat \ {0}
      /\ \A j \in 1 .. Len(p) : t[j] = p[j]
      /\ t[Len(p) + 1] = c
    BY <1>2, <1>4, <1>5, AppendProperties DEF Leads
<1>7. t = Entered
    BY <1>1, <1>3, <1>5 DEF Entered
<1>8. \A j \in 1 .. Len(t) : j \in 1 .. Len(p) \/ j = Len(p) + 1
    BY <1>6
<1>9. \A j \in 1 .. Len(t) : t[j].at = At \/ \E i \in 1 .. Len(Top.cur) : t[j].at = Top.cur[i].at
    BY <1>2, <1>4, <1>6, <1>8 DEF Leads
<1>10. ASSUME NEW i \in 1 .. Len(Top.cur), NEW x \in Ahead(Top.cur[i]), x # At
       PROVE  \E j \in 1 .. Len(t) : x \in Ahead(t[j])
  <2>1. PICK j \in 1 .. Len(p) : x \in Ahead(p[j])
      BY <1>2, <1>10 DEF Leads
  <2>2. j \in 1 .. Len(t) /\ t[j] = p[j]
      BY <1>6
  <2> QED BY <2>1, <2>2
<1>11. t[1] = Top.cur[1] \/ At \in Ahead(Top.cur[1])
    BY <1>2, <1>6 DEF Leads
<1>12. Leads(t, Top.cur)
    BY <1>6, <1>9, <1>10, <1>11 DEF Leads
<1> QED BY <1>3, <1>6, <1>7, <1>12

-----------------------------------------------------------------------------
(* Signals on their way.                                                   *)

\* The walks that tell abort listeners, and what walks of some kind will reach.
Tellers == {"notify", "cancel"}
Coming(kinds, c) == \E i \in 1 .. Len(stack) :
    stack[i].k \in kinds /\ \E j \in 1 .. Len(stack[i].cur) : c \in Ahead(stack[i].cur[j])
Attached(c) == home[c] # 0 /\ ~detached[c]

\* A notified scope was requested and is aborted; a requested scope that was not
\* notified is ahead of a notification, or its parent is not notified either; a
\* child that has not inherited an abort is ahead of a walk that brings it.
Heard == \A n \in Scopes : notified[n] => requested[n] /\ aborted[n]
Warned == \A n \in Scopes : requested[n] /\ ~notified[n] =>
    Coming({"notify"}, n) \/ (Attached(n) /\ requested[home[n]] /\ ~notified[home[n]])
Inherited == \A c \in Scopes : Attached(c) /\ aborted[home[c]] => aborted[c] \/ Coming(Tellers, c)

\* A flight that has been started was announced, and one that will be is announced first.
Begun == \A n \in Scopes : phase[n] \notin {"none", "open"} => notified[n]
Fresh(n) == [of |-> "self", at |-> n, last |-> 0]
Opening == \A i \in 1 .. Len(stack) : stack[i].k = "start" =>
    \/ notified[stack[i].n]
    \/ i + 1 <= Len(stack) /\ stack[i + 1].k = "notify" /\ stack[i + 1].cur[1] = Fresh(stack[i].n)

\* Scopes are numbered in the order of their creation, and requested after it.
Numbered ==
    /\ \A c \in Scopes : requested[c] => Created(c)
    /\ \A c \in Scopes : home[c] # 0 => home[c] < c
    /\ \A c, d \in Scopes : Created(c) /\ d < c => Created(d)

\* An escalate signal is linked to a call of close() on a scope.
CallType ==
    [on : {0} \cup Scopes, st : {"unused", "entered", "awaiting", "answered"},
     done : {"pending", "complete", "incomplete"},
     escalate : Signals, abandon : Signals, linked : BOOLEAN,
     answer : {"none", "complete", "incomplete", "snapshot-complete", "snapshot-incomplete"}]
Armed == call \in [Calls -> CallType] /\ \A k \in Calls : call[k].linked => call[k].on \in Scopes

SignalType == notified \in [Scopes -> BOOLEAN] /\ aborted \in [Scopes -> BOOLEAN]
Signalling == Heard /\ Warned /\ Inherited /\ Begun /\ Opening
SignalInv == WInv /\ Sealed /\ Armed /\ SignalType /\ Walked /\ Numbered /\ Signalling

\* Once nothing is on the stack, nothing is on its way, and every signal has arrived.
LEMMA SignalsArrived == ASSUME SignalInv PROVE SignalsReach
<1> SUFFICES ASSUME Idle
             PROVE  /\ \A n \in Scopes : requested[n] => notified[n] /\ aborted[n]
                    /\ \A c \in Scopes :
                         home[c] # 0 /\ ~detached[c] /\ aborted[home[c]] => aborted[c]
    BY DEF SignalsReach
<1> USE DEF SignalInv, Signalling
<1>1. \A kinds, c : ~Coming(kinds, c)
  <2>1. Len(stack) = 0
      BY DEF Idle
  <2> QED BY <2>1 DEF Coming
<1>2. ASSUME NEW n \in Scopes, requested[n], ~notified[n] PROVE FALSE
  <2> DEFINE S == {m \in Scopes : requested[m] /\ ~notified[m]}
  <2>1. S \in SUBSET Nat /\ S # {}
      BY <1>2, ScopeAssumption DEF Scopes
  <2>2. PICK m \in S : \A x \in S : m <= x
      BY <2>1, MinIsLeast
  <2>3. m \in Scopes /\ Attached(m) /\ requested[home[m]] /\ ~notified[home[m]]
      BY <1>1, <2>2 DEF Warned
  <2>4. home[m] \in Scopes /\ home[m] < m
      BY <2>3, ItemKinds DEF Attached, Numbered, WInv, TypeOK
  <2>5. home[m] \in S
      BY <2>3, <2>4
  <2>6. m <= home[m] /\ m \in Nat /\ home[m] \in Nat
      BY <2>1, <2>2, <2>5
  <2> QED BY <2>4, <2>6
<1>3. \A n \in Scopes : requested[n] => notified[n] /\ aborted[n]
    BY <1>2 DEF Heard
<1>4. \A c \in Scopes : home[c] # 0 /\ ~detached[c] /\ aborted[home[c]] => aborted[c]
    BY <1>1 DEF Inherited, Attached
<1> QED BY <1>3, <1>4

\* The step changes nothing on the stack but its top, and pops no walk of the kinds K
\* that has not arrived.
Turns(K, m, F) ==
    /\ Stacks(m, F)
    /\ \/ m = Len(stack)
       \/ m = Len(stack) - 1 /\ stack # <<>> /\ (Top.k \in K => Ready(Top.cur) = {})

\* The frames of a walk stay as they are.
LEMMA TurnsKeep ==
    ASSUME TypeOK, Walked, NEW K \in SUBSET WalkKinds, NEW m, NEW F, Turns(K, m, F),
           NEW i \in 1 .. Len(stack), stack[i].k \in K,
           NEW j \in 1 .. Len(stack[i].cur), NEW x \in Ahead(stack[i].cur[j])
    PROVE  i \in 1 .. Len(stack') /\ i <= m /\ stack'[i] = stack[i]
<1>1. /\ m \in 0 .. Len(stack) /\ m <= Len(stack') /\ \A a \in 1 .. m : stack'[a] = stack[a]
      /\ Len(stack) \in Nat /\ Len(stack') \in Nat
  <2>1. Stacks(m, F)
      BY DEF Turns
  <2> QED BY <2>1, OfItsOwn DEF Stacks, TypeOK
<1>2. CASE i <= m
    BY <1>1, <1>2
<1>3. CASE ~(i <= m)
  <2>1. m = Len(stack) - 1 /\ stack # <<>> /\ (Top.k \in K => Ready(Top.cur) = {})
      BY <1>1, <1>3 DEF Turns
  <2>2. i = Len(stack)
      BY <1>1, <1>3, <2>1
  <2>3. Top = stack[i]
      BY <2>1, <2>2, FrontIsBelow DEF TypeOK, Top
  <2>4. Walk(Top)
      BY <2>3 DEF Walked
  <2>5. DOMAIN Top.cur = 1 .. Len(Top.cur)
      BY <2>4 DEF Walk
  <2>6. j \in Ready(Top.cur)
      BY <2>3, <2>5 DEF Ready
  <2> QED BY <2>1, <2>3, <2>6
<1> QED BY <1>2, <1>3

\* What is ahead of a cursor stays ahead of it, but for scopes that leave.
LEMMA AheadStays ==
    ASSUME TypeOK, \A i \in Items : home[i] # 0 => home'[i] = home[i],
           NEW u \in Cursors, NEW x \in Ahead(u), detached'[x] => detached[x]
    PROVE  x \in Ahead(u)'
<1>1. x \in Scopes /\ x \in Items /\ x > u.last
    BY AheadIs, ItemKinds
<1>2. CASE u.of = "self"
    BY <1>1, <1>2 DEF Ahead
<1>3. CASE u.of # "self"
  <2>1. x \in Kids(u.at) /\ u.at # 0
      BY <1>3, ItemKinds DEF Ahead, Cursors
  <2>2. x \in Kids(u.at)'
      BY <1>1, <2>1 DEF Kids
  <2> QED BY <1>1, <1>3, <2>2 DEF Ahead
<1> QED BY <1>2, <1>3

\* So what is on its way stays on its way.
LEMMA ComingStays ==
    ASSUME TypeOK, Walked, NEW K \in SUBSET WalkKinds, NEW m, NEW F, Turns(K, m, F),
           \A i \in Items : home[i] # 0 => home'[i] = home[i], NEW kinds \in SUBSET K,
           NEW x \in Scopes, Coming(kinds, x), detached'[x] => detached[x]
    PROVE  Coming(kinds, x)'
<1>0. PICK i \in 1 .. Len(stack) :
        stack[i].k \in kinds /\ \E j \in 1 .. Len(stack[i].cur) : x \in Ahead(stack[i].cur[j])
    BY DEF Coming
<1>1. PICK j \in 1 .. Len(stack[i].cur) : stack[i].k \in kinds /\ x \in Ahead(stack[i].cur[j])
    BY <1>0
<1>2. stack[i].k \in WalkKinds /\ stack[i].k \in K
    BY <1>1
<1>3. i \in 1 .. Len(stack') /\ stack'[i] = stack[i]
    BY <1>1, <1>2, TurnsKeep
<1>4. stack[i].cur[j] \in Cursors
    BY <1>2 DEF Walked, Walk
<1>5. PICK u \in Cursors : u = stack[i].cur[j]
    BY <1>4
<1>6. x \in Ahead(u)'
    BY <1>1, <1>5, AheadStays
<1>7. j \in 1 .. Len(stack'[i].cur) /\ x \in Ahead(stack[i].cur[j])' /\ stack'[i].k \in kinds
  <2>1. stack'[i].cur[j] = u
      BY <1>3, <1>5
  <2>2. x \in Ahead(stack[i].cur[j])'
      BY <1>6, <2>1 DEF Ahead
  <2> QED BY <1>1, <1>3, <2>2
<1> QED BY <1>3, <1>7 DEF Coming

\* What may be put on the stack without opening a flight.
Put(f) == f.k # "start" /\ (f.k \in WalkKinds => Walk(f) /\ Marked(f)')

\* The walks on the stack stay good ones.
LEMMA WalkedStays ==
    ASSUME TypeOK, Walked, NEW m, NEW F, Stacks(m, F),
           \A f \in F : f.k \in WalkKinds => Walk(f) /\ Marked(f)',
           \A n \in Scopes : requested[n] => requested'[n]
    PROVE  Walked'
<1> SUFFICES ASSUME NEW i \in 1 .. Len(stack'), stack'[i].k \in WalkKinds
             PROVE  \A f : f = stack'[i] => Walk(f) /\ Marked(f)'
    BY DEF Walked, Walk, Marked
<1>1. /\ m \in 0 .. Len(stack) /\ Len(stack) \in Nat /\ \A a \in 1 .. m : stack'[a] = stack[a]
      /\ \A a \in 1 .. Len(stack') : a > m => stack'[a] \in F
      /\ Len(stack') \in Nat
    BY OfItsOwn DEF Stacks, TypeOK
<1>2. CASE i > m
    BY <1>1, <1>2
<1>3. CASE ~(i > m)
  <2>1. i \in 1 .. Len(stack) /\ stack'[i] = stack[i]
      BY <1>1, <1>3
  <2>2. PICK f : f = stack[i]
      OBVIOUS
  <2>3. Walk(f) /\ Marked(f)
      BY <2>1, <2>2 DEF Walked
  <2>4. \A j \in 1 .. Len(f.cur) : f.cur[j].at \in Scopes
    <3>1. PICK q : q = f.cur
        OBVIOUS
    <3>2. q \in Seq(Cursors)
        BY <2>3, <3>1 DEF Walk
    <3>3. \A j \in 1 .. Len(q) : q[j] \in Cursors
        BY <3>2
    <3>4. \A u \in Cursors : u.at \in Scopes
        BY DEF Cursors
    <3> QED BY <3>1, <3>3, <3>4
  <2>5. Marked(f)'
    <3>1. ASSUME f.k = "notify", NEW j \in 1 .. Len(f.cur) PROVE requested'[f.cur[j].at]
        BY <2>3, <2>4, <3>1 DEF Marked
    <3> QED BY <3>1, Zenon DEF Marked
  <2> QED BY <2>1, <2>2, <2>3, <2>5
<1> QED BY <1>2, <1>3

\* A flight that is announced first still is.
LEMMA OpeningStays ==
    ASSUME TypeOK, Framed, Walked, Opening, NEW m, NEW F, Turns({"notify"}, m, F),
           \A i \in 1 .. Len(stack') : i > m /\ stack'[i].k = "start" =>
             /\ i + 1 <= Len(stack') /\ stack'[i + 1].k = "notify"
             /\ stack'[i + 1].cur[1] = Fresh(stack'[i].n),
           \A n \in Scopes : notified[n] => notified'[n]
    PROVE  Opening'
<1> SUFFICES ASSUME NEW i \in 1 .. Len(stack'), stack'[i].k = "start"
             PROVE  \/ notified'[stack'[i].n]
                    \/ /\ i + 1 <= Len(stack') /\ stack'[i + 1].k = "notify"
                       /\ stack'[i + 1].cur[1] = Fresh(stack'[i].n)
    BY DEF Opening, Fresh
<1>1. /\ m \in 0 .. Len(stack) /\ Len(stack) \in Nat /\ \A a \in 1 .. m : stack'[a] = stack[a]
      /\ Len(stack') \in Nat
    BY OfItsOwn DEF Stacks, TypeOK, Turns
<1>2. CASE i > m
    BY <1>2
<1> SUFFICES ASSUME ~(i > m)
             PROVE  \/ notified'[stack'[i].n]
                    \/ /\ i + 1 <= Len(stack') /\ stack'[i + 1].k = "notify"
                       /\ stack'[i + 1].cur[1] = Fresh(stack'[i].n)
    BY <1>2
<1>3. i \in 1 .. Len(stack) /\ stack'[i] = stack[i]
    BY <1>1
<1>4. PICK f : f = stack[i]
    OBVIOUS
<1>5. f.k = "start" /\ f.n \in Scopes
  <2>1. f \in ToSet(stack)
      BY <1>3, <1>4, OfItsOwn DEF TypeOK
  <2> QED BY <1>3, <1>4, <2>1 DEF Framed, Fit, Steps
<1>6. CASE notified[f.n]
    BY <1>3, <1>4, <1>5, <1>6
<1>7. CASE i + 1 <= Len(stack) /\ stack[i + 1].k = "notify" /\ stack[i + 1].cur[1] = Fresh(f.n)
  <2>1. PICK j : j = i + 1
      OBVIOUS
  <2>2. j \in 1 .. Len(stack) /\ stack[j].k \in WalkKinds /\ {"notify"} \in SUBSET WalkKinds
      BY <1>1, <1>3, <1>7, <2>1 DEF WalkKinds
  <2>3. Walk(stack[j])
      BY <2>2 DEF Walked
  <2>4. 1 \in 1 .. Len(stack[j].cur)
      BY <2>3 DEF Walk
  <2>5. f.n \in Ahead(stack[j].cur[1])
    <3>1. PICK u : u = Fresh(f.n)
        OBVIOUS
    <3>2. f.n \in Ahead(u)
        BY <1>5, <3>1, SelfAhead DEF Fresh
    <3> QED BY <1>7, <2>1, <3>1, <3>2
  <2>6. j \in 1 .. Len(stack') /\ stack'[j] = stack[j]
      BY <1>7, <2>1, <2>2, <2>4, <2>5, TurnsKeep
  <2> QED BY <1>1, <1>3, <1>4, <1>7, <2>1, <2>6
<1> QED BY <1>3, <1>4, <1>5, <1>6, <1>7 DEF Opening

\* No scope is created.
LEMMA NumberedStays ==
    ASSUME Numbered, \A c \in Scopes : home'[c] = home[c],
           \A c \in Scopes : requested'[c] => requested[c] \/ Created(c)
    PROVE  Numbered'
BY DEF Numbered, Created

\* Steps that raise no signal.
Silently ==
    /\ UNCHANGED signalVars
    /\ \A c \in Scopes : home'[c] = home[c]
    /\ \A c \in Scopes : detached[c] => detached'[c]
    /\ \A c \in Scopes : detached'[c] => detached[c] \/ notified[c]
    /\ \A n \in Scopes : phase'[n] \notin {"none", "open"} =>
         phase[n] \notin {"none", "open"} \/ notified[n]

\* They keep the signals on their way.
LEMMA SilentSignals ==
    ASSUME SignalInv, Grown, Silently, NEW m, NEW F, Turns(Tellers, m, F), \A f \in F : Put(f)
    PROVE  SignalType' /\ Walked' /\ Numbered' /\ Signalling'
<1> USE DEF SignalInv, Signalling
<1>1. TypeOK /\ Framed /\ Stacks(m, F) /\ Tellers \in SUBSET WalkKinds /\ Turns({"notify"}, m, F)
    BY DEF WInv, Turns, Tellers, WalkKinds
<1>2. requested' = requested /\ notified' = notified /\ aborted' = aborted
    BY DEF Silently, signalVars
<1>3. Walked'
    BY <1>1, <1>2, WalkedStays DEF Put
<1>4. Opening'
  <2>1. \A i \in 1 .. Len(stack') : i > m => stack'[i].k # "start"
      BY <1>1 DEF Put, Stacks
  <2> QED BY <1>1, <1>2, <2>1, OpeningStays
<1>5. SignalType' /\ Numbered' /\ Heard' /\ Begun'
    BY <1>2, NumberedStays DEF SignalType, Silently, Heard, Begun
<1>6. \A i \in Items : home[i] # 0 => home'[i] = home[i]
    BY DEF Grown
<1>7. ASSUME NEW n \in Scopes, requested[n], ~notified[n]
      PROVE  Coming({"notify"}, n)' \/ (Attached(n)' /\ requested[home'[n]] /\ ~notified[home'[n]])
  <2>1. detached'[n] => detached[n]
      BY <1>7 DEF Silently
  <2>2. CASE Coming({"notify"}, n)
    <3>1. {"notify"} \in SUBSET Tellers
        BY DEF Tellers
    <3> QED BY <1>1, <1>6, <2>1, <2>2, <3>1, ComingStays
  <2>3. CASE Attached(n) /\ requested[home[n]] /\ ~notified[home[n]]
      BY <2>1, <2>3 DEF Attached, Silently
  <2> QED BY <1>7, <2>2, <2>3 DEF Warned
<1>8. Warned'
    BY <1>2, <1>7 DEF Warned
<1>9. ASSUME NEW c \in Scopes, Attached(c)', aborted[home'[c]] PROVE aborted[c] \/ Coming(Tellers, c)'
  <2>1. home'[c] = home[c] /\ home[c] # 0
      BY <1>9 DEF Attached, Silently
  <2>2. CASE detached[c]
    <3>1. detached'[c]
        BY <2>2 DEF Silently
    <3> QED BY <1>9, <3>1 DEF Attached
  <2>3. CASE ~detached[c]
    <3>1. aborted[c] \/ Coming(Tellers, c)
        BY <1>9, <2>1, <2>3 DEF Inherited, Attached
    <3>2. Tellers \in SUBSET WalkKinds /\ ~detached'[c]
        BY <1>9 DEF WalkKinds, Tellers, Attached
    <3>3. Coming(Tellers, c) => Coming(Tellers, c)'
        BY <1>1, <1>6, <3>2, ComingStays
    <3> QED BY <3>1, <3>3
  <2> QED BY <2>2, <2>3
<1>10. Inherited'
    BY <1>2, <1>9 DEF Inherited
<1> QED BY <1>3, <1>4, <1>5, <1>8, <1>10

\* What close() and #join put on the stack, in order: the start of the flight they
\* opened, if they did, the notification, and the escalation, if they were asked to.
LEMMA RestFrames ==
    ASSUME NEW n \in Scopes, NEW e \in BOOLEAN, NEW s, s = Frame("start", n),
           NEW w, w = WalkFrame("notify", n), NEW x, x = WalkFrame("escalate", n),
           NEW r, r = Rest(n, e)
    PROVE  /\ r \in Seq({s, w, x}) /\ Len(r) \in 1 .. 3
           /\ \E j \in 1 .. 2 : /\ j <= Len(r) /\ r[j] = w
                                /\ j = 2 => r[1] = s
                                /\ j = 2 <=> (phase[n] = "none" /\ HasFlight(n))
                                /\ Len(r) = IF e THEN j + 1 ELSE j
                                /\ e => r[j + 1] = x
<1>1. PICK opens \in BOOLEAN : opens <=> (phase[n] = "none" /\ HasFlight(n))
    OBVIOUS
<1>2. PICK F : F = {s, w, x}
    OBVIOUS
<1>3. PICK a, b : a = (IF opens THEN <<s>> ELSE <<>>) /\ b = (IF e THEN <<x>> ELSE <<>>)
    OBVIOUS
<1>4. /\ a \in Seq(F) /\ Len(a) = (IF opens THEN 1 ELSE 0) /\ (opens => a[1] = s)
      /\ b \in Seq(F) /\ Len(b) = (IF e THEN 1 ELSE 0) /\ (e => b[1] = x)
  <2>1. \A f \in F : <<f>> \in Seq(F) /\ Len(<<f>>) = 1 /\ <<f>>[1] = f
      OBVIOUS
  <2>2. <<>> \in Seq(F) /\ Len(<<>>) = 0
      OBVIOUS
  <2>3. a \in Seq(F) /\ Len(a) = (IF opens THEN 1 ELSE 0) /\ (opens => a[1] = s)
    <3>1. CASE opens
        BY <1>2, <1>3, <2>1, <3>1
    <3>2. CASE ~opens
        BY <1>3, <2>2, <3>2
    <3> QED BY <3>1, <3>2
  <2>4. b \in Seq(F) /\ Len(b) = (IF e THEN 1 ELSE 0) /\ (e => b[1] = x)
    <3>1. CASE e
        BY <1>2, <1>3, <2>1, <3>1
    <3>2. CASE ~e
        BY <1>3, <2>2, <3>2
    <3> QED BY <3>1, <3>2
  <2> QED BY <2>3, <2>4
<1>5. PICK u, g : g = <<w>> /\ u = a \o g
    OBVIOUS
<1>6. g \in Seq(F) /\ Len(g) = 1 /\ g[1] = w
    BY <1>2, <1>5
<1>7. /\ u \in Seq(F) /\ Len(u) = Len(a) + 1 /\ u[Len(a) + 1] = w
      /\ \A i \in 1 .. Len(a) : u[i] = a[i]
  <2>1. u \in Seq(F)
      BY <1>4, <1>5, <1>6, ConcatProperties
  <2>2. /\ Len(u) = Len(a) + Len(g) /\ (\A i \in 1 .. Len(a) : u[i] = a[i])
        /\ \A i \in 1 .. Len(g) : u[Len(a) + i] = g[i]
      BY <1>4, <1>5, <1>6, JoinIs
  <2>3. 1 \in 1 .. Len(g)
      BY <1>6
  <2> QED BY <1>6, <2>1, <2>2, <2>3
<1>8. r = u \o b
    BY <1>1, <1>3, <1>5 DEF Rest
<1>9. /\ r \in Seq(F) /\ Len(r) = Len(u) + Len(b) /\ (\A i \in 1 .. Len(u) : r[i] = u[i])
      /\ \A i \in 1 .. Len(b) : r[Len(u) + i] = b[i]
  <2>1. r \in Seq(F)
      BY <1>4, <1>7, <1>8, ConcatProperties
  <2>2. /\ Len(u \o b) = Len(u) + Len(b) /\ (\A i \in 1 .. Len(u) : (u \o b)[i] = u[i])
        /\ \A i \in 1 .. Len(b) : (u \o b)[Len(u) + i] = b[i]
    <3>1. u \in Seq(F) /\ b \in Seq(F)
        BY <1>4, <1>7
    <3> QED BY <3>1, JoinIs
  <2> QED BY <1>8, <2>1, <2>2, Zenon
<1>10. PICK j : j = Len(a) + 1
    OBVIOUS
<1>11. j \in 1 .. 2 /\ (j = 2 <=> opens) /\ Len(u) = j
    BY <1>4, <1>7, <1>10
<1>12. r[j] = w /\ (j = 2 => r[1] = s)
  <2>1. j \in 1 .. Len(u) /\ 1 \in 1 .. Len(u) /\ (j = 2 => 1 \in 1 .. Len(a))
    <3>1. CASE opens
        BY <1>4, <1>11, <3>1
    <3>2. CASE ~opens
        BY <1>4, <1>11, <3>2
    <3> QED BY <3>1, <3>2
  <2>2. r[j] = u[j] /\ r[1] = u[1] /\ (j = 2 => u[1] = a[1])
      BY <1>7, <1>9, <2>1
  <2> QED BY <1>4, <1>7, <1>10, <1>11, <2>2
<1>13. Len(r) = (IF e THEN j + 1 ELSE j) /\ (e => r[j + 1] = x)
    BY <1>4, <1>9, <1>11
<1>14. Len(r) \in 1 .. 3 /\ j <= Len(r)
    BY <1>11, <1>13
<1> QED BY <1>1, <1>2, <1>9, <1>11, <1>12, <1>13, <1>14

\* A place above the frame put first.
LEMMA PlaceAfter ==
    ASSUME NEW m \in Nat, NEW l \in Nat, NEW i \in 1 .. (m + 1 + l), i > m, i # m + 1
    PROVE  i - m - 1 \in 1 .. l /\ i = m + 1 + (i - m - 1)
OBVIOUS

\* The step puts t and then the frames r on the lowest m frames.
Stands(m, t, F, r) ==
    /\ Stacks(m, F \cup {t}) /\ Len(stack') = m + 1 + Len(r) /\ stack'[m + 1] = t
    /\ \A i \in 1 .. Len(r) : stack'[m + 1 + i] = r[i]

\* Where these frames stand on the stack of a call, or of a batch that joins a child.
LEMMA Placed ==
    ASSUME TypeOK, NEW q, q = stack \/ (q = Under /\ stack # <<>>), NEW t, NEW F, NEW r \in Seq(F),
           stack' = (q \o <<t>>) \o r, NEW m, m = IF q = stack THEN Len(stack) ELSE Len(stack) - 1
    PROVE  Stands(m, t, F, r)
<1>1. PICK G : G = ToSet(stack)
    OBVIOUS
<1>2. stack \in Seq(G) /\ Len(stack) \in Nat
    BY <1>1, OfItsOwn DEF TypeOK
<1>3. q \in Seq(G) /\ Len(q) = m /\ m \in 0 .. Len(stack) /\ \A i \in 1 .. m : q[i] = stack[i]
  <2>1. CASE q = stack
      BY <1>2, <2>1
  <2>2. CASE q # stack
    <3>1. q = Under /\ stack # <<>>
        BY <2>2
    <3>2. /\ Under \in Seq(G) /\ Len(stack) \in Nat \ {0} /\ Len(Under) = Len(stack) - 1
          /\ \A i \in 1 .. Len(stack) - 1 : Under[i] = stack[i]
        BY <1>2, <3>1, FrontIsBelow DEF Under
    <3> QED BY <2>2, <3>1, <3>2
  <2> QED BY <2>1, <2>2
<1>4. PICK g, u : g = <<t>> /\ u = q \o g
    OBVIOUS
<1>5. g \in Seq({t}) /\ Len(g) = 1 /\ g[1] = t
    BY <1>4
<1>6. /\ u \in Seq(ToSet(u)) /\ Len(u) = m + 1 /\ (\A i \in 1 .. m : u[i] = stack[i]) /\ u[m + 1] = t
  <2>0. /\ q \o g \in Seq(ToSet(q \o g)) /\ Len(q \o g) = Len(q) + Len(g)
        /\ (\A i \in 1 .. Len(q) : (q \o g)[i] = q[i])
        /\ \A i \in 1 .. Len(g) : (q \o g)[Len(q) + i] = g[i]
    <3>1. q \in Seq(G) /\ g \in Seq({t})
        BY <1>3, <1>5
    <3> QED BY <3>1, JoinIs
  <2>1. /\ u \in Seq(ToSet(u)) /\ Len(u) = Len(q) + Len(g) /\ (\A i \in 1 .. Len(q) : u[i] = q[i])
        /\ \A i \in 1 .. Len(g) : u[Len(q) + i] = g[i]
      BY <1>4, <2>0, Zenon
  <2>2. 1 \in 1 .. Len(g)
      BY <1>5
  <2> QED BY <1>3, <1>5, <2>1, <2>2
<1>7. /\ stack' \in Seq(ToSet(stack')) /\ Len(stack') = m + 1 + Len(r) /\ Len(r) \in Nat
      /\ \A i \in 1 .. m + 1 : stack'[i] = u[i]
      /\ \A i \in 1 .. Len(r) : stack'[m + 1 + i] = r[i]
  <2>1. stack' = u \o r
      BY <1>4
  <2>2. /\ u \o r \in Seq(ToSet(u \o r)) /\ Len(u \o r) = Len(u) + Len(r) /\ Len(r) \in Nat
        /\ (\A i \in 1 .. Len(u) : (u \o r)[i] = u[i])
        /\ \A i \in 1 .. Len(r) : (u \o r)[Len(u) + i] = r[i]
    <3>1. u \in Seq(ToSet(u)) /\ r \in Seq(F)
        BY <1>6
    <3> QED BY <3>1, JoinIs
  <2> QED BY <1>6, <2>1, <2>2
<1>8. m \in Nat /\ stack'[m + 1] = t /\ \A i \in 1 .. m : stack'[i] = stack[i]
    BY <1>3, <1>6, <1>7
<1>9. ASSUME NEW i \in 1 .. Len(stack'), i > m PROVE stack'[i] \in F \cup {t}
  <2>1. CASE i = m + 1
      BY <1>8, <2>1
  <2>2. CASE i # m + 1
    <3>1. PICK d : d = i - m - 1
        OBVIOUS
    <3>2. Len(stack') = m + 1 + Len(r) /\ m \in Nat /\ Len(r) \in Nat
        BY <1>7, <1>8
    <3>3. d \in 1 .. Len(r) /\ i = m + 1 + d
      <4>1. m \in Nat /\ Len(r) \in Nat /\ i \in 1 .. (m + 1 + Len(r)) /\ i > m /\ i # m + 1
          BY <1>9, <2>2, <3>2
      <4>2. i - m - 1 \in 1 .. Len(r) /\ i = m + 1 + (i - m - 1)
          BY <4>1, PlaceAfter
      <4> QED BY <3>1, <4>2
    <3>4. r[d] \in F
      <4>1. \A j \in 1 .. Len(r) : r[j] \in F
          OBVIOUS
      <4> QED BY <3>3, <4>1
    <3>5. stack'[m + 1 + d] = r[d]
        BY <1>7, <3>3
    <3> QED BY <3>3, <3>4, <3>5, Zenon
  <2> QED BY <2>1, <2>2
<1> QED BY <1>3, <1>7, <1>8, <1>9 DEF Stacks, Stands

\* A scope that is newly requested was reached from an open scope.
LEMMA UnsealedFrom ==
    ASSUME NEW n \in Scopes, NEW c \in Unsealed(n), c # n
    PROVE  /\ c \in Scopes /\ ~requested[c]
           /\ \E a \in Unsealed(n) : a \in Scopes /\ c \in Kids(a) /\ ~requested[a]
<1> DEFINE open == {m \in Scopes : ~requested[m]}
           next == [a \in Scopes |-> Kids(a) \cap open]
           T == {m \in open : m = n \/ \E a \in Reach(n, next) : a \in open /\ m \in Kids(a)}
           U == T \cap Reach(n, next)
<1>1. n \in open /\ Unsealed(n) = Reach(n, next)
    BY DEF Unsealed
<1>2. \A x \in Scopes : next[x] \subseteq Scopes
    BY DEF Kids
<1>3. U \in SUBSET Scopes /\ n \in U
    BY <1>1, ReachRoot
<1>4. ASSUME NEW a \in U, NEW b \in next[a] PROVE b \in U
  <2>1. a \in open /\ a \in Scopes /\ a \in Reach(n, next)
      OBVIOUS
  <2>2. b \in Kids(a) /\ b \in open
      BY <1>4, <2>1
  <2>3. b \in Reach(n, next)
      BY <1>2, <1>4, <2>1, ReachClosed
  <2> QED BY <2>1, <2>2, <2>3
<1>5. c \in U
  <2>1. c \in Reach(n, next)
      BY <1>1
  <2> HIDE DEF U, next
  <2>2. n \in U /\ \A a \in U : next[a] \subseteq U
      BY <1>3, <1>4
  <2> QED BY <1>3, <2>1, <2>2 DEF Reach
<1> QED BY <1>1, <1>5

\* What taking a flight does to the tree and to the flight.
LEMMA FlightTaken ==
    ASSUME TypeOK, NEW n \in Scopes, NEW v \in [Items -> States], TakeFlight(n, v)
    PROVE  /\ \A c \in Scopes : requested'[c] <=> requested[c] \/ c \in Unsealed(n)
           /\ requested'[n]
           /\ \A c \in Scopes : c # n => (detached'[c] <=> detached[c])
           /\ \A c \in Scopes : detached[c] => detached'[c]
           /\ \A c \in Scopes : phase'[c] = phase[c] \/ phase'[c] = "open"
<1>1. requested' = [m \in Scopes |-> requested[m] \/ m \in Unsealed(n)]
    BY DEF TakeFlight
<1>2. requested'[n]
    BY TakeFlightIs
<1>3. detached' = detached \/ detached' = [detached EXCEPT ![n] = TRUE]
    BY TakeFlightIs DEF Leaving
<1>4. phase' = phase \/ phase' = [phase EXCEPT ![n] = "open"]
    BY TakeFlightIs
<1>5. /\ \A c \in Scopes : c # n => (detached'[c] <=> detached[c])
      /\ \A c \in Scopes : detached[c] => detached'[c]
    BY <1>3 DEF TypeOK
<1>6. \A c \in Scopes : phase'[c] = phase[c] \/ phase'[c] = "open"
    BY <1>4 DEF TypeOK
<1> QED BY <1>1, <1>2, <1>5, <1>6

\* The frame t, and on it what close() and #join put, go on the stack q.
Follows(n, e, t, q) ==
    /\ t.k \in {"answer", "batch"}
    /\ q = stack \/ (q = Under /\ On({"batch"}))
    /\ stack' = (q \o <<t>>) \o Rest(n, e)

\* The step puts a notification of n on the stack, and nothing starts a flight there
\* but what has its notification right above.
Announces(n, m, F) ==
    /\ Turns(WalkKinds, m, F)
    /\ \A f \in F : f.k \in WalkKinds => Walk(f) /\ Marked(f)'
    /\ \A i \in 1 .. Len(stack') : i > m /\ stack'[i].k = "start" =>
         /\ i + 1 <= Len(stack') /\ stack'[i + 1].k = "notify"
         /\ stack'[i + 1].cur[1] = Fresh(stack'[i].n)
    /\ \E i \in 1 .. Len(stack') : stack'[i] = WalkFrame("notify", n)

\* The stack of a call, or of a batch that joins a child: a notification of the scope,
\* and right below it the start of its flight, if there is one to start.
LEMMA FlightFrames ==
    ASSUME TypeOK, NEW n \in Scopes, NEW e \in BOOLEAN, NEW t, NEW q, Follows(n, e, t, q), requested'[n]
    PROVE  \E m, F : Announces(n, m, F)
<1>1. PICK s, w, x : s = Frame("start", n) /\ w = WalkFrame("notify", n) /\ x = WalkFrame("escalate", n)
    OBVIOUS
<1>2. PICK r : r = Rest(n, e)
    OBVIOUS
<1>3. /\ r \in Seq({s, w, x}) /\ Len(r) \in 1 .. 3
      /\ \E j \in 1 .. 2 : /\ j <= Len(r) /\ r[j] = w
                           /\ j = 2 => r[1] = s
                           /\ j = 2 <=> (phase[n] = "none" /\ HasFlight(n))
                           /\ Len(r) = IF e THEN j + 1 ELSE j
                           /\ e => r[j + 1] = x
    BY <1>1, <1>2, RestFrames
<1>4. PICK j \in 1 .. 2 : /\ j <= Len(r) /\ r[j] = w /\ (j = 2 => r[1] = s)
                          /\ Len(r) = (IF e THEN j + 1 ELSE j) /\ (e => r[j + 1] = x)
    BY <1>3
<1>5. /\ w.k = "notify" /\ Walk(w) /\ w.cur[1] = Fresh(n) /\ Len(w.cur) = 1
      /\ x.k = "escalate" /\ Walk(x) /\ s.k = "start" /\ s.n = n
    BY <1>1, WalkFrameIs DEF Frame, Fresh
<1>6. PICK m : m = IF q = stack THEN Len(stack) ELSE Len(stack) - 1
    OBVIOUS
<1>7. /\ q = stack \/ (q = Under /\ stack # <<>> /\ On({"batch"}))
      /\ t.k \in {"answer", "batch"} /\ stack' = (q \o <<t>>) \o Rest(n, e)
    BY DEF On, Idle, Follows
<1>8. PICK F : F = {s, w, x} \cup {t}
    OBVIOUS
<1>9. /\ Stacks(m, F) /\ Len(stack') = m + 1 + Len(r) /\ stack'[m + 1] = t
      /\ \A i \in 1 .. Len(r) : stack'[m + 1 + i] = r[i]
  <2>1. stack' = (q \o <<t>>) \o r
      BY <1>2, <1>7
  <2>2. PICK G : G = {s, w, x}
      OBVIOUS
  <2>3. r \in Seq(G)
      BY <1>3, <2>2
  <2>4. Stands(m, t, G, r)
      BY <1>6, <1>7, <2>1, <2>3, Placed
  <2> QED BY <1>8, <2>2, <2>4 DEF Stands
<1>10. m \in Nat /\ Len(r) \in Nat
  <2>1. m \in 0 .. Len(stack) /\ Len(stack) \in Nat
      BY <1>9, OfItsOwn DEF Stacks, TypeOK
  <2> QED BY <1>3, <2>1
<1>11. Turns(WalkKinds, m, F)
  <2>1. CASE q = stack
      BY <1>6, <1>9, <2>1 DEF Turns
  <2>2. CASE q # stack
    <3>1. On({"batch"}) /\ stack # <<>> /\ Top.k \notin WalkKinds
        BY <1>7, <2>2 DEF On, Idle, WalkKinds
    <3> QED BY <1>6, <1>9, <2>2, <3>1 DEF Turns
  <2> QED BY <2>1, <2>2
<1>12. \A f \in F : f.k \in WalkKinds => Walk(f) /\ Marked(f)'
  <2>1. Marked(w)'
    <3>1. \A i \in 1 .. Len(w.cur) : i = 1
        BY <1>5
    <3>2. \A i \in 1 .. Len(w.cur) : requested'[w.cur[i].at]
        BY <1>5, <3>1 DEF Fresh
    <3> QED BY <3>2, Zenon DEF Marked
  <2>2. Marked(x)'
      BY <1>5 DEF Marked
  <2>3. s.k \notin WalkKinds /\ t.k \notin WalkKinds
      BY <1>5, <1>7 DEF WalkKinds
  <2> QED BY <1>5, <1>8, <2>1, <2>2, <2>3
<1>13. ASSUME NEW i \in 1 .. Len(stack'), i > m, stack'[i].k = "start"
       PROVE  /\ i + 1 <= Len(stack') /\ stack'[i + 1].k = "notify"
              /\ stack'[i + 1].cur[1] = Fresh(stack'[i].n)
  <2>1. i # m + 1
      BY <1>7, <1>9, <1>13
  <2>2. PICK d : d = i - m - 1
      OBVIOUS
  <2>3. d \in 1 .. Len(r) /\ i = m + 1 + d
    <3>1. i \in 1 .. (m + 1 + Len(r))
        BY <1>9
    <3> QED BY <1>10, <1>13, <2>1, <2>2, <3>1, PlaceAfter
  <2>4. stack'[i] = r[d]
      BY <1>9, <2>3
  <2>5. d = 1 /\ j = 2
    <3>1. r[d].k = "start"
        BY <1>13, <2>4
    <3>2. d # j
        BY <1>4, <1>5, <3>1
    <3>3. ~(e /\ d = j + 1)
        BY <1>4, <1>5, <3>1
    <3>4. d <= j
      <4>1. CASE e
          BY <1>4, <2>3, <3>3, <4>1
      <4>2. CASE ~e
          BY <1>4, <2>3, <4>2
      <4> QED BY <4>1, <4>2
    <3> QED BY <1>4, <2>3, <3>2, <3>4
  <2>6. 2 \in 1 .. Len(r) /\ r[2] = w /\ r[1] = s /\ i + 1 = m + 1 + 2
      BY <1>3, <1>4, <1>10, <2>3, <2>5
  <2>7. stack'[i + 1] = w /\ stack'[i].n = n /\ i + 1 <= Len(stack')
    <3>1. stack'[m + 1 + 2] = r[2]
        BY <1>9, <2>6
    <3>2. stack'[i + 1] = w
        BY <2>6, <3>1
    <3>3. i + 1 <= Len(stack')
        BY <1>9, <1>10, <2>6
    <3> QED BY <1>5, <2>4, <2>5, <2>6, <3>2, <3>3
  <2> QED BY <1>5, <2>7
<1>14. \E i \in 1 .. Len(stack') : stack'[i] = w
  <2>1. j \in 1 .. Len(r)
      BY <1>3, <1>4
  <2>2. stack'[m + 1 + j] = w
      BY <1>4, <1>9, <2>1
  <2>3. m + 1 + j \in 1 .. Len(stack')
      BY <1>9, <1>10, <2>1
  <2> QED BY <2>2, <2>3
<1>15. Announces(n, m, F)
    BY <1>1, <1>11, <1>12, <1>13, <1>14, Zenon DEF Announces
<1> QED BY <1>15

\* Taking a flight puts a notification of its scope on the way, and whatever it
\* requests besides waits for its parent.
LEMMA FlightSignals ==
    ASSUME SignalInv, Grown, NEW n \in Scopes, Created(n), NEW v \in [Items -> States], TakeFlight(n, v),
           UNCHANGED <<home, notified, aborted>>, NEW e \in BOOLEAN, NEW t, NEW q, Follows(n, e, t, q)
    PROVE  SignalType' /\ Walked' /\ Numbered' /\ Signalling'
<1> USE DEF SignalInv, Signalling
<1>1. TypeOK /\ Framed
    BY DEF WInv
<1>2. /\ \A c \in Scopes : requested'[c] <=> requested[c] \/ c \in Unsealed(n)
      /\ requested'[n]
      /\ \A c \in Scopes : c # n => (detached'[c] <=> detached[c])
      /\ \A c \in Scopes : detached[c] => detached'[c]
      /\ \A c \in Scopes : phase'[c] = phase[c] \/ phase'[c] = "open"
    BY <1>1, FlightTaken
<1>3. PICK m, F : Announces(n, m, F)
  <2>1. requested'[n]
      BY <1>2
  <2> QED BY <1>1, <2>1, FlightFrames
<1>4. /\ \A i \in Items : home[i] # 0 => home'[i] = home[i]
      /\ Stacks(m, F) /\ Turns(WalkKinds, m, F) /\ \A f \in F : f.k \in WalkKinds => Walk(f) /\ Marked(f)'
  <2>1. Turns(WalkKinds, m, F) /\ \A f \in F : f.k \in WalkKinds => Walk(f) /\ Marked(f)'
      BY <1>3, Zenon DEF Announces
  <2>2. Stacks(m, F)
      BY <2>1 DEF Turns
  <2> QED BY <2>1, <2>2
<1>5. Walked' /\ Opening' /\ Numbered'
  <2>1. Walked'
      BY <1>1, <1>2, <1>4, WalkedStays
  <2>2. ASSUME NEW c \in Scopes, requested'[c], ~requested[c], c # n PROVE Created(c)
    <3>1. \E a \in Unsealed(n) : a \in Scopes /\ c \in Kids(a)
        BY <1>2, <2>2, UnsealedFrom
    <3> QED BY <3>1, ItemKinds DEF Kids, Created
  <2>3. Numbered'
      BY <2>2, NumberedStays
  <2>4. Opening'
    <3>1. Turns({"notify"}, m, F)
        BY <1>4 DEF Turns, WalkKinds
    <3> QED BY <1>1, <1>3, <1>4, <3>1, OpeningStays DEF Announces
  <2> QED BY <2>1, <2>3, <2>4
<1>6. SignalType' /\ Heard' /\ Begun'
  <2>1. SignalType'
      BY DEF SignalType
  <2>2. Heard'
    <3>1. ASSUME NEW c \in Scopes, notified[c] PROVE requested'[c] /\ aborted[c]
        BY <1>2, <3>1 DEF Heard
    <3> QED BY <3>1 DEF Heard
  <2>3. Begun'
      BY <1>2 DEF Begun
  <2> QED BY <2>1, <2>2, <2>3
<1>7. Coming({"notify"}, n)'
  <2>1. PICK i \in 1 .. Len(stack') : stack'[i] = WalkFrame("notify", n)
      BY <1>3 DEF Announces
  <2>2. PICK f : f = WalkFrame("notify", n)
      OBVIOUS
  <2>3. f.k = "notify" /\ Len(f.cur) = 1 /\ f.cur[1] = Fresh(n)
      BY <2>2, WalkFrameIs DEF Fresh
  <2>4. n \in Ahead(Fresh(n))'
      BY ScopeAssumption DEF Fresh, Ahead, Scopes
  <2>5. 1 \in 1 .. Len(stack'[i].cur) /\ stack'[i].k = "notify" /\ stack'[i].cur[1] = Fresh(n)
      BY <2>1, <2>2, <2>3
  <2>6. \E j \in 1 .. Len(stack'[i].cur) : n \in Ahead(stack[i].cur[j])'
      BY <2>4, <2>5 DEF Ahead, Fresh
  <2> QED BY <2>5, <2>6 DEF Coming
<1>8. ASSUME NEW c \in Scopes, c # n, requested'[c], ~notified[c]
      PROVE  Coming({"notify"}, c)' \/ (Attached(c)' /\ requested'[home[c]] /\ ~notified[home[c]])
  <2>1. CASE requested[c] /\ Coming({"notify"}, c)
    <3>1. {"notify"} \in SUBSET WalkKinds
        BY DEF WalkKinds
    <3> QED BY <1>1, <1>2, <1>4, <1>8, <2>1, <3>1, ComingStays
  <2>2. CASE requested[c] /\ Attached(c) /\ requested[home[c]] /\ ~notified[home[c]]
    <3>1. home[c] \in Scopes
        BY <1>1, <2>2, ItemKinds DEF TypeOK, Attached
    <3> QED BY <1>2, <1>8, <2>2, <3>1 DEF Attached
  <2>3. CASE ~requested[c]
    <3>1. c \in Unsealed(n)
        BY <1>2, <1>8, <2>3
    <3>2. PICK a \in Unsealed(n) : a \in Scopes /\ c \in Kids(a) /\ ~requested[a]
        BY <1>8, <3>1, UnsealedFrom
    <3>3. home[c] = a /\ ~detached[c] /\ a # 0
        BY <3>2, ItemKinds DEF Kids
    <3>4. requested'[a] /\ ~notified[a]
        BY <1>2, <3>2 DEF Heard
    <3> QED BY <1>2, <1>8, <3>3, <3>4 DEF Attached
  <2> QED BY <1>8, <2>1, <2>2, <2>3 DEF Warned
<1>9. Warned'
    BY <1>7, <1>8 DEF Warned
<1>10. ASSUME NEW c \in Scopes, Attached(c)', aborted[home[c]] PROVE aborted[c] \/ Coming(Tellers, c)'
  <2>1. home[c] # 0 /\ ~detached'[c] /\ ~detached[c]
      BY <1>2, <1>10 DEF Attached
  <2>2. aborted[c] \/ Coming(Tellers, c)
      BY <1>10, <2>1 DEF Inherited, Attached
  <2>3. Tellers \in SUBSET WalkKinds
      BY DEF WalkKinds, Tellers
  <2>4. Coming(Tellers, c) => Coming(Tellers, c)'
      BY <1>1, <1>4, <2>1, <2>3, ComingStays
  <2> QED BY <2>2, <2>4
<1>11. Inherited'
    BY <1>10 DEF Inherited
<1> QED BY <1>5, <1>6, <1>9, <1>11

\* The walk on top goes on as t, perhaps below the listener l that it called.
Onward(cur, t, l) ==
    /\ t.k = Top.k /\ t.n = Top.n /\ t.cur = cur /\ l.k = "listener"
    /\ Stacks(Len(stack) - 1, {t, l})
    /\ Len(stack) \in 1 .. Len(stack') /\ stack'[Len(stack)] = t

\* The stack after a visit.
LEMMA VisitStack ==
    ASSUME TypeOK, Framed, On(WalkKinds), NEW cur, NEW b, stack' = Visited(cur, b)
    PROVE  \E t, l : Onward(cur, t, l)
<1>1. stack # <<>> /\ Top.k \in WalkKinds /\ Fit(Top)
    BY TopIs
<1>2. PICK t, l : t = [Top EXCEPT !.cur = cur] /\ l = Frame("listener", At)
    OBVIOUS
<1>3. t.k = Top.k /\ t.n = Top.n /\ t.cur = cur /\ l.k = "listener"
  <2>1. Top = [k |-> Top.k, n |-> Top.n, cur |-> Top.cur]
      BY <1>1 DEF Fit
  <2>2. t = [k |-> Top.k, n |-> Top.n, cur |-> cur]
      BY <1>2, <2>1
  <2> QED BY <1>2, <2>2 DEF Frame
<1>4. PICK F : F = {t, l}
    OBVIOUS
<1>5. PICK r : r = IF b THEN <<l>> ELSE <<>>
    OBVIOUS
<1>6. t \in F /\ r \in Seq(F) /\ Len(r) \in Nat
  <2>1. <<l>> \in Seq(F) /\ <<>> \in Seq(F)
      BY <1>4
  <2>2. CASE b
      BY <1>4, <1>5, <2>1, <2>2
  <2>3. CASE ~b
      BY <1>4, <1>5, <2>1, <2>3
  <2> QED BY <2>2, <2>3
<1>7. stack' = Append(Under, t) \o r
  <2>1. r = IF b THEN <<Frame("listener", At)>> ELSE <<>>
      BY <1>2, <1>5
  <2>2. stack' = Append(Under, [Top EXCEPT !.cur = cur]) \o (IF b THEN <<Frame("listener", At)>> ELSE <<>>)
      BY DEF Visited
  <2> QED BY <1>2, <2>1, <2>2
<1>8. Stacks(Len(stack) - 1, F)
    BY <1>1, <1>6, <1>7, StackTurn
<1>9. Len(stack) \in 1 .. Len(stack') /\ stack'[Len(stack)] = t
  <2>1. PICK T, u : T = ToSet(stack) /\ u = Under
      OBVIOUS
  <2>2. u \in Seq(T) /\ Len(stack) \in Nat \ {0} /\ Len(u) = Len(stack) - 1
      BY <1>1, <2>1, FrontIsBelow DEF TypeOK, Under
  <2>3. PICK g : g = Append(u, t)
      OBVIOUS
  <2>4. /\ g \in Seq(T \cup F) /\ Len(g) = Len(stack) /\ g[Len(stack)] = t
    <3>1. u \in Seq(T \cup F) /\ t \in T \cup F
        BY <1>6, <2>2, SeqMonotonic
    <3>2. g \in Seq(T \cup F) /\ Len(g) = Len(u) + 1 /\ g[Len(u) + 1] = t
        BY <2>3, <3>1, AppendProperties
    <3>3. Len(u) + 1 = Len(stack)
        BY <2>2
    <3> QED BY <3>2, <3>3
  <2>5. /\ Len(g \o r) = Len(g) + Len(r) /\ \A i \in 1 .. Len(g) : (g \o r)[i] = g[i]
    <3>1. g \in Seq(T \cup F) /\ r \in Seq(F)
        BY <1>6, <2>4
    <3> QED BY <3>1, JoinIs
  <2>6. stack' = g \o r
      BY <1>7, <2>1, <2>3
  <2>7. Len(stack) \in 1 .. Len(g) /\ Len(stack) \in 1 .. (Len(g) + Len(r))
      BY <1>6, <2>2, <2>4
  <2> QED BY <2>4, <2>5, <2>6, <2>7
<1> QED BY <1>3, <1>4, <1>8, <1>9 DEF Onward

\* What a walk step leaves on its way: all but the scope that it visits itself.
LEMMA ComingLed ==
    ASSUME TypeOK, Framed, Walked, On(WalkKinds), UNCHANGED <<home, detached>>,
           NEW cur, NEW b, stack' = Visited(cur, b), Leads(cur, Top.cur),
           NEW kinds, NEW x, x # At \/ Top.k \notin kinds, Coming(kinds, x)
    PROVE  Coming(kinds, x)'
<1>0. PICK t, l : Onward(cur, t, l)
    BY VisitStack
<1>1. /\ t.k = Top.k /\ t.cur = cur
      /\ Stacks(Len(stack) - 1, {t, l})
      /\ Len(stack) \in 1 .. Len(stack') /\ stack'[Len(stack)] = t
    BY <1>0 DEF Onward
<1>2. PICK i \in 1 .. Len(stack) :
        stack[i].k \in kinds /\ \E j \in 1 .. Len(stack[i].cur) : x \in Ahead(stack[i].cur[j])
    BY DEF Coming
<1>3. PICK j \in 1 .. Len(stack[i].cur) : x \in Ahead(stack[i].cur[j])
    BY <1>2
<1>4. \A u : x \in Ahead(u) => x \in Ahead(u)'
    BY DEF Ahead, Kids
<1>5. stack # <<>> /\ Len(stack) \in Nat \ {0} /\ Top = stack[Len(stack)]
    BY TopIs
<1>6. CASE i # Len(stack)
  <2>1. i \in 1 .. Len(stack') /\ stack'[i] = stack[i]
      BY <1>1, <1>5, <1>6 DEF Stacks
  <2>2. x \in Ahead(stack[i].cur[j])'
    <3>1. PICK u : u = stack[i].cur[j]
        OBVIOUS
    <3>2. x \in Ahead(u)' /\ u = stack'[i].cur[j]
        BY <1>3, <1>4, <2>1, <3>1
    <3> QED BY <3>2 DEF Ahead
  <2> QED BY <1>2, <2>1, <2>2 DEF Coming
<1>7. CASE i = Len(stack)
  <2>1. x \in Ahead(Top.cur[j]) /\ j \in 1 .. Len(Top.cur) /\ t.k \in kinds /\ x # At
      BY <1>1, <1>2, <1>3, <1>5, <1>7
  <2>2. PICK d \in 1 .. Len(cur) : x \in Ahead(cur[d])
      BY <2>1 DEF Leads
  <2>3. stack'[i] = t /\ i \in 1 .. Len(stack')
      BY <1>1, <1>7
  <2>4. x \in Ahead(stack[i].cur[d])'
    <3>1. x \in Ahead(cur[d])'
      <4>1. PICK u : u = cur[d]
          OBVIOUS
      <4> QED BY <1>4, <2>2, <4>1
    <3> QED BY <1>1, <2>3, <3>1 DEF Ahead
  <2> QED BY <1>1, <2>1, <2>2, <2>3, <2>4 DEF Coming
<1> QED BY <1>6, <1>7

\* A walk step that enters a scope has its children ahead.
LEMMA ComingEntered ==
    ASSUME TypeOK, Framed, On(WalkKinds), UNCHANGED <<home, detached>>,
           NEW cur, NEW b, stack' = Visited(cur, b), NEW a,
           \E j \in 1 .. Len(cur) : cur[j] = [of |-> "children", at |-> a, last |-> 0],
           NEW kinds, Top.k \in kinds, NEW x \in Kids(a)
    PROVE  Coming(kinds, x)'
<1>0. PICK t, l : Onward(cur, t, l)
    BY VisitStack
<1>2. /\ t.k = Top.k /\ t.cur = cur
      /\ Len(stack) \in 1 .. Len(stack') /\ stack'[Len(stack)] = t
    BY <1>0 DEF Onward
<1>3. PICK j \in 1 .. Len(cur) : cur[j] = [of |-> "children", at |-> a, last |-> 0]
    OBVIOUS
<1>4. x \in Kids(a)' /\ x > 0
    BY ScopeAssumption DEF Kids, Scopes
<1>5. PICK u : u = [of |-> "children", at |-> a, last |-> 0]
    OBVIOUS
<1>6. x \in Ahead(u)' /\ u = cur[j]
    BY <1>3, <1>4, <1>5 DEF Ahead, Kids
<1>7. PICK i : i = Len(stack)
    OBVIOUS
<1>8. i \in 1 .. Len(stack') /\ stack'[i] = t
    BY <1>2, <1>7
<1>9. x \in Ahead(stack[i].cur[j])'
    BY <1>2, <1>6, <1>8 DEF Ahead
<1> QED BY <1>2, <1>3, <1>8, <1>9 DEF Coming

\* A notification goes on to scopes whose close was requested.
LEMMA AtRequested ==
    ASSUME SignalInv, On({"notify"}), Ready(Top.cur) # {} PROVE At \in Scopes /\ requested[At]
<1>0. TypeOK /\ Framed
    BY DEF SignalInv, WInv
<1>1. stack # <<>> /\ Len(stack) \in 1 .. Len(stack) /\ Top = stack[Len(stack)] /\ Top.k = "notify"
    BY <1>0, TopIs
<1>2. Walk(Top) /\ Marked(Top)
    BY <1>1 DEF SignalInv, Walked, WalkKinds
<1>3. PICK u \in 1 .. Len(Top.cur) : u = Turn /\ At \in Ahead(Top.cur[u]) /\ At \in Scopes
    BY <1>2, TurnIs
<1>4. PICK c \in Cursors : c = Top.cur[u]
    BY <1>2, <1>3 DEF Walk
<1>5. requested[c.at]
    BY <1>1, <1>2, <1>4 DEF Marked
<1>6. At = c.at \/ At \in Kids(c.at)
    BY <1>3, <1>4, AheadIs
<1>7. c.at # 0
    BY <1>4, ItemKinds DEF Cursors
<1> QED BY <1>3, <1>5, <1>6, <1>7 DEF Kids, SignalInv, Sealed

\* A visit keeps the walks good ones.
LEMMA VisitWalked ==
    ASSUME SignalInv, On(WalkKinds), Ready(Top.cur) # {}, UNCHANGED requested,
           NEW cur, NEW b, stack' = Visited(cur, b), Leads(cur, Top.cur)
    PROVE  Walked'
<1>0. TypeOK /\ Framed /\ Walked
    BY DEF SignalInv, WInv
<1>1. PICK t, l : Onward(cur, t, l)
    BY <1>0, VisitStack
<1>2. /\ t.k = Top.k /\ t.cur = cur /\ l.k = "listener" /\ Stacks(Len(stack) - 1, {t, l})
    BY <1>1 DEF Onward
<1>3. stack # <<>> /\ Len(stack) \in 1 .. Len(stack) /\ Top = stack[Len(stack)] /\ Top.k \in WalkKinds
    BY <1>0, TopIs
<1>4. Walk(Top) /\ Marked(Top)
    BY <1>0, <1>3 DEF Walked
<1>5. Walk(t)
    BY <1>2 DEF Walk, Leads
<1>6. Marked(t)'
  <2>1. SUFFICES ASSUME Top.k = "notify", NEW j \in 1 .. Len(cur) PROVE requested[cur[j].at]
      BY <1>2 DEF Marked
  <2>2. requested[At]
      BY <2>1, AtRequested DEF On
  <2>3. cur[j].at = At \/ \E i \in 1 .. Len(Top.cur) : cur[j].at = Top.cur[i].at
      BY DEF Leads
  <2>4. \A i \in 1 .. Len(Top.cur) : requested[Top.cur[i].at]
      BY <1>4, <2>1 DEF Marked
  <2> QED BY <2>2, <2>3, <2>4
<1>7. \A f \in {t, l} : f.k \in WalkKinds => Walk(f) /\ Marked(f)'
    BY <1>2, <1>5, <1>6 DEF WalkKinds
<1> QED BY <1>0, <1>2, <1>7, WalkedStays

\* A visit keeps what is announced first, or tells the scope.
LEMMA VisitOpening ==
    ASSUME SignalInv, On(WalkKinds), Ready(Top.cur) # {},
           NEW cur, NEW b, stack' = Visited(cur, b), Leads(cur, Top.cur),
           \A n \in Scopes : notified[n] => notified'[n],
           Top.k = "notify" => notified'[At]
    PROVE  Opening'
<1>0. TypeOK /\ Framed /\ Walked /\ Opening
    BY DEF SignalInv, WInv, Signalling
<1>1. PICK t, l : Onward(cur, t, l)
    BY <1>0, VisitStack
<1>2. /\ t.k = Top.k /\ t.cur = cur /\ l.k = "listener" /\ Stacks(Len(stack) - 1, {t, l})
      /\ Len(stack) \in 1 .. Len(stack') /\ stack'[Len(stack)] = t
    BY <1>1 DEF Onward
<1>3. /\ stack # <<>> /\ Len(stack) \in Nat \ {0} /\ Top = stack[Len(stack)]
      /\ Top.k \in WalkKinds
    BY <1>0, TopIs
<1>4. SUFFICES ASSUME NEW i \in 1 .. Len(stack'), stack'[i].k = "start"
               PROVE  \/ notified'[stack'[i].n]
                      \/ /\ i + 1 <= Len(stack') /\ stack'[i + 1].k = "notify"
                         /\ stack'[i + 1].cur[1] = Fresh(stack'[i].n)
    BY DEF Opening, Fresh
<1>5. i <= Len(stack) - 1
  <2>1. t.k # "start" /\ l.k # "start"
      BY <1>2, <1>3 DEF WalkKinds
  <2>2. i > Len(stack) - 1 => stack'[i] = t \/ stack'[i] = l
      BY <1>2 DEF Stacks
  <2>3. i > Len(stack) - 1 \/ i <= Len(stack) - 1
      BY <1>3
  <2> QED BY <1>4, <2>1, <2>2, <2>3
<1>6. i \in 1 .. Len(stack) /\ stack'[i] = stack[i] /\ i + 1 \in 1 .. Len(stack)
    BY <1>2, <1>3, <1>5 DEF Stacks
<1>7. PICK n \in Scopes : n = stack[i].n
  <2>1. stack[i] \in ToSet(stack)
      BY <1>0, <1>6, OfItsOwn DEF TypeOK
  <2>2. Fit(stack[i])
      BY <1>0, <2>1 DEF Framed
  <2> QED BY <1>4, <1>6, <2>2 DEF Fit, Steps
<1>8. CASE notified[n]
    BY <1>6, <1>7, <1>8
<1>9. CASE stack[i + 1].k = "notify" /\ stack[i + 1].cur[1] = Fresh(n)
  <2>1. CASE i + 1 <= Len(stack) - 1
    <3>1. stack'[i + 1] = stack[i + 1] /\ i + 1 <= Len(stack')
        BY <1>2, <1>6, <2>1 DEF Stacks
    <3> QED BY <1>6, <1>7, <1>9, <3>1
  <2>2. CASE i + 1 = Len(stack)
    <3>1. stack'[i + 1] = t /\ i + 1 <= Len(stack') /\ Top.k = "notify" /\ Top.cur[1] = Fresh(n)
        BY <1>2, <1>3, <1>9, <2>2
    <3>2. CASE cur[1] = Top.cur[1]
        BY <1>2, <1>6, <1>7, <3>1, <3>2
    <3>3. CASE At \in Ahead(Top.cur[1])
      <4>1. PICK c : c = Top.cur[1]
          OBVIOUS
      <4>2. Ahead(c) = {n}
          BY <3>1, <4>1, SelfAhead DEF Fresh
      <4>3. At = n
          BY <3>3, <4>1, <4>2
      <4> QED BY <1>6, <1>7, <3>1, <4>3
    <3> QED BY <3>2, <3>3 DEF Leads
  <2> QED BY <1>3, <1>6, <2>1, <2>2
<1> QED BY <1>0, <1>4, <1>6, <1>7, <1>8, <1>9 DEF Opening

\* A visit tells a scope at most, and the walk goes on to the children of a scope it told.
Tells(cur) ==
    /\ notified' \in [Scopes -> BOOLEAN] /\ aborted' \in [Scopes -> BOOLEAN]
    /\ \A n \in Scopes : notified[n] => notified'[n]
    /\ \A n \in Scopes : aborted[n] => aborted'[n]
    /\ \A n \in Scopes : notified'[n] =>
         notified[n] \/ (n = At /\ requested[n] /\ Top.k = "notify" /\ aborted'[n])
    /\ \A n \in Scopes : aborted'[n] => aborted[n] \/ (n = At /\ Top.k \in Tellers)
    /\ Top.k = "notify" => notified'[At]
    /\ Top.k \in Tellers => aborted'[At]
    /\ notified' # notified \/ aborted' # aborted =>
         \E j \in 1 .. Len(cur) : cur[j] = [of |-> "children", at |-> At, last |-> 0]

\* So the signals it does not bring itself stay on their way.
LEMMA VisitSignals ==
    ASSUME SignalInv, On(WalkKinds), Ready(Top.cur) # {}, UNCHANGED <<home, detached, requested, phase>>,
           NEW cur, NEW b, stack' = Visited(cur, b), Leads(cur, Top.cur), Tells(cur)
    PROVE  SignalType' /\ Walked' /\ Numbered' /\ Signalling'
<1>0. TypeOK /\ Framed /\ Walked /\ Heard /\ Warned /\ Inherited /\ Begun /\ Numbered
    BY DEF SignalInv, WInv, Signalling
<1>1. SignalType'
    BY DEF SignalType, Tells
<1>2. Walked'
    BY VisitWalked
<1>3. Numbered'
    BY <1>0, NumberedStays
<1>4. Heard'
    BY <1>0 DEF Heard, Tells
<1>5. Begun'
    BY <1>0 DEF Begun, Tells
<1>6. Opening'
    BY VisitOpening DEF Tells
<1>7. ASSUME NEW x, x # At \/ Top.k \notin Tellers, Coming(Tellers, x) PROVE Coming(Tellers, x)'
    BY <1>0, <1>7, ComingLed
<1>8. ASSUME NEW x, x # At \/ Top.k # "notify", Coming({"notify"}, x) PROVE Coming({"notify"}, x)'
    BY <1>0, <1>8, ComingLed
<1>9. ASSUME NEW x \in Kids(At), NEW kinds, Top.k \in kinds, notified' # notified \/ aborted' # aborted
      PROVE  Coming(kinds, x)'
  <2>1. PICK a : a = At
      OBVIOUS
  <2>2. \E j \in 1 .. Len(cur) : cur[j] = [of |-> "children", at |-> a, last |-> 0]
      BY <1>9, <2>1 DEF Tells
  <2>3. x \in Kids(a)
      BY <2>1
  <2> QED BY <1>0, <1>9, <2>2, <2>3, ComingEntered
<1>10. ASSUME NEW n \in Scopes, requested[n], ~notified'[n]
       PROVE  Coming({"notify"}, n)' \/ (Attached(n) /\ requested[home[n]] /\ ~notified'[home[n]])
  <2>1. ~notified[n] /\ (Top.k = "notify" => n # At)
      BY <1>10 DEF Tells
  <2>2. CASE Coming({"notify"}, n)
      BY <1>8, <2>1, <2>2
  <2>3. CASE Attached(n) /\ requested[home[n]] /\ ~notified[home[n]]
    <3>1. CASE ~notified'[home[n]]
        BY <2>3, <3>1
    <3>2. CASE notified'[home[n]]
      <4>1. home[n] \in Scopes
          BY <1>0, <2>3, ItemKinds DEF TypeOK, Attached
      <4>2. home[n] = At /\ Top.k = "notify" /\ notified' # notified
          BY <2>3, <3>2, <4>1 DEF Tells
      <4>3. n \in Kids(At)
          BY <2>3, <4>2 DEF Kids, Attached
      <4>4. Top.k \in {"notify"}
          BY <4>2
      <4> QED BY <1>9, <4>2, <4>3, <4>4
    <3> QED BY <3>1, <3>2
  <2> QED BY <1>0, <1>10, <2>1, <2>2, <2>3 DEF Warned
<1>11. ASSUME NEW c \in Scopes, Attached(c), aborted'[home[c]]
       PROVE  aborted'[c] \/ Coming(Tellers, c)'
  <2>1. home[c] \in Scopes
      BY <1>0, <1>11, ItemKinds DEF TypeOK, Attached
  <2>2. CASE aborted[home[c]]
    <3>1. CASE aborted[c]
        BY <3>1 DEF Tells
    <3>2. CASE Coming(Tellers, c)
      <4>1. CASE c # At \/ Top.k \notin Tellers
          BY <1>7, <3>2, <4>1
      <4>2. CASE c = At /\ Top.k \in Tellers
          BY <4>2 DEF Tells
      <4> QED BY <4>1, <4>2
    <3> QED BY <1>0, <1>11, <2>2, <3>1, <3>2 DEF Inherited
  <2>3. CASE ~aborted[home[c]]
    <3>1. home[c] = At /\ Top.k \in Tellers /\ aborted' # aborted
        BY <1>11, <2>1, <2>3 DEF Tells
    <3>2. c \in Kids(At)
        BY <1>11, <3>1 DEF Kids, Attached
    <3> QED BY <1>9, <3>1, <3>2
  <2> QED BY <2>2, <2>3
<1>12. Warned'
    BY <1>10 DEF Warned, Attached
<1>13. Inherited'
    BY <1>11 DEF Inherited, Attached
<1> QED BY <1>1, <1>2, <1>3, <1>4, <1>5, <1>6, <1>12, <1>13 DEF Signalling

\* The walk on top.
LEMMA WalkOn ==
    ASSUME SignalInv, NEW kinds \in SUBSET WalkKinds, On(kinds)
    PROVE  On(WalkKinds) /\ Walk(Top) /\ Top.k \in kinds /\ TypeOK /\ SignalType /\ Heard
<1>0. TypeOK /\ Framed /\ Walked /\ SignalType /\ Heard
    BY DEF SignalInv, WInv, Signalling
<1>1. stack # <<>> /\ Len(stack) \in 1 .. Len(stack) /\ Top = stack[Len(stack)] /\ Top.k \in kinds
    BY <1>0, TopIs
<1>2. On(WalkKinds)
    BY <1>1 DEF On, Idle
<1>3. Walk(Top)
    BY <1>0, <1>1 DEF Walked
<1> QED BY <1>0, <1>1, <1>2, <1>3

\* A scope is notified.
LEMMA NotifySignals ==
    ASSUME SignalInv, NotifyVisit PROVE SignalType' /\ Walked' /\ Numbered' /\ Signalling'
<1>0. /\ On({"notify"}) /\ Ready(Top.cur) # {}
      /\ UNCHANGED <<home, detached, requested, phase>>
    BY DEF NotifyVisit, treeVars, flightVars
<1>1. /\ On(WalkKinds) /\ Walk(Top) /\ Top.k = "notify" /\ SignalType /\ Heard
    BY <1>0, WalkOn DEF WalkKinds
<1>2. At \in Scopes /\ requested[At] /\ Top.k \in Tellers
    BY <1>0, <1>1, AtRequested DEF Tellers
<1>3. CASE notified[At]
  <2>1. stack' = Visited(Passed, FALSE) /\ notified' = notified /\ aborted' = aborted
      BY <1>3 DEF NotifyVisit
  <2>2. Leads(Passed, Top.cur)
      BY <1>0, <1>1, PassedIs
  <2>3. Tells(Passed)
      BY <1>1, <1>2, <1>3, <2>1 DEF Tells, SignalType, Heard
  <2> QED BY <1>0, <1>1, <2>1, <2>2, <2>3, VisitSignals
<1>4. CASE ~notified[At]
  <2>1. PICK b : b = ~aborted[At]
      OBVIOUS
  <2>2. /\ stack' = Visited(Entered, b)
        /\ notified' = [notified EXCEPT ![At] = TRUE] /\ aborted' = [aborted EXCEPT ![At] = TRUE]
      BY <1>4, <2>1 DEF NotifyVisit
  <2>3. /\ Leads(Entered, Top.cur)
        /\ \E j \in 1 .. Len(Entered) : Entered[j] = [of |-> "children", at |-> At, last |-> 0]
      BY <1>0, <1>1, EnteredIs
  <2>4. /\ notified' \in [Scopes -> BOOLEAN] /\ notified'[At]
        /\ \A n \in Scopes : notified[n] => notified'[n]
        /\ \A n \in Scopes : notified'[n] => notified[n] \/ n = At
      BY <1>1, <1>2, <2>2, Zenon DEF SignalType
  <2>5. /\ aborted' \in [Scopes -> BOOLEAN] /\ aborted'[At]
        /\ \A n \in Scopes : aborted[n] => aborted'[n]
        /\ \A n \in Scopes : aborted'[n] => aborted[n] \/ n = At
      BY <1>1, <1>2, <2>2, Zenon DEF SignalType
  <2>6. Tells(Entered)
      BY <1>1, <1>2, <2>3, <2>4, <2>5 DEF Tells
  <2> QED BY <1>0, <1>1, <2>2, <2>3, <2>6, VisitSignals
<1> QED BY <1>3, <1>4

\* A scope is told that its run was cancelled.
LEMMA CancelSignals ==
    ASSUME SignalInv, CancelVisit PROVE SignalType' /\ Walked' /\ Numbered' /\ Signalling'
<1>0. /\ On({"cancel"}) /\ Ready(Top.cur) # {}
      /\ UNCHANGED <<home, detached, requested, phase, notified>>
      /\ aborted' = [aborted EXCEPT ![At] = TRUE]
    BY DEF CancelVisit, treeVars, flightVars
<1>1. /\ On(WalkKinds) /\ Walk(Top) /\ Top.k = "cancel" /\ SignalType /\ Heard
    BY <1>0, WalkOn DEF WalkKinds
<1>2. At \in Scopes /\ Top.k \in Tellers
    BY <1>0, <1>1, TurnIs DEF Tellers
<1>3. /\ aborted' \in [Scopes -> BOOLEAN] /\ aborted'[At]
      /\ \A n \in Scopes : aborted[n] => aborted'[n]
      /\ \A n \in Scopes : aborted'[n] => aborted[n] \/ n = At
    BY <1>0, <1>1, <1>2, Zenon DEF SignalType
<1>4. /\ notified' \in [Scopes -> BOOLEAN] /\ notified' = notified
      /\ \A n \in Scopes : notified[n] <=> notified'[n]
    BY <1>0, <1>1 DEF SignalType
<1>5. CASE aborted[At]
  <2>1. stack' = Visited(Passed, FALSE)
      BY <1>5 DEF CancelVisit
  <2>2. Leads(Passed, Top.cur)
      BY <1>0, <1>1, PassedIs
  <2>3. aborted' = aborted
      BY <1>0, <1>1, <1>2, <1>5 DEF SignalType
  <2>4. Tells(Passed)
      BY <1>1, <1>2, <1>3, <1>4, <2>3 DEF Tells
  <2> QED BY <1>0, <1>1, <2>1, <2>2, <2>4, VisitSignals
<1>6. CASE ~aborted[At]
  <2>1. stack' = Visited(Entered, TRUE)
      BY <1>6 DEF CancelVisit
  <2>2. /\ Leads(Entered, Top.cur)
        /\ \E j \in 1 .. Len(Entered) : Entered[j] = [of |-> "children", at |-> At, last |-> 0]
      BY <1>0, <1>1, EnteredIs
  <2>3. Tells(Entered)
      BY <1>1, <1>2, <1>3, <1>4, <2>2 DEF Tells
  <2> QED BY <1>0, <1>1, <2>1, <2>2, <2>3, VisitSignals
<1> QED BY <1>5, <1>6

\* A scope is escalated, which tells no abort listener.
LEMMA EscalateSignals ==
    ASSUME SignalInv, EscalateVisit PROVE SignalType' /\ Walked' /\ Numbered' /\ Signalling'
<1>0. /\ On({"escalate"}) /\ Ready(Top.cur) # {}
      /\ UNCHANGED <<home, detached, requested, phase, notified, aborted>>
    BY DEF EscalateVisit, treeVars, flightVars, signalVars
<1>1. /\ On(WalkKinds) /\ Walk(Top) /\ Top.k = "escalate" /\ SignalType
    BY <1>0, WalkOn DEF WalkKinds
<1>2. PICK b : stack' = Visited(Entered, b)
    BY DEF EscalateVisit
<1>3. Leads(Entered, Top.cur)
    BY <1>0, <1>1, EnteredIs
<1>4. /\ notified' \in [Scopes -> BOOLEAN] /\ \A n \in Scopes : notified[n] <=> notified'[n]
    BY <1>0, <1>1 DEF SignalType
<1>5. /\ aborted' \in [Scopes -> BOOLEAN] /\ \A n \in Scopes : aborted[n] <=> aborted'[n]
    BY <1>0, <1>1 DEF SignalType
<1>6. Top.k \notin Tellers /\ Top.k # "notify"
    BY <1>1 DEF Tellers
<1>7. Tells(Entered)
    BY <1>0, <1>4, <1>5, <1>6 DEF Tells
<1> QED BY <1>0, <1>1, <1>2, <1>3, <1>7, VisitSignals

\* A new scope inherits the abort of its parent when it is constructed, and no
\* signal was on its way to it.
LEMMA ConstructSignals ==
    ASSUME SignalInv, NEW n \in Scopes, Accepts(n), NEW c \in NextScope, NEW o, NEW ab,
           Construct(c, n, o, ab), UNCHANGED <<detached, requested, notified, phase, stack>>
    PROVE  SignalType' /\ Walked' /\ Numbered' /\ Signalling'
<1>1. TypeOK /\ Owns /\ Walked /\ SignalType /\ Numbered /\ Heard /\ Warned /\ Inherited /\ Begun /\ Opening
    BY DEF SignalInv, WInv, Signalling
<1>2. /\ c \in Scopes /\ ~Created(c) /\ c # Root /\ home[c] = 0 /\ Created(n) /\ n # c
      /\ \A j \in Scopes : ~Created(j) => c <= j
    BY DEF NextScope, Accepts, Created
<1>3. c \in Items /\ n # 0 /\ c \in Nat /\ n \in Nat /\ \A x \in Scopes : x \in Items /\ x \in Nat
    BY <1>2, ItemKinds, ScopeAssumption DEF Scopes
<1>4. ~requested[c] /\ ~notified[c]
    BY <1>1, <1>2 DEF Numbered, Heard
<1>5. home'[c] = n /\ \A i \in Items : i # c => home'[i] = home[i]
    BY <1>1, <1>2, <1>3 DEF Construct, TypeOK
<1>6. /\ aborted' \in [Scopes -> BOOLEAN] /\ \A x \in Scopes : x # c => aborted'[x] = aborted[x]
      /\ aborted[n] => aborted'[c]
  <2>1. PICK a \in BOOLEAN : a = (aborted[n] \/ ab)
      OBVIOUS
  <2>2. aborted' = [aborted EXCEPT ![c] = a]
      BY <2>1 DEF Construct
  <2> QED BY <1>1, <1>2, <2>1, <2>2 DEF SignalType
<1>7. SignalType'
    BY <1>1, <1>6 DEF SignalType
<1>8. Walked' /\ Opening'
    BY <1>1 DEF Walked, Walk, Marked, Opening, Fresh
<1>9. \A i \in Items : home[i] # 0 => home'[i] = home[i]
    BY <1>2, <1>5
<1>10. Turns(WalkKinds, Len(stack), {})
  <2>1. Stacks(Len(stack), {})
      BY <1>1, StackSame
  <2> QED BY <2>1 DEF Turns
<1>11. ASSUME NEW kinds \in SUBSET WalkKinds, NEW x \in Scopes, Coming(kinds, x) PROVE Coming(kinds, x)'
  <2>1. detached'[x] => detached[x]
      OBVIOUS
  <2> QED BY <1>1, <1>9, <1>10, <1>11, <2>1, ComingStays
<1>12. Heard' /\ Begun'
    BY <1>1, <1>4, <1>6 DEF Heard, Begun
<1>13. ASSUME NEW x \in Scopes, requested[x], ~notified[x]
       PROVE  Coming({"notify"}, x)' \/ (Attached(x)' /\ requested[home'[x]] /\ ~notified[home'[x]])
  <2>1. x # c /\ {"notify"} \in SUBSET WalkKinds
      BY <1>4, <1>13 DEF WalkKinds
  <2>2. home'[x] = home[x]
      BY <1>3, <1>5, <2>1
  <2> QED BY <1>1, <1>11, <1>13, <2>1, <2>2 DEF Warned, Attached
<1>14. Warned'
    BY <1>13 DEF Warned
<1>15. ASSUME NEW x \in Scopes, Attached(x)', aborted'[home'[x]] PROVE aborted'[x] \/ Coming(Tellers, x)'
  <2>1. CASE x = c
      BY <1>2, <1>5, <1>6, <1>15, <2>1
  <2>2. CASE x # c
    <3>1. home'[x] = home[x] /\ home[x] # 0 /\ ~detached[x]
        BY <1>3, <1>5, <1>15, <2>2 DEF Attached
    <3>2. home[x] \in Scopes /\ home[x] # c
        BY <1>1, <1>2, <1>3, <3>1 DEF TypeOK, Owns
    <3>3. aborted[x] \/ Coming(Tellers, x)
        BY <1>1, <1>6, <1>15, <3>1, <3>2 DEF Inherited, Attached
    <3>4. Tellers \in SUBSET WalkKinds
        BY DEF Tellers, WalkKinds
    <3> QED BY <1>6, <1>11, <2>2, <3>3, <3>4
  <2> QED BY <2>1, <2>2
<1>16. Inherited'
    BY <1>15 DEF Inherited
<1>17. Numbered'
  <2>1. \A x \in Scopes : Created(x)' <=> Created(x) \/ x = c
      BY <1>2, <1>3, <1>5 DEF Created
  <2>2. n < c
      BY <1>1, <1>2, <1>3 DEF Numbered
  <2>3. \A x \in Scopes : home'[x] # 0 => home'[x] < x
      BY <1>1, <1>3, <1>5, <2>2 DEF Numbered
  <2>4. \A x, d \in Scopes : Created(x)' /\ d < x => Created(d)'
      BY <1>1, <1>2, <1>3, <2>1 DEF Numbered
  <2>5. \A x \in Scopes : requested'[x] => Created(x)'
      BY <1>1, <2>1 DEF Numbered
  <2> QED BY <2>3, <2>4, <2>5 DEF Numbered
<1> QED BY <1>7, <1>8, <1>12, <1>14, <1>16, <1>17 DEF Signalling

\* Other frames come and go; no walk that tells listeners ends early.
Muted == \E m, F : Turns(Tellers, m, F) /\ \A f \in F : Put(f)

\* Nothing that begins a walk.
LEMMA PlainPut == ASSUME NEW f, f.k # "start", f.k \notin WalkKinds PROVE Put(f)
BY DEF Put

\* Whatever tells listeners is still under way when it is on top.
Spoken == stack # <<>> /\ (Top.k \in Tellers => Ready(Top.cur) = {})

\* The ways most steps change the stack.
LEMMA CommonMuted ==
    ASSUME TypeOK,
           \/ UNCHANGED stack
           \/ Spoken /\ stack' = Under
           \/ \E f : Put(f) /\ stack' = Append(stack, f)
           \/ Spoken /\ \E f : Put(f) /\ stack' = Append(Under, f)
           \/ Spoken /\ \E q : stack' = Drained(Under, q)
    PROVE  Muted
<1>1. CASE UNCHANGED stack
  <2>1. Stacks(Len(stack), {})
      BY <1>1, StackSame
  <2> QED BY <2>1 DEF Muted, Turns
<1>2. CASE Spoken /\ stack' = Under
  <2>1. Stacks(Len(stack) - 1, {})
      BY <1>2, StackPop DEF Spoken
  <2>2. Turns(Tellers, Len(stack) - 1, {})
      BY <1>2, <2>1 DEF Turns, Spoken
  <2> QED BY <2>2 DEF Muted
<1>3. ASSUME NEW f, Put(f), stack' = Append(stack, f) PROVE Muted
  <2>1. stack' = stack \o <<f>> /\ <<f>> \in Seq({f})
      BY <1>3, AppendIsJoin DEF TypeOK
  <2>2. Stacks(Len(stack), {f})
      BY <2>1, StackPush
  <2>3. Turns(Tellers, Len(stack), {f}) /\ \A g \in {f} : Put(g)
    <3>1. Turns(Tellers, Len(stack), {f})
        BY <2>2 DEF Turns
    <3>2. ASSUME NEW g \in {f} PROVE Put(g)
        BY <1>3, <3>2 DEF Put
    <3> QED BY <3>1, <3>2
  <2> QED BY <2>3 DEF Muted
<1>4. ASSUME Spoken, NEW f, Put(f), stack' = Under \o <<f>>, <<f>> \in Seq({f}) PROVE Muted
  <2>1. Stacks(Len(stack) - 1, {f})
      BY <1>4, StackReplace DEF Spoken
  <2>2. Turns(Tellers, Len(stack) - 1, {f})
      BY <1>4, <2>1 DEF Turns, Spoken
  <2>3. ASSUME NEW g \in {f} PROVE Put(g)
      BY <1>4, <2>3 DEF Put
  <2> QED BY <2>2, <2>3 DEF Muted
<1>5. ASSUME Spoken, NEW f, Put(f), stack' = Append(Under, f) PROVE Muted
  <2>1. PICK T, u : T = ToSet(stack) /\ u = Under
      OBVIOUS
  <2>2. u \in Seq(T)
      BY <1>5, <2>1, FrontIsBelow DEF TypeOK, Under, Spoken
  <2>3. Append(u, f) = u \o <<f>> /\ <<f>> \in Seq({f})
      BY <2>2, AppendIsJoin
  <2> QED BY <1>4, <1>5, <2>1, <2>3
<1>6. ASSUME Spoken, NEW q, stack' = Drained(Under, q) PROVE Muted
  <2>1. CASE stack' = Under
      BY <1>2, <1>6, <2>1
  <2>2. ASSUME NEW d, d.k = "drain", stack' = Under \o <<d>>, <<d>> \in Seq({d}) PROVE Muted
    <3>1. Put(d)
        BY <2>2 DEF Put, WalkKinds
    <3> QED BY <1>4, <1>6, <2>2, <3>1
  <2> QED BY <1>6, <2>1, <2>2, DrainedIs DEF Spoken
<1> QED BY <1>1, <1>2, <1>3, <1>5, <1>6

\* Steps that open or drop frames of other work.
LEMMA SpokenOn ==
    ASSUME NEW kinds, On(kinds), kinds \cap Tellers = {} PROVE Spoken
BY DEF On, Idle, Spoken

\* Steps that change neither a signal, nor the tree, nor a flight.
LEMMA StillSilent ==
    ASSUME UNCHANGED <<signalVars, detached, phase>>, \A c \in Scopes : home'[c] = home[c]
    PROVE  Silently
BY DEF Silently

\* A walk that is no notification may begin.
LEMMA WalkPut ==
    ASSUME NEW f, Walk(f), f.k \in WalkKinds, f.k # "notify" PROVE Put(f)
<1>1. Marked(f)'
    BY DEF Marked
<1>2. f.k # "start"
    BY DEF WalkKinds
<1> QED BY <1>1, <1>2 DEF Put

\* So may an escalation, or the cancellation of a run.
LEMMA BeginPut ==
    ASSUME NEW kind \in {"cancel", "escalate"}, NEW n \in Scopes, NEW f, f = WalkFrame(kind, n)
    PROVE  Put(f)
<1>1. PICK c : c = Fresh(n)
    OBVIOUS
<1>2. f = [k |-> kind, n |-> n, cur |-> <<c>>]
    BY <1>1 DEF WalkFrame, Fresh
<1>3. c \in Cursors
    BY <1>1, SelfAhead DEF Fresh
<1>4. f.k = kind /\ f.cur = <<c>>
    BY <1>2
<1>5. Walk(f)
    BY <1>3, <1>4 DEF Walk
<1>6. f.k # "notify" /\ f.k \in WalkKinds
    BY <1>4 DEF WalkKinds
<1> QED BY <1>5, <1>6, WalkPut

-----------------------------------------------------------------------------
(* Steps that raise no signal.                                             *)

\* They leave signals, tree and flights alone, and walks to their end.
Hushed == Silently /\ Muted

\* User code registers a leaf, or a callback of it settles.
LEMMA LeafHushed ==
    ASSUME SignalInv, NEW n \in Scopes, Setup(n) \/ Use(n) PROVE Hushed
<1>1. TypeOK /\ UNCHANGED <<signalVars, detached, phase>>
    BY DEF SignalInv, WInv, Setup, Use, flightVars
<1>2. \A c \in Scopes : home'[c] = home[c]
  <2>1. PICK l \in Leaves : home' = [home EXCEPT ![l] = n]
      BY DEF Setup, Use, NextLeaf
  <2> QED BY <1>1, <2>1, ItemKinds DEF TypeOK
<1>3. Muted
  <2>1. CASE UNCHANGED stack
      BY <1>1, <2>1, CommonMuted
  <2>2. CASE Setup(n)
    <3>1. PICK l \in Leaves : stack' = Append(stack, Frame("setup", l))
        BY <2>2 DEF Setup, NextLeaf
    <3>2. PICK f : f = Frame("setup", l)
        OBVIOUS
    <3>3. Put(f)
        BY <3>2 DEF Put, Frame, WalkKinds
    <3> QED BY <1>1, <3>1, <3>2, <3>3, CommonMuted
  <2> QED BY <2>1, <2>2 DEF Use, turnVars
<1> QED BY <1>1, <1>2, <1>3, StillSilent DEF Hushed

\* Callbacks return, and what they promised settles.
LEMMA ReturnHushed ==
    ASSUME SignalInv,
           \/ SetupReturn \/ ListenerReturn \/ CleanupReturn \/ CleanupThrow \/ CloseReturn
           \/ \E l \in Leaves : UserSettles(l)
           \/ \E c \in Scopes : JoinSettled(c) \/ VoidReleased(c) \/ Unlink(c)
           \/ \E k \in Calls : AnswerCall(k) \/ AbandonSignal(k)
    PROVE  Hushed
<1>1. TypeOK
    BY DEF SignalInv, WInv
<1>2. CASE SetupReturn \/ ListenerReturn \/ CleanupReturn \/ CleanupThrow \/ CloseReturn
  <2>1. On({"setup", "listener", "cleanup", "answer"}) /\ stack' = Under
      BY <1>2 DEF SetupReturn, ListenerReturn, CleanupReturn, CleanupThrow, CloseReturn, On
  <2>2. Spoken
      BY <2>1, SpokenOn DEF Tellers
  <2>3. UNCHANGED <<signalVars, detached, phase, home>>
      BY <1>2 DEF SetupReturn, ListenerReturn, CleanupReturn, CleanupThrow, CloseReturn, treeVars, flightVars
  <2> QED BY <1>1, <2>1, <2>2, <2>3, StillSilent, CommonMuted DEF Hushed
<1>3. CASE \/ \E l \in Leaves : UserSettles(l)
           \/ \E c \in Scopes : JoinSettled(c) \/ VoidReleased(c) \/ Unlink(c)
           \/ \E k \in Calls : AnswerCall(k) \/ AbandonSignal(k)
  <2>1. UNCHANGED <<signalVars, detached, phase, home, stack>>
      BY <1>3 DEF UserSettles, SetupFulfil, SetupReject, CleanupFulfil, CleanupReject, JoinSettled,
                  VoidReleased, Unlink, AnswerCall, AbandonSignal, treeVars, flightVars, turnVars
  <2> QED BY <1>1, <2>1, StillSilent, CommonMuted DEF Hushed
<1> QED BY <1>2, <1>3

\* Walks end, and escalations begin.
LEMMA WalkHushed ==
    ASSUME SignalInv, WalkDone \/ \E k \in Calls : EscalateSignal(k) PROVE Hushed
<1>1. TypeOK
    BY DEF SignalInv, WInv
<1>2. UNCHANGED <<signalVars, detached, phase, home>>
    BY DEF WalkDone, EscalateSignal, treeVars, flightVars
<1>3. CASE WalkDone
  <2>1. Spoken
      BY <1>3 DEF WalkDone, Spoken, On, Idle
  <2>2. stack' = Under \/ stack' = Drained(Under, starts)
      BY <1>3 DEF WalkDone
  <2>3. Muted
      BY <1>1, <2>1, <2>2, CommonMuted
  <2> QED BY <1>2, <2>3, StillSilent DEF Hushed
<1>4. ASSUME NEW k \in Calls, EscalateSignal(k) PROVE Hushed
  <2>1. CASE call[k].linked
    <3>1. call[k].on \in Scopes
        BY <2>1 DEF SignalInv, Armed
    <3>2. PICK f : f = WalkFrame("escalate", call[k].on)
        OBVIOUS
    <3>3. Put(f)
        BY <3>1, <3>2, BeginPut
    <3>4. stack' = Append(stack, f)
        BY <1>4, <2>1, <3>2 DEF EscalateSignal
    <3>5. Muted
        BY <1>1, <3>3, <3>4, CommonMuted
    <3> QED BY <1>2, <3>5, StillSilent DEF Hushed
  <2>2. CASE ~call[k].linked
    <3>1. UNCHANGED stack
        BY <1>4, <2>2 DEF EscalateSignal
    <3> QED BY <1>1, <1>2, <3>1, CommonMuted, StillSilent DEF Hushed
  <2> QED BY <2>1, <2>2
<1> QED BY <1>3, <1>4

\* The run is cancelled: the walks of its scopes begin.
LEMMA CancelHushed == ASSUME SignalInv, CancelRun PROVE Hushed
<1> DEFINE followers == {c \in Scopes : module[c]}
           count == Cardinality(followers)
           frames == [i \in 1 .. count |-> WalkFrame("cancel", Nth(followers, i))]
<1>1. /\ UNCHANGED <<signalVars, detached, phase, home>> /\ stack' = stack \o Reverse(frames) /\ TypeOK
    BY DEF CancelRun, treeVars, flightVars, SignalInv, WInv
<1>2. count \in Nat /\ \A i \in 1 .. count : Nth(followers, i) \in Scopes
  <2>1. followers \in SUBSET (1 .. NScopes) /\ NScopes \in Nat /\ followers \subseteq Scopes
      BY ScopeAssumption DEF Scopes
  <2> HIDE DEF followers
  <2>2. count \in Nat
      BY <2>1, Ranks
  <2>3. ASSUME NEW i \in 1 .. count PROVE Nth(followers, i) \in Scopes
      BY <2>1, <2>3, NthIs
  <2> QED BY <2>2, <2>3
<1>3. ASSUME NEW i \in 1 .. count PROVE Put(frames[i])
  <2>1. PICK f, n : f = frames[i] /\ n = Nth(followers, i)
      OBVIOUS
  <2>2. n \in Scopes /\ f = WalkFrame("cancel", n)
      BY <1>2, <1>3, <2>1
  <2>3. Put(f)
      BY <2>2, BeginPut
  <2> QED BY <2>1, <2>3
<1> HIDE DEF count
<1>4. DOMAIN frames = 1 .. count /\ frames = [i \in 1 .. count |-> frames[i]]
    OBVIOUS
<1> HIDE DEF frames
<1>5. PICK F : F = {frames[i] : i \in 1 .. count}
    OBVIOUS
<1>6. frames \in Seq(F)
    BY <1>2, <1>4, <1>5
<1>7. PICK r \in Seq(F) : stack' = stack \o r
    BY <1>1, <1>6, ReverseIs
<1>8. Stacks(Len(stack), F)
    BY <1>1, <1>7, StackPush
<1>9. Muted
  <2>1. Turns(Tellers, Len(stack), F)
      BY <1>8 DEF Turns
  <2>2. \A f \in F : Put(f)
      BY <1>3, <1>5
  <2> QED BY <2>1, <2>2 DEF Muted
<1> QED BY <1>1, <1>9, StillSilent DEF Hushed

\* A flight goes on: it was announced before.
LEMMA PhaseSilent ==
    ASSUME SignalInv, UNCHANGED <<signalVars, detached, home>>, NEW n \in Scopes, NEW p,
           phase' = [phase EXCEPT ![n] = p],
           notified[n] \/ phase[n] \notin {"none", "open"} \/ p = "none"
    PROVE  Silently
<1>1. phase \in [Scopes -> Phases]
    BY DEF SignalInv, WInv, TypeOK
<1>2. \A c \in Scopes : phase'[c] \notin {"none", "open"} => phase[c] \notin {"none", "open"} \/ notified[c]
    BY <1>1
<1> QED BY <1>2 DEF Silently

\* The flight of the frame on top.
LEMMA TopFlight ==
    ASSUME SignalInv, NEW kinds \in SUBSET Steps, On(kinds)
    PROVE  /\ Top.n \in Scopes /\ Fit(Top) /\ Top.k \in kinds /\ Top.k \notin Tellers /\ Spoken
           /\ stack # <<>> /\ Len(stack) \in Nat \ {0} /\ Top = stack[Len(stack)]
<1>1. TypeOK /\ Framed
    BY DEF SignalInv, WInv
<1>2. stack # <<>> /\ Len(stack) \in Nat \ {0} /\ Top = stack[Len(stack)] /\ Top.k \in kinds /\ Fit(Top)
    BY <1>1, TopIs
<1>3. Top.n \in Scopes
    BY <1>2 DEF Fit
<1>4. Top.k \notin Tellers
    BY <1>2 DEF Steps, Tellers
<1> QED BY <1>2, <1>3, <1>4 DEF Spoken

\* A flight that is started has been announced.
LEMMA StartHushed == ASSUME SignalInv, StartFlight PROVE Hushed
<1>1. TypeOK /\ Opening
    BY DEF SignalInv, WInv, Signalling
<1>2. On({"start"})
    BY DEF StartFlight
<1>3. PICK n \in Scopes : n = Top.n /\ Top.k = "start" /\ Top = stack[Len(stack)] /\ Len(stack) \in Nat \ {0}
    BY <1>2, TopFlight DEF Steps
<1>4. Spoken
    BY <1>2, SpokenOn DEF Tellers
<1>5. notified[n]
  <2>1. PICK i : i = Len(stack)
      OBVIOUS
  <2>2. i \in 1 .. Len(stack) /\ ~(i + 1 <= Len(stack)) /\ stack[i].k = "start" /\ stack[i].n = n
      BY <1>3, <2>1
  <2> QED BY <1>1, <2>2 DEF Opening
<1>6. Silently
  <2>1. /\ phase' = [phase EXCEPT ![n] = "queued"] /\ UNCHANGED <<signalVars, detached, home>>
      BY <1>3 DEF StartFlight, treeVars
  <2> QED BY <1>5, <2>1, PhaseSilent
<1>7. \E q : stack' = Drained(Under, q)
    BY DEF StartFlight
<1>8. Muted
    BY <1>1, <1>4, <1>7, CommonMuted
<1> QED BY <1>6, <1>8 DEF Hushed

\* The queue of starts goes on.
LEMMA DrainHushed == ASSUME SignalInv, DrainStep PROVE Hushed
<1>1. TypeOK /\ Queued
    BY DEF SignalInv, WInv
<1>2. On({"drain"}) /\ UNCHANGED <<signalVars, detached, home>>
    BY DEF DrainStep, treeVars
<1>3. Spoken
    BY <1>2, SpokenOn DEF Tellers
<1>4. CASE starts = <<>>
  <2>1. stack' = Under /\ UNCHANGED phase
      BY <1>4 DEF DrainStep
  <2> QED BY <1>1, <1>2, <1>3, <2>1, StillSilent, CommonMuted DEF Hushed
<1>5. CASE starts # <<>>
  <2>1. PICK n \in Scopes : n = Head(starts) /\ phase[n] = "queued"
      BY <1>1, <1>5 DEF TypeOK, Queued
  <2>2. phase' = [phase EXCEPT ![n] = "running"] /\ stack' = Append(stack, Frame("run", n))
      BY <1>5, <2>1 DEF DrainStep
  <2>3. Silently
      BY <1>2, <2>1, <2>2, PhaseSilent
  <2>4. PICK f : f = Frame("run", n)
      OBVIOUS
  <2>5. Put(f)
      BY <2>4 DEF Put, Frame, WalkKinds
  <2>6. Muted
      BY <1>1, <2>2, <2>4, <2>5, CommonMuted
  <2> QED BY <2>3, <2>6 DEF Hushed
<1> QED BY <1>4, <1>5

\* A flight goes on, or waits.
LEMMA FlightHushed ==
    ASSUME SignalInv, AwaitSetups \/ AwaitBatch \/ \E n \in Scopes : Resume(n) PROVE Hushed
<1>1. TypeOK
    BY DEF SignalInv, WInv
<1>2. CASE AwaitSetups \/ AwaitBatch
  <2>1. On({"run", "batch"}) /\ stack' = Under /\ UNCHANGED <<signalVars, detached, home>>
      BY <1>2 DEF AwaitSetups, AwaitBatch, On, treeVars
  <2>2. PICK n \in Scopes : n = Top.n /\ phase[n] = "running" /\ Spoken
      BY <2>1, TopFlight DEF Fit, Steps
  <2>3. \E p : phase' = [phase EXCEPT ![n] = p]
      BY <1>2, <2>2 DEF AwaitSetups, AwaitBatch
  <2>4. Silently
      BY <2>1, <2>2, <2>3, PhaseSilent
  <2> QED BY <1>1, <2>1, <2>2, <2>4, CommonMuted DEF Hushed
<1>3. ASSUME NEW n \in Scopes, Resume(n) PROVE Hushed
  <2>1. /\ stack = <<>> /\ stack' = <<Frame("run", n)>> /\ phase[n] \in {"setups", "batch"}
        /\ phase' = [phase EXCEPT ![n] = "running"] /\ UNCHANGED <<signalVars, detached, home>>
      BY <1>3 DEF Resume, Idle, treeVars
  <2>2. Silently
      BY <2>1, PhaseSilent
  <2>3. PICK f : f = Frame("run", n)
      OBVIOUS
  <2>4. Put(f)
      BY <2>3 DEF Put, Frame, WalkKinds
  <2>5. stack' = Append(stack, f)
      BY <2>1, <2>3
  <2> QED BY <1>1, <2>2, <2>4, <2>5, CommonMuted DEF Hushed
<1> QED BY <1>2, <1>3

\* A flight takes a batch and invokes its entries.
LEMMA BatchHushed == ASSUME SignalInv, TakeBatch \/ InvokeLeaf \/ InvokeVoid PROVE Hushed
<1>1. TypeOK
    BY DEF SignalInv, WInv
<1>2. On({"run", "batch"}) /\ UNCHANGED <<signalVars, detached, phase, home>>
    BY DEF TakeBatch, InvokeLeaf, InvokeVoid, On, treeVars, flightVars
<1>3. Fit(Top) /\ Top.k \in {"run", "batch"} /\ Spoken /\ stack # <<>>
    BY <1>2, TopFlight DEF Steps
<1>4. CASE TakeBatch \/ InvokeVoid
  <2>1. PICK f : f.k = "batch" /\ stack' = Append(Under, f)
    <3>1. CASE TakeBatch
        BY <3>1 DEF TakeBatch
    <3>2. CASE InvokeVoid
      <4>1. PICK f : f = [Top EXCEPT !.left = Tail(@)]
          OBVIOUS
      <4>2. Top.k = "batch"
          BY <3>2 DEF InvokeVoid, On
      <4>3. f.k = "batch"
          BY <1>3, <4>1, <4>2 DEF Fit
      <4> QED BY <3>2, <4>1, <4>3 DEF InvokeVoid
    <3> QED BY <1>4, <3>1, <3>2
  <2>2. Put(f)
      BY <2>1 DEF Put, WalkKinds
  <2> QED BY <1>1, <1>2, <1>3, <2>1, <2>2, StillSilent, CommonMuted DEF Hushed
<1>5. CASE InvokeLeaf
  <2>1. PICK b : b = [Top EXCEPT !.left = Tail(@)]
      OBVIOUS
  <2>2. PICK c : c = Frame("cleanup", Head(Top.left))
      OBVIOUS
  <2>3. stack' = Under \o <<b, c>>
      BY <1>5, <2>1, <2>2 DEF InvokeLeaf
  <2>4. b.k = "batch" /\ c.k = "cleanup"
    <3>1. Top.k = "batch"
        BY <1>5 DEF InvokeLeaf, On
    <3> QED BY <1>3, <2>1, <2>2, <3>1 DEF Fit, Frame
  <2>5. Stacks(Len(stack) - 1, {b, c})
      BY <1>1, <1>3, <2>3, PairOn
  <2>6. \A f \in {b, c} : Put(f)
      BY <2>4 DEF Put, WalkKinds
  <2>7. Turns(Tellers, Len(stack) - 1, {b, c})
      BY <1>3, <2>5 DEF Turns, Spoken
  <2> QED BY <1>2, <2>6, <2>7, StillSilent DEF Hushed, Muted
<1> QED BY <1>4, <1>5

\* A flight reports; when its scope leaves, it was told long before.
LEMMA SettleHushed == ASSUME SignalInv, Settle PROVE Hushed
<1>1. TypeOK /\ Begun
    BY DEF SignalInv, WInv, Signalling
<1>2. On({"run"}) /\ stack' = Under /\ UNCHANGED <<signalVars, home>>
    BY DEF Settle
<1>3. PICK n \in Scopes : n = Top.n /\ phase[n] = "running" /\ Spoken
    BY <1>2, TopFlight DEF Fit, Steps
<1>4. notified[n] /\ detached \in [Scopes -> BOOLEAN]
    BY <1>1, <1>3 DEF Begun, TypeOK
<1>5. detached' = detached \/ detached' = [detached EXCEPT ![n] = TRUE]
    BY <1>3 DEF Settle, Detach
<1>6. phase' = [phase EXCEPT ![n] = "none"]
    BY <1>3 DEF Settle
<1>7. Silently
  <2>1. \A c \in Scopes : phase'[c] \notin {"none", "open"} => phase[c] \notin {"none", "open"}
      BY <1>1, <1>6 DEF TypeOK
  <2>2. /\ \A c \in Scopes : detached[c] => detached'[c]
        /\ \A c \in Scopes : detached'[c] => detached[c] \/ notified[c]
      BY <1>4, <1>5
  <2> QED BY <1>2, <2>1, <2>2 DEF Silently
<1>8. Muted
    BY <1>1, <1>2, <1>3, CommonMuted
<1> QED BY <1>7, <1>8 DEF Hushed

\* A call of close().
LEMMA CloseSignals ==
    ASSUME SignalInv, Grown, NEW k, NEW n \in Scopes, NEW e, NEW a, Close(k, n, e, a)
    PROVE  SignalType' /\ Walked' /\ Numbered' /\ Signalling'
<1>1. /\ Created(n) /\ TakeFlight(n, where) /\ UNCHANGED <<home, notified, aborted>>
      /\ where \in [Items -> States]
    BY DEF Close, SignalInv, WInv, TypeOK
<1>2. PICK b \in BOOLEAN : b <=> (HasFlight(n) /\ e # "absent" /\ ~esc'[n]) /\ e = "fired"
    OBVIOUS
<1>3. PICK t : t = [k |-> "answer", n |-> n, call |-> k, flight |-> HasFlight(n)]
    OBVIOUS
<1>4. stack' = (stack \o <<t>>) \o Rest(n, b)
    BY <1>2, <1>3 DEF Close, Rest
<1>5. PICK q : q = stack
    OBVIOUS
<1>6. Follows(n, b, t, q)
    BY <1>3, <1>4, <1>5 DEF Follows
<1> QED BY <1>1, <1>6, FlightSignals

\* A batch joins a child.
LEMMA JoinSignals ==
    ASSUME SignalInv, Grown, InvokeChild
    PROVE  SignalType' /\ Walked' /\ Numbered' /\ Signalling'
<1>1. WInv /\ On({"batch"}) /\ Top.left # <<>> /\ HasChild(Head(Top.left))
    BY DEF InvokeChild, SignalInv
<1>2. PICK c \in Scopes : c = Head(Top.left) /\ home[c] = Top.n
    BY <1>1, HeadIs DEF HasChild, WInv
<1>3. Created(c)
    BY <1>1, <1>2, HeadIs, ItemKinds DEF Created, WInv
<1>4. PICK v : v = [where EXCEPT ![c] = "active"]
    OBVIOUS
<1>5. v \in [Items -> States]
    BY <1>1, <1>4 DEF WInv, TypeOK, States
<1>6. TakeFlight(c, v) /\ UNCHANGED <<home, notified, aborted>>
    BY <1>2, <1>4 DEF InvokeChild
<1>7. PICK t : t = [Top EXCEPT !.left = Tail(@)]
    OBVIOUS
<1>8. t.k = "batch"
  <2>1. Fit(Top) /\ Top.k = "batch"
      BY <1>1, TopIs DEF WInv
  <2> QED BY <1>7, <2>1 DEF Fit
<1>9. PICK b \in BOOLEAN : b <=> esc[Top.n]
    OBVIOUS
<1>10. PICK q : q = Under
    OBVIOUS
<1>11. stack' = (q \o <<t>>) \o Rest(c, b)
    BY <1>2, <1>7, <1>9, <1>10 DEF InvokeChild, Rest
<1>12. Follows(c, b, t, q)
    BY <1>1, <1>8, <1>10, <1>11 DEF Follows
<1> QED BY <1>3, <1>5, <1>6, <1>12, FlightSignals

\* A child is registered, in a scope of user code or of a run.
LEMMA ChildSignals ==
    ASSUME SignalInv, NEW n \in Scopes, OpenModule(n) \/ \E o : Child(n, o)
    PROVE  SignalType' /\ Walked' /\ Numbered' /\ Signalling'
<1>1. UNCHANGED <<detached, requested, notified, phase, stack>> /\ Accepts(n)
    BY DEF OpenModule, Child, flightVars, turnVars
<1>2. \E c \in NextScope : \E o, ab : Construct(c, n, o, ab)
    BY DEF OpenModule, Child
<1> QED BY <1>1, <1>2, ConstructSignals

\* Steps that raise no signal.
LEMMA HushedSignals ==
    ASSUME SignalInv, Grown, Hushed PROVE SignalType' /\ Walked' /\ Numbered' /\ Signalling'
BY SilentSignals DEF Hushed, Muted

-----------------------------------------------------------------------------
(* Signals that are linked to a call.                                      *)

\* Steps of callers and of the flights that answer them.
LEMMA CallsArmed ==
    ASSUME Armed,
           \/ \E k \in Calls : AnswerCall(k) \/ EscalateSignal(k) \/ AbandonSignal(k)
           \/ CloseReturn \/ Settle
    PROVE  Armed'
<1>1. call \in [Calls -> CallType] /\ \A k \in Calls : call[k].linked => call[k].on \in Scopes
    BY DEF Armed
<1>2. ASSUME NEW k \in Calls, AnswerCall(k) \/ EscalateSignal(k) \/ AbandonSignal(k) PROVE Armed'
  <2>1. call[k] \in CallType
      BY <1>1
  <2>2. \E c \in CallType :
          call' = [call EXCEPT ![k] = c] /\ c.on = call[k].on /\ (c.linked => call[k].linked)
    <3>1. CASE AnswerCall(k)
      <4>1. PICK c : c = [[call[k] EXCEPT !.st = "answered"] EXCEPT !.answer = call[k].done]
          OBVIOUS
      <4>2. c \in CallType /\ c.on = call[k].on /\ c.linked = call[k].linked
          BY <2>1, <3>1, <4>1 DEF AnswerCall, CallType
      <4>3. call' = [call EXCEPT ![k].st = "answered", ![k].answer = call[k].done]
          BY <3>1 DEF AnswerCall
      <4>4. call' = [call EXCEPT ![k] = c]
          BY <1>1, <4>1, <4>3
      <4> QED BY <4>2, <4>4
    <3>2. CASE EscalateSignal(k)
      <4>1. PICK c : c = [[call[k] EXCEPT !.escalate = "fired"] EXCEPT !.linked = FALSE]
          OBVIOUS
      <4>2. c \in CallType /\ c.on = call[k].on /\ c.linked = FALSE
          BY <2>1, <4>1 DEF CallType, Signals
      <4>3. call' = [call EXCEPT ![k].escalate = "fired", ![k].linked = FALSE]
          BY <3>2 DEF EscalateSignal
      <4>4. call' = [call EXCEPT ![k] = c]
          BY <1>1, <4>1, <4>3
      <4> QED BY <4>2, <4>4
    <3>3. CASE AbandonSignal(k)
      <4>1. PICK r : r = Snapshot(call[k].on)
          OBVIOUS
      <4>2. r \in {"snapshot-complete", "snapshot-incomplete"}
          BY <4>1 DEF Snapshot
      <4>3. CASE call[k].st = "awaiting"
        <5>1. PICK c : c = [[[call[k] EXCEPT !.abandon = "fired"]
                               EXCEPT !.st = "answered"] EXCEPT !.answer = r]
            OBVIOUS
        <5>2. c \in CallType /\ c.on = call[k].on /\ c.linked = call[k].linked
            BY <2>1, <4>2, <5>1 DEF CallType, Signals
        <5>3. call' = [call EXCEPT ![k].abandon = "fired", ![k].st = "answered", ![k].answer = r]
            BY <3>3, <4>1, <4>3 DEF AbandonSignal
        <5>4. call' = [call EXCEPT ![k] = c]
            BY <1>1, <5>1, <5>3
        <5> QED BY <5>2, <5>4
      <4>4. CASE call[k].st # "awaiting"
        <5>1. PICK c : c = [call[k] EXCEPT !.abandon = "fired"]
            OBVIOUS
        <5>2. c \in CallType /\ c.on = call[k].on /\ c.linked = call[k].linked
            BY <2>1, <5>1 DEF CallType, Signals
        <5>3. call' = [call EXCEPT ![k] = c]
            BY <3>3, <4>4, <5>1 DEF AbandonSignal
        <5> QED BY <5>2, <5>3
      <4> QED BY <4>3, <4>4
    <3> QED BY <1>2, <3>1, <3>2, <3>3
  <2> QED BY <1>1, <2>2 DEF Armed
<1>3. CASE CloseReturn
  <2>1. PICK k : k = Top.call
      OBVIOUS
  <2>2. PICK r : r = IF ~Top.flight THEN "complete"
                     ELSE IF call[k].abandon = "fired" THEN Snapshot(Top.n)
                     ELSE "none"
      OBVIOUS
  <2>3. r \in {"complete", "snapshot-complete", "snapshot-incomplete", "none"}
      BY <2>2 DEF Snapshot
  <2>4. PICK s : s = IF r = "none" THEN "awaiting" ELSE "answered"
      OBVIOUS
  <2>5. call' = [call EXCEPT ![k].st = s, ![k].answer = r]
      BY <1>3, <2>1, <2>2, <2>4 DEF CloseReturn
  <2>6. s \in {"awaiting", "answered"}
      BY <2>4
  <2>7. CASE k \in Calls
    <3>1. call[k] \in CallType
        BY <1>1, <2>7
    <3>2. PICK c : c = [[call[k] EXCEPT !.st = s] EXCEPT !.answer = r]
        OBVIOUS
    <3>3. c \in CallType /\ c.on = call[k].on /\ c.linked = call[k].linked
        BY <2>3, <2>6, <3>1, <3>2 DEF CallType
    <3>4. call' = [call EXCEPT ![k] = c]
        BY <1>1, <2>5, <2>7, <3>2
    <3> QED BY <1>1, <2>7, <3>3, <3>4 DEF Armed
  <2>8. CASE k \notin Calls
    <3>1. call' = call
        BY <1>1, <2>5, <2>8
    <3> QED BY <1>1, <3>1 DEF Armed
  <2> QED BY <2>7, <2>8
<1>4. CASE Settle
  <2>1. PICK n, o : /\ o \in {"complete", "incomplete"}
                    /\ call' = [k \in Calls |->
                         IF call[k].on = n /\ call[k].done = "pending"
                         THEN [call[k] EXCEPT !.done = o, !.linked = FALSE]
                         ELSE call[k]]
    <3>1. PICK n, o : n = Top.n /\ o = Outcome(Debts(n) = {})
        OBVIOUS
    <3>2. o \in {"complete", "incomplete"}
        BY <3>1 DEF Outcome
    <3>3. call' = [k \in Calls |->
                     IF call[k].on = n /\ call[k].done = "pending"
                     THEN [call[k] EXCEPT !.done = o, !.linked = FALSE]
                     ELSE call[k]]
        BY <1>4, <3>1 DEF Settle
    <3> QED BY <3>2, <3>3
  <2>2. ASSUME NEW k \in Calls
        PROVE  /\ call'[k] \in CallType /\ call'[k].on = call[k].on
               /\ (call'[k].linked => call[k].linked)
    <3>1. call[k] \in CallType
        BY <1>1
    <3>2. CASE call[k].on = n /\ call[k].done = "pending"
        BY <2>1, <3>1, <3>2 DEF CallType
    <3>3. CASE ~(call[k].on = n /\ call[k].done = "pending")
        BY <2>1, <3>1, <3>3
    <3> QED BY <3>2, <3>3
  <2> QED BY <1>1, <2>1, <2>2 DEF Armed
<1> QED BY <1>2, <1>3, <1>4

\* A call of close() links its signal to the scope it closes.
LEMMA CloseArmed ==
    ASSUME Armed, NEW k \in Calls, NEW n \in Scopes, NEW e \in Signals, NEW a \in Signals, Close(k, n, e, a)
    PROVE  Armed'
<1>1. call \in [Calls -> CallType] /\ \A j \in Calls : call[j].linked => call[j].on \in Scopes
    BY DEF Armed
<1>2. PICK d : d = IF HasFlight(n) THEN "pending" ELSE "complete"
    OBVIOUS
<1>3. PICK g \in BOOLEAN : g <=> (HasFlight(n) /\ e # "absent" /\ ~esc'[n]) /\ e = "armed"
    OBVIOUS
<1>4. PICK c : c = [on |-> n, st |-> "entered", done |-> d, escalate |-> e, abandon |-> a,
                    linked |-> g, answer |-> "none"]
    OBVIOUS
<1>5. call' = [call EXCEPT ![k] = c]
    BY <1>2, <1>3, <1>4 DEF Close
<1>6. c \in CallType /\ c.on = n
    BY <1>2, <1>3, <1>4 DEF CallType
<1> QED BY <1>1, <1>5, <1>6 DEF Armed

\* Every step keeps what is linked to a call.
LEMMA NextArmed == ASSUME Armed, [Next]_vars PROVE Armed'
<1>1. UNCHANGED call => Armed'
    BY DEF Armed
<1>2. ASSUME NEW n \in Scopes, Setup(n) \/ Use(n) \/ OpenModule(n) \/ (\E o : Child(n, o)) \/ Unlink(n)
                               \/ Resume(n) \/ JoinSettled(n) \/ VoidReleased(n)
      PROVE  UNCHANGED call
    BY <1>2 DEF Setup, Use, OpenModule, Child, Unlink, Resume, JoinSettled, VoidReleased
<1>3. ASSUME NEW l \in Leaves, UserSettles(l) PROVE UNCHANGED call
    BY <1>3 DEF UserSettles, SetupFulfil, SetupReject, CleanupFulfil, CleanupReject
<1>4. ASSUME \/ CancelRun \/ UserReturn \/ NotifyVisit \/ CancelVisit \/ EscalateVisit \/ WalkDone
             \/ StartFlight \/ DrainStep \/ AwaitSetups \/ TakeBatch
             \/ InvokeLeaf \/ InvokeChild \/ InvokeVoid \/ AwaitBatch
      PROVE  UNCHANGED call
    BY <1>4 DEF CancelRun, UserReturn, SetupReturn, ListenerReturn, CleanupReturn, CleanupThrow,
                NotifyVisit, CancelVisit, EscalateVisit, WalkDone, StartFlight, DrainStep, AwaitSetups,
                TakeBatch, InvokeLeaf, InvokeChild, InvokeVoid, AwaitBatch
<1>5. CASE UNCHANGED vars
    BY <1>1, <1>5 DEF vars
<1>6. CASE Next
    BY <1>1, <1>2, <1>3, <1>4, <1>6, CallsArmed, CloseArmed
       DEF Next, UserStep, Machine, Continuation
<1> QED BY <1>5, <1>6

\* Every step keeps the signals on their way.
LEMMA NextSignals == ASSUME SignalInv, [Next]_vars PROVE SignalInv'
<1> DEFINE Goal == SignalType' /\ Walked' /\ Numbered' /\ Signalling'
<1>1. WInv /\ TypeOK /\ Sealed /\ Armed /\ TreeInv
    BY DEF SignalInv, WInv, TreeInv, TypeOK, TreeType
<1>2. Grown /\ WInv' /\ Armed'
    BY <1>1, NextGrows, NextInvariant, NextArmed
<1>3. Sealed'
    BY <1>1, NextIsTreeStep, TreeStepSealed DEF TreeInv
<1>4. Hushed => Goal
    BY <1>2, HushedSignals
<1> HIDE DEF Goal
<1>5. ASSUME NEW n \in Scopes, Setup(n) \/ Use(n) \/ OpenModule(n) \/ (\E o : Child(n, o)) PROVE Goal
    BY <1>4, <1>5, LeafHushed, ChildSignals DEF Goal
<1>6. ASSUME NEW k \in Calls, NEW n \in Scopes, NEW e, NEW a, Close(k, n, e, a) PROVE Goal
    BY <1>2, <1>6, CloseSignals DEF Goal
<1>7. ASSUME NEW k \in Calls, EscalateSignal(k) \/ AbandonSignal(k) \/ AnswerCall(k) PROVE Goal
    BY <1>4, <1>7, ReturnHushed, WalkHushed
<1>8. ASSUME NEW c \in Scopes, Unlink(c) \/ JoinSettled(c) \/ VoidReleased(c) \/ Resume(c) PROVE Goal
    BY <1>4, <1>8, ReturnHushed, FlightHushed
<1>9. ASSUME NEW l \in Leaves, UserSettles(l) PROVE Goal
    BY <1>4, <1>9, ReturnHushed
<1>10. ASSUME UserReturn \/ CloseReturn \/ WalkDone \/ CancelRun PROVE Goal
    BY <1>4, <1>10, ReturnHushed, WalkHushed, CancelHushed DEF UserReturn
<1>11. ASSUME NotifyVisit \/ CancelVisit \/ EscalateVisit \/ InvokeChild PROVE Goal
    BY <1>2, <1>11, NotifySignals, CancelSignals, EscalateSignals, JoinSignals DEF Goal
<1>12. ASSUME \/ StartFlight \/ DrainStep \/ AwaitSetups \/ AwaitBatch
              \/ TakeBatch \/ InvokeLeaf \/ InvokeVoid \/ Settle
       PROVE  Goal
    BY <1>4, <1>12, StartHushed, DrainHushed, FlightHushed, BatchHushed, SettleHushed
<1>13. ASSUME UNCHANGED vars PROVE Goal
  <2>1. UNCHANGED <<signalVars, detached, phase, home, stack>>
      BY <1>13 DEF vars, treeVars, flightVars, turnVars
  <2>2. Hushed
      BY <1>1, <2>1, StillSilent, CommonMuted DEF Hushed
  <2> QED BY <1>4, <2>2
<1>14. ASSUME Next PROVE Goal
    BY <1>5, <1>6, <1>7, <1>8, <1>9, <1>10, <1>11, <1>12, <1>14
       DEF Next, UserStep, Machine, Continuation
<1>15. Goal
    BY <1>13, <1>14
<1> QED BY <1>2, <1>3, <1>15 DEF Goal, SignalInv

\* It holds at the start.
LEMMA InitSignals == Init => SignalInv
<1> SUFFICES ASSUME Init PROVE SignalInv
    OBVIOUS
<1>1. WInv /\ stack = <<>> /\ Len(stack) = 0
    BY InitInvariant DEF Init
<1>2. Walked /\ Opening
    BY <1>1 DEF Walked, Opening
<1>3. /\ notified = [n \in Scopes |-> FALSE] /\ aborted = [n \in Scopes |-> FALSE]
      /\ \A n \in Scopes : home[n] = 0 /\ requested[n] = FALSE /\ phase[n] = "none"
    BY ItemKinds DEF Init
<1>6. SignalType
    BY <1>3 DEF SignalType
<1>7. Sealed /\ Heard /\ Warned /\ Inherited /\ Begun
    BY <1>3 DEF Sealed, Heard, Warned, Inherited, Attached, Begun
<1>4. Numbered
  <2>1. \A c \in Scopes : home[c] = 0 /\ ~requested[c] /\ c \in Nat /\ c >= 1
      BY ItemKinds, ScopeAssumption DEF Init, Scopes
  <2>2. \A c \in Scopes : Created(c) => c = 1
      BY <2>1 DEF Created, Root
  <2> QED BY <2>1, <2>2 DEF Numbered
<1>5. Armed
  <2>1. PICK c : c = [on |-> 0, st |-> "unused", done |-> "pending", escalate |-> "absent",
                      abandon |-> "absent", linked |-> FALSE, answer |-> "none"]
      OBVIOUS
  <2>2. c \in CallType /\ c.linked = FALSE
      BY <2>1 DEF CallType, Signals
  <2>3. call = [k \in Calls |-> c]
      BY <2>1 DEF Init
  <2> QED BY <2>2, <2>3 DEF Armed
<1> QED BY <1>1, <1>2, <1>4, <1>5, <1>6, <1>7 DEF SignalInv, Signalling

\* In every reachable state each signal has arrived or is on its way to every scope
\* that it is meant for, however listeners close scopes, open children, start runs
\* and cancel them while the walks are under way.
THEOREM SignalsInvariant == Spec => []SignalInv
<1>1. SignalInv /\ [Next]_vars => SignalInv'
    BY NextSignals
<1> QED BY <1>1, InitSignals, PTL DEF Spec

\* When the outermost call has returned, every requested scope was told, and no
\* attached child of an aborted scope was missed.
THEOREM SignalsArrive == Spec => []SignalsReach
<1>1. SignalInv => SignalsReach
    BY SignalsArrived
<1> QED BY <1>1, SignalsInvariant, PTL
================================================================================
