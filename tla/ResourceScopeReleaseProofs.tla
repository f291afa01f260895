---------------------- MODULE ResourceScopeReleaseProofs ----------------------
(***************************************************************************)
(* Theorems about what the cleanup scopes release and report: the order of *)
(* the cleanups, what a report names, and what "complete" means.           *)
(***************************************************************************)
EXTENDS ResourceScopeProofs

-----------------------------------------------------------------------------
(* The order of the slots.                                                 *)

\* i took its slot before j.
Before(s, i, j) == \E a, b \in 1 .. Len(s) : a < b /\ s[a] = i /\ s[b] = j

\* Of the slots s those in l are to be released, those in B are being released
\* and those in f failed: newest first, one at a time.
Orderly(s, l, f, B) ==
    /\ \A a \in 1 .. Len(l) : \E x \in 1 .. Len(s) : s[x] = l[a]
    /\ \A b \in 1 .. Len(f) : \E x \in 1 .. Len(s) : s[x] = f[b]
    /\ \A i \in B : \E x \in 1 .. Len(s) : s[x] = i
    /\ \A a, b \in 1 .. Len(l) : a < b => Before(s, l[a], l[b])
    /\ \A a, b \in 1 .. Len(f) : a < b => Before(s, f[b], f[a])
    /\ \A a \in 1 .. Len(l), b \in 1 .. Len(f) : Before(s, l[a], f[b])
    /\ \A a \in 1 .. Len(l), j \in B : Before(s, l[a], j)
    /\ \A i \in B, b \in 1 .. Len(f) : Before(s, i, f[b])
    /\ \A i, j \in B : i = j

\* What is left out of #live does not change the order, nor what ends.
LEMMA OrderlyThin ==
    ASSUME NEW s, NEW l \in Seq(Items), NEW f \in Seq(Items), NEW B, Orderly(s, l, f, B),
           NEW t, NEW S, Thins(t, l, S), NEW C, C \subseteq B
    PROVE  Orderly(s, t, f, C)
<1>1. t \in Seq(Items) /\ Len(t) \in Nat /\ Len(l) \in Nat
    BY DEF Thins
<1>2. PICK g \in [1 .. Len(t) -> 1 .. Len(l)] :
          /\ \A i \in 1 .. Len(t) : t[i] = l[g[i]]
          /\ \A i, j \in 1 .. Len(t) : i < j => g[i] < g[j]
    BY Zenon DEF Thins
<1>3. \A i \in 1 .. Len(t) : g[i] \in 1 .. Len(l) /\ t[i] = l[g[i]]
  <2>1. \A i \in 1 .. Len(t) : g[i] \in 1 .. Len(l)
      OBVIOUS
  <2> QED BY <1>2, <2>1
<1>4. ASSUME NEW a \in 1 .. Len(t) PROVE \E x \in 1 .. Len(s) : s[x] = t[a]
  <2>1. PICK c \in 1 .. Len(l) : t[a] = l[c]
      BY <1>3
  <2> QED BY <2>1 DEF Orderly
<1>5. ASSUME NEW a \in 1 .. Len(t), NEW b \in 1 .. Len(t), a < b PROVE Before(s, t[a], t[b])
  <2>1. g[a] \in 1 .. Len(l) /\ g[b] \in 1 .. Len(l) /\ g[a] < g[b]
      BY <1>2, <1>5
  <2>2. Before(s, l[g[a]], l[g[b]])
      BY <2>1 DEF Orderly
  <2> QED BY <1>3, <2>2
<1>6. \A a \in 1 .. Len(t), b \in 1 .. Len(f) : Before(s, t[a], f[b])
    BY <1>3 DEF Orderly
<1>7. \A a \in 1 .. Len(t), j \in C : Before(s, t[a], j)
    BY <1>3 DEF Orderly
<1> QED BY <1>4, <1>5, <1>6, <1>7 DEF Orderly

\* What is released ends.
LEMMA OrderlyLess ==
    ASSUME NEW s, NEW l, NEW f, NEW B, Orderly(s, l, f, B), NEW C, C \subseteq B
    PROVE  Orderly(s, l, f, C)
<1>1. \A i \in C : i \in B
    OBVIOUS
<1> QED BY <1>1 DEF Orderly

\* What has to stay is still there.
LEMMA ThinsKeeps ==
    ASSUME NEW l, NEW t, NEW S, Thins(t, l, S), NEW k \in 1 .. Len(l), l[k] \in S
    PROVE  \E b \in 1 .. Len(t) : t[b] = l[k]
<1>1. PICK g \in [1 .. Len(t) -> 1 .. Len(l)] :
          /\ \A i \in 1 .. Len(t) : t[i] = l[g[i]]
          /\ \A x \in 1 .. Len(l) : l[x] \in S => \E i \in 1 .. Len(t) : g[i] = x
    BY Zenon DEF Thins
<1>2. PICK i \in 1 .. Len(t) : g[i] = k
    BY <1>1
<1> QED BY <1>1, <1>2

\* Nothing is listed, failed or being released.
LEMMA OrderlyEmpty ==
    ASSUME NEW s, NEW l, NEW f, Len(l) = 0, Len(f) = 0 PROVE Orderly(s, l, f, {})
<1>1. \A a \in 1 .. Len(l) : FALSE
    OBVIOUS
<1>2. \A a \in 1 .. Len(f) : FALSE
    OBVIOUS
<1> QED BY <1>1, <1>2 DEF Orderly

\* A new slot is the last one.
LEMMA OrderlyAdd ==
    ASSUME NEW s \in Seq(Items), NEW l \in Seq(Items), NEW f, Len(f) = 0, Orderly(s, l, f, {}),
           NEW i \in Items, NEW r, r = Append(s, i), NEW t, t = Append(l, i)
    PROVE  Orderly(r, t, f, {})
<1>1. /\ r \in Seq(Items) /\ Len(r) = Len(s) + 1 /\ r[Len(s) + 1] = i /\ Len(s) \in Nat
      /\ \A a \in 1 .. Len(s) : r[a] = s[a]
    BY AppendProperties
<1>2. /\ t \in Seq(Items) /\ Len(t) = Len(l) + 1 /\ t[Len(l) + 1] = i /\ Len(l) \in Nat
      /\ \A a \in 1 .. Len(l) : t[a] = l[a]
    BY AppendProperties
<1>3. \A x \in 1 .. Len(s) : x \in 1 .. Len(r) /\ Len(s) + 1 \in 1 .. Len(r) /\ x < Len(s) + 1
    BY <1>1
<1>4. \A x, y : Before(s, x, y) => Before(r, x, y)
    BY <1>1, <1>3 DEF Before
<1>5. \A a \in 1 .. Len(l) : Before(r, l[a], i)
    BY <1>1, <1>3 DEF Before, Orderly
<1>6. \A a \in 1 .. Len(t) : \E x \in 1 .. Len(r) : r[x] = t[a]
  <2> SUFFICES ASSUME NEW a \in 1 .. Len(t) PROVE \E x \in 1 .. Len(r) : r[x] = t[a]
      OBVIOUS
  <2>1. CASE a = Len(l) + 1
    <3>1. Len(s) + 1 \in 1 .. Len(r)
        BY <1>1
    <3> QED BY <1>1, <1>2, <2>1, <3>1
  <2>2. CASE a \in 1 .. Len(l)
    <3>1. PICK x \in 1 .. Len(s) : s[x] = l[a]
        BY <2>2 DEF Orderly
    <3> QED BY <1>1, <1>2, <1>3, <2>2, <3>1
  <2> QED BY <1>2, <2>1, <2>2
<1>7. ASSUME NEW a \in 1 .. Len(t), NEW b \in 1 .. Len(t), a < b PROVE Before(r, t[a], t[b])
  <2>1. a \in 1 .. Len(l) /\ (b \in 1 .. Len(l) \/ b = Len(l) + 1)
    <3>1. PICK m \in Nat : m = Len(l)
        BY <1>2
    <3>2. a \in 1 .. m + 1 /\ b \in 1 .. m + 1 /\ a < b
        BY <1>2, <1>7, <3>1
    <3>3. a \in 1 .. m /\ (b \in 1 .. m \/ b = m + 1)
        BY <3>2
    <3> QED BY <3>1, <3>3
  <2>2. CASE b \in 1 .. Len(l)
    <3>1. Before(s, l[a], l[b])
        BY <1>7, <2>1, <2>2 DEF Orderly
    <3> QED BY <1>2, <1>4, <2>1, <2>2, <3>1
  <2> QED BY <1>2, <1>5, <2>1, <2>2
<1> QED BY <1>6, <1>7 DEF Orderly

\* The newest one is taken.
LEMMA OrderlyTake ==
    ASSUME NEW s, NEW l \in Seq(Items), NEW f, Orderly(s, l, f, {}),
           NEW k \in 0 .. Len(l) - 1, NEW t, t = SubSeq(l, 1, k)
    PROVE  Orderly(s, t, f, {l[k + 1]})
<1>1. /\ Len(l) \in Nat /\ k \in Nat /\ k + 1 \in 1 .. Len(l)
      /\ \A a \in 1 .. k : a \in 1 .. Len(l) /\ a < k + 1
    OBVIOUS
<1>2. Len(t) = k /\ \A a \in 1 .. k : t[a] = l[a]
    BY <1>1, SubSeqProperties
<1> QED BY <1>1, <1>2 DEF Orderly

\* What is being released fails.
LEMMA OrderlyFail ==
    ASSUME NEW s, NEW l, NEW f \in Seq(Items), NEW B, Orderly(s, l, f, B),
           NEW i \in Items, i \in B, NEW t, t = Append(f, i)
    PROVE  Orderly(s, l, t, {})
<1>1. /\ Len(t) = Len(f) + 1 /\ t[Len(f) + 1] = i /\ Len(f) \in Nat
      /\ \A a \in 1 .. Len(f) : t[a] = f[a]
    BY AppendProperties
<1>2. \A a \in 1 .. Len(t) : a \in 1 .. Len(f) \/ a = Len(f) + 1
    BY <1>1
<1>3. ASSUME NEW a \in 1 .. Len(t), NEW b \in 1 .. Len(t), a < b PROVE Before(s, t[b], t[a])
  <2>1. a \in 1 .. Len(f) /\ (b \in 1 .. Len(f) \/ b = Len(f) + 1)
      BY <1>1, <1>3
  <2> QED BY <1>1, <1>3, <2>1 DEF Orderly
<1>4. \A a \in 1 .. Len(l), b \in 1 .. Len(t) : Before(s, l[a], t[b])
    BY <1>1, <1>2 DEF Orderly
<1>5. \A b \in 1 .. Len(t) : \E x \in 1 .. Len(s) : s[x] = t[b]
    BY <1>1, <1>2 DEF Orderly
<1> QED BY <1>3, <1>4, <1>5 DEF Orderly

\* What failed is listed again, behind what was not tried.
LEMMA OrderlyAgain ==
    ASSUME NEW s, NEW l \in Seq(Items), NEW f \in Seq(Items), Orderly(s, l, f, {}),
           NEW r \in Seq(Items), NEW g \in [1 .. Len(r) -> 1 .. Len(f)],
           \A i \in 1 .. Len(r) : r[i] = f[g[i]],
           \A i, j \in 1 .. Len(r) : i < j => g[j] < g[i],
           NEW t, t = l \o r, NEW e, Len(e) = 0
    PROVE  Orderly(s, t, e, {})
<1>1. /\ Len(t) = Len(l) + Len(r) /\ Len(l) \in Nat /\ Len(r) \in Nat
      /\ \A i \in 1 .. Len(t) : t[i] = IF i <= Len(l) THEN l[i] ELSE r[i - Len(l)]
    BY ConcatProperties
<1>2. \A a \in 1 .. Len(t) : \/ a \in 1 .. Len(l) /\ t[a] = l[a]
                             \/ a > Len(l) /\ a - Len(l) \in 1 .. Len(r) /\ t[a] = r[a - Len(l)]
    BY <1>1
<1>3. \A i \in 1 .. Len(r) : g[i] \in 1 .. Len(f)
    OBVIOUS
<1>4. \A i \in 1 .. Len(f) : \E x \in 1 .. Len(s) : s[x] = f[i]
    BY DEF Orderly
<1>5. \A a \in 1 .. Len(t) : \E x \in 1 .. Len(s) : s[x] = t[a]
    BY <1>2, <1>3, <1>4 DEF Orderly
<1>6. ASSUME NEW a \in 1 .. Len(t), NEW b \in 1 .. Len(t), a < b PROVE Before(s, t[a], t[b])
  <2>1. CASE b \in 1 .. Len(l) /\ t[b] = l[b]
    <3>1. a \in 1 .. Len(l) /\ t[a] = l[a]
        BY <1>1, <1>6, <2>1
    <3> QED BY <1>6, <2>1, <3>1 DEF Orderly
  <2>2. CASE b - Len(l) \in 1 .. Len(r) /\ t[b] = r[b - Len(l)]
    <3>1. CASE a \in 1 .. Len(l) /\ t[a] = l[a]
      <4>1. PICK y \in 1 .. Len(r) : t[b] = f[g[y]]
          BY <2>2
      <4> QED BY <1>3, <3>1, <4>1 DEF Orderly
    <3>2. CASE a - Len(l) \in 1 .. Len(r) /\ t[a] = r[a - Len(l)]
      <4>1. a - Len(l) < b - Len(l)
          BY <1>1, <1>6
      <4>2. PICK x \in 1 .. Len(r), y \in 1 .. Len(r) : x = a - Len(l) /\ y = b - Len(l) /\ x < y
          BY <2>2, <3>2, <4>1
      <4>3. t[a] = f[g[x]] /\ t[b] = f[g[y]] /\ g[y] < g[x]
          BY <2>2, <3>2, <4>2
      <4> QED BY <1>3, <4>2, <4>3 DEF Orderly
    <3> QED BY <1>2, <3>1, <3>2
  <2> QED BY <1>2, <2>1, <2>2
<1> QED BY <1>5, <1>6 DEF Orderly

-----------------------------------------------------------------------------
(* One entry at a time.                                                    *)

\* The entry that a reverse scope has taken and invokes next.
Hand == {i \in Items : On({"batch"}) /\ order[Top.n] = "reverse" /\ Top.left # <<>> /\ i = Head(Top.left)}
Busy(n) == {i \in Items : home[i] = n /\ (inv[i] # "none" \/ i \in Hand)}
Slotted == {"live", "active", "failed", "gone"}

\* A slot belongs to one entry, which has been registered for good.
Slots == \A n \in Scopes :
    /\ \A a, b \in 1 .. Len(ledger[n]) : ledger[n][a] = ledger[n][b] => a = b
    /\ \A a \in 1 .. Len(ledger[n]) : home[ledger[n][a]] = n /\ where[ledger[n][a]] \in Slotted

Ranked == \A n \in Scopes : order[n] = "reverse" => Orderly(ledger[n], live[n], failed[n], Busy(n))

\* What is to be released is listed or at hand; what is being released has an
\* invocation; a child whose report is complete has left.
Held ==
    /\ \A i \in Items : Backward(i) /\ where[i] = "live" =>
         i \in Hand \/ \E a \in 1 .. Len(live[home[i]]) : live[home[i]][a] = i
    /\ \A i \in Items : Backward(i) /\ where[i] = "active" => inv[i] # "none"
    /\ \A c \in Scopes : inv[c] = "complete" => detached[c]

\* Only a scope past its setups has failed entries.
Retrying == \A n \in Scopes : Len(failed[n]) # 0 => requested[n] /\ Setups(n) = {}

\* What is at hand is alone.
Solo == \A i \in Hand : NoneInvoked(home[i])

\* A cleanup on the stack is the invocation of its entry, and the only one.
Bodies == \A f \in ToSet(stack) : f.k = "cleanup" /\ Backward(f.n) => inv[f.n] # "none"
Apart == \A p, q \in 1 .. Len(stack) :
    p # q /\ stack[p].k = "cleanup" /\ stack[q].k = "cleanup" /\ Backward(stack[p].n) =>
        stack[p].n # stack[q].n

Tidy == Slots /\ Ranked /\ Held /\ Retrying /\ Solo
Tidying == Lasting /\ Tidy /\ Bodies /\ Apart

\* Slots that stay.
LEMMA SlotsKept ==
    ASSUME TypeOK, Slots, Grown, ledger' = ledger,
           \A i \in Items : home[i] # 0 /\ where[i] \in Slotted => where'[i] \in Slotted
    PROVE  Slots'
<1> SUFFICES ASSUME NEW n \in Scopes, NEW a \in 1 .. Len(ledger[n])
             PROVE  home'[ledger[n][a]] = n /\ where'[ledger[n][a]] \in Slotted
    BY DEF Slots
<1>1. ledger[n][a] \in Items /\ n # 0
    BY ItemKinds DEF TypeOK
<1> QED BY <1>1 DEF Slots, Grown

\* Scopes that have failed entries stay past their setups.
LEMMA RetryingKept ==
    ASSUME TypeOK, Memory, Grown, Retrying,
           \A n \in Scopes : Len(failed'[n]) # 0 => Len(failed[n]) # 0 \/ (requested[n] /\ Setups(n) = {})
    PROVE  Retrying'
<1> SUFFICES ASSUME NEW n \in Scopes, Len(failed'[n]) # 0 PROVE requested'[n] /\ Setups(n)' = {}
    BY DEF Retrying
<1>1. requested[n] /\ Setups(n) = {}
    BY DEF Retrying
<1> QED BY <1>1, SetupsStay DEF Grown

\* What is at hand is an entry of the flight on top.
LEMMA HandIs ==
    ASSUME TypeOK, Framed, NEW i \in Hand
    PROVE  /\ On({"batch"}) /\ Top.left # <<>> /\ i = Head(Top.left) /\ i \in Items /\ home[i] = Top.n
           /\ Top.n \in Scopes /\ phase[Top.n] = "running" /\ order[Top.n] = "reverse" /\ Backward(i)
           /\ Setups(Top.n) = {}
<1>1. On({"batch"}) /\ Top.left # <<>> /\ i = Head(Top.left) /\ order[Top.n] = "reverse"
    BY DEF Hand
<1> QED BY <1>1, HeadIs DEF Backward

\* An entry that is being released belongs to a flight past its setups.
LEMMA BusyIs ==
    ASSUME WInv, NEW n \in Scopes, NEW i \in Busy(n)
    PROVE  /\ i \in Items /\ home[i] = n /\ phase[n] \in {"running", "batch"} /\ requested[n]
           /\ Setups(n) = {}
<1>1. TypeOK /\ Framed /\ Invoked /\ Flights
    BY DEF WInv
<1>2. i \in Items /\ home[i] = n
    BY DEF Busy
<1>3. phase[n] \in {"running", "batch"} /\ Setups(n) = {}
  <2>1. CASE inv[i] # "none"
      BY <1>1, <1>2, <2>1 DEF Invoked
  <2>2. CASE i \in Hand
      BY <1>1, <1>2, <2>2, HandIs
  <2> QED BY <2>1, <2>2 DEF Busy
<1> QED BY <1>1, <1>2, <1>3 DEF Flights

\* A step that leaves the batches alone has nothing at hand.
LEMMA AsideFree ==
    ASSUME Lasting, Entries, Aside, TypeOK' PROVE Hand = {} /\ Hand' = {}
<1> USE DEF Lasting
<1>1. TypeOK /\ Framed /\ Flights
    BY DEF WInv
<1>2. Hand = {}
    BY DEF Aside, Hand
<1>3. ASSUME NEW i \in Hand' PROVE FALSE
  <2>1. stack' # <<>> /\ Top'.k = "batch" /\ Top'.left # <<>> /\ order'[Top'.n] = "reverse"
      BY <1>3 DEF Hand, On, Idle
  <2>2. PICK f : f = Top'
      OBVIOUS
  <2>3. f \in ToSet(stack')
    <3>1. PICK q : q = stack'
        OBVIOUS
    <3>2. q \in Seq(ToSet(q)) /\ q # <<>>
        BY <2>1, <3>1 DEF TypeOK
    <3>3. Last(q) \in ToSet(q)
        BY <3>2, FrontIsBelow, OfItsOwn
    <3> QED BY <2>2, <3>1, <3>3 DEF Top
  <2>4. PICK F : Piles(F)
      BY DEF Aside
  <2>5. f \in ToSet(stack)
      BY <1>1, <2>1, <2>2, <2>3, <2>4, PileIn
  <2>6. f.n \in Scopes /\ phase[f.n] = "running"
      BY <1>1, <2>1, <2>2, <2>5 DEF Framed, Fit, Steps
  <2>7. order[f.n] = "reverse"
      BY <1>1, <2>1, <2>2, <2>6 DEF Flights, Entries
  <2> QED BY <2>1, <2>2, <2>5, <2>7 DEF Prompt, Aside
<1> QED BY <1>2, <1>3

\* Steps that register no slot: they put the entries that are tried again in L,
\* and thin that.
LEMMA TidyKept ==
    ASSUME TypeOK, Tidy, Memory, Grown, UNCHANGED <<order, ledger>>,
           NEW L \in [Scopes -> Seq(Items)],
           \A n \in Scopes : order[n] = "reverse" => Orderly(ledger[n], L[n], failed'[n], Busy(n)'),
           \A n \in Scopes : Thins(live'[n], L[n], {i \in Items : where'[i] # "gone"}),
           \A i \in Items : home'[i] # home[i] => where'[i] = "setup",
           \A i \in Items : home[i] # 0 /\ where[i] \in Slotted => where'[i] \in Slotted,
           \A i \in Items : Backward(i) /\ where'[i] = "live" => \E k \in 1 .. Len(L[home[i]]) : L[home[i]][k] = i,
           \A i \in Items : Backward(i) /\ where'[i] = "active" => inv'[i] # "none",
           \A c \in Scopes : inv'[c] = "complete" => detached'[c],
           \A n \in Scopes : Len(failed'[n]) # 0 => Len(failed[n]) # 0 \/ (requested[n] /\ Setups(n) = {}),
           Hand' = {}
    PROVE  Tidy'
<1>1. Slots' /\ Retrying'
    BY SlotsKept, RetryingKept DEF Tidy
<1>2. ASSUME NEW n \in Scopes, order[n] = "reverse"
      PROVE  Orderly(ledger[n], live'[n], failed'[n], Busy(n)')
  <2>1. PICK t, S, C : t = live'[n] /\ S = {i \in Items : where'[i] # "gone"} /\ C = Busy(n)'
      OBVIOUS
  <2>2. Thins(t, L[n], S) /\ L[n] \in Seq(Items) /\ failed'[n] \in Seq(Items)
      BY <2>1 DEF Memory, Lists
  <2>3. Orderly(ledger[n], L[n], failed'[n], C)
      BY <1>2, <2>1
  <2>4. Orderly(ledger[n], t, failed'[n], C)
      BY <2>2, <2>3, OrderlyThin
  <2> QED BY <2>1, <2>4
<1>3. Ranked'
    BY <1>2 DEF Ranked
<1>4. ASSUME NEW i \in Items, Backward(i)', where'[i] = "live"
      PROVE  \E a \in 1 .. Len(live'[home'[i]]) : live'[home'[i]][a] = i
  <2>1. home'[i] = home[i] /\ Backward(i)
      BY <1>4 DEF Backward
  <2>2. PICK n \in Scopes : n = home[i]
      BY <2>1 DEF Backward
  <2>3. PICK k \in 1 .. Len(L[n]) : L[n][k] = i
      BY <1>4, <2>1, <2>2
  <2>4. PICK t, S : t = live'[n] /\ S = {j \in Items : where'[j] # "gone"}
      OBVIOUS
  <2>5. i \in S /\ Thins(t, L[n], S)
      BY <1>4, <2>4
  <2>6. \E b \in 1 .. Len(t) : t[b] = i
      BY <2>3, <2>5, ThinsKeeps
  <2> QED BY <2>1, <2>2, <2>4, <2>6
<1>5. \A i \in Items : Backward(i)' /\ where'[i] = "active" => inv'[i] # "none"
    BY DEF Backward
<1>6. Held'
    BY <1>4, <1>5 DEF Held
<1> QED BY <1>1, <1>3, <1>6 DEF Tidy, Solo

\* What is being released in a reverse scope was so, or was at hand.
LEMMA BusyKept ==
    ASSUME TypeOK, NEW n \in Scopes, order[n] = "reverse",
           \A i \in Items : home'[i] # home[i] => inv'[i] = "none",
           \A i \in Items : Backward(i) /\ inv'[i] # "none" => inv[i] # "none" \/ i \in Hand,
           Hand' = {}
    PROVE  Busy(n)' \subseteq Busy(n)
<1> SUFFICES ASSUME NEW i \in Items, home'[i] = n, inv'[i] # "none" PROVE i \in Busy(n)
    BY DEF Busy
<1>1. home[i] = n /\ Backward(i)
    BY DEF Backward
<1> QED BY <1>1 DEF Busy

\* Steps that register no slot and fail nothing.
LEMMA TidyThin ==
    ASSUME TypeOK, Tidy, Memory, Grown, UNCHANGED <<order, failed, ledger>>,
           \A n \in Scopes : Thins(live'[n], live[n], {i \in Items : where'[i] # "gone"}),
           \A i \in Items : home'[i] # home[i] => where'[i] = "setup" /\ inv'[i] = "none",
           \A i \in Items : home[i] # 0 /\ where[i] \in Slotted => where'[i] \in Slotted,
           \A i \in Items : Backward(i) /\ where'[i] = "live" => where[i] = "live" /\ i \notin Hand,
           \A i \in Items : Backward(i) /\ where'[i] = "active" => inv'[i] # "none",
           \A c \in Scopes : inv'[c] = "complete" => detached'[c],
           \A i \in Items : Backward(i) /\ inv'[i] # "none" => inv[i] # "none" \/ i \in Hand,
           Hand' = {}
    PROVE  Tidy'
<1>1. Slots /\ Ranked /\ Held /\ Retrying /\ live \in [Scopes -> Seq(Items)]
    BY DEF TypeOK, Tidy
<1>2. ASSUME NEW n \in Scopes, order[n] = "reverse"
      PROVE  Orderly(ledger[n], live[n], failed'[n], Busy(n)')
  <2>1. Busy(n)' \subseteq Busy(n)
      BY <1>2, BusyKept
  <2>2. Orderly(ledger[n], live[n], failed[n], Busy(n))
      BY <1>1, <1>2 DEF Ranked
  <2>3. PICK C : C = Busy(n)'
      OBVIOUS
  <2>4. Orderly(ledger[n], live[n], failed[n], C)
      BY <2>1, <2>2, <2>3, OrderlyLess
  <2> QED BY <2>3, <2>4
<1>3. ASSUME NEW i \in Items, Backward(i), where'[i] = "live"
      PROVE  \E k \in 1 .. Len(live[home[i]]) : live[home[i]][k] = i
    BY <1>1, <1>3 DEF Held
<1>4. \A n \in Scopes : Len(failed'[n]) # 0 => Len(failed[n]) # 0
    OBVIOUS
<1> QED BY <1>1, <1>2, <1>3, <1>4, TidyKept

-----------------------------------------------------------------------------
(* The cleanups on the stack.                                              *)

\* A scope that released something before releases the rest in the same order.
LEMMA BackwardStays ==
    ASSUME Lasting, Grown, Entries, NEW i \in Items, home[i] \in Scopes
    PROVE  Backward(i)' <=> Backward(i)
<1>1. home'[i] = home[i] /\ Created(home[i])
    BY ItemKinds DEF Grown, Lasting, WInv, Owns
<1> QED BY <1>1 DEF Backward, Entries

\* A cleanup on the stack is of an entry that was registered.
LEMMA CleanupOf ==
    ASSUME Lasting, NEW p \in 1 .. Len(stack), stack[p].k = "cleanup"
    PROVE  /\ stack[p] \in ToSet(stack) /\ stack[p].n \in Leaves /\ stack[p].n \in Items
           /\ home[stack[p].n] \in Scopes
<1>1. PICK f : f = stack[p]
    OBVIOUS
<1>2. f \in ToSet(stack)
    BY <1>1, OfItsOwn DEF Lasting, WInv, TypeOK
<1>3. Fit(f)
    BY <1>2 DEF Lasting, WInv, Framed
<1> QED BY <1>1, <1>2, <1>3, ItemKinds DEF Fit

\* The cleanups that stay are as many as before.
LEMMA ApartKept ==
    ASSUME Lasting, Grown, Entries, Apart, NEW m, NEW F, Stacks(m, F),
           \A p, q \in 1 .. Len(stack') :
              q > m /\ p # q /\ stack'[p].k = "cleanup" /\ stack'[q].k = "cleanup"
                /\ Backward(stack[p].n)' => stack'[p].n # stack'[q].n
    PROVE  Apart'
<1> SUFFICES ASSUME NEW p \in 1 .. Len(stack'), NEW q \in 1 .. Len(stack'), p # q,
                    stack'[p].k = "cleanup", stack'[q].k = "cleanup", Backward(stack[p].n)',
                    stack'[p].n = stack'[q].n
             PROVE  FALSE
    BY DEF Apart
<1>1. ~(q > m) /\ ~(p > m)
    OBVIOUS
<1>2. m \in Nat /\ Len(stack) \in Nat /\ m <= Len(stack) /\ \A i \in 1 .. m : stack'[i] = stack[i]
    BY DEF Stacks, Lasting, WInv, TypeOK
<1>3. p \in 1 .. m /\ q \in 1 .. m /\ p \in 1 .. Len(stack) /\ q \in 1 .. Len(stack)
    BY <1>1, <1>2
<1>4. stack[p] = stack'[p] /\ stack[q] = stack'[q]
    BY <1>2, <1>3
<1>5. PICK f : f = stack[p]
    OBVIOUS
<1>6. stack[p].k = "cleanup" /\ Backward(f.n)'
    BY <1>4, <1>5
<1>7. f.n \in Items /\ home[f.n] \in Scopes
    BY <1>3, <1>5, <1>6, CleanupOf
<1>8. Backward(stack[p].n)
    BY <1>5, <1>6, <1>7, BackwardStays
<1> QED BY <1>3, <1>4, <1>6, <1>8 DEF Apart

\* The entry of a cleanup that stays is still being released.
LEMMA BodiesKept ==
    ASSUME Lasting, Grown, Entries, Bodies, NEW f, NEW p \in 1 .. Len(stack), f = stack[p],
           f.k = "cleanup", Backward(f.n)', inv[f.n] # "none" => inv'[f.n] # "none"
    PROVE  inv'[f.n] # "none"
<1>1. f \in ToSet(stack) /\ f.n \in Items /\ home[f.n] \in Scopes
    BY CleanupOf
<1> QED BY <1>1, BackwardStays DEF Bodies

\* Steps that start no cleanup and end none.
LEMMA AsideBodies ==
    ASSUME Lasting, Grown, Entries, Bodies, Apart, Aside,
           \A l \in Leaves : inv[l] # "none" => inv'[l] # "none" \/ Idle
    PROVE  Bodies' /\ Apart'
<1>1. PICK F : Piles(F)
    BY DEF Aside
<1>2. PICK m : Stacks(m, F) /\ \A f \in F : f.k # "cleanup"
    BY <1>1 DEF Piles, Bystanders
<1>3. Apart'
  <2>1. \A q \in 1 .. Len(stack') : q > m => stack'[q].k # "cleanup"
      BY <1>2 DEF Stacks
  <2> QED BY <1>2, <2>1, ApartKept
<1>4. ASSUME NEW f \in ToSet(stack'), f.k = "cleanup", Backward(f.n)' PROVE inv'[f.n] # "none"
  <2>1. f \in ToSet(stack)
      BY <1>1, <1>4, PileIn DEF Lasting, WInv
  <2>2. PICK p \in 1 .. Len(stack) : f = stack[p]
      BY <2>1, OfItsOwn DEF Lasting, WInv, TypeOK
  <2>3. ~Idle /\ f.n \in Leaves
      BY <1>4, <2>2, CleanupOf DEF Idle
  <2> QED BY <1>4, <2>2, <2>3, BodiesKept
<1> QED BY <1>3, <1>4 DEF Bodies

\* A cleanup that throws was the only one of its entry.
LEMMA ThrowBodies ==
    ASSUME Lasting, Grown, Entries, Bodies, Apart, CleanupThrow PROVE Bodies' /\ Apart'
<1>1. TypeOK /\ stack # <<>> /\ Top.k = "cleanup" /\ stack' = Under /\ inv' = [inv EXCEPT ![Top.n] = "none"]
    BY DEF CleanupThrow, On, Idle, Lasting, WInv
<1>2. Len(stack) \in Nat \ {0} /\ Top = stack[Len(stack)]
    BY <1>1, FrontIsBelow DEF TypeOK, Top
<1>3. Stacks(Len(stack) - 1, {})
    BY <1>1, StackPop
<1>4. Apart'
  <2>1. \A q \in 1 .. Len(stack') : ~(q > Len(stack) - 1)
      BY <1>3 DEF Stacks
  <2> QED BY <1>3, <2>1, ApartKept
<1>5. ASSUME NEW f \in ToSet(stack'), f.k = "cleanup", Backward(f.n)' PROVE inv'[f.n] # "none"
  <2>1. PICK p \in 1 .. Len(stack) - 1 : f = stack[p]
      BY <1>3, StackIn
  <2>2. p \in 1 .. Len(stack) /\ Len(stack) \in 1 .. Len(stack) /\ p # Len(stack)
      BY <1>2
  <2>3. f.n \in Items /\ Backward(f.n)
      BY <1>5, <2>1, <2>2, CleanupOf, BackwardStays
  <2>4. f.n # Top.n
      BY <1>1, <1>2, <1>5, <2>1, <2>2, <2>3 DEF Apart
  <2>5. inv'[f.n] = inv[f.n]
      BY <1>1, <2>3, <2>4 DEF TypeOK
  <2> QED BY <1>5, <2>1, <2>2, <2>5, BodiesKept
<1> QED BY <1>4, <1>5 DEF Bodies

\* What is invoked had no cleanup on the stack.
LEMMA InvokeBodies ==
    ASSUME Tidying, Grown, Entries, InvokeLeaf \/ InvokeVoid \/ InvokeChild PROVE Bodies' /\ Apart'
<1> USE DEF Tidying
<1>1. PICK b, F :
             /\ b.k = "batch"
             /\ Stacks(Len(stack) - 1, {b} \cup F)
             /\ \A f \in F : f.k = "cleanup" => InvokeLeaf /\ f.n = Head(Top.left)
             /\ \A p, q \in Len(stack) .. Len(stack') :
                  stack'[p].k = "cleanup" /\ stack'[q].k = "cleanup" => p = q
    BY InvokeStack
<1>2. PICK m : m = Len(stack) - 1
    OBVIOUS
<1>3. PICK i : i = Head(Top.left)
    OBVIOUS
<1>4. On({"batch"}) /\ Top.left # <<>> /\ TypeOK /\ Framed
    BY DEF InvokeLeaf, InvokeVoid, InvokeChild, Lasting, WInv
<1>5. i \in Items /\ home[i] = Top.n /\ Top.n \in Scopes /\ Len(stack) \in Nat \ {0}
    BY <1>3, <1>4, HeadIs, TopIs
<1>6. ASSUME NEW p \in 1 .. m, stack[p].k = "cleanup", stack[p].n = i, Backward(i) PROVE FALSE
  <2>1. p \in 1 .. Len(stack)
      BY <1>2, <1>5
  <2>2. inv[i] # "none"
      BY <1>6, <2>1, CleanupOf DEF Bodies
  <2>3. i \in Hand
      BY <1>3, <1>4, <1>5, <1>6 DEF Hand, Backward
  <2> QED BY <1>5, <2>2, <2>3 DEF Tidy, Solo, NoneInvoked
<1>7. \A j \in Items : inv'[j] = inv[j] \/ (j = i /\ inv'[j] # "none")
  <2>1. \E x : x # "none" /\ inv' = [inv EXCEPT ![i] = x]
    <3>1. CASE InvokeChild
      <4>1. inv' = [inv EXCEPT ![i] = IF HasFlight(i) THEN "join" ELSE "complete"]
          BY <1>3, <3>1 DEF InvokeChild
      <4>2. CASE HasFlight(i)
          BY <4>1, <4>2
      <4>3. CASE ~HasFlight(i)
          BY <4>1, <4>3
      <4> QED BY <4>2, <4>3
    <3> QED BY <1>3, <3>1 DEF InvokeLeaf, InvokeVoid
  <2> QED BY <1>4, <2>1 DEF TypeOK
<1>8. Apart'
  <2> SUFFICES ASSUME NEW p \in 1 .. Len(stack'), NEW q \in 1 .. Len(stack'), q > m, p # q,
                      stack'[p].k = "cleanup", stack'[q].k = "cleanup", Backward(stack[p].n)',
                      stack'[p].n = stack'[q].n
               PROVE  FALSE
      BY <1>1, <1>2, ApartKept
  <2>1. stack'[q] \in F /\ stack'[q].n = i
      BY <1>1, <1>2, <1>3 DEF Stacks
  <2>2. p \in 1 .. m
    <3>1. Len(stack') \in Nat /\ m \in Nat
        BY <1>1, <1>2, <1>5 DEF Stacks
    <3>2. p > m => p \in Len(stack) .. Len(stack') /\ q \in Len(stack) .. Len(stack')
        BY <1>2, <1>5, <3>1
    <3> QED BY <1>1, <3>1, <3>2
  <2>3. stack[p] = stack'[p]
      BY <1>1, <1>2, <2>2 DEF Stacks
  <2>4. Backward(i)
      BY <1>5, <2>1, BackwardStays
  <2> QED BY <1>6, <2>1, <2>2, <2>3, <2>4
<1>9. ASSUME NEW f \in ToSet(stack'), f.k = "cleanup", Backward(f.n)' PROVE inv'[f.n] # "none"
  <2>1. f \in F \/ \E p \in 1 .. m : f = stack[p]
      BY <1>1, <1>2, <1>9, StackIn
  <2>2. CASE f \in F
    <3>1. InvokeLeaf /\ f.n = i
        BY <1>1, <1>3, <1>9, <2>2
    <3>2. inv' = [inv EXCEPT ![i] = "body"]
        BY <1>3, <3>1 DEF InvokeLeaf
    <3> QED BY <1>4, <1>5, <3>1, <3>2 DEF TypeOK
  <2>3. ASSUME NEW p \in 1 .. m, f = stack[p] PROVE inv'[f.n] # "none"
    <3>1. p \in 1 .. Len(stack)
        BY <1>2, <1>5
    <3>2. f.n \in Items
        BY <1>9, <2>3, <3>1, CleanupOf
    <3> QED BY <1>7, <1>9, <2>3, <3>1, <3>2, BodiesKept
  <2> QED BY <2>1, <2>2, <2>3
<1> QED BY <1>8, <1>9 DEF Bodies

-----------------------------------------------------------------------------
(* Steps beside the flights.                                               *)

\* Where a batch is not on top, nothing is at hand.
LEMMA HandFree ==
    ASSUME Tidying, Entries, Aside, TypeOK'
    PROVE  /\ Hand = {} /\ Hand' = {} /\ TypeOK /\ Tidy /\ live \in [Scopes -> Seq(Items)]
           /\ failed \in [Scopes -> Seq(Items)] /\ where \in [Items -> States]
BY AsideFree DEF Tidying, Lasting, WInv, TypeOK

\* One entry changes its place or its invocation.
LEMMA TidyPoint ==
    ASSUME Tidying, Memory, Grown, Entries, Aside, TypeOK',
           UNCHANGED <<home, order, detached, live, failed, ledger>>,
           NEW i \in Items, NEW s, NEW x,
           where' = [where EXCEPT ![i] = s], inv' = [inv EXCEPT ![i] = x],
           home[i] # 0 /\ where[i] \in Slotted => s \in Slotted,
           Backward(i) /\ s = "live" => where[i] = "live",
           Backward(i) /\ s = "active" => x # "none",
           i \in Scopes /\ x = "complete" => detached[i],
           Backward(i) /\ x # "none" => inv[i] # "none"
    PROVE  Tidy'
<1>1. /\ Hand = {} /\ Hand' = {} /\ TypeOK /\ Tidy /\ live \in [Scopes -> Seq(Items)]
    BY HandFree
<1>2. /\ \A j \in Items : j # i => where'[j] = where[j] /\ inv'[j] = inv[j]
      /\ where'[i] = s /\ inv'[i] = x
    BY <1>1 DEF TypeOK
<1>3. \A n \in Scopes : Thins(live'[n], live[n], {j \in Items : where'[j] # "gone"})
    BY <1>1, SameThins
<1>4. \A j \in Items : home[j] # 0 /\ where[j] \in Slotted => where'[j] \in Slotted
    BY <1>2
<1>5. \A j \in Items : Backward(j) /\ where'[j] = "live" => where[j] = "live" /\ j \notin Hand
    BY <1>1, <1>2
<1>6. \A j \in Items : Backward(j) /\ where'[j] = "active" => inv'[j] # "none"
    BY <1>1, <1>2 DEF Tidy, Held
<1>7. \A c \in Scopes : inv'[c] = "complete" => detached'[c]
    BY <1>1, <1>2, ItemKinds DEF Tidy, Held
<1>8. \A j \in Items : Backward(j) /\ inv'[j] # "none" => inv[j] # "none" \/ j \in Hand
    BY <1>2
<1> QED BY <1>1, <1>3, <1>4, <1>5, <1>6, <1>7, <1>8, TidyThin

\* No entry changes.
LEMMA TidyCalm ==
    ASSUME Tidying, Memory, Grown, Entries, Aside, TypeOK',
           UNCHANGED <<home, order, detached, live, failed, where, inv, ledger>>
    PROVE  Tidy'
<1>1. TypeOK /\ Tidy /\ Root \in Items /\ Root \in Scopes
    BY HandFree, ItemKinds
<1>2. where' = [where EXCEPT ![Root] = where[Root]] /\ inv' = [inv EXCEPT ![Root] = inv[Root]]
    BY <1>1 DEF TypeOK
<1>3. /\ Backward(Root) /\ where[Root] = "active" => inv[Root] # "none"
      /\ inv[Root] = "complete" => detached[Root]
    BY <1>1 DEF Tidy, Held
<1> QED BY <1>1, <1>2, <1>3, TidyPoint

\* A setup starts.
LEMMA TidySetup ==
    ASSUME Tidying, Memory, Grown, Entries, Aside, TypeOK', NEW n \in Scopes, Setup(n)
    PROVE  Tidy'
<1>1. /\ Hand = {} /\ Hand' = {} /\ TypeOK /\ Tidy /\ live \in [Scopes -> Seq(Items)]
    BY HandFree
<1>2. PICK l \in NextLeaf : home' = [home EXCEPT ![l] = n] /\ where' = [where EXCEPT ![l] = "setup"]
    BY DEF Setup
<1>3. l \in Leaves /\ l \in Items /\ home[l] = 0
    BY ItemKinds DEF NextLeaf
<1>4. UNCHANGED <<order, detached, live, failed, inv, ledger>>
    BY DEF Setup, listVars
<1>5. inv[l] = "none" /\ ~Backward(l)
  <2>1. 0 \notin Scopes
      BY ItemKinds
  <2> QED BY <1>3, <2>1 DEF Tidying, Lasting, WInv, Invoked, Backward
<1>6. /\ \A j \in Items : j # l => where'[j] = where[j] /\ home'[j] = home[j]
      /\ where'[l] = "setup"
    BY <1>1, <1>2, <1>3 DEF TypeOK
<1>7. \A m \in Scopes : Thins(live'[m], live[m], {j \in Items : where'[j] # "gone"})
    BY <1>1, <1>4, SameThins
<1>8. \A j \in Items : home'[j] # home[j] => where'[j] = "setup" /\ inv'[j] = "none"
    BY <1>4, <1>5, <1>6
<1>9. \A j \in Items : home[j] # 0 /\ where[j] \in Slotted => where'[j] \in Slotted
    BY <1>3, <1>6
<1>10. \A j \in Items : Backward(j) /\ where'[j] = "live" => where[j] = "live" /\ j \notin Hand
    BY <1>1, <1>6
<1>11. \A j \in Items : Backward(j) /\ where'[j] = "active" => inv'[j] # "none"
    BY <1>1, <1>4, <1>6 DEF Tidy, Held
<1>12. \A c \in Scopes : inv'[c] = "complete" => detached'[c]
    BY <1>1, <1>4 DEF Tidy, Held
<1> QED BY <1>1, <1>4, <1>7, <1>8, <1>9, <1>10, <1>11, <1>12, TidyThin

\* An invocation fails.
LEMMA TidyFail ==
    ASSUME Tidying, Memory, Grown, Entries, Aside, TypeOK',
           UNCHANGED <<home, order, detached, live, ledger>>,
           NEW i \in Items, Fail(i), inv' = [inv EXCEPT ![i] = "none"],
           home[i] \in Scopes, requested[home[i]], Setups(home[i]) = {},
           Backward(i) => inv[i] # "none"
    PROVE  Tidy'
<1>1. /\ Hand = {} /\ Hand' = {} /\ TypeOK /\ Tidy /\ live \in [Scopes -> Seq(Items)]
      /\ failed \in [Scopes -> Seq(Items)]
    BY HandFree
<1>2. /\ where' = [where EXCEPT ![i] = "failed"]
      /\ failed' = [failed EXCEPT ![home[i]] = Append(@, i)]
    BY DEF Fail
<1>3. /\ \A j \in Items : j # i => where'[j] = where[j] /\ inv'[j] = inv[j]
      /\ where'[i] = "failed" /\ inv'[i] = "none"
    BY <1>1, <1>2 DEF TypeOK
<1>4. ASSUME NEW n \in Scopes, order[n] = "reverse"
      PROVE  Orderly(ledger[n], live[n], failed'[n], Busy(n)')
  <2>1. Orderly(ledger[n], live[n], failed[n], Busy(n)) /\ failed[n] \in Seq(Items)
      BY <1>1, <1>4 DEF Tidy, Ranked
  <2>2. \A j \in Busy(n)' : j \in Busy(n) /\ j # i
    <3> SUFFICES ASSUME NEW j \in Items, home[j] = n, inv'[j] # "none" PROVE j \in Busy(n) /\ j # i
        BY <1>1 DEF Busy
    <3>1. j # i
        BY <1>3
    <3> QED BY <1>3, <3>1 DEF Busy
  <2>3. CASE n = home[i]
    <3>1. i \in Busy(n)
        BY <1>4, <2>3 DEF Backward, Busy
    <3>2. Busy(n)' = {}
        BY <2>1, <2>2, <3>1 DEF Orderly
    <3>3. failed'[n] = Append(failed[n], i)
        BY <1>1, <1>2, <2>3
    <3>4. Orderly(ledger[n], live[n], failed'[n], {})
        BY <2>1, <3>1, <3>3, OrderlyFail
    <3> QED BY <3>2, <3>4
  <2>4. CASE n # home[i]
    <3>1. failed'[n] = failed[n]
        BY <1>1, <1>2, <2>4
    <3>2. PICK C : C = Busy(n)'
        OBVIOUS
    <3>3. Orderly(ledger[n], live[n], failed[n], C)
        BY <2>1, <2>2, <3>2, OrderlyLess
    <3> QED BY <3>1, <3>2, <3>3
  <2> QED BY <2>3, <2>4
<1>5. \A n \in Scopes : Thins(live'[n], live[n], {j \in Items : where'[j] # "gone"})
    BY <1>1, SameThins
<1>6. \A j \in Items : home[j] # 0 /\ where[j] \in Slotted => where'[j] \in Slotted
    BY <1>3 DEF Slotted
<1>7. \A j \in Items : Backward(j) /\ where'[j] = "live" =>
          \E k \in 1 .. Len(live[home[j]]) : live[home[j]][k] = j
    BY <1>1, <1>3 DEF Tidy, Held
<1>8. \A j \in Items : Backward(j) /\ where'[j] = "active" => inv'[j] # "none"
    BY <1>1, <1>3 DEF Tidy, Held
<1>9. \A c \in Scopes : inv'[c] = "complete" => detached'[c]
    BY <1>1, <1>3, ItemKinds DEF Tidy, Held
<1>10. \A n \in Scopes : Len(failed'[n]) # 0 => Len(failed[n]) # 0 \/ (requested[n] /\ Setups(n) = {})
    BY <1>1, <1>2
<1> QED BY <1>1, <1>4, <1>5, <1>6, <1>7, <1>8, <1>9, <1>10, TidyKept

-----------------------------------------------------------------------------
(* A new slot.                                                             *)

\* A scope that was not created has nothing.
LEMMA NothingYet ==
    ASSUME TypeOK, Owns, NEW m \in Scopes, ~Created(m)
    PROVE  /\ Len(live[m]) = 0 /\ Len(failed[m]) = 0 /\ \A j \in Items : home[j] # m
<1>1. \A j \in Items : home[j] # m
    BY ItemKinds DEF Owns
<1>2. live[m] \in Seq(Items) /\ failed[m] \in Seq(Items)
    BY DEF TypeOK
<1>3. /\ \A j \in 1 .. Len(live[m]) : live[m][j] \in Items /\ home[live[m][j]] = m
      /\ \A j \in 1 .. Len(failed[m]) : failed[m][j] \in Items /\ home[failed[m][j]] = m
    BY <1>2 DEF Owns
<1>4. \A k \in Nat : (\A j \in 1 .. k : FALSE) => k = 0
  <2> SUFFICES ASSUME NEW k \in Nat, k # 0 PROVE 1 \in 1 .. k
      OBVIOUS
  <2> QED OBVIOUS
<1> QED BY <1>1, <1>2, <1>3, <1>4

\* A scope that may take a new slot has no failed entries and releases nothing.
LEMMA NothingTried ==
    ASSUME Tidying, NEW n \in Scopes, ~(requested[n] /\ Setups(n) = {})
    PROVE  Len(failed[n]) = 0 /\ Busy(n) = {}
<1>1. \A j \in Busy(n) : FALSE
    BY BusyIs DEF Tidying, Lasting
<1> QED BY <1>1 DEF Tidying, Tidy, Retrying

\* One more entry at the end of a list.
LEMMA LastOne ==
    ASSUME NEW lists \in [Scopes -> Seq(Items)], NEW n \in Scopes, NEW i \in Items, NEW next,
           next = [lists EXCEPT ![n] = Append(@, i)]
    PROVE  /\ \A m \in Scopes : m # n => next[m] = lists[m]
           /\ next[n] = Append(lists[n], i) /\ Len(next[n]) = Len(lists[n]) + 1
           /\ next[n][Len(lists[n]) + 1] = i /\ Len(lists[n]) \in Nat
           /\ \A m \in Scopes : \A a \in 1 .. Len(lists[m]) :
                a \in 1 .. Len(next[m]) /\ next[m][a] = lists[m][a]
<1>1. PICK r, t : r = lists[n] /\ t = Append(r, i)
    OBVIOUS
<1>2. r \in Seq(Items)
    BY <1>1
<1>3. /\ Len(t) = Len(r) + 1 /\ t[Len(r) + 1] = i /\ Len(r) \in Nat
      /\ \A a \in 1 .. Len(r) : a \in 1 .. Len(t) /\ t[a] = r[a]
    BY <1>1, <1>2
<1>4. next[n] = t /\ \A m \in Scopes : m # n => next[m] = lists[m]
    BY <1>1
<1> QED BY <1>1, <1>3, <1>4

\* An entry takes the last slot of a scope that may still take one.
LEMMA TidyAdd ==
    ASSUME Tidying, Memory, Grown, Entries, Aside, TypeOK',
           NEW n \in Scopes, NEW i \in Items, Created(n), ~(requested[n] /\ Setups(n) = {}),
           where' = [where EXCEPT ![i] = "live"],
           live' = [live EXCEPT ![n] = Append(@, i)],
           ledger' = [ledger EXCEPT ![n] = Append(@, i)],
           UNCHANGED <<failed, inv, detached>>,
           \/ home' = home /\ home[i] = n /\ where[i] = "setup" /\ order' = order
           \/ home' = [home EXCEPT ![i] = n] /\ home[i] = 0 /\ i # Root
              /\ (order' = order \/ \E o : order' = [order EXCEPT ![i] = o])
    PROVE  Tidy'
<1>1. /\ Hand = {} /\ Hand' = {} /\ TypeOK /\ Tidy /\ live \in [Scopes -> Seq(Items)]
      /\ failed \in [Scopes -> Seq(Items)] /\ ledger \in [Scopes -> Seq(Items)] /\ Owns
    BY HandFree DEF Tidying, Lasting, WInv, TypeOK
<1>2. /\ \A j \in Items : j # i => home'[j] = home[j] /\ where'[j] = where[j]
      /\ home'[i] = n /\ where'[i] = "live" /\ n # 0
    BY <1>1, ItemKinds DEF TypeOK
<1>3. home[i] = 0 \/ where[i] \notin Slotted
    BY DEF Slotted
<1>4. \A m \in Scopes : \A a \in 1 .. Len(ledger[m]) :
          /\ ledger[m][a] \in Items /\ ledger[m][a] # i
          /\ home'[ledger[m][a]] = m /\ where'[ledger[m][a]] \in Slotted
  <2> SUFFICES ASSUME NEW m \in Scopes, NEW a \in 1 .. Len(ledger[m])
               PROVE  /\ ledger[m][a] \in Items /\ ledger[m][a] # i
                      /\ home'[ledger[m][a]] = m /\ where'[ledger[m][a]] \in Slotted
      OBVIOUS
  <2>1. ledger[m][a] \in Items /\ m # 0
      BY <1>1, ItemKinds
  <2>2. home[ledger[m][a]] = m /\ where[ledger[m][a]] \in Slotted
      BY <1>1 DEF Tidy, Slots
  <2> QED BY <1>2, <1>3, <2>1, <2>2
<1>5. /\ \A m \in Scopes : m # n => ledger'[m] = ledger[m] /\ live'[m] = live[m]
      /\ \E k \in Nat : k = Len(ledger[n]) /\ Len(ledger'[n]) = k + 1 /\ ledger'[n][k + 1] = i
                        /\ \A a \in 1 .. k : ledger'[n][a] = ledger[n][a]
      /\ \E k \in Nat : k = Len(live[n]) /\ Len(live'[n]) = k + 1 /\ live'[n][k + 1] = i
      /\ \A m \in Scopes : \A a \in 1 .. Len(live[m]) : a \in 1 .. Len(live'[m]) /\ live'[m][a] = live[m][a]
      /\ ledger'[n] = Append(ledger[n], i) /\ live'[n] = Append(live[n], i)
    BY <1>1, LastOne
<1>6. Slots'
  <2>1. PICK k \in Nat : /\ k = Len(ledger[n]) /\ Len(ledger'[n]) = k + 1 /\ ledger'[n][k + 1] = i
                         /\ \A a \in 1 .. k : ledger'[n][a] = ledger[n][a]
      BY <1>5
  <2>2. \A a \in 1 .. k : /\ ledger'[n][a] # i /\ home'[ledger'[n][a]] = n
                          /\ where'[ledger'[n][a]] \in Slotted
      BY <1>4, <2>1
  <2>3. \A a, b \in 1 .. k : ledger'[n][a] = ledger'[n][b] => a = b
      BY <1>1, <2>1 DEF Tidy, Slots
  <2>4. \A a \in 1 .. k + 1 : a \in 1 .. k \/ a = k + 1
      OBVIOUS
  <2>5. PICK r : r = ledger'[n]
      OBVIOUS
  <2>6. /\ Len(r) = k + 1 /\ r[k + 1] = i /\ \A a, b \in 1 .. k : r[a] = r[b] => a = b
        /\ \A a \in 1 .. k : r[a] # i /\ home'[r[a]] = n /\ where'[r[a]] \in Slotted
      BY <2>1, <2>2, <2>3, <2>5
  <2>7. /\ \A a, b \in 1 .. Len(r) : r[a] = r[b] => a = b
        /\ \A a \in 1 .. Len(r) : home'[r[a]] = n /\ where'[r[a]] \in Slotted
    <3>1. \A a \in 1 .. Len(r) : a \in 1 .. k \/ a = k + 1
        BY <2>4, <2>6
    <3>2. where'[i] \in Slotted
        BY <1>2 DEF Slotted
    <3> QED BY <1>2, <2>6, <3>1, <3>2
  <2>8. ASSUME NEW m \in Scopes
        PROVE  /\ \A a, b \in 1 .. Len(ledger'[m]) : ledger'[m][a] = ledger'[m][b] => a = b
               /\ \A a \in 1 .. Len(ledger'[m]) : home'[ledger'[m][a]] = m /\ where'[ledger'[m][a]] \in Slotted
    <3>1. CASE m = n
        BY <2>5, <2>7, <3>1
    <3>2. CASE m # n
      <4>1. ledger'[m] = ledger[m]
          BY <1>5, <3>2
      <4>2. \A a, b \in 1 .. Len(ledger[m]) : ledger[m][a] = ledger[m][b] => a = b
          BY <1>1 DEF Tidy, Slots
      <4>3. \A a \in 1 .. Len(ledger[m]) : home'[ledger[m][a]] = m /\ where'[ledger[m][a]] \in Slotted
          BY <1>4
      <4>4. PICK s : s = ledger[m] /\ s = ledger'[m]
          BY <4>1
      <4> QED BY <4>2, <4>3, <4>4
    <3> QED BY <3>1, <3>2
  <2> QED BY <2>8 DEF Slots
<1>7. inv[i] = "none"
  <2>1. CASE home[i] = 0
      BY <2>1, ItemKinds DEF Tidying, Lasting, WInv, Invoked
  <2>2. CASE home[i] = n
      BY <2>2, NothingTried DEF Busy
  <2> QED BY <2>1, <2>2
<1>8. \A m \in Scopes : Created(m) => order'[m] = order[m]
    BY DEF Entries
<1>9. ASSUME NEW m \in Scopes, order'[m] = "reverse"
      PROVE  Orderly(ledger'[m], live'[m], failed'[m], Busy(m)')
  <2>1. \A j \in Busy(m)' : j # i /\ home[j] = m /\ inv[j] # "none"
      BY <1>1, <1>2, <1>7 DEF Busy
  <2>2. CASE m = n
    <3>1. Len(failed[n]) = 0 /\ Busy(n) = {}
        BY NothingTried
    <3>2. Busy(m)' = {}
        BY <2>1, <2>2, <3>1 DEF Busy
    <3>3. Orderly(ledger[n], live[n], failed[n], {})
        BY <1>1, <1>8, <1>9, <2>2, <3>1 DEF Tidy, Ranked
    <3>4. Orderly(ledger'[n], live'[n], failed[n], {})
        BY <1>1, <1>5, <3>1, <3>3, OrderlyAdd
    <3> QED BY <2>2, <3>2, <3>4
  <2>3. CASE m # n /\ Created(m)
    <3>1. Orderly(ledger[m], live[m], failed[m], Busy(m))
        BY <1>1, <1>8, <1>9, <2>3 DEF Tidy, Ranked
    <3>2. PICK C : C = Busy(m)'
        OBVIOUS
    <3>3. C \subseteq Busy(m)
        BY <2>1, <3>2 DEF Busy
    <3>4. Orderly(ledger[m], live[m], failed[m], C)
        BY <3>1, <3>3, OrderlyLess
    <3> QED BY <1>5, <2>3, <3>2, <3>4
  <2>4. CASE ~Created(m)
    <3>1. m # n /\ Len(live[m]) = 0 /\ Len(failed[m]) = 0 /\ \A j \in Items : home[j] # m
        BY <1>1, <2>4, NothingYet
    <3>2. Busy(m)' = {}
        BY <2>1, <3>1 DEF Busy
    <3>3. Orderly(ledger'[m], live'[m], failed'[m], {})
        BY <1>5, <3>1, OrderlyEmpty
    <3> QED BY <3>2, <3>3
  <2> QED BY <2>2, <2>3, <2>4
<1>10. Ranked'
    BY <1>9 DEF Ranked
<1>11. ASSUME NEW j \in Items, Backward(j)', j # i PROVE Backward(j) /\ home'[j] = home[j]
  <2>1. home'[j] = home[j] /\ home[j] \in Scopes /\ home[j] # 0
      BY <1>2, <1>11, ItemKinds DEF Backward
  <2>2. Created(home[j])
      BY <1>1, <2>1 DEF Owns
  <2> QED BY <1>8, <1>11, <2>1, <2>2 DEF Backward
<1>12. ASSUME NEW j \in Items, Backward(j)', where'[j] = "live"
       PROVE  \E a \in 1 .. Len(live'[home'[j]]) : live'[home'[j]][a] = j
  <2>1. CASE j = i
    <3>1. PICK k \in Nat : Len(live'[n]) = k + 1 /\ live'[n][k + 1] = i
        BY <1>5
    <3>2. k + 1 \in 1 .. Len(live'[n])
        BY <3>1
    <3> QED BY <1>2, <2>1, <3>1, <3>2
  <2>2. CASE j # i
    <3>1. Backward(j) /\ home'[j] = home[j] /\ where[j] = "live"
        BY <1>2, <1>11, <1>12, <2>2
    <3>2. PICK m \in Scopes : m = home[j]
        BY <3>1 DEF Backward
    <3>3. PICK a \in 1 .. Len(live[m]) : live[m][a] = j
        BY <1>1, <3>1, <3>2 DEF Tidy, Held
    <3> QED BY <1>5, <3>1, <3>2, <3>3
  <2> QED BY <2>1, <2>2
<1>13. \A j \in Items : Backward(j)' /\ where'[j] = "active" => inv'[j] # "none"
    BY <1>1, <1>2, <1>11 DEF Tidy, Held
<1>14. Held'
    BY <1>1, <1>12, <1>13 DEF Tidy, Held
<1>15. Retrying'
    BY <1>1, RetryingKept DEF Tidy
<1> QED BY <1>1, <1>6, <1>10, <1>14, <1>15 DEF Tidy, Solo

-----------------------------------------------------------------------------
(* Steps of a flight.                                                      *)

\* When the entry at hand is invoked, nothing is at hand.
LEMMA InvokeFree ==
    ASSUME Tidying, Entries, TypeOK', InvokeLeaf \/ InvokeVoid \/ InvokeChild
    PROVE  Hand' = {}
<1> USE DEF Tidying, Lasting
<1>1. TypeOK /\ Framed /\ Flights /\ On({"batch"}) /\ On(Steps)
    BY DEF WInv, InvokeLeaf, InvokeVoid, InvokeChild, On, Steps
<1>2. PICK b, F :
          /\ b.k = "batch" /\ b.n = Top.n /\ (order[Top.n] = "reverse" => b.left = <<>>)
          /\ Stacks(Len(stack) - 1, {b} \cup F)
          /\ \A f \in F : f.k # "batch"
    BY InvokeStack
<1>3. ASSUME NEW i \in Hand' PROVE FALSE
  <2>1. stack' # <<>> /\ Top'.k = "batch" /\ Top'.left # <<>> /\ order'[Top'.n] = "reverse"
      BY <1>3 DEF Hand, On, Idle
  <2>2. PICK f : f = Top'
      OBVIOUS
  <2>3. f \in ToSet(stack')
    <3>1. PICK q : q = stack'
        OBVIOUS
    <3>2. q \in Seq(ToSet(q)) /\ q # <<>>
        BY <2>1, <3>1 DEF TypeOK
    <3>3. Last(q) \in ToSet(q)
        BY <3>2, FrontIsBelow, OfItsOwn
    <3> QED BY <2>2, <3>1, <3>3 DEF Top
  <2>4. f \in {b} \cup F \/ \E p \in 1 .. Len(stack) - 1 : f = stack[p]
      BY <1>2, <2>3, StackIn
  <2>5. \A n \in Scopes : Created(n) => order'[n] = order[n]
      BY DEF Entries
  <2>6. CASE f = b
    <3>1. Top.n \in Scopes /\ Created(Top.n)
        BY <1>1, TopIs DEF Fit, Flights, Steps
    <3> QED BY <1>2, <2>1, <2>2, <2>5, <2>6, <3>1
  <2>7. ASSUME NEW p \in 1 .. Len(stack) - 1, f = stack[p] PROVE FALSE
    <3>1. stack[p].k \in Steps
        BY <2>1, <2>2, <2>7 DEF Steps
    <3>2. f.n # Top.n /\ f \in ToSet(stack)
        BY <1>1, <2>7, <3>1, OtherFlights
    <3>3. f.n \in Scopes /\ Created(f.n)
        BY <1>1, <2>1, <2>2, <3>2 DEF Framed, Fit, Flights, Steps
    <3>4. f = Top
        BY <2>1, <2>2, <2>5, <3>2, <3>3 DEF Prompt
    <3> QED BY <3>2, <3>4
  <2> QED BY <1>2, <2>1, <2>2, <2>4, <2>6, <2>7
<1> QED BY <1>3

\* The next entry of the batch is at hand when its scope is a reverse one.
LEMMA NextHand ==
    ASSUME Tidying, InvokeLeaf \/ InvokeVoid \/ InvokeChild, NEW i, i = Head(Top.left)
    PROVE  /\ i \in Items /\ home[i] = Top.n /\ Top.n \in Scopes /\ (Backward(i) => i \in Hand)
           /\ \A j \in Hand : j = i
<1>1. TypeOK /\ Framed /\ On({"batch"}) /\ Top.left # <<>>
    BY DEF Tidying, Lasting, WInv, InvokeLeaf, InvokeVoid, InvokeChild
<1>2. i \in Items /\ home[i] = Top.n /\ Top.n \in Scopes
    BY <1>1, HeadIs
<1> QED BY <1>1, <1>2 DEF Hand, Backward

\* A leaf is invoked, or an entry that its child left.
LEMMA TidyInvoke ==
    ASSUME Tidying, Memory, Grown, Entries, TypeOK', InvokeLeaf \/ InvokeVoid
    PROVE  Tidy'
<1>1. TypeOK /\ Tidy /\ live \in [Scopes -> Seq(Items)] /\ Hand' = {}
    BY InvokeFree DEF Tidying, Lasting, WInv, TypeOK
<1>2. PICK i : i = Head(Top.left)
    OBVIOUS
<1>3. i \in Items /\ (Backward(i) => i \in Hand) /\ \A j \in Hand : j = i
    BY <1>2, NextHand
<1>4. /\ where' = [where EXCEPT ![i] = "active"]
      /\ UNCHANGED <<home, order, detached, live, failed, ledger>>
      /\ \E x \in {"body", "void"} : inv' = [inv EXCEPT ![i] = x]
    BY <1>2 DEF InvokeLeaf, InvokeVoid, treeVars, listVars
<1>5. /\ \A j \in Items : j # i => where'[j] = where[j] /\ inv'[j] = inv[j]
      /\ where'[i] = "active" /\ inv'[i] \in {"body", "void"}
    BY <1>1, <1>3, <1>4 DEF TypeOK
<1>6. \A n \in Scopes : Thins(live'[n], live[n], {j \in Items : where'[j] # "gone"})
    BY <1>1, <1>4, SameThins
<1>7. \A j \in Items : home[j] # 0 /\ where[j] \in Slotted => where'[j] \in Slotted
    BY <1>5 DEF Slotted
<1>8. \A j \in Items : Backward(j) /\ where'[j] = "live" => where[j] = "live" /\ j \notin Hand
    BY <1>3, <1>5
<1>9. \A j \in Items : Backward(j) /\ where'[j] = "active" => inv'[j] # "none"
    BY <1>1, <1>5 DEF Tidy, Held
<1>10. \A c \in Scopes : inv'[c] = "complete" => detached'[c]
    BY <1>1, <1>4, <1>5, ItemKinds DEF Tidy, Held
<1>11. \A j \in Items : Backward(j) /\ inv'[j] # "none" => inv[j] # "none" \/ j \in Hand
    BY <1>3, <1>5
<1> QED BY <1>1, <1>4, <1>6, <1>7, <1>8, <1>9, <1>10, <1>11, TidyThin

\* A flight that is taken while none is under way lists what failed again.
LEMMA RelistedIs ==
    ASSUME TypeOK, NEW c \in Scopes
    PROVE  /\ \A m \in Scopes : \A k \in 1 .. Len(live[m]) :
                k \in 1 .. Len(Relisted(c)[m]) /\ Relisted(c)[m][k] = live[m][k]
           /\ \A i \in Again(c) : \E k \in 1 .. Len(Relisted(c)[c]) : Relisted(c)[c][k] = i
<1>1. live \in [Scopes -> Seq(Items)] /\ Retried(c) \in Seq(Items)
    BY RetriedIs DEF TypeOK
<1>2. PICK l, r, t : l = live[c] /\ r = Retried(c) /\ t = Relisted(c)[c]
    OBVIOUS
<1>3. l \in Seq(Items) /\ r \in Seq(Items) /\ t = l \o r
    BY <1>1, <1>2, RelistedType
<1>4. /\ Len(t) = Len(l) + Len(r) /\ Len(l) \in Nat /\ Len(r) \in Nat
      /\ \A k \in 1 .. Len(l) : t[k] = l[k]
      /\ \A k \in 1 .. Len(r) : t[Len(l) + k] = r[k]
    BY <1>3, JoinIs
<1>5. ASSUME NEW m \in Scopes, NEW k \in 1 .. Len(live[m])
      PROVE  k \in 1 .. Len(Relisted(c)[m]) /\ Relisted(c)[m][k] = live[m][k]
  <2>1. CASE m = c
    <3>1. k \in 1 .. Len(l) /\ k \in 1 .. Len(t) /\ t[k] = l[k]
        BY <1>2, <1>4, <1>5, <2>1
    <3> QED BY <1>2, <2>1, <3>1
  <2>2. CASE m # c
      BY <1>5, <2>2, RelistedType
  <2> QED BY <2>1, <2>2
<1>6. ASSUME NEW i \in Again(c) PROVE \E k \in 1 .. Len(t) : t[k] = i
  <2>1. i \in ToSet(r)
      BY <1>2, <1>6, RetriedSet
  <2>2. PICK k \in 1 .. Len(r) : r[k] = i
      BY <1>3, <2>1, OfItsOwn
  <2>3. Len(l) + k \in 1 .. Len(t) /\ t[Len(l) + k] = i
      BY <1>4, <2>2
  <2> QED BY <2>3
<1> QED BY <1>2, <1>5, <1>6

-----------------------------------------------------------------------------
(* Flights that are taken.                                                 *)

\* What a taken flight leaves in place while it puts the failed entries back.
LEMMA ReopenedIs ==
    ASSUME TypeOK, NEW c \in Scopes, NEW v \in [Items -> States], TakeFlight(c, v),
           phase[c] = "none"
    PROVE  /\ failed' = [failed EXCEPT ![c] = <<>>]
           /\ \A m \in Scopes : Thins(live'[m], Relisted(c)[m], {i \in Items : where'[i] # "gone"})
           /\ \A i \in Items : \/ where'[i] = v[i] \/ where'[i] = "gone"
                               \/ where'[i] = "live" /\ i \in Again(c)
<1>1. \A i \in Items : \/ Reopened(c, v)[i] = v[i]
                       \/ Reopened(c, v)[i] = "live" /\ i \in Again(c)
    BY DEF Reopened
<1>2. Relisted(c) \in [Scopes -> Seq(Items)] /\ Reopened(c, v) \in [Items -> States]
    BY RelistedType DEF Reopened, States
<1>3. failed' = [failed EXCEPT ![c] = <<>>]
    BY TakeFlightIs
<1>4. CASE ~NothingLeft(c)
  <2>1. where' = Reopened(c, v) /\ live' = Relisted(c)
      BY <1>4, TakeFlightIs
  <2>2. \A m \in Scopes : Thins(live'[m], Relisted(c)[m], {i \in Items : where'[i] # "gone"})
    <3>1. PICK l, S : l = Relisted(c) /\ S = {i \in Items : where'[i] # "gone"}
        OBVIOUS
    <3>2. \A m \in Scopes : Thins(l[m], l[m], S)
        BY <1>2, <3>1, SameThins
    <3> QED BY <2>1, <3>1, <3>2
  <2> QED BY <1>1, <1>3, <2>1, <2>2
<1>5. CASE NothingLeft(c)
  <2>1. Leaving(c, Reopened(c, v), Relisted(c))
      BY <1>5, TakeFlightIs
  <2>2. \A i \in Items : where'[i] = Reopened(c, v)[i] \/ where'[i] = "gone"
      BY <1>2, <2>1 DEF Leaving
  <2>3. \A m \in Scopes : Thins(live'[m], Relisted(c)[m], {i \in Items : where'[i] # "gone"})
      BY <2>1 DEF Leaving
  <2> QED BY <1>1, <1>3, <2>2, <2>3
<1> QED BY <1>4, <1>5

\* A flight is taken, by a call or by the flight of the parent.
LEMMA TidyFlight ==
    ASSUME Tidying, Memory, Grown, TypeOK', NEW c \in Scopes, NEW v \in [Items -> States],
           TakeFlight(c, v), UNCHANGED <<home, order, ledger>>,
           \A i \in Items : v[i] = where[i] \/ (v[i] = "active" /\ inv'[i] # "none"),
           \A i \in Hand : v[i] # "live",
           \A i \in Items : inv[i] # "none" => inv'[i] # "none",
           \A i \in Items : Backward(i) /\ inv'[i] # "none" => inv[i] # "none" \/ i \in Hand,
           \A m \in Scopes : inv'[m] = "complete" => detached'[m],
           Hand' = {}
    PROVE  Tidy'
<1>1. /\ TypeOK /\ Tidy /\ Owns /\ live \in [Scopes -> Seq(Items)] /\ failed \in [Scopes -> Seq(Items)]
    BY DEF Tidying, Lasting, WInv, TypeOK
<1>2. \A i \in Items : Backward(i) /\ v[i] = "active" => inv'[i] # "none"
    BY <1>1 DEF Tidy, Held
<1>3. \A i \in Items : v[i] = "live" => where[i] = "live" /\ i \notin Hand
    BY DEF Slotted
<1>4. \A i \in Items : where[i] \in Slotted => v[i] \in Slotted
    BY DEF Slotted
<1>5. CASE phase[c] # "none"
  <2>1. where' = v /\ UNCHANGED <<live, failed>>
      BY <1>1, <1>5, TakeFlightIs
  <2>2. \A m \in Scopes : Thins(live'[m], live[m], {i \in Items : where'[i] # "gone"})
      BY <1>1, <2>1, SameThins
  <2> QED BY <1>1, <1>2, <1>3, <1>4, <2>1, <2>2, TidyThin
<1>6. CASE phase[c] = "none"
  <2>1. /\ failed' = [failed EXCEPT ![c] = <<>>]
        /\ \A m \in Scopes : Thins(live'[m], Relisted(c)[m], {i \in Items : where'[i] # "gone"})
        /\ \A i \in Items : \/ where'[i] = v[i] \/ where'[i] = "gone"
                            \/ where'[i] = "live" /\ i \in Again(c)
      BY <1>1, <1>6, ReopenedIs
  <2>2. PICK L : L = Relisted(c)
      OBVIOUS
  <2>3. L \in [Scopes -> Seq(Items)] /\ L[c] = live[c] \o Retried(c)
        /\ \A m \in Scopes : m # c => L[m] = live[m]
      BY <1>1, <2>2, RelistedType
  <2>4. ASSUME NEW m \in Scopes, order[m] = "reverse"
        PROVE  Orderly(ledger[m], L[m], failed'[m], Busy(m)')
    <3>1. PICK C : C = Busy(m)'
        OBVIOUS
    <3>2. C \subseteq Busy(m)
        BY <1>1, <2>4, <3>1, BusyKept
    <3>3. Orderly(ledger[m], live[m], failed[m], C)
        BY <1>1, <2>4, <3>2, OrderlyLess DEF Tidy, Ranked
    <3>4. CASE m # c
        BY <1>1, <2>1, <2>3, <3>1, <3>3, <3>4
    <3>5. CASE m = c
      <4>1. \A j \in Busy(c) : FALSE
          BY <1>6, BusyIs DEF Tidying, Lasting
      <4>2. C = {}
          BY <3>2, <3>5, <4>1
      <4>3. PICK l, f, r, e : l = live[c] /\ f = failed[c] /\ r = Retried(c) /\ e = failed'[c]
          OBVIOUS
      <4>4. l \in Seq(Items) /\ f \in Seq(Items) /\ r \in Seq(Items) /\ e = <<>>
          BY <1>1, <2>1, <4>3, RetriedIs
      <4>5. PICK g \in [1 .. Len(r) -> 1 .. Len(f)] :
                /\ \A i \in 1 .. Len(r) : r[i] = f[g[i]]
                /\ \A i, j \in 1 .. Len(r) : i < j => g[j] < g[i]
        <5>1. \E g \in [1 .. Len(Retried(c)) -> 1 .. Len(failed[c])] :
                /\ \A i \in 1 .. Len(Retried(c)) : Retried(c)[i] = failed[c][g[i]]
                /\ \A i, j \in 1 .. Len(Retried(c)) : i < j => g[j] < g[i]
            BY <1>1, RetriedIs, Zenon
        <5> QED BY <4>3, <5>1, Zenon
      <4>6. PICK t : t = l \o r
          OBVIOUS
      <4>7. Len(e) = 0
          BY <4>4
      <4>8. Orderly(ledger[c], l, f, {})
          BY <3>3, <3>5, <4>2, <4>3
      <4>9. Orderly(ledger[c], t, e, {})
          BY <4>4, <4>5, <4>6, <4>7, <4>8, OrderlyAgain
      <4> QED BY <2>3, <3>1, <3>5, <4>2, <4>3, <4>6, <4>9
    <3> QED BY <3>4, <3>5
  <2>5. ASSUME NEW i \in Items, Backward(i), where'[i] = "live"
        PROVE  \E k \in 1 .. Len(L[home[i]]) : L[home[i]][k] = i
    <3>1. PICK m \in Scopes : m = home[i]
        BY <2>5 DEF Backward
    <3>2. CASE i \in Again(c)
      <4>1. PICK j \in 1 .. Len(failed[c]) : failed[c][j] = i
          BY <3>2 DEF Again
      <4>2. m = c
        <5>1. \A a \in 1 .. Len(failed[c]) : home[failed[c][a]] = c
            BY <1>1 DEF Owns
        <5>2. home[failed[c][j]] = c
            BY <5>1
        <5> QED BY <3>1, <4>1, <5>2
      <4>3. PICK k \in 1 .. Len(L[c]) : L[c][k] = i
          BY <1>1, <2>2, <3>2, RelistedIs
      <4> QED BY <3>1, <4>2, <4>3
    <3>3. CASE v[i] = "live"
      <4>1. where[i] = "live" /\ i \notin Hand
          BY <1>3, <3>3
      <4>2. PICK k \in 1 .. Len(live[m]) : live[m][k] = i
          BY <1>1, <2>5, <3>1, <4>1 DEF Tidy, Held
      <4>3. k \in 1 .. Len(L[m]) /\ L[m][k] = live[m][k]
          BY <1>1, <2>2, RelistedIs
      <4> QED BY <3>1, <4>2, <4>3
    <3> QED BY <2>1, <2>5, <3>2, <3>3
  <2>6. \A i \in Items : home[i] # 0 /\ where[i] \in Slotted => where'[i] \in Slotted
      BY <1>4, <2>1 DEF Slotted
  <2>7. \A i \in Items : Backward(i) /\ where'[i] = "active" => inv'[i] # "none"
      BY <1>2, <2>1
  <2>8. \A m \in Scopes : Len(failed'[m]) # 0 => Len(failed[m]) # 0
    <3> SUFFICES ASSUME NEW m \in Scopes, m = c PROVE Len(failed'[m]) = 0
        BY <1>1, <2>1
    <3>1. failed'[m] = <<>>
        BY <1>1, <2>1
    <3> QED BY <3>1
  <2>9. \A m \in Scopes : Thins(live'[m], L[m], {i \in Items : where'[i] # "gone"})
      BY <2>1, <2>2
  <2> QED BY <1>1, <2>3, <2>4, <2>5, <2>6, <2>7, <2>8, <2>9, TidyKept
<1> QED BY <1>5, <1>6

\* A call of close().
LEMMA TidyClose ==
    ASSUME Tidying, Memory, Grown, Entries, Aside, TypeOK',
           NEW k, NEW n \in Scopes, NEW e, NEW a, Close(k, n, e, a)
    PROVE  Tidy'
<1>1. Hand = {} /\ Hand' = {} /\ TypeOK /\ Tidy /\ where \in [Items -> States] /\ TreeType
    BY HandFree DEF TypeOK, TreeType
<1>2. TakeFlight(n, where) /\ UNCHANGED <<home, order, inv, ledger>>
    BY DEF Close
<1>3. \A c \in Scopes : detached[c] => detached'[c]
    BY <1>1, <1>2, TakeFlightTree
<1>4. \A m \in Scopes : inv'[m] = "complete" => detached'[m]
    BY <1>1, <1>2, <1>3 DEF Tidy, Held
<1> QED BY <1>1, <1>2, <1>4, TidyFlight

\* A child is joined.
LEMMA TidyJoin ==
    ASSUME Tidying, Memory, Grown, Entries, TypeOK', InvokeChild
    PROVE  Tidy'
<1>1. TypeOK /\ Tidy /\ where \in [Items -> States] /\ Hand' = {} /\ TreeType
    BY InvokeFree DEF Tidying, Lasting, WInv, TypeOK, TreeType
<1>2. PICK c : c = Head(Top.left)
    OBVIOUS
<1>3. c \in Items /\ (Backward(c) => c \in Hand) /\ \A j \in Hand : j = c
    BY <1>2, NextHand
<1>4. PICK v : v = [where EXCEPT ![c] = "active"]
    OBVIOUS
<1>5. /\ TakeFlight(c, v) /\ c \in Scopes /\ UNCHANGED <<home, order, ledger>>
      /\ inv' = [inv EXCEPT ![c] = IF HasFlight(c) THEN "join" ELSE "complete"]
    BY <1>2, <1>4 DEF InvokeChild, HasChild
<1>6. /\ v \in [Items -> States] /\ v[c] = "active"
      /\ \A j \in Items : j # c => v[j] = where[j]
    BY <1>1, <1>3, <1>4 DEF States
<1>7. /\ \A j \in Items : j # c => inv'[j] = inv[j]
      /\ HasFlight(c) => inv'[c] = "join"
      /\ ~HasFlight(c) => inv'[c] = "complete"
    BY <1>1, <1>3, <1>5 DEF TypeOK
<1>8. inv'[c] # "none"
    BY <1>7
<1>9. \A m \in Scopes : inv'[m] = "complete" => detached'[m]
  <2> SUFFICES ASSUME NEW m \in Scopes, inv'[m] = "complete" PROVE detached'[m]
      OBVIOUS
  <2>1. CASE m # c
    <3>1. detached[m]
        BY <1>1, <1>7, <2>1, ItemKinds DEF Tidy, Held
    <3> QED BY <1>1, <1>5, <3>1, TakeFlightTree
  <2>2. CASE m = c
    <3>1. ~HasFlight(c)
        BY <1>7, <2>2
    <3>2. Leaving(c, Reopened(c, v), Relisted(c))
        BY <1>1, <1>5, <1>6, <3>1, TakeFlightIs DEF HasFlight
    <3> QED BY <1>1, <2>2, <3>2 DEF Leaving, TypeOK
  <2> QED BY <2>1, <2>2
<1>10. \A i \in Items : v[i] = where[i] \/ (v[i] = "active" /\ inv'[i] # "none")
    BY <1>6, <1>8
<1>11. \A i \in Hand : v[i] # "live"
    BY <1>3, <1>6
<1>12. \A i \in Items : inv[i] # "none" => inv'[i] # "none"
    BY <1>7, <1>8
<1>13. \A i \in Items : Backward(i) /\ inv'[i] # "none" => inv[i] # "none" \/ i \in Hand
    BY <1>3, <1>7
<1> QED BY <1>1, <1>5, <1>6, <1>9, <1>10, <1>11, <1>12, <1>13, TidyFlight

\* A flight reports: its scope lists nothing that could be released.
LEMMA TidySettle ==
    ASSUME Tidying, Memory, Grown, Entries, Aside, TypeOK', Settle
    PROVE  Tidy'
<1>1. /\ Hand = {} /\ Hand' = {} /\ TypeOK /\ Tidy /\ live \in [Scopes -> Seq(Items)]
      /\ failed \in [Scopes -> Seq(Items)] /\ where \in [Items -> States]
    BY HandFree
<1>2. PICK n \in Scopes : n = Top.n
  <2>1. Framed /\ On({"run"})
      BY DEF Settle, Tidying, Lasting, WInv
  <2> QED BY <1>1, <2>1, TopIs DEF Fit, Steps
<1>3. PICK l, t, complete :
          /\ l = [live EXCEPT ![n] = <<>>] /\ t = [tombstones EXCEPT ![n] = @ - Len(live[n])]
          /\ complete = (Debts(n) = {})
    OBVIOUS
<1>4. /\ complete => Detach(n, where, l, t)
      /\ ~complete => live' = l /\ UNCHANGED <<where, detached>>
      /\ inv' = [inv EXCEPT ![n] = IF @ = "join" THEN Outcome(complete) ELSE @]
      /\ UNCHANGED <<home, order, failed, ledger>> /\ Standing(n) = {}
    BY <1>2, <1>3 DEF Settle
<1>5. complete \in BOOLEAN /\ l \in [Scopes -> Seq(Items)] /\ l[n] = <<>>
      /\ \A m \in Scopes : m # n => l[m] = live[m]
    BY <1>1, <1>3
<1>6. complete => Leaving(n, where, l)
    BY <1>1, <1>4, <1>5, DetachIs
<1>7. /\ \A i \in Items : where'[i] = where[i] \/ where'[i] = "gone"
      /\ \A c \in Scopes : detached[c] => detached'[c]
      /\ complete => detached'[n]
  <2>1. CASE complete
      BY <1>1, <1>6, <2>1 DEF Leaving, TypeOK
  <2>2. CASE ~complete
      BY <1>4, <2>2
  <2> QED BY <1>5, <2>1, <2>2
<1>8. \A m \in Scopes : Thins(live'[m], l[m], {i \in Items : where'[i] # "gone"})
  <2>1. CASE complete
      BY <1>6, <2>1 DEF Leaving
  <2>2. CASE ~complete
    <3>1. live' = l
        BY <1>4, <2>2
    <3>2. PICK S : S = {i \in Items : where'[i] # "gone"}
        OBVIOUS
    <3>3. \A m \in Scopes : Thins(l[m], l[m], S)
        BY <1>5, SameThins
    <3> QED BY <3>1, <3>2, <3>3
  <2> QED BY <1>5, <2>1, <2>2
<1>9. \A i \in Items : \/ inv'[i] = inv[i]
                       \/ i = n /\ inv[i] # "none" /\ inv'[i] # "none"
                          /\ (inv'[i] = "complete" => complete)
  <2>1. Outcome(complete) # "none" /\ (Outcome(complete) = "complete" => complete)
      BY DEF Outcome
  <2>2. CASE inv[n] = "join"
    <3>1. inv' = [inv EXCEPT ![n] = Outcome(complete)]
        BY <1>4, <2>2
    <3> QED BY <1>1, <2>1, <2>2, <3>1 DEF TypeOK
  <2>3. CASE inv[n] # "join"
    <3>1. inv' = [inv EXCEPT ![n] = inv[n]]
        BY <1>4, <2>3
    <3> QED BY <1>1, <3>1 DEF TypeOK
  <2> QED BY <2>2, <2>3
<1>10. ASSUME NEW m \in Scopes, order[m] = "reverse"
       PROVE  Orderly(ledger[m], l[m], failed'[m], Busy(m)')
  <2>1. PICK C : C = Busy(m)'
      OBVIOUS
  <2>2. C \subseteq Busy(m)
      BY <1>1, <1>4, <1>9, <1>10, <2>1, BusyKept
  <2>3. Orderly(ledger[m], live[m], failed[m], C)
      BY <1>1, <1>10, <2>2, OrderlyLess DEF Tidy, Ranked
  <2>4. CASE m # n
      BY <1>4, <1>5, <2>1, <2>3, <2>4
  <2>5. CASE m = n
    <3>1. PICK u, f, e : u = live[m] /\ f = failed[m] /\ e = <<>>
        OBVIOUS
    <3>2. Thins(e, u, {})
      <4>1. PICK g : g = [i \in 1 .. Len(e) |-> 1]
          OBVIOUS
      <4>2. Len(e) = 0
          BY <3>1
      <4>3. \A i \in 1 .. Len(e) : FALSE
          BY <4>2
      <4>4. g \in [1 .. Len(e) -> 1 .. Len(u)]
          BY <4>1, <4>3
      <4>5. e \in Seq(Items)
          BY <3>1
      <4> QED BY <4>3, <4>4, <4>5 DEF Thins
    <3>3. Orderly(ledger[m], e, f, C)
        BY <1>1, <2>3, <3>1, <3>2, OrderlyThin
    <3> QED BY <1>4, <1>5, <2>1, <2>5, <3>1, <3>3
  <2> QED BY <2>4, <2>5
<1>11. ASSUME NEW i \in Items, Backward(i), where'[i] = "live"
       PROVE  \E k \in 1 .. Len(l[home[i]]) : l[home[i]][k] = i
  <2>1. PICK m \in Scopes : m = home[i]
      BY <1>11 DEF Backward
  <2>2. PICK k \in 1 .. Len(live[m]) : live[m][k] = i
      BY <1>1, <1>7, <1>11, <2>1 DEF Tidy, Held
  <2>3. m # n
    <3>1. live[m] \in Seq(Items) /\ where[live[m][k]] # "gone"
        BY <1>1, <1>7, <1>11, <2>2
    <3>2. k \in DOMAIN live[m]
        BY <3>1
    <3> QED BY <1>4, <3>1, <3>2 DEF Standing
  <2> QED BY <1>5, <2>1, <2>2, <2>3
<1>12. \A i \in Items : home[i] # 0 /\ where[i] \in Slotted => where'[i] \in Slotted
    BY <1>7 DEF Slotted
<1>13. \A i \in Items : Backward(i) /\ where'[i] = "active" => inv'[i] # "none"
    BY <1>1, <1>7, <1>9 DEF Tidy, Held
<1>14. \A c \in Scopes : inv'[c] = "complete" => detached'[c]
    BY <1>1, <1>7, <1>9, ItemKinds DEF Tidy, Held
<1> QED BY <1>1, <1>4, <1>5, <1>8, <1>10, <1>11, <1>12, <1>13, <1>14, TidyKept

\* A batch is taken: in a reverse scope, the newest entry that is not gone.
LEMMA TidyBatch ==
    ASSUME Tidying, Memory, Grown, Entries, TypeOK', TakeBatch
    PROVE  Tidy' /\ Bodies' /\ Apart'
<1>1. /\ TypeOK /\ Framed /\ Tidy /\ live \in [Scopes -> Seq(Items)]
      /\ failed \in [Scopes -> Seq(Items)]
    BY DEF Tidying, Lasting, WInv, TypeOK
<1>2. PICK n, b :
          /\ n \in Scopes /\ n = Top.n /\ On({"run"}) /\ Standing(n) # {}
          /\ b.k = "batch" /\ b.n = n /\ Stacks(Len(stack) - 1, {b})
          /\ On({"batch"})' /\ Top' = b
          /\ order[n] = "reverse" =>
               b.left # <<>> /\ Head(b.left) = b.left[1] /\ b.left[1] = live[n][Kept(n) + 1]
    BY <1>1, BatchTaken
<1>3. /\ live' = [live EXCEPT ![n] = SubSeq(@, 1, Kept(n))]
      /\ UNCHANGED <<home, order, detached, failed, where, inv, ledger>>
    BY <1>2 DEF TakeBatch, treeVars, entryVars
<1>4. Hand = {} /\ NoneInvoked(n)
    BY <1>1, <1>2, TopIs DEF Hand, On, Fit
<1>5. PICK x, k : x = live[n][k + 1] /\ k = Kept(n)
    OBVIOUS
<1>6. k \in 0 .. Len(live[n]) - 1 /\ Len(live[n]) \in Nat
      /\ (order[n] = "reverse" => \A j \in 1 .. Len(live[n]) : j > k + 1 => where[live[n][j]] = "gone")
    BY <1>1, <1>2, <1>5, KeptIs
<1>7. x \in Items /\ home[x] = n
  <2>1. k + 1 \in 1 .. Len(live[n])
      BY <1>6
  <2> QED BY <1>1, <1>2, <1>5, <2>1 DEF Tidying, Lasting, WInv, Owns
<1>8. /\ order[n] = "reverse" => Hand' = {x}
      /\ order[n] # "reverse" => Hand' = {}
  <2>1. order[n] = "reverse" => b.left # <<>> /\ Head(b.left) = x
      BY <1>2, <1>5
  <2> QED BY <1>2, <1>3, <1>7, <2>1 DEF Hand
<1>9. /\ \A m \in Scopes : m # n => live'[m] = live[m]
      /\ live'[n] = SubSeq(live[n], 1, k)
    BY <1>1, <1>2, <1>3, <1>5
<1>10. Slots' /\ Retrying'
  <2>1. \A i \in Items : home[i] # 0 /\ where[i] \in Slotted => where'[i] \in Slotted
      BY <1>3
  <2> QED BY <1>1, <1>3, <2>1, SlotsKept, RetryingKept DEF Tidy
<1>11. ASSUME NEW m \in Scopes, order[m] = "reverse"
       PROVE  Orderly(ledger[m], live'[m], failed[m], Busy(m)')
  <2>1. Orderly(ledger[m], live[m], failed[m], Busy(m))
      BY <1>1, <1>11 DEF Tidy, Ranked
  <2>2. CASE m # n
    <3>1. \A i \in Busy(m)' : i \in Busy(m)
        BY <1>3, <1>7, <1>8, <2>2 DEF Busy
    <3>2. PICK C : C = Busy(m)'
        OBVIOUS
    <3>3. Orderly(ledger[m], live[m], failed[m], C)
        BY <2>1, <3>1, <3>2, OrderlyLess
    <3> QED BY <1>9, <2>2, <3>2, <3>3
  <2>3. CASE m = n
    <3>1. Busy(m) = {}
        BY <1>4, <2>3 DEF Busy, NoneInvoked
    <3>2. Busy(m)' = {x}
        BY <1>3, <1>4, <1>7, <1>8, <1>11, <2>3 DEF Busy, NoneInvoked
    <3>3. PICK l, t : l = live[n] /\ t = SubSeq(l, 1, k)
        OBVIOUS
    <3>4. l \in Seq(Items) /\ k \in 0 .. Len(l) - 1 /\ x = l[k + 1]
        BY <1>1, <1>2, <1>5, <1>6, <3>3
    <3>5. Orderly(ledger[m], l, failed[m], {})
        BY <2>1, <2>3, <3>1, <3>3
    <3>6. Orderly(ledger[m], t, failed[m], {l[k + 1]})
        BY <3>3, <3>4, <3>5, OrderlyTake
    <3> QED BY <1>9, <2>3, <3>2, <3>3, <3>4, <3>6
  <2> QED BY <2>2, <2>3
<1>12. Ranked'
    BY <1>3, <1>11 DEF Ranked
<1>13. ASSUME NEW i \in Items, Backward(i), where[i] = "live"
       PROVE  i \in Hand' \/ \E a \in 1 .. Len(live'[home[i]]) : live'[home[i]][a] = i
  <2>1. PICK m \in Scopes : m = home[i] /\ order[m] = "reverse"
      BY <1>13 DEF Backward
  <2>2. PICK a \in 1 .. Len(live[m]) : live[m][a] = i
      BY <1>1, <1>4, <1>13, <2>1 DEF Tidy, Held
  <2>3. CASE m # n
      BY <1>9, <2>1, <2>2, <2>3
  <2>4. CASE m = n
    <3>1. a \in 1 .. k \/ a = k + 1
        BY <1>6, <1>13, <2>1, <2>2, <2>4
    <3>2. CASE a = k + 1
        BY <1>5, <1>8, <2>1, <2>2, <2>4, <3>2
    <3>3. CASE a \in 1 .. k
      <4>1. PICK l, t : l = live[n] /\ t = SubSeq(l, 1, k)
          OBVIOUS
      <4>2. l \in Seq(Items) /\ k \in 0 .. Len(l)
          BY <1>1, <1>2, <1>6, <4>1
      <4>3. Len(t) = k /\ t[a] = l[a]
          BY <3>3, <4>1, <4>2, SubSeqProperties
      <4> QED BY <1>9, <2>1, <2>2, <2>4, <3>3, <4>1, <4>3
    <3> QED BY <3>1, <3>2, <3>3
  <2> QED BY <2>3, <2>4
<1>14. Held'
    BY <1>1, <1>3, <1>13 DEF Tidy, Held, Backward
<1>15. Solo'
    BY <1>3, <1>4, <1>7, <1>8 DEF Solo, NoneInvoked
<1>16. PICK m, F : m = Len(stack) - 1 /\ F = {b}
    OBVIOUS
<1>17. Stacks(m, F) /\ \A f \in F : f.k # "cleanup"
    BY <1>2, <1>16
<1>18. Apart'
  <2>1. \A q \in 1 .. Len(stack') : q > m => stack'[q].k # "cleanup"
      BY <1>17 DEF Stacks
  <2> QED BY <1>17, <2>1, ApartKept DEF Tidying
<1>19. ASSUME NEW f \in ToSet(stack'), f.k = "cleanup", Backward(f.n)' PROVE inv'[f.n] # "none"
  <2>1. PICK p \in 1 .. m : f = stack[p]
      BY <1>17, <1>19, StackIn
  <2>2. p \in 1 .. Len(stack)
      BY <1>1, <1>2, <1>16, TopIs
  <2> QED BY <1>3, <1>19, <2>1, <2>2, BodiesKept DEF Tidying
<1>20. Bodies'
    BY <1>19 DEF Bodies
<1> QED BY <1>10, <1>12, <1>14, <1>15, <1>18, <1>20 DEF Tidy

-----------------------------------------------------------------------------
(* Every step.                                                             *)

Tidier == Tidy' /\ Bodies' /\ Apart'

\* Registration.
LEMMA RegisterTidies ==
    ASSUME Tidying, Memory, Grown, TypeOK', NEW n \in Scopes,
           Setup(n) \/ Use(n) \/ OpenModule(n) \/ \E o : Child(n, o)
    PROVE  Tidier
<1>1. Entries /\ Aside
    BY RegisterLasts DEF Tidying
<1>2. Created(n) /\ ~requested[n]
    BY DEF Setup, Use, OpenModule, Child, Accepts
<1>3. \A l \in NextLeaf : l \in Items /\ l # Root /\ home[l] = 0
    BY ItemKinds DEF NextLeaf
<1>4. \A c \in NextScope : c \in Items /\ c # Root /\ home[c] = 0
    BY ItemKinds DEF NextScope, Created
<1>5. ASSUME NEW i \in Items, i # Root, home[i] = 0,
             home' = [home EXCEPT ![i] = n],
             where' = [where EXCEPT ![i] = "live"],
             live' = [live EXCEPT ![n] = Append(@, i)],
             ledger' = [ledger EXCEPT ![n] = Append(@, i)],
             UNCHANGED <<failed, inv, detached>>,
             order' = order \/ \E o : order' = [order EXCEPT ![i] = o]
      PROVE  Tidy'
    BY <1>1, <1>2, <1>5, TidyAdd
<1>6. ASSUME Use(n) PROVE Tidy'
  <2>1. PICK l \in NextLeaf :
            /\ home' = [home EXCEPT ![l] = n] /\ where' = [where EXCEPT ![l] = "live"]
            /\ live' = [live EXCEPT ![n] = Append(@, l)]
            /\ ledger' = [ledger EXCEPT ![n] = Append(@, l)]
      BY <1>6 DEF Use
  <2>2. UNCHANGED <<order, failed, inv, detached>>
      BY <1>6 DEF Use
  <2> QED BY <1>3, <1>5, <2>1, <2>2
<1>7. ASSUME NEW o, Child(n, o) \/ OpenModule(n) PROVE Tidy'
  <2>1. PICK c \in NextScope :
            /\ home' = [home EXCEPT ![c] = n] /\ where' = [where EXCEPT ![c] = "live"]
            /\ live' = [live EXCEPT ![n] = Append(@, c)]
            /\ ledger' = [ledger EXCEPT ![n] = Append(@, c)]
            /\ \E p : order' = [order EXCEPT ![c] = p]
    <3>1. CASE Child(n, o)
      <4>1. PICK c \in NextScope : Construct(c, n, o, FALSE)
          BY <3>1 DEF Child
      <4> QED BY <4>1 DEF Construct
    <3>2. CASE OpenModule(n)
      <4>1. PICK c \in NextScope : Construct(c, n, "reverse", runAborted)
          BY <3>2 DEF OpenModule
      <4> QED BY <4>1 DEF Construct
    <3> QED BY <1>7, <3>1, <3>2
  <2>2. UNCHANGED <<failed, inv, detached>>
      BY <1>7 DEF Child, OpenModule
  <2> QED BY <1>4, <1>5, <2>1, <2>2
<1>8. Tidy'
    BY <1>1, <1>6, <1>7, TidySetup
<1>9. inv' = inv
    BY DEF Setup, Use, OpenModule, Child
<1> QED BY <1>1, <1>8, <1>9, AsideBodies DEF Tidying, Tidier

\* A setup or an invocation ends.
LEMMA EndTidies ==
    ASSUME Tidying, Memory, Grown, TypeOK', NEW i \in Items,
           \/ i \in Leaves /\ UserSettles(i)
           \/ i \in Scopes /\ (JoinSettled(i) \/ VoidReleased(i))
    PROVE  Tidier
<1>1. Entries /\ Aside /\ TypeOK /\ Tidy
    BY EndLasts DEF Tidying, Lasting, WInv
<1>2. Idle /\ UNCHANGED <<home, order, detached>>
    BY DEF UserSettles, SetupFulfil, SetupReject, CleanupFulfil, CleanupReject, JoinSettled,
           VoidReleased, treeVars
<1>3. /\ where = [where EXCEPT ![i] = where[i]] /\ inv = [inv EXCEPT ![i] = inv[i]]
      /\ i \in Leaves => i \notin Scopes
    BY <1>1, ItemKinds DEF TypeOK
<1>4. inv[i] # "none" => home[i] \in Scopes /\ requested[home[i]] /\ Setups(home[i]) = {}
    BY DEF Tidying, Lasting, WInv, Invoked, Flights
<1>5. ASSUME i \in Leaves, SetupFulfil(i) PROVE Tidy'
  <2>1. PICK n : n = home[i]
      OBVIOUS
  <2>2. /\ where[i] = "setup" /\ where' = [where EXCEPT ![i] = "live"]
        /\ live' = [live EXCEPT ![n] = Append(@, i)]
        /\ ledger' = [ledger EXCEPT ![n] = Append(@, i)]
        /\ UNCHANGED <<failed, inv>>
      BY <1>5, <2>1 DEF SetupFulfil
  <2>3. CASE n = 0
    <3>1. 0 \notin Scopes
        BY ItemKinds
    <3>2. live' = live /\ ledger' = ledger /\ ~Backward(i)
        BY <1>1, <2>1, <2>2, <2>3, <3>1 DEF TypeOK, Backward
    <3> QED BY <1>1, <1>2, <1>3, <1>5, <2>1, <2>2, <2>3, <3>2, TidyPoint
  <2>4. CASE n # 0
    <3>1. n \in Scopes /\ Created(n)
        BY <1>1, <2>1, <2>4 DEF TypeOK, Tidying, Lasting, WInv, Owns
    <3>2. i \in Setups(n)
        BY <1>5, <2>1, <2>2 DEF Setups
    <3> QED BY <1>1, <1>2, <2>1, <2>2, <3>1, <3>2, TidyAdd
  <2> QED BY <2>3, <2>4
<1>6. ASSUME i \in Leaves, SetupReject(i) PROVE Tidy'
  <2>1. /\ where' = [where EXCEPT ![i] = "void"] /\ inv' = [inv EXCEPT ![i] = inv[i]]
        /\ where[i] = "setup" /\ UNCHANGED <<live, failed, ledger>>
      BY <1>3, <1>6 DEF SetupReject, listVars
  <2> QED BY <1>1, <1>2, <1>3, <1>6, <2>1, TidyPoint DEF Slotted
<1>7. ASSUME (i \in Leaves /\ CleanupFulfil(i)) \/ VoidReleased(i) PROVE Tidy'
  <2>1. /\ where' = [where EXCEPT ![i] = "gone"] /\ inv' = [inv EXCEPT ![i] = "none"]
        /\ UNCHANGED <<live, failed, ledger>>
      BY <1>7 DEF CleanupFulfil, VoidReleased, listVars
  <2> QED BY <1>1, <1>2, <2>1, TidyPoint DEF Slotted
<1>8. ASSUME (i \in Leaves /\ CleanupReject(i)) \/ (JoinSettled(i) /\ Fail(i)) PROVE Tidy'
  <2>1. /\ Fail(i) /\ inv[i] # "none" /\ inv' = [inv EXCEPT ![i] = "none"]
        /\ UNCHANGED <<live, ledger>>
      BY <1>8 DEF CleanupReject, JoinSettled
  <2> QED BY <1>1, <1>2, <1>4, <2>1, TidyFail
<1>9. ASSUME i \in Scopes, JoinSettled(i), ~Fail(i) PROVE Tidy'
  <2>1. /\ inv[i] \in {"complete", "incomplete"} /\ inv' = [inv EXCEPT ![i] = "none"]
        /\ UNCHANGED <<where, failed, live, ledger>>
        /\ inv[i] = "incomplete" => where[i] # "active"
      BY <1>9 DEF JoinSettled
  <2>2. Backward(i) => where[i] # "active"
      BY <1>1, <1>9, <2>1 DEF Tidy, Held, Tidying, Lasting, Departed
  <2> QED BY <1>1, <1>2, <1>3, <2>1, <2>2, TidyPoint
<1>10. Tidy'
    BY <1>5, <1>6, <1>7, <1>8, <1>9 DEF UserSettles
<1> QED BY <1>1, <1>2, <1>10, AsideBodies DEF Tidying, Tidier

\* The synchronous part of a cleanup ends.
LEMMA CleanupTidies ==
    ASSUME Tidying, Memory, Grown, TypeOK', CleanupReturn \/ CleanupThrow
    PROVE  Tidier
<1>1. Entries /\ Aside /\ TypeOK /\ Framed /\ Flights
    BY CleanupLasts DEF Tidying, Lasting, WInv
<1>2. On({"cleanup"}) /\ stack # <<>>
    BY DEF CleanupReturn, CleanupThrow, On, Idle
<1>3. Top \in ToSet(stack) /\ Top.k = "cleanup" /\ Fit(Top)
    BY <1>1, <1>2, TopIn, TopIs
<1>4. PICK l : l = Top.n
    OBVIOUS
<1>5. /\ l \in Leaves /\ l \in Items /\ l \notin Scopes /\ home[l] \in Scopes
      /\ phase[home[l]] \in {"running", "batch"} /\ Setups(home[l]) = {}
    BY <1>3, <1>4, ItemKinds DEF Fit
<1>6. requested[home[l]] /\ (Backward(l) => inv[l] # "none")
    BY <1>1, <1>3, <1>4, <1>5 DEF Flights, Tidying, Bodies
<1>7. ASSUME CleanupReturn PROVE Tidier
  <2>1. /\ where' = [where EXCEPT ![l] = where[l]] /\ inv' = [inv EXCEPT ![l] = "running"]
        /\ UNCHANGED <<home, order, detached, live, failed, ledger>>
      BY <1>1, <1>4, <1>7 DEF CleanupReturn, TypeOK, treeVars, listVars
  <2>2. Tidy'
      BY <1>1, <1>5, <1>6, <2>1, TidyPoint
  <2>3. \A j \in Items : inv[j] # "none" => inv'[j] # "none"
      BY <1>1, <1>5, <2>1 DEF TypeOK
  <2> QED BY <1>1, <2>2, <2>3, ItemKinds, AsideBodies DEF Tidying, Tidier
<1>8. ASSUME CleanupThrow PROVE Tidier
  <2>1. /\ Fail(l) /\ inv' = [inv EXCEPT ![l] = "none"]
        /\ UNCHANGED <<home, order, detached, live, ledger>>
      BY <1>4, <1>8 DEF CleanupThrow, treeVars
  <2>2. Tidy'
      BY <1>1, <1>5, <1>6, <2>1, TidyFail
  <2> QED BY <1>1, <1>8, <2>2, ThrowBodies DEF Tidying, Tidier
<1> QED BY <1>7, <1>8

\* Steps that change no entry.
LEMMA CalmTidies ==
    ASSUME Tidying, Memory, Grown, TypeOK',
           \/ \E k \in Calls : EscalateSignal(k) \/ AbandonSignal(k) \/ AnswerCall(k)
           \/ \E c \in Scopes : Unlink(c) \/ Resume(c)
           \/ SetupReturn \/ ListenerReturn \/ CloseReturn \/ WalkDone
           \/ StartFlight \/ DrainStep \/ AwaitSetups \/ AwaitBatch
           \/ NotifyVisit \/ CancelVisit \/ EscalateVisit \/ CancelRun
    PROVE  Tidier
<1>1. Entries /\ Aside
    BY CalmLasts, WalkLasts, CancelLasts DEF Tidying
<1>2. UNCHANGED <<home, order, detached, live, failed, where, inv, ledger>>
    BY DEF EscalateSignal, AbandonSignal, AnswerCall, Unlink, Resume, SetupReturn,
           ListenerReturn, CloseReturn, WalkDone, StartFlight, DrainStep, AwaitSetups, AwaitBatch,
           NotifyVisit, CancelVisit, EscalateVisit, CancelRun, treeVars, entryVars, listVars
<1>3. Tidy'
    BY <1>1, <1>2, TidyCalm
<1> QED BY <1>1, <1>2, <1>3, AsideBodies DEF Tidying, Tidier

\* A flight is taken or reports.
LEMMA FlightTidies ==
    ASSUME Tidying, Memory, Grown, TypeOK',
           Settle \/ \E k \in Calls, n \in Scopes, e, a \in Signals : Close(k, n, e, a)
    PROVE  Tidier
<1>1. Entries /\ Aside /\ TypeOK
    BY SettleLasts, CloseLasts DEF Tidying, Lasting, WInv
<1>2. Tidy'
    BY <1>1, TidySettle, TidyClose
<1>3. \A i \in Items : inv[i] # "none" => inv'[i] # "none"
  <2>1. ASSUME Settle, NEW i \in Items, inv[i] # "none" PROVE inv'[i] # "none"
    <3>1. PICK n, o : inv' = [inv EXCEPT ![n] = IF @ = "join" THEN Outcome(o) ELSE @]
        BY <2>1 DEF Settle
    <3>2. Outcome(o) # "none"
        BY DEF Outcome
    <3>3. CASE i = n /\ inv[i] = "join"
        BY <1>1, <3>1, <3>2, <3>3 DEF TypeOK
    <3>4. CASE i # n \/ inv[i] # "join"
        BY <1>1, <2>1, <3>1, <3>4 DEF TypeOK
    <3> QED BY <3>3, <3>4
  <2>2. ASSUME NEW k, NEW n, NEW e, NEW a, Close(k, n, e, a) PROVE inv' = inv
      BY <2>2 DEF Close
  <2> QED BY <2>1, <2>2
<1> QED BY <1>1, <1>2, <1>3, ItemKinds, AsideBodies DEF Tidying, Tidier

\* An entry is invoked.
LEMMA InvokeTidies ==
    ASSUME Tidying, Memory, Grown, TypeOK', InvokeLeaf \/ InvokeVoid \/ InvokeChild
    PROVE  Tidier
<1>1. Entries
    BY InvokeLasts DEF Tidying
<1>2. Tidy'
    BY <1>1, TidyInvoke, TidyJoin
<1> QED BY <1>1, <1>2, InvokeBodies DEF Tidier

\* Every step keeps the order.
LEMMA NextTidies == ASSUME Tidying, [Next]_vars PROVE Tidying'
<1>1. WInv /\ WInv' /\ TypeOK /\ TypeOK' /\ Lasting /\ Lasting'
    BY NextInvariant, NextLasts DEF Tidying, Lasting, WInv
<1>2. Memory /\ Grown
    BY <1>1, NextMemory, NextGrows
<1>3. ASSUME NEW n \in Scopes, Setup(n) \/ Use(n) \/ OpenModule(n) \/ \E o : Child(n, o)
      PROVE  Tidier
    BY <1>1, <1>2, <1>3, RegisterTidies
<1>4. ASSUME NEW l \in Leaves, UserSettles(l) PROVE Tidier
    BY <1>1, <1>2, <1>4, EndTidies, ItemKinds
<1>5. ASSUME NEW c \in Scopes, JoinSettled(c) \/ VoidReleased(c) PROVE Tidier
    BY <1>1, <1>2, <1>5, EndTidies, ItemKinds
<1>6. ASSUME \/ \E k \in Calls : EscalateSignal(k) \/ AbandonSignal(k) \/ AnswerCall(k)
             \/ \E c \in Scopes : Unlink(c) \/ Resume(c)
             \/ SetupReturn \/ ListenerReturn \/ CloseReturn \/ WalkDone
             \/ StartFlight \/ DrainStep \/ AwaitSetups \/ AwaitBatch
             \/ NotifyVisit \/ CancelVisit \/ EscalateVisit \/ CancelRun
      PROVE  Tidier
    BY <1>1, <1>2, <1>6, CalmTidies
<1>7. ASSUME Settle \/ \E k \in Calls, n \in Scopes, e, a \in Signals : Close(k, n, e, a)
      PROVE  Tidier
    BY <1>1, <1>2, <1>7, FlightTidies
<1>8. ASSUME CleanupReturn \/ CleanupThrow PROVE Tidier
    BY <1>1, <1>2, <1>8, CleanupTidies
<1>9. ASSUME TakeBatch PROVE Tidier
    BY <1>1, <1>2, <1>9, TakeBatchLasts, TidyBatch DEF Tidier
<1>10. ASSUME InvokeLeaf \/ InvokeVoid \/ InvokeChild PROVE Tidier
    BY <1>1, <1>2, <1>10, InvokeTidies
<1>11. ASSUME UNCHANGED vars PROVE Tidier
  <2>1. UNCHANGED <<home, order, requested, detached, live, failed, where, inv, stack, ledger>>
      BY <1>11 DEF vars, treeVars, signalVars, listVars, entryVars, turnVars
  <2>2. Hand' = Hand
      BY <2>1 DEF Hand, On, Idle, Top
  <2>3. \A n \in Scopes : Busy(n)' = Busy(n) /\ Setups(n)' = Setups(n)
      BY <2>1, <2>2 DEF Busy, Setups
  <2>4. Slots' /\ Ranked'
      BY <2>1, <2>3 DEF Tidying, Tidy, Slots, Ranked
  <2>5. Held'
      BY <2>1, <2>2 DEF Tidying, Tidy, Held, Backward
  <2>6. Retrying' /\ Solo'
      BY <2>1, <2>2, <2>3 DEF Tidying, Tidy, Retrying, Solo, NoneInvoked
  <2>7. Bodies' /\ Apart'
      BY <2>1 DEF Tidying, Bodies, Apart, Backward
  <2> QED BY <2>4, <2>5, <2>6, <2>7 DEF Tidier, Tidy
<1>12. ASSUME Next PROVE Tidier
    BY <1>3, <1>4, <1>5, <1>6, <1>7, <1>8, <1>9, <1>10, <1>12
       DEF Next, UserStep, UserReturn, Machine, Continuation
<1>13. Tidier
    BY <1>11, <1>12
<1> QED BY <1>1, <1>13 DEF Tidier, Tidying

\* It holds at the start.
LEMMA InitTidying == Init => Tidying
<1> SUFFICES ASSUME Init PROVE Tidying
    OBVIOUS
<1>1. Lasting
    BY InitLasting
<1>2. stack = <<>> /\ Len(stack) = 0 /\ ToSet(stack) = {} /\ Hand = {}
    BY DEF Init, ToSet, Hand, On, Idle
<1>3. /\ \A n \in Scopes : ledger[n] = <<>> /\ live[n] = <<>> /\ failed[n] = <<>> /\ ~detached[n]
      /\ \A i \in Items : where[i] = "free" /\ inv[i] = "none"
    BY DEF Init
<1>4. \A k \in Nat : k = 0 => \A a \in 1 .. k : FALSE
    OBVIOUS
<1>5. /\ \A n \in Scopes : Len(ledger[n]) = 0 /\ Len(live[n]) = 0 /\ Len(failed[n]) = 0
      /\ \A n \in Scopes : \A a \in 1 .. Len(ledger[n]) : FALSE
    BY <1>3, <1>4
<1>6. \A n \in Scopes : Busy(n) = {}
    BY <1>2, <1>3 DEF Busy
<1>7. Slots /\ Retrying /\ Solo
    BY <1>2, <1>5 DEF Slots, Retrying, Solo
<1>8. Ranked
  <2> SUFFICES ASSUME NEW n \in Scopes PROVE Orderly(ledger[n], live[n], failed[n], Busy(n))
      BY DEF Ranked
  <2>1. Orderly(ledger[n], live[n], failed[n], {})
      BY <1>5, OrderlyEmpty
  <2> QED BY <1>6, <2>1
<1>9. Held
    BY <1>3, ItemKinds DEF Held
<1>10. Bodies /\ Apart
    BY <1>2 DEF Bodies, Apart
<1> QED BY <1>1, <1>7, <1>8, <1>9, <1>10 DEF Tidying, Tidy

\* The slots of a reverse scope, what it has listed, what it releases and what
\* failed are in one order, in every reachable state.
THEOREM OrderInvariant == Spec => []Tidying
<1>1. Tidying /\ [Next]_vars => Tidying'
    BY NextTidies
<1> QED BY <1>1, InitTidying, PTL DEF Spec

\* A reverse scope releases one entry at a time, the newest slot first, also when
\* flights retry what failed and whatever user code does in between.
THEOREM ReleasesInReverse == Spec => []ReverseOrder
<1>1. Tidying => ReverseOrder
  <2> SUFFICES ASSUME Tidying, NEW n \in Scopes, order[n] = "reverse",
                      NEW a \in DOMAIN ledger[n], NEW b \in DOMAIN ledger[n],
                      inv[ledger[n][a]] # "none", a # b
               PROVE  /\ inv[ledger[n][b]] = "none"
                      /\ a < b => where[ledger[n][b]] \in {"failed", "gone"}
      BY DEF ReverseOrder
  <2>1. PICK s, i, j : s = ledger[n] /\ i = s[a] /\ j = s[b]
      OBVIOUS
  <2>2. Tidy /\ s \in Seq(Items) /\ a \in 1 .. Len(s) /\ b \in 1 .. Len(s) /\ Len(s) \in Nat
      BY <2>1 DEF Tidying, Lasting, WInv, TypeOK
  <2>3. /\ \A x, y \in 1 .. Len(s) : s[x] = s[y] => x = y
        /\ i # j /\ home[i] = n /\ home[j] = n /\ where[j] \in Slotted /\ i \in Items /\ j \in Items
      BY <2>1, <2>2 DEF Tidy, Slots
  <2>4. Orderly(s, live[n], failed[n], Busy(n)) /\ i \in Busy(n) /\ Backward(j)
      BY <2>1, <2>2, <2>3 DEF Tidy, Ranked, Busy, Backward
  <2>5. j \notin Busy(n)
      BY <2>3, <2>4 DEF Orderly
  <2>6. inv[j] = "none" /\ j \notin Hand
      BY <2>3, <2>5 DEF Busy
  <2>7. ASSUME a < b, where[j] = "live" PROVE FALSE
    <3>1. PICK c \in 1 .. Len(live[n]) : live[n][c] = j
        BY <2>2, <2>3, <2>4, <2>6, <2>7 DEF Tidy, Held
    <3>2. Before(s, j, i)
        BY <2>4, <3>1 DEF Orderly
    <3>3. PICK x \in 1 .. Len(s), y \in 1 .. Len(s) : x < y /\ s[x] = j /\ s[y] = i
        BY <3>2 DEF Before
    <3>4. x = b /\ y = a
        BY <2>1, <2>2, <2>3, <3>3
    <3> QED BY <2>2, <2>7, <3>3, <3>4
  <2>8. where[j] # "active"
      BY <2>2, <2>3, <2>4, <2>6 DEF Tidy, Held
  <2> QED BY <2>1, <2>3, <2>6, <2>7, <2>8 DEF Slotted
<1> QED BY <1>1, OrderInvariant, PTL

-----------------------------------------------------------------------------
(* What is below a scope.                                                  *)

\* A set that is closed under the relation holds all that is reached.
LEMMA ReachLeast ==
    ASSUME NEW n, NEW next, NEW T \in SUBSET Scopes, n \in T, \A a \in T : next[a] \subseteq T
    PROVE  Reach(n, next) \subseteq T
BY DEF Reach

\* Below a scope is what any set holds that has it and what its members registered.
LEMMA BelowLeast ==
    ASSUME NEW n \in Scopes, NEW T \in SUBSET Scopes, n \in T,
           \A a \in T, c \in Scopes : home[c] = a => c \in T
    PROVE  Below(n) \subseteq T
<1> DEFINE next == [a \in Scopes |-> {c \in Scopes : home[c] = a}]
<1>1. \A a \in T : next[a] \subseteq T
    OBVIOUS
<1> QED BY <1>1, ReachLeast DEF Below

\* What a scope registered is below what the scope is below.
LEMMA BelowIs ==
    ASSUME NEW n \in Scopes
    PROVE  /\ n \in Below(n) /\ Below(n) \subseteq Scopes
           /\ \A m \in Below(n), c \in Scopes : home[c] = m => c \in Below(n)
           /\ \A m \in Below(n) : Below(m) \subseteq Below(n)
<1> DEFINE next == [a \in Scopes |-> {c \in Scopes : home[c] = a}]
<1>1. n \in Below(n) /\ Below(n) = Reach(n, next) /\ Below(n) \subseteq Scopes
    BY ReachRoot DEF Below, Reach
<1>2. ASSUME NEW m \in Below(n), NEW c \in Scopes, home[c] = m PROVE c \in Below(n)
  <2>1. m \in Scopes /\ c \in next[m] /\ \A x \in Scopes : next[x] \subseteq Scopes
      BY <1>1, <1>2
  <2> HIDE DEF next
  <2> QED BY <1>1, <2>1, ReachClosed
<1>3. ASSUME NEW m \in Below(n) PROVE Below(m) \subseteq Below(n)
  <2>1. m \in Scopes /\ Below(n) \in SUBSET Scopes
      BY <1>1
  <2> QED BY <1>2, <2>1, BelowLeast
<1> QED BY <1>1, <1>2, <1>3

-----------------------------------------------------------------------------
(* What a scope owes.                                                      *)

\* The whole subtree releases in reverse order.
Tame(n) == \A m \in Below(n) : order[m] = "reverse"

Paid(n) == Tame(n) => Unreleased(n) = {}

\* What is failed is listed as such; what was registered is not free, and a scope
\* has a slot; one that left was closed.
Lodged ==
    /\ \A i \in Items : where[i] = "failed" =>
          home[i] \in Scopes /\ \E b \in 1 .. Len(failed[home[i]]) : failed[home[i]][b] = i
    /\ \A i \in Items : home[i] # 0 => where[i] # "free"
    /\ \A c \in Scopes : home[c] # 0 => where[c] \in Slotted
    /\ \A c \in Scopes : detached[c] => requested[c]

\* A scope that left its parent owes nothing.
Cleared == \A n \in Scopes : detached[n] => Paid(n)

\* A part of a tame subtree is tame, and owes no more.
LEMMA PartOf ==
    ASSUME NEW n \in Scopes, NEW m \in Below(n)
    PROVE  /\ m \in Scopes /\ Unreleased(m) \subseteq Unreleased(n) /\ (Tame(n) => Tame(m))
           /\ \A l \in Leaves : home[l] = m /\ where[l] \notin {"gone", "void"} => l \in Unreleased(n)
<1>1. m \in Scopes /\ Below(m) \subseteq Below(n)
    BY BelowIs
<1> QED BY <1>1 DEF Tame, Unreleased, Owned

\* Where nothing is at hand, the entries of a reverse scope that are neither gone
\* nor void are listed where a report looks for them.
LEMMA Seen ==
    ASSUME Tidying, Lodged, NEW n \in Scopes, order[n] = "reverse", \A i \in Hand : home[i] # n,
           NEW i \in Items, home[i] = n, where[i] \in {"live", "active", "failed"}
    PROVE  i \in Listed(n)
<1>1. Backward(i) /\ i \notin Hand /\ live[n] \in Seq(Items) /\ failed[n] \in Seq(Items)
    BY DEF Backward, Tidying, Lasting, WInv, TypeOK
<1>2. CASE where[i] = "live"
  <2>1. PICK a \in 1 .. Len(live[n]) : live[n][a] = i
      BY <1>1, <1>2 DEF Tidying, Tidy, Held
  <2>2. i \in ToSet(live[n])
      BY <1>1, <2>1, OfItsOwn
  <2> QED BY <1>2, <2>2 DEF Listed
<1>3. CASE where[i] = "active"
    BY <1>1, <1>3 DEF Tidying, Tidy, Held, Listed
<1>4. CASE where[i] = "failed"
  <2>1. PICK b \in 1 .. Len(failed[n]) : failed[n][b] = i
      BY <1>4 DEF Lodged
  <2>2. i \in ToSet(failed[n])
      BY <1>1, <2>1, OfItsOwn
  <2> QED BY <1>4, <2>2 DEF Listed
<1> QED BY <1>2, <1>3, <1>4

\* A child is listed by its parent, or it left and owes nothing.
LEMMA ChildSeen ==
    ASSUME Tidying, Lodged, Cleared, NEW n \in Scopes, Tame(n), \A i \in Hand : home[i] # n,
           NEW c \in Scopes, home[c] = n
    PROVE  \/ c \in Listed(n) /\ HasChild(c)
           \/ Tame(c) /\ Unreleased(c) = {}
<1>1. n \in Below(n) /\ c \in Below(n) /\ c \in Items /\ n # 0
    BY BelowIs, ItemKinds
<1>2. order[n] = "reverse" /\ Tame(c)
    BY <1>1, PartOf DEF Tame
<1>3. where[c] \in Slotted
    BY <1>1 DEF Lodged
<1>4. CASE detached[c]
    BY <1>2, <1>4 DEF Cleared, Paid
<1>5. CASE ~detached[c]
  <2>1. where[c] # "gone"
      BY <1>5 DEF Tidying, Lasting, Departed
  <2>2. c \in Listed(n)
      BY <1>1, <1>2, <1>3, <2>1, Seen DEF Slotted
  <2> QED BY <1>5, <2>2 DEF HasChild
<1> QED BY <1>4, <1>5

-----------------------------------------------------------------------------
(* What a report says.                                                     *)

\* A leaf that a scope of a tame subtree holds and that is neither gone nor void is
\* a setup or listed.
LEMMA LeafSeen ==
    ASSUME Tidying, Lodged, NEW n \in Scopes, order[n] = "reverse", \A i \in Hand : home[i] # n,
           NEW l \in Leaves, home[l] = n, where[l] \notin {"gone", "void"}, where[l] # "free"
    PROVE  l \in Setups(n) \/ (l \in Listed(n) /\ ~HasChild(l))
<1>1. l \in Items /\ l \notin Scopes /\ where[l] \in States
    BY ItemKinds DEF Tidying, Lasting, WInv, TypeOK
<1>2. CASE where[l] = "setup"
    BY <1>2 DEF Setups
<1>3. CASE where[l] \in {"live", "active", "failed"}
    BY <1>1, <1>3, Seen DEF HasChild
<1> QED BY <1>1, <1>2, <1>3 DEF States

\* What a report visits, and what it lists there.
Visits(n) == Reach(n, [a \in Scopes |-> {c \in Listed(a) : HasChild(c)}])

\* What a report names.
LEMMA DebtIs ==
    ASSUME NEW n, NEW i
    PROVE  i \in Debts(n) <=>
             \E m \in Visits(n) : i \in Setups(m) \/ (i \in Listed(m) /\ ~HasChild(i))
BY DEF Debts, Visits

\* A report visits what is below the scope, and what it lists is unreleased.
LEMMA DebtsAreBelow ==
    ASSUME Tidying, NEW n \in Scopes, Tame(n)
    PROVE  Visits(n) \subseteq Below(n) /\ Debts(n) \subseteq Unreleased(n)
<1> DEFINE next == [a \in Scopes |-> {c \in Listed(a) : HasChild(c)}]
<1>1. n \in Below(n) /\ Below(n) \in SUBSET Scopes
    BY BelowIs
<1>2. \A a \in Below(n) : next[a] \subseteq Below(n)
  <2> SUFFICES ASSUME NEW a \in Below(n), NEW c \in next[a] PROVE c \in Below(n)
      OBVIOUS
  <2>1. a \in Scopes /\ c \in Scopes /\ home[c] = a
      BY <1>1 DEF Listed, HasChild
  <2> HIDE DEF next
  <2> QED BY <2>1, BelowIs
<1>3. Visits(n) \subseteq Below(n)
    BY <1>1, <1>2, ReachLeast DEF Visits
<1>4. ASSUME NEW m \in Below(n), NEW i \in Listed(m), ~HasChild(i) PROVE i \in Unreleased(n)
  <2>1. m \in Scopes /\ i \in Items /\ home[i] = m /\ where[i] \in {"live", "active", "failed"}
      BY <1>1 DEF Listed
  <2>2. i \notin Scopes
    <3>1. SUFFICES ASSUME i \in Scopes PROVE FALSE
        OBVIOUS
    <3>2. detached[i] /\ Backward(i)
        BY <1>4, <2>1, <3>1 DEF HasChild, Backward, Tame
    <3> QED BY <2>1, <3>1, <3>2 DEF Tidying, Lasting, Departed
  <2>3. i \in Leaves
      BY <2>1, <2>2, ScopeAssumption DEF Items, Scopes, Leaves
  <2> QED BY <2>1, <2>3, PartOf
<1>5. ASSUME NEW m \in Below(n), NEW i \in Setups(m) PROVE i \in Unreleased(n)
    BY PartOf DEF Setups
<1>6. ASSUME NEW i \in Debts(n) PROVE i \in Unreleased(n)
  <2>1. PICK m \in Visits(n) : i \in Setups(m) \/ (i \in Listed(m) /\ ~HasChild(i))
      BY <1>6, DebtIs
  <2> QED BY <1>3, <1>4, <1>5, <2>1
<1> QED BY <1>3, <1>6

\* Where nothing of a tame subtree is at hand, the report of its scope names exactly
\* what is unreleased.
LEMMA ReportExact ==
    ASSUME Tidying, Lodged, Cleared, NEW n \in Scopes, Tame(n),
           \A i \in Hand : home[i] \notin Below(n)
    PROVE  Debts(n) = Unreleased(n)
<1> DEFINE next == [a \in Scopes |-> {c \in Listed(a) : HasChild(c)}]
           T == {m \in Scopes : m \in Visits(n) \/ Unreleased(m) = {}}
<1>1. n \in Visits(n) /\ Visits(n) = Reach(n, next)
    BY ReachRoot DEF Visits
<1>2. Visits(n) \subseteq Below(n) /\ Debts(n) \subseteq Unreleased(n) /\ Below(n) \subseteq Scopes
    BY DebtsAreBelow, BelowIs
<1>3. ASSUME NEW a \in T, NEW c \in Scopes, home[c] = a PROVE c \in T
  <2>1. CASE Unreleased(a) = {}
    <3>1. a \in Scopes /\ a \in Below(a)
        BY BelowIs
    <3>2. c \in Below(a)
        BY <1>3, <3>1, BelowIs
    <3> QED BY <2>1, <3>1, <3>2, PartOf
  <2>2. CASE a \in Visits(n)
    <3>1. a \in Below(n) /\ a \in Scopes /\ Tame(a) /\ \A i \in Hand : home[i] # a
        BY <1>2, <2>2, PartOf
    <3>2. CASE Unreleased(c) = {}
        BY <3>2
    <3>3. CASE c \in Listed(a) /\ HasChild(c)
      <4>1. c \in next[a] /\ \A x \in Scopes : next[x] \subseteq Scopes
          BY <3>1, <3>3 DEF HasChild
      <4>2. c \in Visits(n)
        <5> HIDE DEF next
        <5> QED BY <1>1, <2>2, <4>1, ReachClosed
      <4> QED BY <4>2
    <3> QED BY <1>3, <3>1, <3>2, <3>3, ChildSeen
  <2> QED BY <2>1, <2>2
<1>4. Below(n) \subseteq T
  <2>1. T \in SUBSET Scopes /\ n \in T
      BY <1>1
  <2> HIDE DEF T
  <2> QED BY <1>3, <2>1, BelowLeast
<1>5. ASSUME NEW l \in Unreleased(n) PROVE l \in Debts(n)
  <2>1. l \in Leaves /\ l \in Items /\ home[l] \in Below(n) /\ where[l] \notin {"gone", "void"}
      BY <1>5, ItemKinds DEF Unreleased, Owned
  <2> DEFINE h == home[l]
  <2>2. h \in Scopes /\ h # 0 /\ h \in T /\ order[h] = "reverse" /\ h \in Below(h)
      BY <1>2, <1>4, <2>1, ItemKinds, BelowIs DEF Tame
  <2>3. h \in Visits(n)
    <3>1. l \in Unreleased(h)
        BY <2>1, <2>2, PartOf
    <3> QED BY <2>2, <3>1
  <2>4. l \in Setups(h) \/ (l \in Listed(h) /\ ~HasChild(l))
      BY <2>1, <2>2, LeafSeen DEF Lodged
  <2> QED BY <2>3, <2>4, DebtIs
<1> QED BY <1>2, <1>5

-----------------------------------------------------------------------------
(* Counting the tombstones.                                                *)

\* The places of the list s whose entries are gone.
Buried(s, w) == {a \in 1 .. Len(s) : w[s[a]] = "gone"}

\* At most as many are counted as there are.
Enough(t, s, w) == t <= Cardinality(Buried(s, w))

\* In a reverse scope no tombstone is counted that is not in #live.
Counts == \A n \in Scopes : order[n] = "reverse" => Enough(tombstones[n], live[n], where)

\* The numbers from a to b.
LEMMA Span ==
    ASSUME NEW a \in Nat, NEW b \in Nat, a <= b + 1
    PROVE  IsFiniteSet(a .. b) /\ Cardinality(a .. b) = b - a + 1
BY FS_Interval

\* There are at most as many dead entries as entries, and as many only if all are.
LEMMA BuriedIs ==
    ASSUME NEW s \in Seq(Items), NEW w
    PROVE  /\ IsFiniteSet(Buried(s, w)) /\ Cardinality(Buried(s, w)) \in Nat
           /\ Cardinality(Buried(s, w)) <= Len(s)
           /\ Cardinality(Buried(s, w)) = Len(s) => Buried(s, w) = 1 .. Len(s)
<1>1. Len(s) \in Nat /\ IsFiniteSet(1 .. Len(s)) /\ Cardinality(1 .. Len(s)) = Len(s)
  <2>1. PICK m \in Nat : m = Len(s)
      OBVIOUS
  <2>2. IsFiniteSet(1 .. m) /\ Cardinality(1 .. m) = m
      BY Span
  <2> QED BY <2>1, <2>2
<1>2. Buried(s, w) \in SUBSET (1 .. Len(s))
    BY DEF Buried
<1> DEFINE A == Buried(s, w)
           I == 1 .. Len(s)
<1>3. A \in SUBSET I /\ IsFiniteSet(I) /\ Cardinality(I) = Len(s)
    BY <1>1, <1>2
<1>4. IsFiniteSet(A) /\ Cardinality(A) <= Cardinality(I) /\ (Cardinality(I) = Cardinality(A) => I = A)
  <2> HIDE DEF A, I
  <2> QED BY <1>3, FS_Subset
<1>5. Cardinality(A) \in Nat
    BY <1>4, FS_CardinalityType
<1> QED BY <1>3, <1>4, <1>5

\* What is gone stays so while the list grows.
LEMMA EnoughStays ==
    ASSUME NEW s \in Seq(Items), NEW r \in Seq(Items), NEW v, NEW w, NEW t \in Int, Enough(t, s, v),
           \A a \in 1 .. Len(s) : a \in 1 .. Len(r) /\ r[a] = s[a] /\ (v[s[a]] = "gone" => w[s[a]] = "gone")
    PROVE  /\ Enough(t, r, w)
           /\ (\E a \in 1 .. Len(s) : v[s[a]] # "gone" /\ w[s[a]] = "gone") => Enough(t + 1, r, w)
<1> DEFINE A == Buried(s, v)
           B == Buried(r, w)
<1>1. A \subseteq B
    BY DEF Buried
<1>2. IsFiniteSet(A) /\ IsFiniteSet(B) /\ Cardinality(A) \in Nat /\ Cardinality(B) \in Nat
    BY BuriedIs
<1>3. Cardinality(A) <= Cardinality(B)
    BY <1>1, <1>2, FS_Subset
<1>4. ASSUME NEW a \in 1 .. Len(s), v[s[a]] # "gone", w[s[a]] = "gone"
      PROVE  Cardinality(A) + 1 <= Cardinality(B)
  <2>1. a \in B /\ a \notin A
      BY <1>4 DEF Buried
  <2>2. IsFiniteSet(A \cup {a}) /\ Cardinality(A \cup {a}) = Cardinality(A) + 1
      BY <1>2, <2>1, FS_AddElement
  <2>3. A \cup {a} \in SUBSET B
      BY <1>1, <2>1
  <2> QED BY <1>2, <2>2, <2>3, FS_Subset
<1> QED BY <1>2, <1>3, <1>4 DEF Enough

\* The last entry that is not gone is taken, and the tombstones above it.
LEMMA EnoughTaken ==
    ASSUME NEW s \in Seq(Items), NEW w, NEW t \in Int, Enough(t, s, w),
           NEW k \in 0 .. Len(s) - 1, w[s[k + 1]] # "gone", NEW r, r = SubSeq(s, 1, k)
    PROVE  Enough(t - (Len(s) - k - 1), r, w)
<1> DEFINE A == Buried(s, w)
           B == Buried(r, w)
           C == (k + 2) .. Len(s)
<1>1. Len(s) \in Nat /\ r \in Seq(Items) /\ Len(r) = k /\ \A a \in 1 .. k : r[a] = s[a]
    BY SubSeqProperties
<1>2. IsFiniteSet(A) /\ IsFiniteSet(B) /\ Cardinality(A) \in Nat /\ Cardinality(B) \in Nat
    BY <1>1, BuriedIs
<1>3. IsFiniteSet(C) /\ Cardinality(C) = Len(s) - k - 1
  <2>1. PICK a, b : a = k + 2 /\ b = Len(s)
      OBVIOUS
  <2>2. a \in Nat /\ b \in Nat /\ a <= b + 1 /\ k \in Nat
      BY <1>1, <2>1
  <2>3. IsFiniteSet(a .. b) /\ Cardinality(a .. b) = b - a + 1
      BY <2>2, Span
  <2> QED BY <1>1, <2>1, <2>2, <2>3
<1>4. ASSUME NEW a \in A PROVE a \in B \cup C
    BY <1>1 DEF Buried
<1>5. A \in SUBSET (B \cup C) /\ B \cap C = {}
  <2>1. B \cap C = {}
      BY <1>1 DEF Buried
  <2> HIDE DEF A, B, C
  <2> QED BY <1>4, <2>1
<1>6. IsFiniteSet(B \cup C) /\ Cardinality(B \cup C) = Cardinality(B) + Cardinality(C)
  <2> HIDE DEF B, C
  <2>1. Cardinality(B \cap C) = 0
      BY <1>5, FS_EmptySet
  <2>2. /\ IsFiniteSet(B \cup C)
        /\ Cardinality(B \cup C) = Cardinality(B) + Cardinality(C) - Cardinality(B \cap C)
      BY <1>2, <1>3, FS_Union
  <2> QED BY <1>1, <1>2, <1>3, <2>1, <2>2
<1>7. Cardinality(A) <= Cardinality(B) + Cardinality(C)
  <2> DEFINE D == B \cup C
  <2>1. IsFiniteSet(D) /\ A \in SUBSET D /\ Cardinality(D) = Cardinality(B) + Cardinality(C)
      BY <1>5, <1>6
  <2>2. Cardinality(A) <= Cardinality(D)
    <3> HIDE DEF A, D
    <3> QED BY <2>1, FS_Subset
  <2> QED BY <2>1, <2>2
<1> QED BY <1>1, <1>2, <1>3, <1>7 DEF Enough

\* When all is counted, all is gone.
LEMMA EnoughAll ==
    ASSUME NEW s \in Seq(Items), NEW w, NEW t \in Int, Enough(t, s, w), NEW r \in Nat, Len(s) + r = t
    PROVE  r = 0 /\ \A a \in 1 .. Len(s) : w[s[a]] = "gone"
<1>1. Cardinality(Buried(s, w)) \in Nat /\ Cardinality(Buried(s, w)) <= Len(s) /\ Len(s) \in Nat
    BY BuriedIs
<1>2. Cardinality(Buried(s, w)) = Len(s) /\ r = 0
    BY <1>1 DEF Enough
<1> QED BY <1>2, BuriedIs DEF Buried

-----------------------------------------------------------------------------
(* A scope that owes nothing.                                              *)

\* When #open finds nothing left, the whole subtree is released.
LEMMA NothingOwed ==
    ASSUME Tidying, Lodged, Cleared, Counts, tombstones \in [Scopes -> Int],
           NEW n \in Scopes, Tame(n), phase[n] = "none", NothingLeft(n), \A i \in Hand : home[i] # n
    PROVE  Unreleased(n) = {}
<1>1. /\ n \in Below(n) /\ order[n] = "reverse" /\ TypeOK /\ n # 0
      /\ live[n] \in Seq(Items) /\ tombstones[n] \in Int /\ Len(Retried(n)) \in Nat
    BY BelowIs, RetriedIs, ItemKinds DEF Tame, Tidying, Lasting, WInv, TypeOK
<1>2. Len(Retried(n)) = 0 /\ Setups(n) = {} /\ \A a \in 1 .. Len(live[n]) : where[live[n][a]] = "gone"
    BY <1>1, EnoughAll DEF NothingLeft, Counts
<1>3. ASSUME NEW i \in Items, home[i] = n PROVE where[i] \in {"gone", "void"}
  <2>1. Backward(i) /\ where[i] \in States /\ where[i] # "free"
      BY <1>1, <1>3 DEF Backward, TypeOK, Lodged
  <2>2. where[i] # "setup"
    <3>1. CASE i \in Leaves
        BY <1>2, <1>3, <3>1 DEF Setups
    <3>2. CASE i \in Scopes
        BY <1>1, <1>3, <3>2 DEF Lodged, Slotted
    <3> QED BY <3>1, <3>2, ScopeAssumption DEF Items, Scopes, Leaves
  <2>3. where[i] # "live"
      BY <1>2, <1>3, <2>1 DEF Tidying, Tidy, Held
  <2>4. where[i] # "active"
      BY <1>3, <2>1 DEF Tidying, Tidy, Held, Lasting, WInv, Invoked
  <2>5. where[i] # "failed"
    <3>1. SUFFICES ASSUME where[i] = "failed" PROVE FALSE
        OBVIOUS
    <3>2. PICK b \in 1 .. Len(failed[n]) : failed[n][b] = i
        BY <1>3, <3>1 DEF Lodged
    <3>3. \E a \in 1 .. Len(Retried(n)) : TRUE
        BY <1>1, <3>1, <3>2, RetriedIs
    <3> QED BY <1>1, <1>2, <3>3
  <2> QED BY <2>1, <2>2, <2>3, <2>4, <2>5 DEF States
<1> DEFINE T == {m \in Scopes : m = n \/ Unreleased(m) = {}}
<1>4. ASSUME NEW a \in T, NEW c \in Scopes, home[c] = a PROVE c \in T
  <2>1. c \in Items
      BY ItemKinds
  <2>2. CASE a = n
    <3>1. where[c] = "gone" /\ c \in Below(n)
        BY <1>1, <1>3, <1>4, <2>1, <2>2, BelowIs DEF Lodged, Slotted
    <3>2. detached[c] /\ Tame(c)
        BY <3>1, PartOf DEF Tidying, Lasting, Departed
    <3> QED BY <3>2 DEF Cleared, Paid
  <2>3. CASE Unreleased(a) = {}
    <3>1. a \in Scopes /\ c \in Below(a)
        BY <1>4, BelowIs
    <3> QED BY <2>3, <3>1, PartOf
  <2> QED BY <2>2, <2>3
<1>5. Below(n) \subseteq T
  <2>1. T \in SUBSET Scopes /\ n \in T
      OBVIOUS
  <2> HIDE DEF T
  <2> QED BY <1>4, <2>1, BelowLeast
<1>6. ASSUME NEW l \in Unreleased(n) PROVE FALSE
  <2>1. l \in Leaves /\ l \in Items /\ home[l] \in Below(n) /\ where[l] \notin {"gone", "void"}
      BY ItemKinds DEF Unreleased, Owned
  <2> DEFINE h == home[l]
  <2>2. h # n /\ h \in T /\ h \in Below(h)
      BY <1>3, <1>5, <2>1, BelowIs
  <2>3. l \in Unreleased(h)
      BY <2>1, <2>2, PartOf
  <2> QED BY <2>2, <2>3
<1> QED BY <1>6

\* Nothing is registered below n: the same is below it.
LEMMA BelowSame ==
    ASSUME NEW n \in Scopes, \A m \in Below(n), c \in Scopes : home'[c] = m <=> home[c] = m
    PROVE  Below(n)' = Below(n)
<1> DEFINE next == [a \in Scopes |-> {c \in Scopes : home[c] = a}]
           after == [a \in Scopes |-> {c \in Scopes : home'[c] = a}]
           B == Below(n)
           C == Reach(n, after)
<1>1. Below(n)' = C /\ B = Reach(n, next) /\ B \in SUBSET Scopes /\ n \in B /\ n \in C /\ C \in SUBSET Scopes
    BY BelowIs, ReachRoot DEF Below, Reach
<1>2. C \subseteq B
  <2>1. \A a \in B : after[a] \subseteq B
    <3> SUFFICES ASSUME NEW a \in B, NEW c \in after[a] PROVE c \in B
        OBVIOUS
    <3>1. a \in Scopes /\ c \in Scopes /\ home[c] = a
        BY <1>1
    <3> HIDE DEF after
    <3> QED BY <3>1, BelowIs
  <2> HIDE DEF after, B
  <2> QED BY <1>1, <2>1, ReachLeast
<1>3. B \subseteq C
  <2>1. ASSUME NEW a \in C, NEW c \in Scopes, home[c] = a PROVE c \in C
    <3>1. c \in after[a] /\ \A x \in Scopes : after[x] \subseteq Scopes
        BY <1>1, <1>2, <2>1
    <3> HIDE DEF after
    <3> QED BY <3>1, ReachClosed
  <2> HIDE DEF C
  <2> QED BY <1>1, <2>1, BelowLeast
<1> QED BY <1>1, <1>2, <1>3

-----------------------------------------------------------------------------
(* What stays released.                                                    *)

\* What a reverse scope need not release any more stays so.
Over == {"gone", "void"}
Finished == \A i \in Items : Backward(i) /\ where[i] \in Over => where'[i] \in Over

\* Requested scopes register nothing.
Refused == \A n \in Scopes : requested[n] => \A i \in Items : home'[i] = n <=> home[i] = n

\* Everything below a requested scope is requested: attached or not.
LEMMA BelowRequested ==
    ASSUME Tidying, Sealed, Lodged, NEW n \in Scopes, requested[n]
    PROVE  \A m \in Below(n) : requested[m]
<1> DEFINE T == {m \in Scopes : requested[m]}
<1>1. T \in SUBSET Scopes /\ n \in T
    OBVIOUS
<1>2. ASSUME NEW a \in T, NEW c \in Scopes, home[c] = a PROVE c \in T
    BY <1>2, ItemKinds DEF Sealed, Lodged
<1>3. Below(n) \subseteq T
  <2> HIDE DEF T
  <2> QED BY <1>1, <1>2, BelowLeast
<1> QED BY <1>3

\* A subtree that owes nothing owes nothing later, once it is closed or while
\* nothing is registered.
LEMMA PaidStays ==
    ASSUME Tidying, Sealed, Lodged, TypeOK', Entries, Finished, Refused, NEW n \in Scopes, Created(n),
           requested[n] \/ UNCHANGED home, Paid(n)
    PROVE  Paid(n)'
<1>1. Below(n) \subseteq Scopes /\ n \in Below(n) /\ TypeOK
    BY BelowIs DEF Tidying, Lasting, WInv
<1>2. \A m \in Below(n), i \in Items : home'[i] = m <=> home[i] = m
    BY <1>1, BelowRequested DEF Refused
<1>3. Below(n)' = Below(n)
    BY <1>2, BelowSame, ItemKinds
<1>4. ASSUME NEW m \in Below(n) PROVE Created(m)
  <2> DEFINE T == {a \in Below(n) : Created(a)}
  <2>1. T \in SUBSET Scopes /\ n \in T
      BY <1>1
  <2>2. ASSUME NEW a \in T, NEW c \in Scopes, home[c] = a PROVE c \in T
      BY <1>1, <2>2, BelowIs, ItemKinds DEF Created
  <2>3. Below(n) \subseteq T
    <3> HIDE DEF T
    <3> QED BY <2>1, <2>2, BelowLeast
  <2> QED BY <2>3
<1>5. \A m \in Below(n) : order'[m] = order[m]
    BY <1>1, <1>4 DEF Entries
<1>6. ASSUME Tame(n)', NEW l \in Unreleased(n)' PROVE FALSE
  <2>1. l \in Leaves /\ l \in Items /\ home'[l] \in Below(n) /\ where'[l] \notin Over
      BY <1>3, <1>6, ItemKinds DEF Unreleased, Owned, Over
  <2>2. home[l] \in Below(n) /\ \A m \in Below(n) : order[m] = "reverse"
      BY <1>2, <1>3, <1>5, <1>6, <2>1 DEF Tame
  <2>3. Backward(l) /\ Tame(n)
      BY <1>1, <2>2 DEF Backward, Tame
  <2>4. where[l] \in Over
      BY <2>1, <2>2, <2>3 DEF Paid, Unreleased, Owned, Over
  <2> QED BY <2>1, <2>3, <2>4 DEF Finished
<1> QED BY <1>6 DEF Paid

-----------------------------------------------------------------------------
(* What a step does to the debts.                                          *)

Tombs == tombstones \in [Scopes -> Int]
\* Scopes that were not created are as they were at the start.
Plain == \A c \in Scopes : ~Created(c) => order[c] = "reverse"

Truth == Tidying /\ Sealed /\ Tombs /\ Plain /\ Lodged /\ Counts /\ Cleared

\* A scope that leaves owed nothing.
Parting == \A c \in Scopes : detached'[c] => detached[c] \/ (UNCHANGED home /\ Paid(c))
Steady == Tombs' /\ Plain' /\ Lodged' /\ Counts' /\ Finished /\ Parting

\* #detach counts a tombstone only for an entry that is in #live.
LEMMA DetachCounts ==
    ASSUME TypeOK, NEW n \in Scopes, NEW w \in [Items -> States], NEW l \in [Scopes -> Seq(Items)],
           NEW t \in [Scopes -> Int], Detach(n, w, l, t),
           n # Root => home[n] \in Scopes,
           n # Root /\ ~detached[n] /\ order[home[n]] = "reverse" /\ w[n] = "live" =>
               \E a \in 1 .. Len(l[home[n]]) : l[home[n]][a] = n,
           \A m \in Scopes : order[m] = "reverse" => Enough(t[m], l[m], w)
    PROVE  /\ Tombs'
           /\ \A m \in Scopes : order[m] = "reverse" => Enough(tombstones'[m], live'[m], where')
<1> PICK p : p = home[n]
    OBVIOUS
<1>1. CASE n = Root \/ detached[n]
    BY <1>1 DEF Detach, Tombs
<1>3. n # Root /\ ~detached[n] /\ order[p] = "reverse" /\ w[n] = "live" => \E a \in 1 .. Len(l[p]) : l[p][a] = n
    OBVIOUS
<1>2. CASE n # Root /\ ~detached[n]
  <2> DEFINE gone == [w EXCEPT ![n] = "gone"]
             count == t[p] + Counted(w[n])
             compact == w[n] = "live" /\ count > CompactAt /\ count * 2 > Len(l[p])
             A == Among(l[p], {i \in Items : gone[i] # "gone"})
  <2>1. /\ p \in Scopes /\ n \in Items /\ l[p] \in Seq(Items)
        /\ where' = gone
        /\ tombstones' = [t EXCEPT ![p] = IF compact THEN 0 ELSE count]
        /\ live' = IF compact THEN [l EXCEPT ![p] = A] ELSE l
      BY <1>2, ItemKinds DEF Detach
  <2>2. count \in Int
      BY <2>1 DEF Counted
  <2>3. \A i \in Items : w[i] = "gone" => gone[i] = "gone"
      BY <2>1
  <2>4. Tombs'
      BY <2>1, <2>2 DEF Tombs
  <2>5. ASSUME NEW m \in Scopes, order[m] = "reverse" PROVE Enough(tombstones'[m], live'[m], where')
    <3>1. l[m] \in Seq(Items) /\ t[m] \in Int /\ Enough(t[m], l[m], w) /\ Len(l[m]) \in Nat
        BY <2>5
    <3>2. \A a \in 1 .. Len(l[m]) : l[m][a] \in Items
        BY <3>1
    <3>3. Enough(t[m], l[m], gone)
      <4> HIDE DEF gone
      <4> QED BY <2>3, <3>1, <3>2, EnoughStays
    <3>4. CASE m # p
      <4>1. tombstones'[m] = t[m] /\ live'[m] = l[m] /\ where' = gone
          BY <2>1, <3>4
      <4> QED BY <3>3, <4>1
    <3>5. CASE m = p /\ compact
      <4>1. tombstones'[m] = 0 /\ live'[m] = A /\ A \in Seq(Items)
          BY <2>1, <3>1, <3>5, AmongIs
      <4> QED BY <4>1, BuriedIs DEF Enough
    <3>6. CASE m = p /\ ~compact
      <4>1. tombstones'[m] = count /\ live'[m] = l[m] /\ where' = gone
          BY <2>1, <3>6
      <4>2. CASE w[n] = "live"
        <5>1. PICK a \in 1 .. Len(l[m]) : l[m][a] = n
            BY <1>2, <1>3, <2>5, <3>6, <4>2
        <5>2. w[l[m][a]] # "gone" /\ gone[l[m][a]] = "gone" /\ count = t[m] + 1
            BY <2>1, <3>6, <4>2, <5>1 DEF Counted
        <5>3. Enough(t[m] + 1, l[m], gone)
          <6> HIDE DEF gone, count
          <6> QED BY <2>3, <3>1, <3>2, <5>1, <5>2, EnoughStays
        <5> QED BY <4>1, <5>2, <5>3
      <4>3. CASE w[n] # "live"
        <5>1. count = t[m]
            BY <3>1, <3>6, <4>3 DEF Counted
        <5> QED BY <3>3, <4>1, <5>1
      <4> QED BY <4>2, <4>3
    <3> QED BY <3>4, <3>5, <3>6
  <2> QED BY <2>4, <2>5
<1> QED BY <1>1, <1>2

-----------------------------------------------------------------------------
(* What most steps do to the debts.                                        *)

\* An entry that is being released has its slot.
LEMMA BusySlotted ==
    ASSUME Tidying, NEW i \in Items, Backward(i), inv[i] # "none" \/ i \in Hand
    PROVE  where[i] \in Slotted
<1> DEFINE n == home[i]
<1>1. n \in Scopes /\ order[n] = "reverse" /\ i \in Busy(n)
    BY DEF Backward, Busy
<1>2. PICK x \in 1 .. Len(ledger[n]) : ledger[n][x] = i
    BY <1>1 DEF Tidying, Tidy, Ranked, Orderly
<1> QED BY <1>1, <1>2 DEF Tidying, Tidy, Slots

\* One entry changes its place.
LEMMA SteadyPoint ==
    ASSUME Truth, Grown, Entries, UNCHANGED <<home, order, detached, live, tombstones>>,
           NEW i \in Items, NEW s, where' = [where EXCEPT ![i] = s],
           \/ failed' = failed /\ (s = "failed" => where[i] = "failed")
           \/ failed' = [failed EXCEPT ![home[i]] = Append(@, i)] /\ home[i] \in Scopes,
           Backward(i) /\ where[i] = "void" => s \in Over,
           home[i] # 0 => s # "free",
           i \in Scopes /\ home[i] # 0 => s \in Slotted
    PROVE  Steady
<1>1. TypeOK /\ Owns /\ \A n \in Scopes : n \in Items
    BY ItemKinds DEF Truth, Tidying, Lasting, WInv
<1>2. \A j \in Items : where'[j] = IF j = i THEN s ELSE where[j]
    BY <1>1 DEF TypeOK
<1>3. Tombs' /\ Plain' /\ Parting
    BY DEF Truth, Tombs, Plain, Created, Parting
<1>4. Finished
    BY <1>2 DEF Finished, Entries, Remains, Over
<1>5. \A n \in Scopes : detached'[n] => requested'[n]
    BY DEF Truth, Lodged, Grown
<1>6. \A j \in Items : home'[j] # 0 => where'[j] # "free"
    BY <1>2 DEF Truth, Lodged
<1>7. \A c \in Scopes : home'[c] # 0 => where'[c] \in Slotted
    BY <1>1, <1>2 DEF Truth, Lodged
<1>8. ASSUME NEW j \in Items, where'[j] = "failed"
      PROVE  home'[j] \in Scopes /\ \E b \in 1 .. Len(failed'[home'[j]]) : failed'[home'[j]][b] = j
  <2>1. CASE where[j] = "failed"
    <3>1. PICK b \in 1 .. Len(failed[home[j]]) : failed[home[j]][b] = j /\ home[j] \in Scopes
        BY <2>1 DEF Truth, Lodged
    <3>2. CASE failed' = failed
        BY <3>1, <3>2
    <3>3. CASE failed' = [failed EXCEPT ![home[i]] = Append(@, i)] /\ home[i] \in Scopes
      <4>1. failed \in [Scopes -> Seq(Items)]
          BY <1>1 DEF TypeOK
      <4>2. b \in 1 .. Len(failed'[home[j]]) /\ failed'[home[j]][b] = j
          BY <3>1, <3>3, <4>1, LastOne
      <4> QED BY <3>1, <4>2
    <3> QED BY <3>2, <3>3
  <2>2. CASE where[j] # "failed"
    <3>1. j = i /\ home[i] \in Scopes /\ failed' = [failed EXCEPT ![home[i]] = Append(@, i)]
        BY <1>2, <1>8, <2>2
    <3>2. failed \in [Scopes -> Seq(Items)]
        BY <1>1 DEF TypeOK
    <3>3. failed'[home[i]][Len(failed[home[i]]) + 1] = i
          /\ Len(failed'[home[i]]) = Len(failed[home[i]]) + 1 /\ Len(failed[home[i]]) \in Nat
        BY <3>1, <3>2, LastOne
    <3> QED BY <3>1, <3>3
  <2> QED BY <2>1, <2>2
<1>9. Lodged'
    BY <1>5, <1>6, <1>7, <1>8 DEF Lodged
<1>10. ASSUME NEW n \in Scopes, order'[n] = "reverse" PROVE Enough(tombstones'[n], live'[n], where')
  <2>1. /\ live[n] \in Seq(Items) /\ Enough(tombstones[n], live[n], where) /\ tombstones[n] \in Int
        /\ live'[n] = live[n] /\ tombstones'[n] = tombstones[n]
      BY <1>1, <1>10 DEF TypeOK, Truth, Counts, Tombs
  <2>2. \A a \in 1 .. Len(live[n]) : where[live[n][a]] = "gone" => where'[live[n][a]] = "gone"
      BY <1>1, <1>10, <2>1 DEF Owns, Entries, Remains, Backward
  <2> QED BY <2>1, <2>2, EnoughStays
<1> QED BY <1>3, <1>4, <1>9, <1>10 DEF Steady, Counts

\* No entry changes.
LEMMA SteadyCalm ==
    ASSUME Truth, Grown, Entries, UNCHANGED <<home, order, detached, live, tombstones, failed, where>>
    PROVE  Steady
<1>1. TypeOK /\ Root \in Items
    BY ItemKinds DEF Truth, Tidying, Lasting, WInv
<1>2. where' = [where EXCEPT ![Root] = where[Root]]
    BY <1>1 DEF TypeOK
<1>3. home[Root] = 0
    BY DEF Truth, Tidying, Lasting, Departed
<1> QED BY <1>1, <1>2, <1>3, SteadyPoint DEF Over

\* An entry is registered, or takes its slot.
LEMMA SteadyAdd ==
    ASSUME Truth, Grown, Entries, TypeOK', NEW n \in Scopes, NEW i \in Items, Created(n),
           NEW s \in {"setup", "live"}, i \in Scopes => s = "live",
           where' = [where EXCEPT ![i] = s],
           live' = live \/ live' = [live EXCEPT ![n] = Append(@, i)],
           UNCHANGED <<failed, detached, tombstones>>,
           \/ home' = home /\ home[i] = n /\ where[i] = "setup" /\ order' = order
           \/ home' = [home EXCEPT ![i] = n] /\ home[i] = 0 /\ i # Root
              /\ (order' = order \/ \E o : order' = [order EXCEPT ![i] = o])
    PROVE  Steady
<1>1. TypeOK /\ Owns /\ n # 0 /\ \A m \in Scopes : m \in Items /\ m # 0
    BY ItemKinds DEF Truth, Tidying, Lasting, WInv
<1>2. /\ \A j \in Items : where'[j] = IF j = i THEN s ELSE where[j]
      /\ \A j \in Items : j # i => home'[j] = home[j]
      /\ home'[i] = n /\ (home[i] = 0 \/ where[i] = "setup")
    BY <1>1 DEF TypeOK
<1>3. \A m \in Scopes : order'[m] = order[m] \/ (m = i /\ home'[i] # 0)
    BY <1>1, <1>2 DEF TypeOK
<1>4. Tombs' /\ Plain' /\ Parting
  <2>1. Tombs' /\ Parting
      BY DEF Truth, Tombs, Parting
  <2>2. ASSUME NEW c \in Scopes, ~Created(c)' PROVE order'[c] = "reverse"
      BY <1>1, <1>2, <1>3, <2>2 DEF Truth, Plain, Created
  <2> QED BY <2>1, <2>2 DEF Plain
<1>5. Finished
    BY <1>1, <1>2 DEF Finished, Over, Backward
<1>6. Lodged'
  <2>1. ASSUME NEW j \in Items, where'[j] = "failed"
        PROVE  home'[j] \in Scopes /\ \E b \in 1 .. Len(failed'[home'[j]]) : failed'[home'[j]][b] = j
      BY <1>2, <2>1 DEF Truth, Lodged
  <2>2. \A j \in Items : home'[j] # 0 => where'[j] # "free"
      BY <1>2 DEF Truth, Lodged
  <2>3. \A c \in Scopes : home'[c] # 0 => where'[c] \in Slotted
      BY <1>1, <1>2 DEF Truth, Lodged, Slotted
  <2>4. \A c \in Scopes : detached'[c] => requested'[c]
      BY DEF Truth, Lodged, Grown
  <2> QED BY <2>1, <2>2, <2>3, <2>4 DEF Lodged
<1>7. ASSUME NEW m \in Scopes, order'[m] = "reverse" PROVE Enough(tombstones'[m], live'[m], where')
  <2>1. order[m] = "reverse"
    <3>1. CASE Created(m)
        BY <1>7, <3>1 DEF Entries
    <3>2. CASE ~Created(m)
        BY <3>2 DEF Truth, Plain
    <3> QED BY <3>1, <3>2
  <2>2. /\ live[m] \in Seq(Items) /\ Enough(tombstones[m], live[m], where) /\ tombstones[m] \in Int
        /\ tombstones'[m] = tombstones[m] /\ live'[m] \in Seq(Items) /\ live \in [Scopes -> Seq(Items)]
      BY <1>1, <2>1 DEF TypeOK, Truth, Counts, Tombs
  <2>3. \A a \in 1 .. Len(live[m]) : live[m][a] \in Items /\ home[live[m][a]] = m
      BY <1>1, <2>2 DEF Owns
  <2>4. \A a \in 1 .. Len(live[m]) : where[live[m][a]] = "gone" => where'[live[m][a]] = "gone"
      BY <1>1, <1>2, <2>3
  <2>5. \A a \in 1 .. Len(live[m]) : a \in 1 .. Len(live'[m]) /\ live'[m][a] = live[m][a]
    <3>1. CASE live' = live
        BY <3>1
    <3>2. CASE live' = [live EXCEPT ![n] = Append(@, i)]
        BY <2>2, <3>2, LastOne
    <3> QED BY <3>1, <3>2
  <2>6. \A a \in 1 .. Len(live[m]) :
           a \in 1 .. Len(live'[m]) /\ live'[m][a] = live[m][a]
           /\ (where[live[m][a]] = "gone" => where'[live[m][a]] = "gone")
      BY <2>4, <2>5
  <2>7. Enough(tombstones[m], live'[m], where')
    <3>1. PICK r, w, q, k, v :
             r = live'[m] /\ w = where' /\ q = live[m] /\ k = tombstones[m] /\ v = where
        OBVIOUS
    <3>2. /\ q \in Seq(Items) /\ r \in Seq(Items) /\ k \in Int /\ Enough(k, q, v)
          /\ \A a \in 1 .. Len(q) : a \in 1 .. Len(r) /\ r[a] = q[a] /\ (v[q[a]] = "gone" => w[q[a]] = "gone")
        BY <2>2, <2>6, <3>1
    <3>3. Enough(k, r, w)
        BY <3>2, EnoughStays
    <3> QED BY <3>1, <3>3
  <2> QED BY <2>2, <2>7
<1> QED BY <1>4, <1>5, <1>6, <1>7 DEF Steady, Counts

-----------------------------------------------------------------------------
(* What the flights do to the debts.                                       *)

\* A batch is taken: the tombstones above its last entry leave the count.
LEMMA SteadyBatch ==
    ASSUME Truth, Grown, TakeBatch PROVE Steady
<1>1. TypeOK /\ Owns /\ Framed /\ On({"run"}) /\ Fit(Top)
    BY TopIs DEF Truth, Tidying, Lasting, WInv, TakeBatch
<1>2. PICK n \in Scopes : n = Top.n
    BY <1>1 DEF Fit, Steps, On
<1> DEFINE k == Kept(n)
           popped == SubSeq(live[n], k + 1, Len(live[n]))
           kept == Among(popped, {i \in Items : where[i] # "gone"})
           batch == Reverse(kept)
<1>3. /\ Standing(n) # {} /\ UNCHANGED <<home, order, detached, failed, where>>
      /\ live' = [live EXCEPT ![n] = SubSeq(@, 1, k)]
      /\ tombstones' = [tombstones EXCEPT ![n] = @ - (Len(popped) - Len(batch))]
    BY <1>2 DEF TakeBatch, treeVars, entryVars
<1>4. /\ live \in [Scopes -> Seq(Items)] /\ live[n] \in Seq(Items) /\ k \in 0 .. Len(live[n]) - 1
      /\ Len(live[n]) \in Nat /\ tombstones \in [Scopes -> Int] /\ tombstones[n] \in Int
  <2>1. tombstones \in [Scopes -> Int]
      BY DEF Truth, Tombs
  <2>2. live \in [Scopes -> Seq(Items)]
      BY <1>1 DEF TypeOK
  <2> HIDE DEF k, popped, kept, batch
  <2>3. live[n] \in Seq(Items) /\ Len(live[n]) \in Nat /\ tombstones[n] \in Int
      BY <2>1, <2>2
  <2>4. k \in 0 .. Len(live[n]) - 1
      BY <1>1, <1>3, KeptIs DEF k
  <2> QED BY <2>1, <2>2, <2>3, <2>4
<1>5. popped \in Seq(Items) /\ Len(popped) = Len(live[n]) - k
    BY <1>4
<1>6. Len(batch) \in Nat
  <2>1. kept \in Seq(Items)
      BY <1>5, AmongIs
  <2> HIDE DEF kept
  <2> QED BY <2>1, ReverseIs
<1>7. Tombs' /\ Plain' /\ Parting /\ Finished
  <2> HIDE DEF k, popped, batch
  <2>1. Tombs'
      BY <1>3, <1>4, <1>5, <1>6 DEF Tombs
  <2>2. Plain' /\ Parting /\ Finished
      BY <1>3 DEF Truth, Plain, Created, Parting, Finished, Over
  <2> QED BY <2>1, <2>2
<1>8. Lodged'
    BY <1>3 DEF Truth, Lodged, Grown
<1>9. ASSUME NEW m \in Scopes, order'[m] = "reverse" PROVE Enough(tombstones'[m], live'[m], where')
  <2>1. Enough(tombstones[m], live[m], where) /\ order[m] = "reverse"
      BY <1>3, <1>9 DEF Truth, Counts
  <2>2. CASE m # n
      BY <1>3, <1>4, <2>1, <2>2
  <2>3. CASE m = n
    <3>1. Len(batch) = 1 /\ where[live[n][k + 1]] # "gone"
        BY <1>1, <1>3, <2>1, <2>3, BatchIs, KeptIs
    <3>2. tombstones'[n] = tombstones[n] - (Len(live[n]) - k - 1) /\ live'[n] = SubSeq(live[n], 1, k)
      <4> HIDE DEF k, popped, batch
      <4> QED BY <1>3, <1>4, <1>5, <3>1
    <3>3. Enough(tombstones[n] - (Len(live[n]) - k - 1), SubSeq(live[n], 1, k), where)
      <4> HIDE DEF k
      <4> QED BY <1>4, <2>1, <2>3, <3>1, EnoughTaken
    <3> QED BY <1>3, <2>3, <3>2, <3>3
  <2> QED BY <2>2, <2>3
<1> QED BY <1>7, <1>8, <1>9 DEF Steady, Counts

\* What a step that may end with #detach did to the entries before: w, l and t are
\* the places, the lists and the counts then.
Owing(n, w, l, t) ==
    /\ \A i \in Items : w[i] = "failed" =>
          home[i] \in Scopes /\ \E b \in 1 .. Len(failed'[home[i]]) : failed'[home[i]][b] = i
    /\ \A i \in Items : home[i] # 0 => w[i] # "free"
    /\ \A c \in Scopes : home[c] # 0 => w[c] \in Slotted
    /\ \A i \in Items : Backward(i) /\ where[i] \in Over => w[i] \in Over
    /\ n # Root /\ ~detached[n] /\ Backward(n) /\ w[n] = "live" =>
          \E a \in 1 .. Len(l[home[n]]) : l[home[n]][a] = n
    /\ \A m \in Scopes : order[m] = "reverse" => Enough(t[m], l[m], w)
MayDetach(n, w, l, t) ==
    \/ where' = w /\ live' = l /\ tombstones' = t /\ UNCHANGED detached
    \/ Detach(n, w, l, t) /\ Paid(n)

\* A scope stays or, when it owes nothing, detaches.
LEMMA SteadyDetach ==
    ASSUME Truth, Grown, Entries, UNCHANGED <<home, order>>, NEW n \in Scopes, Created(n), requested'[n],
           NEW w \in [Items -> States], NEW l \in [Scopes -> Seq(Items)], NEW t \in [Scopes -> Int],
           Owing(n, w, l, t), MayDetach(n, w, l, t)
    PROVE  Steady
<1>1. TypeOK /\ \A m \in Scopes : m \in Items
    BY ItemKinds DEF Truth, Tidying, Lasting, WInv
<1>3. n # Root => home[n] \in Scopes
    BY <1>1 DEF Created, TypeOK
<1>4. Tombs' /\ \A m \in Scopes : order[m] = "reverse" => Enough(tombstones'[m], live'[m], where')
  <2>1. CASE where' = w /\ live' = l /\ tombstones' = t
      BY <2>1 DEF Tombs, Owing
  <2>2. CASE Detach(n, w, l, t)
    <3>1. n # Root /\ ~detached[n] /\ order[home[n]] = "reverse" /\ w[n] = "live" =>
             \E a \in 1 .. Len(l[home[n]]) : l[home[n]][a] = n
        BY <1>3 DEF Backward, Owing
    <3> QED BY <1>1, <1>3, <2>2, <3>1, DetachCounts DEF Owing
  <2> QED BY <2>1, <2>2 DEF MayDetach
<1>5. /\ \A i \in Items : where'[i] = w[i] \/ (i = n /\ where'[i] = "gone")
      /\ detached' = detached \/ (detached' = [detached EXCEPT ![n] = TRUE] /\ Paid(n))
    BY DEF Detach, MayDetach
<1>6. Plain' /\ Parting /\ Finished
  <2>1. Plain'
      BY DEF Truth, Plain, Created
  <2>2. Parting
      BY <1>1, <1>5 DEF Parting, TypeOK
  <2>3. Finished
      BY <1>5 DEF Finished, Over, Owing
  <2> QED BY <2>1, <2>2, <2>3
<1>7. Lodged'
  <2>1. ASSUME NEW c \in Scopes, detached'[c] PROVE requested'[c]
    <3>1. detached[c] \/ c = n
        BY <1>1, <1>5, <2>1 DEF TypeOK
    <3>2. detached[c] => requested'[c]
        BY DEF Truth, Lodged, Grown
    <3> QED BY <3>1, <3>2
  <2>2. \A i \in Items : where'[i] = "failed" => w[i] = "failed"
      BY <1>5
  <2>3. \A i \in Items : home[i] # 0 => where'[i] # "free"
      BY <1>5 DEF Owing
  <2>4. \A c \in Scopes : home[c] # 0 => where'[c] \in Slotted
      BY <1>1, <1>5 DEF Slotted, Owing
  <2> QED BY <2>1, <2>2, <2>3, <2>4 DEF Lodged, Owing
<1> QED BY <1>4, <1>6, <1>7 DEF Steady, Counts

-----------------------------------------------------------------------------
(* Flights that are taken, and their reports.                              *)

\* What is at hand belongs to a flight.
LEMMA HandRuns ==
    ASSUME Tidying, NEW c \in Scopes, phase[c] = "none" PROVE \A i \in Hand : home[i] # c
BY HandIs DEF Tidying, Lasting, WInv

\* What #open puts back.
LEMMA Reopening ==
    ASSUME Truth, NEW c \in Scopes, NEW v \in [Items -> States],
           v = where \/ (v = [where EXCEPT ![c] = "active"] /\ ~detached[c]),
           NEW w, w = Reopened(c, v), NEW l, l = Relisted(c)
    PROVE  /\ w \in [Items -> States] /\ l \in [Scopes -> Seq(Items)]
           /\ \A i \in Items : i \in Again(c) => w[i] = "live"
           /\ \A i \in Items : i \notin Again(c) => w[i] = where[i] \/ (i = c /\ w[i] = "active")
           /\ \A i \in Items : where[i] = "gone" => w[i] = "gone"
           /\ \A m \in Scopes : order[m] = "reverse" => Enough(tombstones[m], l[m], w)
<1>1. TypeOK /\ c \in Items /\ l \in [Scopes -> Seq(Items)]
    BY ItemKinds, RelistedType DEF Truth, Tidying, Lasting, WInv
<1>2. /\ w \in [Items -> States]
      /\ \A i \in Items : i \in Again(c) => w[i] = "live"
      /\ \A i \in Items : i \notin Again(c) => w[i] = where[i] \/ (i = c /\ w[i] = "active")
      /\ \A i \in Items : w[i] = "active" /\ where[i] # "active" => v # where
  <2>1. \A i \in Items : v[i] = where[i] \/ (i = c /\ v[i] = "active" /\ v # where)
      BY <1>1 DEF TypeOK
  <2>2. \A i \in Items : w[i] = IF i \in Again(c) THEN "live" ELSE v[i]
      BY DEF Reopened
  <2>3. w \in [Items -> States]
      BY DEF Reopened, States
  <2> QED BY <2>1, <2>2, <2>3
<1>3. ASSUME NEW i \in Items, where[i] = "gone" PROVE w[i] = "gone"
  <2>1. i \notin Again(c)
      BY <1>3 DEF Again
  <2>2. ASSUME w[i] # "gone" PROVE FALSE
    <3>1. i = c /\ w[i] = "active" /\ v # where
        BY <1>2, <1>3, <2>1, <2>2
    <3>2. ~detached[c] /\ where[c] = "gone"
        BY <1>3, <3>1
    <3> QED BY <3>2 DEF Truth, Tidying, Lasting, Departed
  <2> QED BY <2>2
<1>4. ASSUME NEW m \in Scopes, order[m] = "reverse" PROVE Enough(tombstones[m], l[m], w)
  <2>1. /\ live[m] \in Seq(Items) /\ l[m] \in Seq(Items) /\ tombstones[m] \in Int
        /\ Enough(tombstones[m], live[m], where)
      BY <1>1, <1>4 DEF TypeOK, Truth, Tombs, Counts
  <2>2. \A a \in 1 .. Len(live[m]) : a \in 1 .. Len(l[m]) /\ l[m][a] = live[m][a]
      BY <1>1, RelistedIs
  <2>3. \A a \in 1 .. Len(live[m]) : live[m][a] \in Items
      BY <2>1
  <2>4. \A a \in 1 .. Len(live[m]) :
           a \in 1 .. Len(l[m]) /\ l[m][a] = live[m][a]
           /\ (where[live[m][a]] = "gone" => w[live[m][a]] = "gone")
      BY <1>3, <2>2, <2>3
  <2> QED BY <2>1, <2>4, EnoughStays
<1> QED BY <1>1, <1>2, <1>3, <1>4

\* A flight is taken, by a call or by the flight of the parent.
LEMMA SteadyFlight ==
    ASSUME Truth, Grown, Entries, UNCHANGED <<home, order>>, NEW c \in Scopes, Created(c),
           NEW v \in [Items -> States], TakeFlight(c, v),
           v = where \/ (v = [where EXCEPT ![c] = "active"] /\ ~detached[c]),
           v = where => Hand = {}
    PROVE  Steady
<1>1. TypeOK /\ Owns /\ Tidying /\ \A m \in Scopes : m \in Items
    BY ItemKinds DEF Truth, Tidying, Lasting, WInv
<1>2. requested'[c]
    BY <1>1, TakeFlightIs
<1>3. home[c] # 0 => where[c] \in Slotted
    BY DEF Truth, Lodged
<1>4. CASE phase[c] # "none"
  <2>1. where' = v /\ UNCHANGED <<live, failed, tombstones, detached>>
      BY <1>4 DEF TakeFlight
  <2>2. PICK s : s \in {where[c], "active"} /\ where' = [where EXCEPT ![c] = s]
      BY <1>1, <2>1 DEF TypeOK
  <2>3. /\ s = "failed" => where[c] = "failed"
        /\ Backward(c) /\ where[c] = "void" => s \in Over
        /\ home[c] # 0 => s # "free" /\ s \in Slotted
    <3>1. Backward(c) => home[c] # 0
        BY ItemKinds DEF Backward
    <3> QED BY <1>3, <2>2, <3>1 DEF Slotted
  <2> QED BY <1>1, <2>1, <2>2, <2>3, SteadyPoint
<1>5. CASE phase[c] = "none"
  <2>1. PICK w, l : w = Reopened(c, v) /\ l = Relisted(c)
      OBVIOUS
  <2>2. /\ w \in [Items -> States] /\ l \in [Scopes -> Seq(Items)]
        /\ \A i \in Items : i \in Again(c) => w[i] = "live"
        /\ \A i \in Items : i \notin Again(c) => w[i] = where[i] \/ (i = c /\ w[i] = "active")
        /\ \A i \in Items : where[i] = "gone" => w[i] = "gone"
        /\ \A m \in Scopes : order[m] = "reverse" => Enough(tombstones[m], l[m], w)
      BY <2>1, Reopening
  <2>3. /\ failed' = [failed EXCEPT ![c] = <<>>]
        /\ IF NothingLeft(c) THEN Detach(c, w, l, tombstones)
           ELSE where' = w /\ live' = l /\ UNCHANGED <<tombstones, detached>>
    <3>1. ToSet(Retried(c)) = Again(c)
        BY <1>1, RetriedSet
    <3> QED BY <1>5, <2>1, <3>1 DEF TakeFlight, Open, Reopened, Relisted
  <2>4. tombstones \in [Scopes -> Int]
      BY DEF Truth, Tombs
  <2>5. NothingLeft(c) => Paid(c)
    <3>1. \A i \in Hand : home[i] # c
        BY <1>1, <1>5, HandRuns
    <3> QED BY <1>1, <1>5, <2>4, <3>1, NothingOwed DEF Truth, Paid
  <2>6. ASSUME NEW i \in Items, w[i] = "failed"
        PROVE  home[i] \in Scopes /\ \E b \in 1 .. Len(failed'[home[i]]) : failed'[home[i]][b] = i
    <3>1. i \notin Again(c) /\ where[i] = "failed"
        BY <2>2, <2>6
    <3>2. PICK b \in 1 .. Len(failed[home[i]]) : home[i] \in Scopes /\ failed[home[i]][b] = i
        BY <3>1 DEF Truth, Lodged
    <3>3. home[i] # c
        BY <3>1, <3>2 DEF Again
    <3>4. failed'[home[i]] = failed[home[i]]
        BY <1>1, <2>3, <3>2, <3>3 DEF TypeOK
    <3> QED BY <3>2, <3>4
  <2>7. ASSUME NEW i \in Items, home[i] # 0 PROVE w[i] # "free"
    <3>1. where[i] # "free"
        BY <2>7 DEF Truth, Lodged
    <3> QED BY <2>2, <3>1
  <2>8. ASSUME NEW m \in Scopes, home[m] # 0 PROVE w[m] \in Slotted
    <3>1. where[m] \in Slotted /\ m \in Items
        BY <1>1, <2>8 DEF Truth, Lodged
    <3> QED BY <2>2, <3>1 DEF Slotted
  <2>9. ASSUME NEW i \in Items, Backward(i), where[i] \in Over PROVE w[i] \in Over
    <3>1. i \notin Again(c)
        BY <2>9 DEF Again, Over
    <3>2. i = c => where[i] = "gone"
      <4>1. home[i] # 0
          BY <2>9, ItemKinds DEF Backward
      <4> QED BY <1>3, <2>9, <4>1 DEF Slotted, Over
    <3> QED BY <2>2, <2>9, <3>1, <3>2 DEF Over
  <2>10. ASSUME Backward(c), w[c] = "live"
         PROVE  \E a \in 1 .. Len(l[home[c]]) : l[home[c]][a] = c
    <3>1. home[c] \in Scopes /\ c \in Items
        BY <1>1, <2>10 DEF Backward
    <3>2. CASE c \in Again(c)
      <4>1. home[c] = c
          BY <1>1, <3>2 DEF Owns, Again
      <4> QED BY <1>1, <2>1, <3>2, <4>1, RelistedIs
    <3>3. CASE c \notin Again(c)
      <4>1. where[c] = "live"
          BY <2>2, <2>10, <3>1, <3>3
      <4>2. v = where
        <5>1. SUFFICES ASSUME v = [where EXCEPT ![c] = "active"] PROVE FALSE
            OBVIOUS
        <5>2. w[c] = "active"
            BY <1>1, <2>1, <3>1, <3>3, <5>1 DEF Reopened, TypeOK
        <5> QED BY <2>10, <5>2
      <4>3. PICK a \in 1 .. Len(live[home[c]]) : live[home[c]][a] = c
          BY <1>1, <2>10, <3>1, <4>1, <4>2 DEF Tidying, Tidy, Held
      <4>4. a \in 1 .. Len(l[home[c]]) /\ l[home[c]][a] = live[home[c]][a]
          BY <1>1, <2>1, <3>1, RelistedIs
      <4> QED BY <4>3, <4>4
    <3> QED BY <3>2, <3>3
  <2>11. Owing(c, w, l, tombstones)
      BY <2>2, <2>6, <2>7, <2>8, <2>9, <2>10 DEF Owing
  <2>12. MayDetach(c, w, l, tombstones)
      BY <2>3, <2>5 DEF MayDetach
  <2> QED BY <1>2, <2>2, <2>4, <2>11, <2>12, SteadyDetach
<1> QED BY <1>4, <1>5

\* A flight reports: when it says that nothing is left, nothing is.
LEMMA SteadySettle ==
    ASSUME Truth, Grown, Settle PROVE Steady
<1>1. TypeOK /\ Owns /\ Framed /\ Flights /\ Tidying /\ Lasting /\ \A m \in Scopes : m \in Items
    BY ItemKinds DEF Truth, Tidying, Lasting, WInv
<1>2. On({"run"}) /\ Fit(Top) /\ Entries /\ Hand = {}
    BY <1>1, TopIs, SettleEntries DEF Settle, Hand, On
<1>3. PICK n \in Scopes : n = Top.n
    BY <1>2 DEF Fit, Steps, On
<1>4. PICK l, t : l = [live EXCEPT ![n] = <<>>] /\ t = [tombstones EXCEPT ![n] = @ - Len(live[n])]
    OBVIOUS
<1>5. /\ Standing(n) = {} /\ UNCHANGED <<home, order, failed, requested>>
      /\ IF Debts(n) = {} THEN Detach(n, where, l, t)
         ELSE live' = l /\ tombstones' = t /\ UNCHANGED <<where, detached>>
    BY <1>3, <1>4 DEF Settle, signalVars
<1>6. requested[n] /\ Created(n)
    BY <1>1, <1>2, <1>3 DEF Fit, Flights, On, Phases
<1>7. /\ live \in [Scopes -> Seq(Items)] /\ live[n] \in Seq(Items) /\ Len(live[n]) \in Nat
      /\ tombstones \in [Scopes -> Int] /\ tombstones[n] \in Int
      /\ l \in [Scopes -> Seq(Items)] /\ t \in [Scopes -> Int]
      /\ l[n] = <<>> /\ t[n] = tombstones[n] - Len(live[n])
      /\ \A m \in Scopes : m # n => l[m] = live[m] /\ t[m] = tombstones[m]
    BY <1>1, <1>4 DEF TypeOK, Truth, Tombs
<1>8. ASSUME NEW m \in Scopes, order[m] = "reverse" PROVE Enough(t[m], l[m], where)
  <2>1. Enough(tombstones[m], live[m], where)
      BY <1>8 DEF Truth, Counts
  <2>2. CASE m = n
    <3>1. Cardinality(Buried(live[n], where)) <= Len(live[n]) /\ Cardinality(Buried(live[n], where)) \in Nat
        BY <1>7, BuriedIs
    <3>2. t[n] <= 0
        BY <1>7, <2>1, <2>2, <3>1 DEF Enough
    <3>3. Cardinality(Buried(l[n], where)) \in Nat
        BY <1>7, BuriedIs
    <3> QED BY <1>7, <2>2, <3>2, <3>3 DEF Enough
  <2> QED BY <1>7, <2>1, <2>2
<1>9. Debts(n) = {} => Paid(n)
  <2>1. \A i \in Hand : home[i] \notin Below(n)
      BY <1>2
  <2> QED BY <1>1, <2>1, ReportExact DEF Truth, Paid
<1>10. ASSUME Backward(n), where[n] = "live"
       PROVE  \E a \in 1 .. Len(l[home[n]]) : l[home[n]][a] = n
  <2>1. home[n] \in Scopes /\ n \in Items
      BY <1>1, <1>10 DEF Backward
  <2>2. PICK a \in 1 .. Len(live[home[n]]) : live[home[n]][a] = n
      BY <1>1, <1>2, <1>10, <2>1 DEF Tidying, Tidy, Held
  <2>3. home[n] # n
      BY <1>5, <1>7, <1>10, <2>2 DEF Standing
  <2>4. l[home[n]] = live[home[n]]
      BY <1>7, <2>1, <2>3
  <2> QED BY <2>2, <2>4
<1>11. requested'[n]
    BY <1>5, <1>6
<1>12. /\ \A i \in Items : where[i] = "failed" =>
              home[i] \in Scopes /\ \E b \in 1 .. Len(failed'[home[i]]) : failed'[home[i]][b] = i
       /\ \A i \in Items : home[i] # 0 => where[i] # "free"
       /\ \A c \in Scopes : home[c] # 0 => where[c] \in Slotted
    BY <1>5 DEF Truth, Lodged
<1>13. Owing(n, where, l, t)
    BY <1>8, <1>10, <1>12 DEF Owing
<1>14. MayDetach(n, where, l, t)
    BY <1>5, <1>9 DEF MayDetach
<1>15. where \in [Items -> States]
    BY <1>1 DEF TypeOK
<1> QED BY <1>2, <1>5, <1>6, <1>7, <1>11, <1>13, <1>14, <1>15, SteadyDetach

-----------------------------------------------------------------------------
(* Every step.                                                             *)

\* Registration.
LEMMA RegisterSteady ==
    ASSUME Truth, Grown, TypeOK', NEW n \in Scopes,
           Setup(n) \/ Use(n) \/ OpenModule(n) \/ \E o : Child(n, o)
    PROVE  Entries /\ Steady
<1>1. Entries /\ n \in Scopes
    BY RegisterLasts DEF Truth, Tidying
<1>2. Created(n) /\ UNCHANGED <<failed, detached, tombstones>>
    BY DEF Setup, Use, OpenModule, Child, Accepts, listVars
<1>3. \A l \in NextLeaf : l \in Items /\ l # Root /\ home[l] = 0 /\ l \notin Scopes
    BY ItemKinds DEF NextLeaf
<1>4. \A c \in NextScope : c \in Items /\ c # Root /\ home[c] = 0
    BY ItemKinds DEF NextScope, Created
<1>5. ASSUME NEW i \in Items, i # Root, home[i] = 0, NEW s \in {"setup", "live"}, i \in Scopes => s = "live",
             home' = [home EXCEPT ![i] = n],
             where' = [where EXCEPT ![i] = s],
             live' = live \/ live' = [live EXCEPT ![n] = Append(@, i)],
             order' = order \/ \E o : order' = [order EXCEPT ![i] = o]
      PROVE  Steady
    BY <1>1, <1>2, <1>5, SteadyAdd
<1>6. ASSUME Use(n) PROVE Steady
  <2>1. PICK l \in NextLeaf :
            /\ home' = [home EXCEPT ![l] = n] /\ where' = [where EXCEPT ![l] = "live"]
            /\ live' = [live EXCEPT ![n] = Append(@, l)]
      BY <1>6 DEF Use
  <2>2. order' = order
      BY <1>6 DEF Use
  <2> QED BY <1>3, <1>5, <2>1, <2>2
<1>7. ASSUME NEW o, Child(n, o) \/ OpenModule(n) PROVE Steady
  <2>1. PICK c \in NextScope :
            /\ home' = [home EXCEPT ![c] = n] /\ where' = [where EXCEPT ![c] = "live"]
            /\ live' = [live EXCEPT ![n] = Append(@, c)]
            /\ \E p : order' = [order EXCEPT ![c] = p]
    <3>1. CASE Child(n, o)
      <4>1. PICK c \in NextScope : Construct(c, n, o, FALSE)
          BY <3>1 DEF Child
      <4> QED BY <4>1 DEF Construct
    <3>2. CASE OpenModule(n)
      <4>1. PICK c \in NextScope : Construct(c, n, "reverse", runAborted)
          BY <3>2 DEF OpenModule
      <4> QED BY <4>1 DEF Construct
    <3> QED BY <1>7, <3>1, <3>2
  <2> QED BY <1>4, <1>5, <2>1
<1>8. ASSUME Setup(n) PROVE Steady
  <2>1. PICK l \in NextLeaf : home' = [home EXCEPT ![l] = n] /\ where' = [where EXCEPT ![l] = "setup"]
      BY <1>8 DEF Setup
  <2>2. order' = order /\ live' = live
      BY <1>8 DEF Setup, listVars
  <2> QED BY <1>3, <1>5, <2>1, <2>2
<1> QED BY <1>1, <1>6, <1>7, <1>8

\* A setup or an invocation ends.
LEMMA EndSteady ==
    ASSUME Truth, Grown, TypeOK', NEW i \in Items,
           \/ i \in Leaves /\ UserSettles(i)
           \/ i \in Scopes /\ (JoinSettled(i) \/ VoidReleased(i))
    PROVE  Entries /\ Steady
<1>1. Entries /\ TypeOK /\ Invoked /\ Owns /\ Tidying
    BY EndLasts DEF Truth, Tidying, Lasting, WInv
<1>2. UNCHANGED <<home, order, detached, tombstones>> /\ (i \in Leaves => i \notin Scopes)
    BY ItemKinds DEF UserSettles, SetupFulfil, SetupReject, CleanupFulfil, CleanupReject, JoinSettled,
           VoidReleased, treeVars, listVars
<1>3. ASSUME i \in Leaves, SetupFulfil(i) PROVE Steady
  <2>1. PICK n : n = home[i]
      OBVIOUS
  <2>2. /\ where[i] = "setup" /\ where' = [where EXCEPT ![i] = "live"]
        /\ live' = [live EXCEPT ![n] = Append(@, i)] /\ failed' = failed
      BY <1>3, <2>1 DEF SetupFulfil
  <2>3. CASE n = 0
    <3>1. n \notin Scopes
        BY <2>3, ItemKinds
    <3>2. live' = live /\ ~Backward(i)
        BY <1>1, <2>1, <2>2, <3>1 DEF TypeOK, Backward
    <3> QED BY <1>1, <1>2, <1>3, <2>2, <3>2, SteadyPoint
  <2>4. CASE n # 0
    <3>1. n \in Scopes /\ Created(n)
        BY <1>1, <2>1, <2>4 DEF TypeOK, Owns
    <3> QED BY <1>1, <1>2, <1>3, <2>1, <2>2, <3>1, SteadyAdd
  <2> QED BY <2>3, <2>4
<1>4. ASSUME i \in Leaves, SetupReject(i) PROVE Steady
  <2>1. where' = [where EXCEPT ![i] = "void"] /\ UNCHANGED <<live, failed>>
      BY <1>4 DEF SetupReject, listVars
  <2> QED BY <1>1, <1>2, <1>4, <2>1, SteadyPoint DEF Over
<1>5. ASSUME (i \in Leaves /\ CleanupFulfil(i)) \/ VoidReleased(i) PROVE Steady
  <2>1. where' = [where EXCEPT ![i] = "gone"] /\ UNCHANGED <<live, failed>>
      BY <1>5 DEF CleanupFulfil, VoidReleased, listVars
  <2> QED BY <1>1, <1>2, <2>1, SteadyPoint DEF Over, Slotted
<1>6. ASSUME (i \in Leaves /\ CleanupReject(i)) \/ (JoinSettled(i) /\ Fail(i)) PROVE Steady
  <2>1. Fail(i) /\ inv[i] # "none" /\ live' = live
      BY <1>6 DEF CleanupReject, JoinSettled
  <2>2. home[i] \in Scopes /\ (Backward(i) => where[i] # "void")
      BY <1>1, <2>1, BusySlotted DEF Invoked, Slotted
  <2> QED BY <1>1, <1>2, <2>1, <2>2, SteadyPoint DEF Fail, Slotted
<1>7. ASSUME JoinSettled(i), ~Fail(i) PROVE Steady
  <2>1. UNCHANGED <<where, failed, live>>
      BY <1>7 DEF JoinSettled
  <2> QED BY <1>1, <1>2, <2>1, SteadyCalm
<1> QED BY <1>1, <1>3, <1>4, <1>5, <1>6, <1>7 DEF UserSettles

\* The synchronous part of a cleanup ends.
LEMMA CleanupSteady ==
    ASSUME Truth, Grown, TypeOK', CleanupReturn \/ CleanupThrow
    PROVE  Entries /\ Steady
<1>1. Entries /\ TypeOK /\ Framed /\ Tidying
    BY CleanupLasts DEF Truth, Tidying, Lasting, WInv
<1>2. On({"cleanup"}) /\ stack # <<>>
    BY DEF CleanupReturn, CleanupThrow, On, Idle
<1>3. Top \in ToSet(stack) /\ Top.k = "cleanup" /\ Fit(Top)
    BY <1>1, <1>2, TopIn, TopIs
<1>4. PICK l : l = Top.n
    OBVIOUS
<1>5. l \in Leaves /\ l \in Items /\ l \notin Scopes /\ home[l] \in Scopes
    BY <1>3, <1>4, ItemKinds DEF Fit
<1>6. Backward(l) => where[l] # "void"
    BY <1>1, <1>3, <1>4, <1>5, BusySlotted DEF Tidying, Bodies, Slotted
<1>7. ASSUME CleanupReturn PROVE Steady
    BY <1>1, <1>7, SteadyCalm DEF CleanupReturn, treeVars, listVars
<1>8. ASSUME CleanupThrow PROVE Steady
  <2>1. Fail(l) /\ UNCHANGED <<home, order, detached, live, tombstones>>
      BY <1>4, <1>8 DEF CleanupThrow, treeVars
  <2> QED BY <1>1, <1>5, <1>6, <2>1, SteadyPoint DEF Fail
<1> QED BY <1>1, <1>7, <1>8

\* Steps that change no entry.
LEMMA CalmSteady ==
    ASSUME Truth, Grown,
           \/ \E k \in Calls : EscalateSignal(k) \/ AbandonSignal(k) \/ AnswerCall(k)
           \/ \E c \in Scopes : Unlink(c) \/ Resume(c)
           \/ SetupReturn \/ ListenerReturn \/ CloseReturn \/ WalkDone
           \/ StartFlight \/ DrainStep \/ AwaitSetups \/ AwaitBatch
           \/ NotifyVisit \/ CancelVisit \/ EscalateVisit \/ CancelRun
    PROVE  Entries /\ Steady
<1>1. Entries
    BY CalmLasts, WalkLasts, CancelLasts DEF Truth, Tidying
<1>2. UNCHANGED <<home, order, detached, live, tombstones, failed, where>>
    BY DEF EscalateSignal, AbandonSignal, AnswerCall, Unlink, Resume, SetupReturn,
           ListenerReturn, CloseReturn, WalkDone, StartFlight, DrainStep, AwaitSetups, AwaitBatch,
           NotifyVisit, CancelVisit, EscalateVisit, CancelRun, treeVars, entryVars, listVars
<1> QED BY <1>1, <1>2, SteadyCalm

\* A flight is taken by a call.
LEMMA CloseSteady ==
    ASSUME Truth, Grown, TypeOK', NEW k, NEW n \in Scopes, NEW e, NEW a, Close(k, n, e, a)
    PROVE  Entries /\ Steady
<1>1. Entries /\ Aside /\ Lasting /\ where \in [Items -> States]
    BY CloseLasts DEF Truth, Tidying, Lasting, WInv, TypeOK
<1>2. Hand = {}
    BY <1>1, AsideFree
<1>3. TakeFlight(n, where) /\ Created(n) /\ UNCHANGED <<home, order>>
    BY DEF Close
<1> QED BY <1>1, <1>2, <1>3, SteadyFlight

\* An entry is invoked.
LEMMA InvokeSteady ==
    ASSUME Truth, Grown, InvokeLeaf \/ InvokeVoid \/ InvokeChild
    PROVE  Entries /\ Steady
<1>1. Entries /\ Tidying /\ where \in [Items -> States]
    BY InvokeLasts DEF Truth, Tidying, Lasting, WInv, TypeOK
<1>2. PICK i : i = Head(Top.left)
    OBVIOUS
<1>3. i \in Items /\ home[i] \in Scopes /\ (Backward(i) => i \in Hand) /\ \A j \in Hand : j = i
    BY <1>1, <1>2, NextHand
<1>4. Backward(i) => where[i] # "void"
    BY <1>1, <1>3, BusySlotted DEF Slotted
<1>5. ASSUME InvokeLeaf \/ InvokeVoid PROVE Steady
  <2>1. where' = [where EXCEPT ![i] = "active"] /\ UNCHANGED <<home, order, detached, live, tombstones, failed>>
      BY <1>2, <1>5 DEF InvokeLeaf, InvokeVoid, treeVars, listVars
  <2> QED BY <1>1, <1>3, <1>4, <2>1, SteadyPoint DEF Slotted
<1>6. ASSUME InvokeChild PROVE Steady
  <2>1. PICK v : v = [where EXCEPT ![i] = "active"]
      OBVIOUS
  <2>2. TakeFlight(i, v) /\ i \in Scopes /\ ~detached[i] /\ UNCHANGED <<home, order>>
      BY <1>2, <1>6, <2>1 DEF InvokeChild, HasChild
  <2>3. v \in [Items -> States] /\ Created(i)
      BY <1>1, <1>3, <2>1, ItemKinds DEF States, Created
  <2>4. v = where => Hand = {}
    <3>1. SUFFICES ASSUME v = where, NEW j \in Hand PROVE FALSE
        OBVIOUS
    <3>2. where[i] = "active" /\ j = i /\ Backward(i)
        BY <1>1, <1>3, <2>1, <3>1, HandIs DEF Tidying, Lasting, WInv
    <3>3. inv[i] # "none" /\ NoneInvoked(home[i])
        BY <1>1, <1>3, <3>1, <3>2 DEF Tidying, Tidy, Held, Solo
    <3> QED BY <1>3, <3>3 DEF NoneInvoked
  <2> QED BY <1>1, <2>1, <2>2, <2>3, <2>4, SteadyFlight
<1> QED BY <1>1, <1>5, <1>6

\* Every step keeps the debts in order.
LEMMA NextSteady ==
    ASSUME Truth, Grown, TypeOK', [Next]_vars PROVE Entries /\ Steady
<1>1. Lasting /\ Tidying
    BY DEF Truth, Tidying
<1>2. ASSUME NEW n \in Scopes, Setup(n) \/ Use(n) \/ OpenModule(n) \/ \E o : Child(n, o)
      PROVE  Entries /\ Steady
    BY <1>2, RegisterSteady
<1>3. ASSUME NEW l \in Leaves, UserSettles(l) PROVE Entries /\ Steady
    BY <1>3, EndSteady, ItemKinds
<1>4. ASSUME NEW c \in Scopes, JoinSettled(c) \/ VoidReleased(c) PROVE Entries /\ Steady
    BY <1>4, EndSteady, ItemKinds
<1>5. ASSUME \/ \E k \in Calls : EscalateSignal(k) \/ AbandonSignal(k) \/ AnswerCall(k)
             \/ \E c \in Scopes : Unlink(c) \/ Resume(c)
             \/ SetupReturn \/ ListenerReturn \/ CloseReturn \/ WalkDone
             \/ StartFlight \/ DrainStep \/ AwaitSetups \/ AwaitBatch
             \/ NotifyVisit \/ CancelVisit \/ EscalateVisit \/ CancelRun
      PROVE  Entries /\ Steady
    BY <1>5, CalmSteady
<1>6. ASSUME NEW k \in Calls, NEW n \in Scopes, NEW e, NEW a, Close(k, n, e, a) PROVE Entries /\ Steady
    BY <1>6, CloseSteady
<1>7. ASSUME Settle PROVE Entries /\ Steady
    BY <1>1, <1>7, SettleEntries, SteadySettle
<1>8. ASSUME CleanupReturn \/ CleanupThrow PROVE Entries /\ Steady
    BY <1>8, CleanupSteady
<1>9. ASSUME TakeBatch PROVE Entries /\ Steady
    BY <1>1, <1>9, TakeBatchLasts, SteadyBatch
<1>10. ASSUME InvokeLeaf \/ InvokeVoid \/ InvokeChild PROVE Entries /\ Steady
    BY <1>10, InvokeSteady
<1>11. ASSUME UNCHANGED vars PROVE Entries /\ Steady
  <2>1. UNCHANGED <<home, order, detached, live, tombstones, failed, where, inv>>
      BY <1>11 DEF vars, treeVars, listVars, entryVars
  <2>2. Entries
      BY <1>1, <2>1, IdleEntries
  <2> QED BY <2>1, <2>2, SteadyCalm
<1>12. ASSUME Next PROVE Entries /\ Steady
    BY <1>2, <1>3, <1>4, <1>5, <1>6, <1>7, <1>8, <1>9, <1>10, <1>12
       DEF Next, UserStep, UserReturn, Machine, Continuation
<1> QED BY <1>11, <1>12

-----------------------------------------------------------------------------
(* The theorem about reports.                                              *)

\* A requested scope registers nothing.
LEMMA NextRefused ==
    ASSUME TreeInv, [Next]_vars PROVE Refused
<1>1. TreeStep
    BY NextIsTreeStep DEF TreeInv
<1>2. SUFFICES ASSUME NEW n \in Scopes, requested[n], NEW i \in Items PROVE home'[i] = n <=> home[i] = n
    BY DEF Refused
<1>3. ASSUME NEW m \in Scopes, NEW j \in Items, Registers(m, j) PROVE home'[i] = n <=> home[i] = n
  <2>1. m # n /\ home[j] = 0 /\ home' = [home EXCEPT ![j] = m] /\ n # 0
      BY <1>2, <1>3, ItemKinds DEF Registers, Accepts
  <2> QED BY <2>1 DEF TreeInv, TreeType
<1> QED BY <1>1, <1>3 DEF TreeStep, TakesSlot, Requests, Departs

\* Every step keeps it.
LEMMA NextTruth == ASSUME Truth, [Next]_vars PROVE Truth'
<1>1. WInv /\ TypeOK /\ Tidying /\ Lasting /\ Tidying' /\ TypeOK'
    BY NextTidies DEF Truth, Tidying, Lasting, WInv
<1>2. Grown /\ TreeInv
    BY <1>1, NextGrows DEF TreeInv, TreeType, TypeOK, Truth
<1>3. Sealed' /\ Refused
    BY <1>2, NextIsTreeStep, TreeStepSealed, NextRefused DEF TreeInv
<1>4. Entries /\ Steady
    BY <1>1, <1>2, NextSteady
<1>5. ASSUME NEW n \in Scopes, detached'[n] PROVE Paid(n)'
  <2>1. Created(n) /\ (requested[n] \/ UNCHANGED home) /\ Paid(n)
    <3>1. CASE detached[n]
        BY <1>1, <3>1 DEF Truth, Lodged, Cleared, Lasting, Departed
    <3>2. CASE ~detached[n]
      <4>1. UNCHANGED home /\ Paid(n)
          BY <1>4, <1>5, <3>2 DEF Steady, Parting
      <4>2. Created(n)'
          BY <1>4, <1>5 DEF Entries, Departed
      <4> QED BY <4>1, <4>2 DEF Created
    <3> QED BY <3>1, <3>2
  <2> QED BY <1>1, <1>3, <1>4, <2>1, PaidStays DEF Truth, Steady
<1> QED BY <1>1, <1>3, <1>4, <1>5 DEF Truth, Steady, Cleared

\* It holds at the start.
LEMMA InitTruth == Init => Truth
<1> SUFFICES ASSUME Init PROVE Truth
    OBVIOUS
<1>1. Tidying /\ TypeOK
    BY InitTidying DEF Tidying, Lasting, WInv
<1>2. /\ home = [i \in Items |-> 0] /\ where = [i \in Items |-> "free"]
      /\ detached = [n \in Scopes |-> FALSE] /\ tombstones = [n \in Scopes |-> 0]
      /\ live = [n \in Scopes |-> <<>>]
      /\ \E o \in Orders : order = [n \in Scopes |-> IF n = Root THEN o ELSE "reverse"]
    BY DEF Init
<1>3. Sealed /\ Tombs /\ Lodged /\ Cleared
    BY <1>2, ItemKinds DEF Sealed, Tombs, Lodged, Cleared
<1>4. Plain
    BY <1>2 DEF Plain, Created
<1>5. Counts
  <2> SUFFICES ASSUME NEW n \in Scopes PROVE Enough(tombstones[n], live[n], where)
      BY DEF Counts
  <2>1. live[n] \in Seq(Items) /\ tombstones[n] = 0
      BY <1>1, <1>2 DEF TypeOK
  <2>2. Cardinality(Buried(live[n], where)) \in Nat
      BY <2>1, BuriedIs
  <2> QED BY <2>1, <2>2 DEF Enough
<1> QED BY <1>1, <1>3, <1>4, <1>5 DEF Truth

\* What the scopes owe, what they count and what their reports look at fit
\* together in every reachable state.
THEOREM TruthInvariant == Spec => []Truth
<1>1. Truth /\ [Next]_vars => Truth'
    BY NextTruth
<1> QED BY <1>1, InitTruth, PTL DEF Spec

\* Whenever user code runs, the report of a scope whose subtree releases in reverse
\* names exactly the leaves that are not released yet, for any tree and any
\* interleaving of registrations, closes, retries and failures.
THEOREM ReportsExact == Spec => []ReportsAreExact
<1>1. Truth => ReportsAreExact
  <2> SUFFICES ASSUME Truth, UserTurn, NEW n \in Scopes, \A m \in Below(n) : order[m] = "reverse"
               PROVE  Debts(n) = Unreleased(n)
      BY DEF ReportsAreExact
  <2>1. Tame(n)
      BY DEF Tame
  <2>2. Hand = {}
      BY TurnIsAside DEF Hand
  <2>3. \A i \in Hand : home[i] \notin Below(n)
      BY <2>2
  <2> QED BY <2>1, <2>3, ReportExact DEF Truth
<1> QED BY <1>1, TruthInvariant, PTL

-----------------------------------------------------------------------------
(* The answers on the stack.                                               *)

\* The calls of close() on a stack; no new one is put on it.
Answering(s) == {f \in ToSet(s) : f.k = "answer"}
Quiet == Answering(stack') \subseteq Answering(stack)

\* Other frames are put on the stack.
LEMMA QuietStacks ==
    ASSUME TypeOK, NEW m, NEW F, Stacks(m, F), \A f \in F : f.k # "answer"
    PROVE  Quiet
<1> SUFFICES ASSUME NEW f \in ToSet(stack'), f.k = "answer" PROVE f \in ToSet(stack)
    BY DEF Quiet, Answering
<1>1. PICK i \in 1 .. m : f = stack[i]
    BY StackIn
<1>2. i \in 1 .. Len(stack)
    BY DEF Stacks
<1> QED BY <1>1, <1>2, OfItsOwn DEF TypeOK

\* The ways most steps change the stack.
LEMMA QuietCommon ==
    ASSUME TypeOK,
           \/ UNCHANGED stack
           \/ stack # <<>> /\ stack' = Under
           \/ \E f : f.k # "answer" /\ stack' = Append(stack, f)
           \/ stack # <<>> /\ \E q : stack' = Drained(Under, q)
    PROVE  Quiet
<1>1. CASE UNCHANGED stack
    BY <1>1 DEF Quiet, Answering
<1>2. ASSUME stack # <<>>, stack' = Under PROVE Quiet
    BY <1>2, StackPop, QuietStacks
<1>3. ASSUME NEW f, f.k # "answer", stack' = Append(stack, f) PROVE Quiet
  <2>1. <<f>> \in Seq({f}) /\ stack' = stack \o <<f>>
      BY <1>3, AppendIsJoin DEF TypeOK
  <2>2. Stacks(Len(stack), {f})
      BY <2>1, StackPush
  <2> QED BY <1>3, <2>2, QuietStacks
<1>4. ASSUME NEW q, stack # <<>>, stack' = Drained(Under, q) PROVE Quiet
  <2>1. ASSUME NEW d, d.k = "drain", stack' = Under \o <<d>>, <<d>> \in Seq({d}) PROVE Quiet
    <3>1. Stacks(Len(stack) - 1, {d})
        BY <1>4, <2>1, StackReplace
    <3> QED BY <2>1, <3>1, QuietStacks
  <2> QED BY <1>2, <1>4, <2>1, DrainedIs
<1> QED BY <1>1, <1>2, <1>3, <1>4

\* The frames of the scopes that follow the run.
LEMMA QuietCancel == ASSUME TypeOK, CancelRun PROVE Quiet
<1> DEFINE followers == {c \in Scopes : module[c]}
           count == Cardinality(followers)
           frames == [i \in 1 .. count |-> WalkFrame("cancel", Nth(followers, i))]
<1>1. stack' = stack \o Reverse(frames)
    BY DEF CancelRun
<1>2. count \in Nat
  <2>1. followers \in SUBSET (1 .. NScopes) /\ NScopes \in Nat
      BY ScopeAssumption DEF Scopes
  <2> HIDE DEF followers
  <2> QED BY <2>1, Ranks
<1>3. \A i \in 1 .. count : frames[i].k # "answer"
    BY DEF WalkFrame
<1> HIDE DEF count
<1>4. DOMAIN frames = 1 .. count /\ frames = [i \in 1 .. count |-> frames[i]]
    OBVIOUS
<1> HIDE DEF frames
<1>5. PICK F : F = {frames[i] : i \in 1 .. count}
    OBVIOUS
<1>6. frames \in Seq(F) /\ \A f \in F : f.k # "answer"
    BY <1>2, <1>3, <1>4, <1>5
<1>7. PICK r \in Seq(F) : stack' = stack \o r
    BY <1>1, <1>6, ReverseIs
<1> QED BY <1>6, <1>7, StackPush, QuietStacks

\* A walk goes on.
LEMMA QuietVisit == ASSUME TypeOK, Framed, NotifyVisit \/ CancelVisit \/ EscalateVisit PROVE Quiet
<1>1. On(WalkKinds)
    BY DEF NotifyVisit, CancelVisit, EscalateVisit, On, WalkKinds
<1>2. PICK cur, signalled : signalled \in BOOLEAN /\ stack' = Visited(cur, signalled)
  <2>1. ASSUME NotifyVisit PROVE \E cur, signalled : signalled \in BOOLEAN /\ stack' = Visited(cur, signalled)
    <3>1. PICK b \in BOOLEAN : b <=> ~aborted[At]
        OBVIOUS
    <3>2. stack' = Visited(Passed, FALSE) \/ stack' = Visited(Entered, b)
        BY <2>1, <3>1 DEF NotifyVisit, Visited
    <3> QED BY <3>1, <3>2
  <2>2. ASSUME CancelVisit PROVE \E cur, signalled : signalled \in BOOLEAN /\ stack' = Visited(cur, signalled)
      BY <2>2 DEF CancelVisit
  <2>3. ASSUME EscalateVisit PROVE \E cur, signalled : signalled \in BOOLEAN /\ stack' = Visited(cur, signalled)
    <3>1. PICK b \in BOOLEAN : b <=> (phase[At] # "none" /\ ~esc[At])
        OBVIOUS
    <3>2. stack' = Visited(Entered, b)
        BY <2>3, <3>1 DEF EscalateVisit, Visited
    <3> QED BY <3>1, <3>2
  <2> QED BY <2>1, <2>2, <2>3
<1>3. stack # <<>> /\ Top.k \in WalkKinds /\ Top = [k |-> Top.k, n |-> Top.n, cur |-> Top.cur]
    BY <1>1, TopIs DEF Fit
<1>4. PICK t : t = [Top EXCEPT !.cur = cur]
    OBVIOUS
<1>5. t.k = Top.k /\ t.k # "answer"
    BY <1>3, <1>4 DEF WalkKinds
<1>6. PICK l : l = Frame("listener", At)
    OBVIOUS
<1>7. l.k # "answer"
    BY <1>6 DEF Frame
<1>8. PICK r \in Seq({t, l}) : stack' = Append(Under, t) \o r
  <2>1. stack' = Append(Under, t) \o (IF signalled THEN <<l>> ELSE <<>>)
      BY <1>2, <1>4, <1>6 DEF Visited
  <2>2. <<l>> \in Seq({t, l}) /\ <<>> \in Seq({t, l})
      OBVIOUS
  <2> QED BY <2>1, <2>2
<1>9. Stacks(Len(stack) - 1, {t, l})
    BY <1>3, <1>8, StackTurn
<1> QED BY <1>5, <1>7, <1>9, QuietStacks

\* What close() and #join leave to do holds no answer.
LEMMA RestQuiet ==
    ASSUME NEW n \in Scopes, NEW e \in BOOLEAN
    PROVE  \E F : Rest(n, e) \in Seq(F) /\ \A f \in F : f.k # "answer"
<1> DEFINE opens == phase[n] = "none" /\ HasFlight(n)
<1>1. PICK s, w, x, F : /\ s = Frame("start", n) /\ w = WalkFrame("notify", n)
                        /\ x = WalkFrame("escalate", n) /\ F = {s, w, x}
    OBVIOUS
<1>2. \A f \in F : f.k # "answer"
    BY <1>1 DEF Frame, WalkFrame
<1>3. PICK a, b : a = (IF opens THEN <<s>> ELSE <<>>) /\ b = (IF e THEN <<x>> ELSE <<>>)
    OBVIOUS
<1>4. Rest(n, e) = a \o <<w>> \o b
    BY <1>1, <1>3 DEF Rest
<1>5. a \in Seq(F) /\ b \in Seq(F) /\ <<w>> \in Seq(F)
  <2>1. s \in F /\ w \in F /\ x \in F
      BY <1>1
  <2>2. <<s>> \in Seq(F) /\ <<w>> \in Seq(F) /\ <<x>> \in Seq(F) /\ <<>> \in Seq(F)
      BY <2>1
  <2>3. (a = <<s>> \/ a = <<>>) /\ (b = <<x>> \/ b = <<>>)
      BY <1>3
  <2> QED BY <2>2, <2>3
<1>6. a \o <<w>> \o b \in Seq(F)
  <2>1. PICK d : d = a \o <<w>>
      OBVIOUS
  <2>2. d \in Seq(F)
      BY <1>5, <2>1, ConcatProperties
  <2>3. d \o b \in Seq(F)
      BY <1>5, <2>2, ConcatProperties
  <2> QED BY <2>1, <2>3
<1>7. PICK r : r = Rest(n, e)
    OBVIOUS
<1>8. Rest(n, e) \in Seq(F)
  <2>1. r \in Seq(F)
      BY <1>4, <1>6, <1>7
  <2> QED BY <2>1, <1>7, Zenon
<1> HIDE DEF opens
<1> WITNESS F
<1> QED BY <1>2, <1>8, Zenon

\* Two frames, and others.
LEMMA QuietRest ==
    ASSUME TypeOK, NEW t, NEW n \in Scopes, NEW e \in BOOLEAN, NEW q,
           q = stack \/ (q = Under /\ stack # <<>>), stack' = (q \o <<t>>) \o Rest(n, e)
    PROVE  \A f \in Answering(stack') : f \in Answering(stack) \/ f = t
<1>1. PICK r, F : r = Rest(n, e) /\ r \in Seq(F) /\ \A f \in F : f.k # "answer"
  <2>1. PICK F : Rest(n, e) \in Seq(F) /\ \A f \in F : f.k # "answer"
      BY RestQuiet, Zenon
  <2> QED BY <2>1, Zenon
<1>2. q \in Seq(ToSet(stack))
  <2>1. stack \in Seq(ToSet(stack))
      BY DEF TypeOK
  <2>2. CASE q = stack
      BY <2>1, <2>2, Zenon
  <2>3. ASSUME q = Under, stack # <<>> PROVE q \in Seq(ToSet(stack))
    <3>1. Front(stack) \in Seq(ToSet(stack))
        BY <2>1, <2>3, FrontIsBelow
    <3> QED BY <2>3, <3>1, Zenon DEF Under
  <2> QED BY <2>2, <2>3, Zenon
<1>3. PICK p, V, s : p = <<t>> \o r /\ V = F \cup {t} /\ s = q \o p
    OBVIOUS
<1>4. p \in Seq(V) /\ (q \o <<t>>) \o r = s
    BY <1>1, <1>2, <1>3, PlacedOn
<1>5. stack' = s
    BY <1>1, <1>4
<1>6. \E m : Stacks(m, V)
  <2>1. CASE q = stack
      BY <1>3, <1>4, <1>5, <2>1, StackPush
  <2>2. CASE q = Under /\ stack # <<>>
      BY <1>3, <1>4, <1>5, <2>2, StackReplace
  <2> QED BY <2>1, <2>2
<1>7. ASSUME NEW f \in Answering(stack'), f # t PROVE f \in Answering(stack)
  <2>1. f \in ToSet(stack') /\ f.k = "answer" /\ f \notin V
      BY <1>1, <1>3, <1>7 DEF Answering
  <2>2. PICK m, i : i \in 1 .. m /\ f = stack[i] /\ Stacks(m, V)
      BY <1>6, <2>1, StackIn
  <2>3. i \in 1 .. Len(stack)
      BY <2>2 DEF Stacks
  <2>4. f \in ToSet(stack)
      BY <2>2, <2>3, OfItsOwn DEF TypeOK
  <2> QED BY <2>1, <2>4 DEF Answering
<1> QED BY <1>7

\* Only a call of close() puts an answer on the stack.
LEMMA InvokeQuiet ==
    ASSUME TypeOK, Framed, InvokeLeaf \/ InvokeVoid \/ InvokeChild PROVE Quiet
<1>1. On({"batch"}) /\ Top.left # <<>>
    BY DEF InvokeLeaf, InvokeVoid, InvokeChild
<1>2. /\ stack # <<>> /\ Top.k = "batch" /\ Top = [k |-> Top.k, n |-> Top.n, left |-> Top.left]
      /\ Len(stack) \in Nat \ {0}
    BY <1>1, TopIs DEF Fit
<1>3. PICK b : b = [Top EXCEPT !.left = Tail(@)]
    OBVIOUS
<1>4. b.k # "answer"
    BY <1>2, <1>3
<1>5. CASE InvokeLeaf
  <2>1. PICK c : c = Frame("cleanup", Head(Top.left))
      OBVIOUS
  <2>2. stack' = Under \o <<b, c>> /\ c.k # "answer"
      BY <1>3, <1>5, <2>1 DEF InvokeLeaf, Frame
  <2>3. Stacks(Len(stack) - 1, {b, c})
      BY <1>2, <2>2, PairOn
  <2> QED BY <1>4, <2>2, <2>3, QuietStacks
<1>6. CASE InvokeVoid
  <2>1. stack' = Append(Under, b)
      BY <1>3, <1>6 DEF InvokeVoid
  <2>2. PICK u : u = Under
      OBVIOUS
  <2>3. u \in Seq(ToSet(stack))
      BY <1>2, <2>2, FrontIsBelow DEF TypeOK, Under
  <2>4. stack' = Under \o <<b>> /\ <<b>> \in Seq({b})
      BY <2>1, <2>2, <2>3, AppendIsJoin
  <2>5. Stacks(Len(stack) - 1, {b})
      BY <1>2, <2>4, StackReplace
  <2> QED BY <1>4, <2>5, QuietStacks
<1>7. CASE InvokeChild
  <2>1. PICK c : c = Head(Top.left)
      OBVIOUS
  <2>2. PICK e \in BOOLEAN : e <=> esc[Top.n]
      OBVIOUS
  <2>3. c \in Scopes
      BY <1>7, <2>1 DEF InvokeChild, HasChild
  <2>4. PICK u : u = Under
      OBVIOUS
  <2>5. stack' = (u \o <<b>>) \o Rest(c, e)
      BY <1>3, <1>7, <2>1, <2>2, <2>4 DEF InvokeChild, Rest
  <2>6. \A f \in Answering(stack') : f \in Answering(stack) \/ f = b
      BY <1>2, <2>3, <2>4, <2>5, QuietRest
  <2> QED BY <1>4, <2>6 DEF Quiet, Answering
<1> QED BY <1>5, <1>6, <1>7

-----------------------------------------------------------------------------
(* What the callers are told.                                              *)

\* A call was made on a scope whose close is requested.  It is told, or will be,
\* that the scope completed only when that scope left; a snapshot of nothing is
\* taken only where nothing is owed.
Honest(k) ==
    /\ call[k].on \in Scopes
    /\ \A n \in Scopes : n = call[k].on =>
         /\ Created(n) /\ requested[n]
         /\ call[k].done = "complete" \/ call[k].answer = "complete" => detached[n]
         /\ call[k].answer = "snapshot-complete" => Paid(n)
\* The calls of close() that have not returned yet.
Reply(f) ==
    /\ f.call \in Calls /\ call[f.call].st # "unused" /\ call[f.call].on = f.n
    /\ f.flight \/ detached[f.n]
Replies == \A f \in Answering(stack) : Reply(f)
Answers ==
    /\ call \in [Calls -> CallType]
    /\ \A k \in Calls : call[k].answer # "none" => call[k].st # "unused"
    /\ \A k \in Calls : call[k].st # "unused" => Honest(k)
    /\ Replies

\* What a step does to a call that was made, and to one that it makes.
Told(k) ==
    /\ call'[k].on = call[k].on /\ call'[k].st # "unused"
    /\ call'[k].done = "complete" => call[k].done = "complete" \/ detached'[call[k].on]
    /\ call'[k].answer = "complete" =>
          call[k].answer = "complete" \/ call[k].done = "complete" \/ detached[call[k].on]
    /\ call'[k].answer = "snapshot-complete" =>
          call[k].answer = "snapshot-complete" \/ Paid(call[k].on)
Made(k) ==
    /\ call'[k].on \in Scopes /\ Created(call'[k].on) /\ requested'[call'[k].on]
    /\ call'[k].answer = "none"
    /\ call'[k].done = "complete" => detached'[call'[k].on]
Hailed ==
    /\ call' \in [Calls -> CallType]
    /\ \A k \in Calls : call[k].st # "unused" => Told(k)
    /\ \A k \in Calls : call[k].st = "unused" =>
          Made(k) \/ (call'[k].st = "unused" /\ call'[k].answer = call[k].answer)

\* Steps that do not touch the calls.
LEMMA UntouchedHails == ASSUME Answers, UNCHANGED call PROVE Hailed
BY DEF Hailed, Answers, Told

\* A snapshot says that nothing is owed where nothing is.
LEMMA SnapshotIsTrue ==
    ASSUME Truth, Hand = {}, NEW n \in Scopes, Snapshot(n) = "snapshot-complete"
    PROVE  Paid(n)
<1>1. Debts(n) = {}
  <2>1. PICK d : d = Debts(n)
      OBVIOUS
  <2>2. (IF d = {} THEN "snapshot-complete" ELSE "snapshot-incomplete") = "snapshot-complete"
      BY <2>1 DEF Snapshot
  <2> QED BY <2>1, <2>2
<1>2. \A i \in Hand : home[i] \notin Below(n)
    OBVIOUS
<1> QED BY <1>1, <1>2, ReportExact DEF Truth, Paid

\* A flight settles.
LEMMA SettleHails == ASSUME Truth, Answers, Settle PROVE Hailed
<1>1. /\ On({"run"}) /\ TypeOK /\ Framed
    BY DEF Settle, Truth, Tidying, Lasting, WInv
<1>2. PICK n : n = Top.n
    OBVIOUS
<1>3. n \in Scopes /\ detached \in [Scopes -> BOOLEAN]
  <2>1. PICK f : f = Top
      OBVIOUS
  <2>2. Fit(f) /\ f.k = "run"
      BY <1>1, <2>1, TopIs
  <2> QED BY <1>1, <1>2, <2>1, <2>2 DEF Fit, Steps, TypeOK
<1>4. PICK b \in BOOLEAN : b <=> Debts(n) = {}
    OBVIOUS
<1>5. b => detached'[n]
    BY <1>2, <1>3, <1>4 DEF Settle, Detach
<1>6. PICK o : o = Outcome(b)
    OBVIOUS
<1>7. o \in {"complete", "incomplete"} /\ (o = "complete" => b)
    BY <1>6 DEF Outcome
<1>8. call' = [k \in Calls |->
                IF call[k].on = n /\ call[k].done = "pending"
                THEN [call[k] EXCEPT !.done = o, !.linked = FALSE]
                ELSE call[k]]
    BY <1>2, <1>4, <1>6 DEF Settle, Outcome
<1> QED
  <2>1. ASSUME NEW k \in Calls
        PROVE  /\ call'[k] \in CallType /\ call'[k].on = call[k].on /\ call'[k].st = call[k].st
               /\ call'[k].answer = call[k].answer
               /\ call'[k].done = "complete" => call[k].done = "complete" \/ detached'[call[k].on]
    <3>1. call[k] \in CallType
        BY DEF Answers
    <3>2. CASE call[k].on = n /\ call[k].done = "pending"
        BY <1>5, <1>7, <1>8, <3>1, <3>2 DEF CallType
    <3>3. CASE ~(call[k].on = n /\ call[k].done = "pending")
        BY <1>8, <3>1, <3>3
    <3> QED BY <3>2, <3>3
  <2> QED BY <1>8, <2>1 DEF Hailed, Told

\* Signals and answers.
LEMMA SignalHails ==
    ASSUME Truth, Answers, NEW k \in Calls, AnswerCall(k) \/ EscalateSignal(k) \/ AbandonSignal(k)
    PROVE  Hailed
<1>1. call[k] \in CallType /\ call \in [Calls -> CallType]
    BY DEF Answers
<1>2. CASE AnswerCall(k)
  <2>1. /\ call[k].st = "awaiting" /\ call[k].done # "pending"
        /\ call' = [call EXCEPT ![k].st = "answered", ![k].answer = call[k].done]
      BY <1>2 DEF AnswerCall
  <2> QED BY <1>1, <2>1 DEF Hailed, Told, CallType
<1>3. CASE EscalateSignal(k)
  <2>1. call' = [call EXCEPT ![k].escalate = "fired", ![k].linked = FALSE]
      BY <1>3 DEF EscalateSignal
  <2> QED BY <1>1, <2>1 DEF Hailed, Told, CallType, Signals
<1>4. CASE AbandonSignal(k)
  <2>1. CASE call[k].st = "awaiting"
    <3>1. PICK r : r = Snapshot(call[k].on)
        OBVIOUS
    <3>2. r \in {"snapshot-complete", "snapshot-incomplete"}
        BY <3>1 DEF Snapshot
    <3>3. Hand = {}
        BY <1>4, TurnIsAside DEF AbandonSignal, Hand
    <3>4. call[k].on \in Scopes
        BY <2>1 DEF Answers, Honest
    <3>5. r = "snapshot-complete" => Paid(call[k].on)
        BY <3>1, <3>3, <3>4, SnapshotIsTrue
    <3>6. call' = [call EXCEPT ![k].abandon = "fired", ![k].st = "answered", ![k].answer = r]
        BY <1>4, <2>1, <3>1 DEF AbandonSignal
    <3> QED BY <1>1, <2>1, <3>2, <3>5, <3>6 DEF Hailed, Told, CallType, Signals
  <2>2. CASE call[k].st # "awaiting"
    <3>1. call' = [call EXCEPT ![k].abandon = "fired"]
        BY <1>4, <2>2 DEF AbandonSignal
    <3> QED BY <1>1, <3>1 DEF Hailed, Told, CallType, Signals
  <2> QED BY <2>1, <2>2
<1> QED BY <1>2, <1>3, <1>4

\* close() returns.
LEMMA ReturnHails == ASSUME Truth, Answers, CloseReturn PROVE Hailed
<1>1. On({"answer"}) /\ TypeOK
    BY DEF CloseReturn, Truth, Tidying, Lasting, WInv
<1>2. stack # <<>> /\ Top.k = "answer"
    BY <1>1 DEF On, Idle
<1>3. Top \in Answering(stack)
    BY <1>1, <1>2, TopIn DEF Answering
<1>4. PICK k, f : k = Top.call /\ f = Top
    OBVIOUS
<1>5. Reply(f) /\ k \in Calls /\ call[k] \in CallType /\ call[k].st # "unused" /\ call[k].on = f.n
    BY <1>3, <1>4 DEF Answers, Replies, Reply
<1>6. PICK r : r = IF ~f.flight THEN "complete"
                    ELSE IF call[k].abandon = "fired" THEN Snapshot(f.n)
                    ELSE "none"
    OBVIOUS
<1>7. r \in {"complete", "snapshot-complete", "snapshot-incomplete", "none"}
    BY <1>6 DEF Snapshot
<1>8. r = "complete" => detached[call[k].on]
    BY <1>5, <1>6 DEF Snapshot, Reply
<1>9. r = "snapshot-complete" => Paid(call[k].on)
  <2>1. Hand = {}
      BY <1>2 DEF Hand, On
  <2>2. f.n \in Scopes
      BY <1>5 DEF Answers, Honest
  <2>3. r = "snapshot-complete" => Snapshot(f.n) = "snapshot-complete"
      BY <1>6
  <2> QED BY <1>5, <2>1, <2>2, <2>3, SnapshotIsTrue
<1>10. PICK s : s = IF r = "none" THEN "awaiting" ELSE "answered"
    OBVIOUS
<1>11. call' = [call EXCEPT ![k].st = s, ![k].answer = r]
    BY <1>4, <1>6, <1>10 DEF CloseReturn
<1>12. call \in [Calls -> CallType]
    BY DEF Answers
<1> QED BY <1>5, <1>7, <1>8, <1>9, <1>10, <1>11, <1>12 DEF Hailed, Told, CallType

\* A call of close() is made: it is told at once that nothing is left only when
\* the scope left with it.
LEMMA CloseHails ==
    ASSUME Truth, Answers, NEW k \in Calls, NEW n \in Scopes, NEW e \in Signals, NEW a \in Signals,
           Close(k, n, e, a)
    PROVE  /\ Hailed /\ call'[k].st # "unused" /\ call'[k].on = n
           /\ HasFlight(n) \/ detached'[n]
<1>1. TypeOK /\ Created(n) /\ TakeFlight(n, where) /\ UNCHANGED home
    BY DEF Close, Truth, Tidying, Lasting, WInv
<1>2. where \in [Items -> States] /\ detached \in [Scopes -> BOOLEAN]
    BY <1>1 DEF TypeOK
<1>3. requested'[n] /\ (phase[n] = "none" /\ NothingLeft(n) => detached' = [detached EXCEPT ![n] = TRUE])
    BY <1>1, <1>2, TakeFlightIs DEF Leaving
<1>4. HasFlight(n) \/ detached'[n]
    BY <1>2, <1>3 DEF HasFlight
<1>5. PICK d : d = IF HasFlight(n) THEN "pending" ELSE "complete"
    OBVIOUS
<1>6. PICK g \in BOOLEAN : g <=> (HasFlight(n) /\ e # "absent" /\ ~esc'[n]) /\ e = "armed"
    OBVIOUS
<1>7. PICK c : c = [on |-> n, st |-> "entered", done |-> d, escalate |-> e, abandon |-> a,
                    linked |-> g, answer |-> "none"]
    OBVIOUS
<1>8. call' = [call EXCEPT ![k] = c]
    BY <1>5, <1>6, <1>7 DEF Close
<1>9. c \in CallType /\ c.on = n /\ c.st = "entered" /\ c.done = d /\ c.answer = "none"
    BY <1>5, <1>6, <1>7 DEF CallType
<1>10. call[k].st = "unused" /\ call \in [Calls -> CallType]
    BY DEF Close, Answers
<1>11. d = "complete" => detached'[n]
    BY <1>4, <1>5
<1>12. call' \in [Calls -> CallType] /\ call'[k] = c /\ \A j \in Calls : j # k => call'[j] = call[j]
    BY <1>8, <1>9, <1>10
<1>13. Made(k)
    BY <1>1, <1>3, <1>9, <1>11, <1>12 DEF Made
<1>14. \A j \in Calls : call[j].st # "unused" => Told(j)
    BY <1>10, <1>12 DEF Told
<1> QED BY <1>4, <1>9, <1>12, <1>13, <1>14 DEF Hailed

\* A call that was made still waits for its reply.
LEMMA ReplyKept ==
    ASSUME Answers, Hailed, \A c \in Scopes : detached[c] => detached'[c], NEW f \in Answering(stack)
    PROVE  Reply(f)'
<1>1. Reply(f) /\ f.call \in Calls
    BY DEF Answers, Replies, Reply
<1>2. Told(f.call) /\ f.n \in Scopes
    BY <1>1 DEF Hailed, Reply, Answers, Honest
<1> QED BY <1>1, <1>2 DEF Reply, Told

\* The replies after a call of close().
LEMMA CloseReplies ==
    ASSUME Truth, Answers, Hailed, \A c \in Scopes : detached[c] => detached'[c],
           NEW k \in Calls, NEW n \in Scopes, NEW e \in Signals, NEW a \in Signals,
           Close(k, n, e, a)
    PROVE  Replies'
<1>1. PICK h \in BOOLEAN : h <=> HasFlight(n)
    OBVIOUS
<1>2. call'[k].st # "unused" /\ call'[k].on = n /\ (h \/ detached'[n])
    BY <1>1, CloseHails
<1>3. PICK t : t = [k |-> "answer", n |-> n, call |-> k, flight |-> h]
    OBVIOUS
<1>4. PICK x \in BOOLEAN : x <=> ((HasFlight(n) /\ e # "absent" /\ ~esc'[n]) /\ e = "fired")
    OBVIOUS
<1>5. t = [k |-> "answer", n |-> n, call |-> k, flight |-> HasFlight(n)]
    BY <1>1, <1>3 DEF HasFlight
<1>6. stack' = (stack \o <<t>>) \o Rest(n, x)
    BY <1>4, <1>5 DEF Close, Rest
<1>7. TypeOK
    BY DEF Truth, Tidying, Lasting, WInv
<1>8. \A f \in Answering(stack') : f \in Answering(stack) \/ f = t
    BY <1>6, <1>7, QuietRest
<1>9. Reply(t)'
    BY <1>2, <1>3 DEF Reply
<1>10. ASSUME NEW f \in Answering(stack') PROVE Reply(f)'
    BY <1>8, <1>9, ReplyKept
<1>11. ASSUME NEW f \in Answering(stack)' PROVE Reply(f)'
    BY <1>10, <1>11 DEF Answering
<1> QED BY <1>11 DEF Replies

\* A step that makes no call.
LEMMA QuietReplies ==
    ASSUME Answers, Hailed, \A c \in Scopes : detached[c] => detached'[c], Quiet
    PROVE  Replies'
<1>1. ASSUME NEW f \in Answering(stack)' PROVE Reply(f)'
    BY <1>1, ReplyKept DEF Answering, Quiet
<1> QED BY <1>1 DEF Replies

\* Steps after which no new reply waits on the stack: all but close().
LEMMA StepQuiet ==
    ASSUME TypeOK, Framed,
           \/ \E n \in Scopes : Setup(n) \/ Use(n) \/ OpenModule(n) \/ Unlink(n) \/ Resume(n)
           \/ \E n \in Scopes : JoinSettled(n) \/ VoidReleased(n) \/ \E o : Child(n, o)
           \/ \E k \in Calls : EscalateSignal(k) \/ AbandonSignal(k) \/ AnswerCall(k)
           \/ \E l \in Leaves : UserSettles(l)
           \/ CancelRun \/ UserReturn \/ Machine
    PROVE  Quiet
<1>1. CASE \/ \E n \in Scopes : Use(n) \/ OpenModule(n) \/ Unlink(n)
           \/ \E n \in Scopes : JoinSettled(n) \/ VoidReleased(n) \/ \E o : Child(n, o)
           \/ \E k \in Calls : AbandonSignal(k) \/ AnswerCall(k)
           \/ \E l \in Leaves : UserSettles(l)
  <2>1. UNCHANGED stack
      BY <1>1 DEF Use, OpenModule, Unlink, JoinSettled, VoidReleased, Child, AbandonSignal, AnswerCall,
             UserSettles, SetupFulfil, SetupReject, CleanupFulfil, CleanupReject, turnVars
  <2> QED BY <2>1, QuietCommon
<1>2. CASE UserReturn \/ CloseReturn \/ AwaitSetups \/ AwaitBatch \/ Settle
  <2>1. stack # <<>> /\ stack' = Under
      BY <1>2 DEF UserReturn, SetupReturn, ListenerReturn, CleanupReturn, CleanupThrow, CloseReturn,
             AwaitSetups, AwaitBatch, Settle, On, Idle
  <2> QED BY <2>1, QuietCommon
<1>3. ASSUME NEW n \in Scopes, Setup(n) PROVE Quiet
  <2>1. PICK l : stack' = Append(stack, Frame("setup", l))
      BY <1>3 DEF Setup
  <2>2. PICK f : f = Frame("setup", l)
      OBVIOUS
  <2>3. f.k # "answer" /\ stack' = Append(stack, f)
      BY <2>1, <2>2 DEF Frame
  <2> QED BY <2>3, QuietCommon
<1>4. ASSUME NEW n \in Scopes, Resume(n) PROVE Quiet
  <2>1. PICK f : f = Frame("run", n)
      OBVIOUS
  <2>2. f.k # "answer"
      BY <2>1 DEF Frame
  <2>3. stack' = Append(stack, f)
      BY <1>4, <2>1 DEF Resume, Idle
  <2> QED BY <2>2, <2>3, QuietCommon
<1>5. ASSUME NEW k \in Calls, EscalateSignal(k) PROVE Quiet
  <2>1. PICK f : f = WalkFrame("escalate", call[k].on)
      OBVIOUS
  <2>2. f.k # "answer"
      BY <2>1 DEF WalkFrame
  <2>3. stack' = Append(stack, f) \/ stack' = stack
      BY <1>5, <2>1 DEF EscalateSignal
  <2> QED BY <2>2, <2>3, QuietCommon
<1>6. CASE WalkDone \/ StartFlight
  <2>1. stack # <<>>
      BY <1>6 DEF WalkDone, StartFlight, On, Idle
  <2>2. stack' = Under \/ \E q : stack' = Drained(Under, q)
      BY <1>6 DEF WalkDone, StartFlight
  <2> QED BY <2>1, <2>2, QuietCommon
<1>7. CASE DrainStep
  <2>1. stack # <<>>
      BY <1>7 DEF DrainStep, On, Idle
  <2>2. PICK f : f = Frame("run", Head(starts))
      OBVIOUS
  <2>3. f.k # "answer"
      BY <2>2 DEF Frame
  <2>4. stack' = Under \/ stack' = Append(stack, f)
      BY <1>7, <2>2 DEF DrainStep
  <2> QED BY <2>1, <2>3, <2>4, QuietCommon
<1>8. CASE TakeBatch
  <2>1. stack # <<>> /\ Len(stack) \in Nat \ {0}
      BY <1>8, TopIs DEF TakeBatch
  <2>2. PICK f : stack' = Append(Under, f) /\ f.k # "answer"
    <3>1. PICK b : stack' = Append(Under, [k |-> "batch", n |-> Top.n, left |-> b])
        BY <1>8, Zenon DEF TakeBatch
    <3>2. PICK f : f = [k |-> "batch", n |-> Top.n, left |-> b]
        OBVIOUS
    <3>3. f.k # "answer"
        BY <3>2
    <3> QED BY <3>1, <3>2, <3>3, Zenon
  <2>3. PICK u : u = Under
      OBVIOUS
  <2>4. u \in Seq(ToSet(stack))
      BY <2>1, <2>3, FrontIsBelow DEF TypeOK, Under
  <2>5. stack' = Under \o <<f>> /\ <<f>> \in Seq({f})
      BY <2>2, <2>3, <2>4, AppendIsJoin
  <2>6. Stacks(Len(stack) - 1, {f})
      BY <2>1, <2>5, StackReplace
  <2> QED BY <2>2, <2>6, QuietStacks
<1>9. CASE NotifyVisit \/ CancelVisit \/ EscalateVisit
    BY <1>9, QuietVisit
<1>10. CASE InvokeLeaf \/ InvokeVoid \/ InvokeChild
    BY <1>10, InvokeQuiet
<1>11. CASE CancelRun
    BY <1>11, QuietCancel
<1> QED BY <1>1, <1>2, <1>3, <1>4, <1>5, <1>6, <1>7, <1>8, <1>9, <1>10, <1>11 DEF Machine

\* What every step does to the calls.
LEMMA NextHails == ASSUME Truth, Answers, [Next]_vars PROVE Hailed
<1>1. ASSUME NEW k \in Calls, AnswerCall(k) \/ EscalateSignal(k) \/ AbandonSignal(k) PROVE Hailed
    BY <1>1, SignalHails
<1>2. ASSUME NEW k \in Calls, NEW n \in Scopes, NEW e \in Signals, NEW a \in Signals, Close(k, n, e, a)
      PROVE  Hailed
    BY <1>2, CloseHails
<1>3. CASE Settle
    BY <1>3, SettleHails
<1>4. CASE CloseReturn
    BY <1>4, ReturnHails
<1>5. CASE UNCHANGED call
    BY <1>5, UntouchedHails
<1>6. ASSUME UserReturn \/ CancelRun \/ (\E c \in Scopes : Unlink(c) \/ Resume(c)) PROVE UNCHANGED call
    BY <1>6 DEF UserReturn, SetupReturn, ListenerReturn, CleanupReturn, CleanupThrow, CancelRun, Unlink, Resume
<1>7. ASSUME NEW n \in Scopes, Setup(n) \/ Use(n) \/ OpenModule(n) \/ (\E o : Child(n, o)) PROVE UNCHANGED call
    BY <1>7 DEF Setup, Use, OpenModule, Child
<1>8. ASSUME Machine, ~Settle, ~CloseReturn PROVE UNCHANGED call
    BY <1>8 DEF Machine, NotifyVisit, CancelVisit, EscalateVisit, WalkDone, StartFlight, DrainStep,
           AwaitSetups, TakeBatch, InvokeLeaf, InvokeChild, InvokeVoid, AwaitBatch
<1>9. ASSUME NEW c \in Scopes, JoinSettled(c) \/ VoidReleased(c) PROVE UNCHANGED call
    BY <1>9 DEF JoinSettled, VoidReleased
<1>10. ASSUME NEW l \in Leaves, UserSettles(l) PROVE UNCHANGED call
    BY <1>10 DEF UserSettles, SetupFulfil, SetupReject, CleanupFulfil, CleanupReject
<1>11. ASSUME UNCHANGED vars PROVE UNCHANGED call
    BY <1>11 DEF vars
<1>12. CASE Next
    BY <1>1, <1>2, <1>3, <1>4, <1>5, <1>6, <1>7, <1>8, <1>9, <1>10, <1>12 DEF Next, UserStep, Continuation
<1> QED BY <1>5, <1>11, <1>12

\* And to the replies that wait on the stack.
LEMMA NextReplies ==
    ASSUME Truth, Answers, \A c \in Scopes : detached[c] => detached'[c], [Next]_vars
    PROVE  Replies'
<1>1. Hailed /\ TypeOK /\ Framed
    BY NextHails DEF Truth, Tidying, Lasting, WInv
<1>2. ASSUME NEW k \in Calls, NEW n \in Scopes, NEW e \in Signals, NEW a \in Signals, Close(k, n, e, a)
      PROVE  Replies'
    BY <1>1, <1>2, CloseReplies
<1>3. CASE UNCHANGED vars
  <2>1. UNCHANGED stack
      BY <1>3 DEF vars, turnVars
  <2> QED BY <1>1, <2>1, QuietCommon, QuietReplies
<1>4. ASSUME Quiet PROVE Replies'
    BY <1>1, <1>4, QuietReplies
<1>5. CASE Next
  <2>1. ASSUME \A k \in Calls, n \in Scopes, e, a \in Signals : ~Close(k, n, e, a)
        PROVE  Quiet
      BY <1>1, <1>5, <2>1, StepQuiet DEF Next, UserStep, Continuation
  <2> QED BY <1>2, <1>4, <2>1
<1> QED BY <1>3, <1>5

\* Every step keeps what the callers are told.
LEMMA NextAnswers == ASSUME Truth, Truth', Answers, [Next]_vars PROVE Answers'
<1>1. WInv /\ TypeOK /\ Tidying /\ Lasting /\ TypeOK'
    BY DEF Truth, Tidying, Lasting, WInv
<1>2. Grown /\ TreeInv
    BY <1>1, NextGrows DEF TreeInv, TreeType, TypeOK, Truth
<1>3. TreeStep /\ Refused
    BY <1>2, NextIsTreeStep, NextRefused DEF TreeInv
<1>4. \A c \in Scopes : detached[c] => detached'[c]
    BY <1>3 DEF TreeStep, Registers, TakesSlot, Requests, Departs
<1>5. Entries /\ Steady
    BY <1>1, <1>2, NextSteady
<1>6. Hailed /\ Replies'
    BY <1>4, NextHails, NextReplies
<1>7. ASSUME NEW k \in Calls, call[k].st # "unused" PROVE Honest(k)'
  <2>1. PICK n : n = call[k].on
      OBVIOUS
  <2>2. Honest(k) /\ Told(k) /\ n \in Scopes /\ Created(n) /\ requested[n]
      BY <1>6, <1>7, <2>1 DEF Answers, Hailed, Honest
  <2>3. Created(n)' /\ requested'[n]
      BY <1>2, <2>2, ItemKinds DEF Grown, Created
  <2>4. Paid(n) => Paid(n)'
      BY <1>1, <1>3, <1>5, <2>2, PaidStays DEF Truth, Steady
  <2>5. call'[k].on = n
      BY <2>1, <2>2 DEF Told
  <2>6. call'[k].done = "complete" \/ call'[k].answer = "complete" => detached'[n]
      BY <1>4, <2>1, <2>2 DEF Told, Honest
  <2>7. call'[k].answer = "snapshot-complete" => Paid(n)'
      BY <2>1, <2>2, <2>4 DEF Told, Honest
  <2> QED BY <2>2, <2>3, <2>5, <2>6, <2>7 DEF Honest
<1>8. ASSUME NEW k \in Calls, call[k].st = "unused", call'[k].st # "unused" PROVE Honest(k)'
  <2>1. Made(k)
      BY <1>6, <1>8 DEF Hailed
  <2>2. PICK n : n = call'[k].on
      OBVIOUS
  <2>3. n \in Scopes /\ Created(n)
      BY <2>1, <2>2 DEF Made
  <2>4. Created(n)'
      BY <1>2, <2>3, ItemKinds DEF Grown, Created
  <2> QED BY <2>1, <2>2, <2>3, <2>4 DEF Made, Honest
<1>9. ASSUME NEW k \in Calls, call'[k].answer # "none" PROVE call'[k].st # "unused"
    BY <1>6, <1>9 DEF Answers, Hailed, Told, Made
<1> QED BY <1>6, <1>7, <1>8, <1>9 DEF Answers, Hailed

\* At the start no call was made.
LEMMA InitAnswers == Init => Answers
<1> SUFFICES ASSUME Init PROVE Answers
    OBVIOUS
<1>1. PICK c : c = [on |-> 0, st |-> "unused", done |-> "pending", escalate |-> "absent",
                    abandon |-> "absent", linked |-> FALSE, answer |-> "none"]
    OBVIOUS
<1>2. c \in CallType /\ c.st = "unused" /\ c.answer = "none"
    BY <1>1 DEF CallType, Signals
<1>3. call = [k \in Calls |-> c]
    BY <1>1 DEF Init
<1>4. Answering(stack) = {}
    BY DEF Init, Answering, ToSet
<1> QED BY <1>2, <1>3, <1>4 DEF Answers, Replies

\* Whoever is told that a close is complete closed a scope that left, and whoever
\* is told so by a snapshot one that owes nothing, with the calls that still run.
THEOREM AnswersInvariant == Spec => [](Truth /\ Answers)
<1>1. Truth /\ Answers /\ [Next]_vars => (Truth /\ Answers)'
    BY NextTruth, NextAnswers
<1>2. Init => Truth /\ Answers
    BY InitTruth, InitAnswers
<1> QED BY <1>1, <1>2, PTL DEF Spec

\* A close that was reported complete left nothing unreleased, then or later, in
\* a subtree whose scopes release in reverse.
TameIsTrue ==
    \A k \in Calls :
        call[k].answer \in {"complete", "snapshot-complete"} => Paid(call[k].on)

\* Whoever was told complete, by a flight or by a snapshot, finds nothing
\* unreleased in such a subtree: for any tree, and whoever else abandons, closes
\* or retries.
THEOREM CompleteWhereReverse == Spec => []TameIsTrue
<1>1. Truth /\ Answers => TameIsTrue
    BY DEF Truth, Cleared, Answers, Honest, TameIsTrue
<1> QED BY <1>1, AnswersInvariant, PTL

\* Without the concurrent order every scope releases in reverse.
Backwards == \A n \in Scopes : order[n] = "reverse"

\* In such a program no scope is ever created in the other order.
LEMMA AlwaysBackwards ==
    ASSUME "concurrent" \notin Uses PROVE Spec => [](TypeOK /\ Backwards)
<1>1. Orders = {"reverse"} /\ ChildOrders = {"reverse"}
    BY DEF Orders, ChildOrders
<1>2. ASSUME TypeOK, Backwards, [Next]_vars PROVE Backwards'
  <2>1. ASSUME NEW n \in Scopes, NEW o \in ChildOrders, Child(n, o) PROVE Backwards'
    <3>1. PICK c \in NextScope : order' = [order EXCEPT ![c] = o] /\ o = "reverse"
        BY <1>1, <2>1 DEF Child, Construct
    <3> QED BY <1>2, <3>1 DEF Backwards, TypeOK
  <2>2. ASSUME NEW n \in Scopes, OpenModule(n) PROVE Backwards'
    <3>1. PICK c \in NextScope : order' = [order EXCEPT ![c] = "reverse"]
        BY <2>2 DEF OpenModule, Construct
    <3> QED BY <1>2, <3>1 DEF Backwards, TypeOK
  <2>3. CASE UNCHANGED order
      BY <1>2, <2>3 DEF Backwards
  <2>4. ASSUME UNCHANGED vars PROVE UNCHANGED order
      BY <2>4 DEF vars, treeVars
  <2>5. ASSUME UserReturn \/ CancelRun \/ (\E c \in Scopes : Unlink(c) \/ Resume(c)) PROVE UNCHANGED order
      BY <2>5 DEF UserReturn, SetupReturn, ListenerReturn, CleanupReturn, CleanupThrow, CancelRun, Unlink,
             Resume, treeVars
  <2>6. ASSUME NEW n \in Scopes, Setup(n) \/ Use(n) PROVE UNCHANGED order
      BY <2>6 DEF Setup, Use
  <2>7. ASSUME Machine PROVE UNCHANGED order
      BY <2>7 DEF Machine, NotifyVisit, CancelVisit, EscalateVisit, WalkDone, StartFlight, DrainStep,
             AwaitSetups, TakeBatch, InvokeLeaf, InvokeChild, InvokeVoid, AwaitBatch, Settle, CloseReturn,
             treeVars
  <2>8. ASSUME NEW k \in Calls, \/ AnswerCall(k) \/ EscalateSignal(k) \/ AbandonSignal(k)
                                \/ \E n \in Scopes, e, a \in Signals : Close(k, n, e, a)
        PROVE  UNCHANGED order
      BY <2>8 DEF AnswerCall, EscalateSignal, AbandonSignal, Close, treeVars
  <2>9. ASSUME NEW c \in Scopes, JoinSettled(c) \/ VoidReleased(c) PROVE UNCHANGED order
      BY <2>9 DEF JoinSettled, VoidReleased, treeVars
  <2>10. ASSUME NEW l \in Leaves, UserSettles(l) PROVE UNCHANGED order
      BY <2>10 DEF UserSettles, SetupFulfil, SetupReject, CleanupFulfil, CleanupReject, treeVars
  <2>11. CASE Next
      BY <2>1, <2>2, <2>3, <2>5, <2>6, <2>7, <2>8, <2>9, <2>10, <2>11 DEF Next, UserStep, Continuation
  <2> QED BY <1>2, <2>3, <2>4, <2>11
<1>3. Init => Backwards
  <2>1. ASSUME Init PROVE Backwards
    <3>1. PICK o \in Orders : order = [n \in Scopes |-> IF n = Root THEN o ELSE "reverse"]
        BY <2>1 DEF Init
    <3> QED BY <1>1, <3>1 DEF Backwards
  <2> QED BY <2>1
<1>4. Truth => TypeOK
    BY DEF Truth, Tidying, Lasting, WInv
<1> QED BY <1>2, <1>3, <1>4, TruthInvariant, PTL DEF Spec

\* Where user code chooses no concurrent order, a caller that was told complete,
\* by a flight or by a snapshot, finds nothing unreleased in the subtree that it
\* closed, then or later.
THEOREM CompleteHolds ==
    ASSUME "concurrent" \notin Uses PROVE Spec => []CompleteIsTrue
<1>1. Truth /\ Answers /\ TameIsTrue /\ TypeOK /\ Backwards => CompleteIsTrue
  <2>1. SUFFICES ASSUME TypeOK, Answers, TameIsTrue, Backwards, NEW k \in Calls,
                        call[k].answer \in {"complete", "snapshot-complete"}
                 PROVE  Unreleased(call[k].on) = {}
      BY DEF CompleteIsTrue
  <2>2. call[k].on \in Scopes /\ Paid(call[k].on)
      BY <2>1 DEF Answers, Honest, TameIsTrue
  <2>3. Tame(call[k].on)
      BY <2>1, <2>2, BelowIs DEF Backwards, Tame
  <2> QED BY <2>2, <2>3 DEF Paid
<1> QED BY <1>1, AnswersInvariant, CompleteWhereReverse, AlwaysBackwards, PTL
================================================================================
