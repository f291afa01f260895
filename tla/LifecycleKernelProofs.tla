------------------------- MODULE LifecycleKernelProofs -------------------------
(***************************************************************************)
(* Theorems about the lifecycle kernel, for any generations and any finite *)
(* set of leases.                                                          *)
(***************************************************************************)
EXTENDS LifecycleKernel, FiniteSetTheorems, TLAPS

\* A lease that this kernel issued belongs to a generation of this kernel, and
\* only an issued lease can have been released.
Issued ==
    \A l \in Leases :
        IF kind[l] = "foreign" THEN ~released[l]
        ELSE generation[l] \in Generations /\ phase[generation[l]] # "foreign"

\* The inductive invariant: with the counters exact, finishRetirement cannot
\* find a generation idle that still has an unreleased lease.
IInv == TypeOK /\ Issued /\ Accounted /\ RetiredIsIdle

\* The sets of unreleased leases are finite, so their counts are numbers.
LEMMA HeldFinite ==
    ASSUME NEW g \in Generations, NEW k
    PROVE  IsFiniteSet(Unreleased(g)) /\ IsFiniteSet(OfKind(k, g))
<1>1. Unreleased(g) \subseteq Leases /\ OfKind(k, g) \subseteq Leases
    BY DEF Unreleased, OfKind
<1> QED BY <1>1, FS_Subset, KernelAssumption

\* A generation with both counters at zero has no unreleased lease.
LEMMA IdleHoldsNothing ==
    ASSUME TypeOK, Accounted, NEW g \in Generations, Idle(g)
    PROVE  Unreleased(g) = {}
<1>1. Cardinality(OfKind("call", g)) = 0 /\ Cardinality(OfKind("custody", g)) = 0
    BY DEF Accounted, Idle
<1>2. OfKind("call", g) = {} /\ OfKind("custody", g) = {}
    BY <1>1, HeldFinite, FS_EmptySet
<1>3. \A l \in Unreleased(g) : kind[l] \in Kinds
    BY DEF Unreleased, TypeOK
<1> QED BY <1>2, <1>3 DEF OfKind, Kinds

\* An operation that leaves the leases and the counters alone keeps the counts.
LEMMA PhaseOnly ==
    ASSUME IInv, UNCHANGED <<calls, custody, leaseVars>>
    PROVE  /\ Accounted'
           /\ \A g \in Generations : Unreleased(g)' = Unreleased(g)
BY DEF IInv, Accounted, Unreleased, OfKind, leaseVars

\* A refused operation changes nothing but its reply.
LEMMA Untouched == ASSUME IInv, UNCHANGED <<recordVars, leaseVars>> PROVE IInv'
BY DEF IInv, TypeOK, Issued, Accounted, RetiredIsIdle, Unreleased, OfKind,
       recordVars, leaseVars

\* The shape of every operation that moves one generation.
LEMMA ChangeInv ==
    ASSUME IInv, NEW g \in Generations, NEW op, NEW from \in SUBSET Phases, NEW to \in Phases,
           NEW again, Change(op, g, from, to, again),
           to = "retired" => (phase[g] \in from => Unreleased(g) = {})
    PROVE  IInv'
<1>1. TypeOK'
    BY DEF IInv, Change, TypeOK, leaseVars
<1>2. Issued'
    BY DEF IInv, Change, Issued, TypeOK, leaseVars, Phases
<1>3. Accounted' /\ \A h \in Generations : Unreleased(h)' = Unreleased(h)
    BY PhaseOnly DEF Change
<1>4. RetiredIsIdle'
    BY <1>3 DEF IInv, RetiredIsIdle, Change, TypeOK
<1> QED BY <1>1, <1>2, <1>3, <1>4 DEF IInv

\* Staging makes a foreign token a generation without leases.
LEMMA StageInv == ASSUME IInv, NEW g \in Generations, Stage(g) PROVE IInv'
<1>1. TypeOK'
    BY DEF IInv, Stage, TypeOK, leaseVars, Phases
<1>2. Issued'
    BY DEF IInv, Stage, Issued, TypeOK, leaseVars
<1>3. Accounted' /\ \A h \in Generations : Unreleased(h)' = Unreleased(h)
    BY PhaseOnly DEF Stage
<1>4. RetiredIsIdle'
    BY <1>3 DEF IInv, RetiredIsIdle, Stage, TypeOK
<1> QED BY <1>1, <1>2, <1>3, <1>4 DEF IInv

\* An issue adds exactly the new lease to the ones its generation holds.
LEMMA AdmitInv ==
    ASSUME IInv, NEW g \in Generations, NEW l \in Leases, NEW op, NEW k \in Kinds,
           Admit(op, k, g, l)
    PROVE  IInv'
<1>1. CASE phase[g] \notin Admitting(k)
    <2>1. UNCHANGED <<recordVars, leaseVars>>
        BY <1>1 DEF Admit
    <2> QED BY <2>1, Untouched
<1>2. CASE phase[g] \in Admitting(k)
    <2>1. /\ kind[l] = "foreign"
          /\ kind' = [kind EXCEPT ![l] = k]
          /\ generation' = [generation EXCEPT ![l] = g]
          /\ calls' = Bump(calls, "call", k, g, 1)
          /\ custody' = Bump(custody, "custody", k, g, 1)
          /\ UNCHANGED <<phase, released>>
        BY <1>2 DEF Admit, Count
    <2>2. phase[g] \in {"staged", "active"}
        BY <1>2 DEF Admitting
    <2>3. TypeOK'
        BY <2>1 DEF IInv, TypeOK, Bump, Kinds
    <2>4. Issued'
        BY <2>1, <2>2 DEF IInv, Issued, TypeOK, Kinds
    <2>5. ~released[l]
        BY <2>1 DEF IInv, Issued
    <2>6. \A h \in Generations : \A j \in Kinds :
             OfKind(j, h)' = IF h = g /\ j = k THEN OfKind(j, h) \cup {l} ELSE OfKind(j, h)
        BY <2>1, <2>5 DEF IInv, TypeOK, OfKind, Unreleased, Kinds
    <2>7. l \notin OfKind(k, g)
        BY <2>1 DEF OfKind, Unreleased
    <2>8. Cardinality(OfKind(k, g) \cup {l}) = Cardinality(OfKind(k, g)) + 1
        BY <2>7, HeldFinite, FS_AddElement
    <2>9. Accounted'
        <3> SUFFICES ASSUME NEW h \in Generations
                     PROVE  /\ calls'[h] = Cardinality(OfKind("call", h)')
                            /\ custody'[h] = Cardinality(OfKind("custody", h)')
            BY DEF Accounted
        <3>1. /\ calls[h] = Cardinality(OfKind("call", h)) /\ calls \in [Generations -> Nat]
              /\ custody[h] = Cardinality(OfKind("custody", h)) /\ custody \in [Generations -> Nat]
            BY DEF IInv, Accounted, TypeOK
        <3>2. CASE k = "call"
            BY <2>1, <2>6, <2>8, <3>1, <3>2 DEF Bump, Kinds
        <3>3. CASE k = "custody"
            BY <2>1, <2>6, <2>8, <3>1, <3>3 DEF Bump, Kinds
        <3> QED BY <3>2, <3>3 DEF Kinds
    <2>10. RetiredIsIdle'
        <3>1. \A h \in Generations \ {g} : Unreleased(h)' = Unreleased(h)
            BY <2>1 DEF IInv, TypeOK, Unreleased
        <3> QED BY <2>1, <2>2, <3>1 DEF IInv, RetiredIsIdle
    <2> QED BY <2>3, <2>4, <2>9, <2>10 DEF IInv
<1> QED BY <1>1, <1>2

\* A release takes exactly the lease away, once.
LEMMA ReleaseInv == ASSUME IInv, NEW l \in Leases, Release(l) PROVE IInv'
<1>1. CASE ~Held(l)
    <2>1. UNCHANGED <<recordVars, leaseVars>>
        BY <1>1 DEF Release
    <2> QED BY <2>1, Untouched
<1>2. CASE Held(l)
    <2> DEFINE g == generation[l]
               k == kind[l]
    <2>1. /\ released' = [released EXCEPT ![l] = TRUE]
          /\ calls' = Bump(calls, "call", k, g, -1)
          /\ custody' = Bump(custody, "custody", k, g, -1)
          /\ UNCHANGED <<phase, kind, generation>>
        BY <1>2 DEF Release, Count
    <2>2. g \in Generations /\ k \in Kinds
        BY <1>2 DEF IInv, Issued, Held, TypeOK
    <2>3. l \in OfKind(k, g)
        BY <1>2, <2>2 DEF OfKind, Unreleased, Held
    <2>4. \A h \in Generations : \A j \in Kinds :
             OfKind(j, h)' = IF h = g /\ j = k THEN OfKind(j, h) \ {l} ELSE OfKind(j, h)
        BY <2>1 DEF IInv, TypeOK, OfKind, Unreleased
    <2>5. /\ Cardinality(OfKind(k, g) \ {l}) = Cardinality(OfKind(k, g)) - 1
          /\ Cardinality(OfKind(k, g)) \in Nat
        BY <2>2, <2>3, HeldFinite, FS_RemoveElement, FS_CardinalityType
    <2>6. Cardinality(OfKind(k, g)) > 0
        BY <2>2, <2>3, <2>5, HeldFinite, FS_EmptySet
    <2> HIDE DEF g, k
    <2>7. TypeOK' /\ Accounted'
        <3>1. \A h \in Generations :
                 /\ calls[h] = Cardinality(OfKind("call", h))
                 /\ custody[h] = Cardinality(OfKind("custody", h))
            BY DEF IInv, Accounted
        <3>2. calls \in [Generations -> Nat] /\ custody \in [Generations -> Nat]
            BY DEF IInv, TypeOK
        <3>3. CASE k = "call"
            <4>1. calls' = [calls EXCEPT ![g] = @ - 1] /\ custody' = custody
                BY <2>1, <3>3, <3>2, <2>2 DEF Bump
            <4>2. calls' \in [Generations -> Nat]
                BY <4>1, <3>1, <3>2, <2>2, <2>5, <2>6, <3>3
            <4>3. Accounted'
                BY <4>1, <3>1, <3>2, <2>2, <2>4, <2>5, <3>3 DEF Accounted, Kinds
            <4> QED BY <4>1, <4>2, <4>3, <2>1 DEF IInv, TypeOK
        <3>4. CASE k = "custody"
            <4>1. custody' = [custody EXCEPT ![g] = @ - 1] /\ calls' = calls
                BY <2>1, <3>4, <3>2, <2>2 DEF Bump
            <4>2. custody' \in [Generations -> Nat]
                BY <4>1, <3>1, <3>2, <2>2, <2>5, <2>6, <3>4
            <4>3. Accounted'
                BY <4>1, <3>1, <3>2, <2>2, <2>4, <2>5, <3>4 DEF Accounted, Kinds
            <4> QED BY <4>1, <4>2, <4>3, <2>1 DEF IInv, TypeOK
        <3> QED BY <2>2, <3>3, <3>4 DEF Kinds
    <2>8. Issued'
        BY <1>2, <2>1 DEF IInv, Issued, TypeOK, Held
    <2>9. RetiredIsIdle'
        <3>1. \A h \in Generations : Unreleased(h)' \subseteq Unreleased(h)
            BY <2>1 DEF IInv, TypeOK, Unreleased
        <3> QED BY <2>1, <3>1 DEF IInv, RetiredIsIdle
    <2> QED BY <2>7, <2>8, <2>9 DEF IInv
<1> QED BY <1>1, <1>2

\* Every step of the kernel keeps the inductive invariant.
LEMMA NextInv == ASSUME IInv, Next PROVE IInv'
<1>1. ASSUME NEW g \in Generations, Stage(g) PROVE IInv'
    BY <1>1, StageInv
<1>2. ASSUME NEW g \in Generations, Activate(g) PROVE IInv'
    BY <1>2, ChangeInv DEF Activate, Phases
<1>3. ASSUME NEW g \in Generations, Quiesce(g) PROVE IInv'
    BY <1>3, ChangeInv DEF Quiesce, Phases
<1>4. ASSUME NEW g \in Generations, Resume(g) PROVE IInv'
    BY <1>4, ChangeInv DEF Resume, Phases
<1>5. ASSUME NEW g \in Generations, Retire(g) PROVE IInv'
    BY <1>5, ChangeInv DEF Retire, Phases
<1>6. ASSUME NEW g \in Generations, FinishRetirement(g) PROVE IInv'
    <2>1. CASE phase[g] = "retiring" /\ ~Idle(g)
        <3>1. UNCHANGED <<recordVars, leaseVars>>
            BY <1>6, <2>1 DEF FinishRetirement
        <3> QED BY <3>1, Untouched
    <2>2. CASE ~(phase[g] = "retiring" /\ ~Idle(g))
        <3>1. Change("finishRetirement", g, {"retiring"}, "retired", {"retired"})
            BY <1>6, <2>2 DEF FinishRetirement
        <3>2. phase[g] \in {"retiring"} => Unreleased(g) = {}
            BY <2>2, IdleHoldsNothing DEF IInv
        <3> QED BY <3>1, <3>2, ChangeInv DEF Phases
    <2> QED BY <2>1, <2>2
<1>7. ASSUME NEW g \in Generations, NEW l \in Leases, BeginCall(g, l) PROVE IInv'
    BY <1>7, AdmitInv DEF BeginCall, Kinds
<1>8. ASSUME NEW g \in Generations, NEW l \in Leases, RetainCustody(g, l) PROVE IInv'
    BY <1>8, AdmitInv DEF RetainCustody, Kinds
<1>9. ASSUME NEW l \in Leases, CheckCall(l) PROVE IInv'
    BY <1>9, Untouched DEF CheckCall
<1>10. ASSUME NEW l \in Leases, Release(l) PROVE IInv'
    BY <1>10, ReleaseInv
<1> QED BY <1>1, <1>2, <1>3, <1>4, <1>5, <1>6, <1>7, <1>8, <1>9, <1>10 DEF Next

LEMMA InitInv == Init => IInv
<1> SUFFICES ASSUME Init PROVE IInv
    OBVIOUS
<1>1. TypeOK /\ Issued /\ RetiredIsIdle
    BY DEF Init, TypeOK, Issued, RetiredIsIdle, Phases
<1>2. \A g \in Generations, k \in Kinds : OfKind(k, g) = {}
    BY DEF Init, OfKind, Unreleased
<1>3. Accounted
    BY <1>2, FS_EmptySet DEF Init, Accounted, Kinds
<1> QED BY <1>1, <1>3 DEF IInv

\* The inductive invariant holds in every reachable state.
THEOREM KernelInvariant == Spec => []IInv
<1>1. Init => IInv
    BY InitInv
<1>2. IInv /\ [Next]_vars => IInv'
    <2> SUFFICES ASSUME IInv, [Next]_vars PROVE IInv'
        OBVIOUS
    <2>1. CASE Next
        BY <2>1, NextInv
    <2>2. CASE UNCHANGED vars
        BY <2>2, Untouched DEF vars
    <2> QED BY <2>1, <2>2
<1> QED BY <1>1, <1>2, PTL DEF Spec

\* The kernel's values have their types for every set of generations and leases.
THEOREM TypeCorrect == Spec => []TypeOK
<1>1. IInv => TypeOK
    BY DEF IInv
<1> QED BY <1>1, KernelInvariant, PTL

\* The counters are exact: held leases count until their explicit release.
THEOREM AccountedAlways == Spec => []Accounted
<1>1. IInv => Accounted
    BY DEF IInv
<1> QED BY <1>1, KernelInvariant, PTL

\* A retired generation retains nothing.
THEOREM RetirementIsIdle == Spec => []RetiredIsIdle
<1>1. IInv => RetiredIsIdle
    BY DEF IInv
<1> QED BY <1>1, KernelInvariant, PTL
-----------------------------------------------------------------------------
(* What a step may never do.                                               *)

Revocation ==
    \A g \in Generations : Revoked(g) =>
        /\ Revoked(g)'
        /\ Unreleased(g)' \subseteq Unreleased(g)
        /\ \A l \in Unreleased(g) : CallVerdict(l)' # "admitted"

\* Only its generation and its phase decide whether an issued lease is admitted.
LEMMA RevokedVerdict ==
    ASSUME NEW g \in Generations, NEW l \in Leases, Revoked(g)', generation'[l] = g
    PROVE  CallVerdict(l)' # "admitted"
BY DEF CallVerdict, Revoked

\* Steps that keep every lease and never lead a generation out of revocation.
LEMMA RevocationKept ==
    ASSUME IInv, UNCHANGED leaseVars, \A g \in Generations : Revoked(g) => Revoked(g)'
    PROVE  Revocation
<1>1. \A g \in Generations : Unreleased(g)' = Unreleased(g)
    BY DEF Unreleased, leaseVars
<1>2. \A g \in Generations : \A l \in Unreleased(g) : l \in Leases /\ generation'[l] = g
    BY DEF Unreleased, leaseVars
<1> QED BY <1>1, <1>2, RevokedVerdict DEF Revocation

LEMMA ChangeRevocation ==
    ASSUME IInv, NEW g \in Generations, NEW op, NEW from, NEW to, NEW again,
           Change(op, g, from, to, again),
           to \in {"retiring", "retired"} \/ from \cap {"retiring", "retired"} = {}
    PROVE  Revocation
<1>1. \A h \in Generations : Revoked(h) => Revoked(h)'
    BY DEF Change, Revoked, IInv, TypeOK
<1> QED BY <1>1, RevocationKept DEF Change

LEMMA AdmitRevocation ==
    ASSUME IInv, NEW g \in Generations, NEW l \in Leases, NEW op, NEW k \in Kinds,
           Admit(op, k, g, l)
    PROVE  Revocation
<1>1. CASE phase[g] \notin Admitting(k)
    BY <1>1, RevocationKept DEF Admit, recordVars, Revoked
<1>2. CASE phase[g] \in Admitting(k)
    <2>1. ~Revoked(g)
        BY <1>2 DEF Admitting, Revoked
    <2>2. kind[l] = "foreign" /\ phase' = phase /\ released' = released
          /\ kind' = [kind EXCEPT ![l] = k] /\ generation' = [generation EXCEPT ![l] = g]
        BY <1>2 DEF Admit
    <2> SUFFICES ASSUME NEW h \in Generations, Revoked(h)
                 PROVE  /\ Revoked(h)'
                        /\ Unreleased(h)' \subseteq Unreleased(h)
                        /\ \A j \in Unreleased(h) : CallVerdict(j)' # "admitted"
        BY DEF Revocation
    <2>3. Revoked(h)' /\ h # g
        BY <2>1, <2>2 DEF Revoked
    <2>4. Unreleased(h)' = Unreleased(h)
        BY <2>2, <2>3 DEF IInv, TypeOK, Unreleased
    <2>5. \A j \in Unreleased(h) : j \in Leases /\ generation'[j] = h
        BY <2>2 DEF IInv, TypeOK, Unreleased
    <2> QED BY <2>3, <2>4, <2>5, RevokedVerdict
<1> QED BY <1>1, <1>2

LEMMA ReleaseRevocation ==
    ASSUME IInv, NEW l \in Leases, Release(l) PROVE Revocation
<1>1. phase' = phase /\ generation' = generation /\ kind' = kind
      /\ (released' = released \/ released' = [released EXCEPT ![l] = TRUE])
    BY DEF Release, recordVars, leaseVars
<1>2. \A h \in Generations : Unreleased(h)' \subseteq Unreleased(h)
    BY <1>1 DEF IInv, TypeOK, Unreleased
<1>3. \A h \in Generations : Revoked(h) => Revoked(h)'
    BY <1>1 DEF Revoked
<1>4. \A h \in Generations : \A j \in Unreleased(h) : j \in Leases /\ generation'[j] = h
    BY <1>1 DEF Unreleased
<1> QED BY <1>2, <1>3, <1>4, RevokedVerdict DEF Revocation

\* Revocation is for good: no step of the kernel leads out of it, issues a lease
\* under it or admits a call that it revoked.
THEOREM RevocationIsForGood == Spec => RevokedForGood
<1>1. IInv /\ [Next]_vars => [Revocation]_vars
    <2> SUFFICES ASSUME IInv, Next PROVE Revocation
        OBVIOUS
    <2>1. ASSUME NEW g \in Generations, Stage(g) PROVE Revocation
        <3>1. \A h \in Generations : Revoked(h) => Revoked(h)'
            BY <2>1 DEF Stage, Revoked, IInv, TypeOK
        <3> QED BY <2>1, <3>1, RevocationKept DEF Stage
    <2>2. ASSUME NEW g \in Generations, Activate(g) \/ Quiesce(g) \/ Resume(g) PROVE Revocation
        BY <2>2, ChangeRevocation DEF Activate, Quiesce, Resume
    <2>3. ASSUME NEW g \in Generations, Retire(g) PROVE Revocation
        BY <2>3, ChangeRevocation DEF Retire
    <2>4. ASSUME NEW g \in Generations, FinishRetirement(g) PROVE Revocation
        <3>1. CASE phase[g] = "retiring" /\ ~Idle(g)
            BY <2>4, <3>1, RevocationKept DEF FinishRetirement, recordVars, Revoked
        <3>2. CASE ~(phase[g] = "retiring" /\ ~Idle(g))
            BY <2>4, <3>2, ChangeRevocation DEF FinishRetirement
        <3> QED BY <3>1, <3>2
    <2>5. ASSUME NEW g \in Generations, NEW l \in Leases,
                 BeginCall(g, l) \/ RetainCustody(g, l)
          PROVE  Revocation
        BY <2>5, AdmitRevocation DEF BeginCall, RetainCustody, Kinds
    <2>6. ASSUME NEW l \in Leases, CheckCall(l) PROVE Revocation
        BY <2>6, RevocationKept DEF CheckCall, recordVars, Revoked
    <2>7. ASSUME NEW l \in Leases, Release(l) PROVE Revocation
        BY <2>7, ReleaseRevocation
    <2> QED BY <2>1, <2>2, <2>3, <2>4, <2>5, <2>6, <2>7 DEF Next
<1> QED BY <1>1, KernelInvariant, PTL DEF Spec, RevokedForGood, Revocation
-----------------------------------------------------------------------------
(* The kernel implements the retention contract.                           *)

StageMap == [g \in Generations |-> StageOf(phase[g])]
HeldMap == [g \in Generations |-> Unreleased(g)]

\* A step that keeps the leases and moves at most one generation.
LEMMA MoveImplements ==
    ASSUME IInv, NEW g \in Generations, UNCHANGED leaseVars, NEW p \in Phases \cup {"foreign"},
           phase' = [phase EXCEPT ![g] = p]
    PROVE  /\ StageMap' = [StageMap EXCEPT ![g] = StageOf(p)]
           /\ HeldMap' = HeldMap
           /\ StageMap[g] = StageOf(phase[g])
BY DEF StageMap, HeldMap, Unreleased, leaseVars, IInv, TypeOK

LEMMA StillImplements ==
    ASSUME UNCHANGED <<phase, leaseVars>> PROVE StageMap' = StageMap /\ HeldMap' = HeldMap
BY DEF StageMap, HeldMap, Unreleased, leaseVars

\* One generation moves as the contract lets it move, or nothing changes.
LEMMA ChangeImplements ==
    ASSUME IInv, NEW g \in Generations, NEW op, NEW from \in SUBSET Phases, NEW to \in Phases,
           NEW again, Change(op, g, from, to, again),
           \A p \in from : \/ StageOf(p) = StageOf(to)
                           \/ StageOf(p) = "open" /\ StageOf(to) = "shut"
                           \/ StageOf(p) = "shut" /\ StageOf(to) = "open"
                           \/ StageOf(p) \in {"open", "shut"} /\ StageOf(to) = "revoked"
                           \/ StageOf(p) = "revoked" /\ StageOf(to) = "finished"
                              /\ Unreleased(g) = {}
    PROVE  Contract!Next \/ UNCHANGED <<StageMap, HeldMap>>
<1>1. CASE phase[g] \notin from
    BY <1>1, StillImplements DEF Change
<1>2. CASE phase[g] \in from
    <2>1. /\ StageMap' = [StageMap EXCEPT ![g] = StageOf(to)]
          /\ HeldMap' = HeldMap
          /\ StageMap[g] = StageOf(phase[g])
        BY <1>2, MoveImplements DEF Change
    <2>2. HeldMap[g] = Unreleased(g)
        BY DEF HeldMap
    <2>3. StageMap = [h \in Generations |-> StageMap[h]]
        BY DEF StageMap
    <2>4. CASE StageOf(phase[g]) = StageOf(to)
        BY <2>1, <2>3, <2>4
    <2>5. CASE StageOf(phase[g]) = "open" /\ StageOf(to) = "shut"
        <3>1. Contract!Shut(g)
            BY <2>1, <2>5 DEF Contract!Shut, Contract!Move, StageMap, HeldMap
        <3> QED BY <3>1 DEF Contract!Next
    <2>6. CASE StageOf(phase[g]) = "shut" /\ StageOf(to) = "open"
        <3>1. Contract!Reopen(g)
            BY <2>1, <2>6 DEF Contract!Reopen, Contract!Move, StageMap, HeldMap
        <3> QED BY <3>1 DEF Contract!Next
    <2>7. CASE StageOf(phase[g]) \in {"open", "shut"} /\ StageOf(to) = "revoked"
        <3>1. Contract!Revoke(g)
            BY <2>1, <2>7 DEF Contract!Revoke, Contract!Move, StageMap, HeldMap
        <3> QED BY <3>1 DEF Contract!Next
    <2>8. CASE /\ StageOf(phase[g]) = "revoked" /\ StageOf(to) = "finished"
               /\ Unreleased(g) = {}
        <3>1. Contract!Finish(g)
            BY <2>1, <2>2, <2>8 DEF Contract!Finish, Contract!Move, StageMap, HeldMap
        <3> QED BY <3>1 DEF Contract!Next
    <2> QED BY <1>2, <2>4, <2>5, <2>6, <2>7, <2>8
<1> QED BY <1>1, <1>2

LEMMA AdmitImplements ==
    ASSUME IInv, NEW g \in Generations, NEW l \in Leases, NEW op, NEW k \in Kinds,
           Admit(op, k, g, l)
    PROVE  Contract!Next \/ UNCHANGED <<StageMap, HeldMap>>
<1>1. CASE phase[g] \notin Admitting(k)
    BY <1>1, StillImplements DEF Admit, recordVars
<1>2. CASE phase[g] \in Admitting(k)
    <2>1. kind[l] = "foreign" /\ phase' = phase /\ released' = released
          /\ kind' = [kind EXCEPT ![l] = k] /\ generation' = [generation EXCEPT ![l] = g]
        BY <1>2 DEF Admit
    <2>2. StageMap[g] = "open" /\ StageMap' = StageMap
        BY <1>2, <2>1 DEF Admitting, StageMap, StageOf
    <2>3. \A h \in Generations : l \notin HeldMap[h]
        BY <2>1 DEF HeldMap, Unreleased
    <2>4. ~released[l]
        BY <2>1 DEF IInv, Issued
    <2>5. \A h \in Generations :
             Unreleased(h)' = IF h = g THEN Unreleased(h) \cup {l} ELSE Unreleased(h)
        BY <2>1, <2>4 DEF IInv, TypeOK, Unreleased, Kinds
    <2>6. HeldMap' = [HeldMap EXCEPT ![g] = @ \cup {l}]
        BY <2>5 DEF HeldMap
    <2>7. Contract!Admit(g, l)
        BY <2>2, <2>3, <2>6 DEF Contract!Admit, StageMap, HeldMap
    <2> QED BY <2>7 DEF Contract!Next
<1> QED BY <1>1, <1>2

LEMMA ReleaseImplements ==
    ASSUME IInv, NEW l \in Leases, Release(l)
    PROVE  Contract!Next \/ UNCHANGED <<StageMap, HeldMap>>
<1>1. CASE ~Held(l)
    BY <1>1, StillImplements DEF Release, recordVars
<1>2. CASE Held(l)
    <2>1. released' = [released EXCEPT ![l] = TRUE] /\ UNCHANGED <<phase, kind, generation>>
        BY <1>2 DEF Release
    <2>2. generation[l] \in Generations
        BY <1>2 DEF IInv, Issued, Held
    <2>3. \A h \in Generations :
             Unreleased(h)' = IF h = generation[l] THEN Unreleased(h) \ {l} ELSE Unreleased(h)
        BY <2>1 DEF IInv, TypeOK, Unreleased
    <2>4. HeldMap' = [HeldMap EXCEPT ![generation[l]] = @ \ {l}]
        BY <2>3 DEF HeldMap
    <2>5. l \in HeldMap[generation[l]]
        BY <1>2, <2>2 DEF HeldMap, Unreleased, Held
    <2>6. Contract!Drop(generation[l], l)
        BY <2>1, <2>4, <2>5 DEF Contract!Drop, StageMap, HeldMap
    <2> QED BY <2>2, <2>6 DEF Contract!Next
<1> QED BY <1>1, <1>2

LEMMA StepImplements ==
    ASSUME IInv, Next PROVE Contract!Next \/ UNCHANGED <<StageMap, HeldMap>>
<1>1. ASSUME NEW g \in Generations, Stage(g)
      PROVE  Contract!Next \/ UNCHANGED <<StageMap, HeldMap>>
    <2>1. /\ StageMap' = [StageMap EXCEPT ![g] = StageOf("staged")]
          /\ HeldMap' = HeldMap /\ StageMap[g] = StageOf("foreign")
        BY <1>1, MoveImplements DEF Stage, Phases
    <2>2. Contract!Stage(g)
        BY <2>1 DEF Contract!Stage, Contract!Move, StageMap, HeldMap, StageOf
    <2> QED BY <2>2 DEF Contract!Next
<1>2. ASSUME NEW g \in Generations, Activate(g) \/ Quiesce(g) \/ Resume(g) \/ Retire(g)
      PROVE  Contract!Next \/ UNCHANGED <<StageMap, HeldMap>>
    <2>1. CASE Activate(g)
        BY <2>1, ChangeImplements DEF Activate, Phases, StageOf
    <2>2. CASE Quiesce(g)
        BY <2>2, ChangeImplements DEF Quiesce, Phases, StageOf
    <2>3. CASE Resume(g)
        BY <2>3, ChangeImplements DEF Resume, Phases, StageOf
    <2>4. CASE Retire(g)
        BY <2>4, ChangeImplements DEF Retire, Phases, StageOf
    <2> QED BY <1>2, <2>1, <2>2, <2>3, <2>4
<1>3. ASSUME NEW g \in Generations, FinishRetirement(g)
      PROVE  Contract!Next \/ UNCHANGED <<StageMap, HeldMap>>
    <2>1. CASE phase[g] = "retiring" /\ ~Idle(g)
        BY <1>3, <2>1, StillImplements DEF FinishRetirement, recordVars
    <2>2. CASE phase[g] = "retiring" /\ Idle(g)
        <3>1. Unreleased(g) = {}
            BY <2>2, IdleHoldsNothing DEF IInv
        <3>2. Change("finishRetirement", g, {"retiring"}, "retired", {"retired"})
            BY <1>3, <2>2 DEF FinishRetirement
        <3> QED BY <3>1, <3>2, ChangeImplements DEF Phases, StageOf
    <2>3. CASE phase[g] # "retiring"
        BY <1>3, <2>3, StillImplements DEF FinishRetirement, Change
    <2> QED BY <2>1, <2>2, <2>3
<1>4. ASSUME NEW g \in Generations, NEW l \in Leases, BeginCall(g, l) \/ RetainCustody(g, l)
      PROVE  Contract!Next \/ UNCHANGED <<StageMap, HeldMap>>
    BY <1>4, AdmitImplements DEF BeginCall, RetainCustody, Kinds
<1>5. ASSUME NEW l \in Leases, CheckCall(l)
      PROVE  Contract!Next \/ UNCHANGED <<StageMap, HeldMap>>
    BY <1>5, StillImplements DEF CheckCall, recordVars
<1>6. ASSUME NEW l \in Leases, Release(l)
      PROVE  Contract!Next \/ UNCHANGED <<StageMap, HeldMap>>
    BY <1>6, ReleaseImplements
<1> QED BY <1>1, <1>2, <1>3, <1>4, <1>5, <1>6 DEF Next

\* Every behaviour of the kernel is one of the retention contract: what its
\* counters decide is what the sets of held leases would.
THEOREM KernelImplementsContract == Spec => Retention
<1>1. Init => Contract!Init
    BY DEF Init, Contract!Init, StageOf, Unreleased
<1>2. IInv /\ [Next]_vars => [Contract!Next]_(Contract!vars)
    <2>1. ASSUME IInv, Next PROVE Contract!Next \/ UNCHANGED Contract!vars
        BY <2>1, StepImplements DEF Contract!vars, StageMap, HeldMap
    <2>2. ASSUME UNCHANGED vars PROVE UNCHANGED Contract!vars
        BY <2>2, StillImplements DEF vars, recordVars, Contract!vars, StageMap, HeldMap
    <2> QED BY <2>1, <2>2
<1> QED BY <1>1, <1>2, KernelInvariant, PTL DEF Spec, Retention, Contract!Spec
=============================================================================
