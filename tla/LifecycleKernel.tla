---------------------------- MODULE LifecycleKernel ----------------------------
(***************************************************************************)
(* The generation and lease bookkeeping of @get-modular/lifecycle-kernel   *)
(* (packages/lifecycle-kernel/src/features/lifecycle/kernel.ts) under an   *)
(* arbitrary client.  Every operation is one synchronous step; `reply` is  *)
(* the result it returned.  A token that this kernel has not issued stands *)
(* for a foreign one.                                                      *)
(***************************************************************************)
EXTENDS Integers, FiniteSets

CONSTANTS
    Generations,   \* the generation tokens
    Leases,        \* the lease tokens
    None           \* no generation

ASSUME KernelAssumption ==
    /\ IsFiniteSet(Leases)
    /\ None \notin Generations

VARIABLES
    phase,      \* GenerationRecord.phase; "foreign": not issued by this kernel
    calls,      \* GenerationRecord.calls
    custody,    \* GenerationRecord.custody
    kind,       \* LeaseRecord.kind; "foreign": not issued by this kernel
    generation, \* LeaseRecord.generation
    released,   \* LeaseRecord.released
    reply       \* what the last operation returned

recordVars == <<phase, calls, custody>>
leaseVars == <<kind, generation, released>>
vars == <<recordVars, leaseVars, reply>>

Phases == {"staged", "active", "quiescing", "retiring", "retired"}
Kinds == {"call", "custody"}

Init ==
    /\ phase = [g \in Generations |-> "foreign"]
    /\ calls = [g \in Generations |-> 0]
    /\ custody = [g \in Generations |-> 0]
    /\ kind = [l \in Leases |-> "foreign"]
    /\ generation = [l \in Leases |-> None]
    /\ released = [l \in Leases |-> FALSE]
    /\ reply = [op |-> "none", on |-> None, is |-> "none"]

Reply(op, on, is) == reply' = [op |-> op, on |-> on, is |-> is]

Stage(g) ==
    /\ phase[g] = "foreign"
    /\ phase' = [phase EXCEPT ![g] = "staged"]
    /\ Reply("stage", g, "staged")
    /\ UNCHANGED <<calls, custody, leaseVars>>

\* An operation that moves g from one of the phases `from` to `to` and replies
\* `to`, or replies `to` when it is there already and that is accepted, or
\* refuses.
Change(op, g, from, to, again) ==
    /\ IF phase[g] \in from
       THEN phase' = [phase EXCEPT ![g] = to] /\ Reply(op, g, to)
       ELSE /\ UNCHANGED phase
            /\ Reply(op, g, IF phase[g] = "foreign" THEN "foreign-generation"
                            ELSE IF phase[g] \in again THEN phase[g]
                            ELSE "invalid-phase")
    /\ UNCHANGED <<calls, custody, leaseVars>>

Activate(g) == Change("activate", g, {"staged"}, "active", {})
Quiesce(g) == Change("quiesce", g, {"active"}, "quiescing", {"quiescing"})
Resume(g) == Change("resume", g, {"quiescing"}, "active", {})
Retire(g) == Change("retire", g, Phases \ {"retired"}, "retiring", {"retired"})

\* Mutant of Admitting: custody is still retained while quiescing.
AdmittingLonger(k) == IF k = "call" THEN {"active"} ELSE {"staged", "active", "quiescing"}

\* The phases in which a generation issues leases of a kind.
Admitting(k) == IF k = "call" THEN {"active"} ELSE {"staged", "active"}

\* The counters of g after d leases of kind k came or went.
Bump(counter, counted, k, g, d) ==
    IF k = counted THEN [counter EXCEPT ![g] = @ + d] ELSE counter
Count(k, g, d) ==
    /\ calls' = Bump(calls, "call", k, g, d)
    /\ custody' = Bump(custody, "custody", k, g, d)

\* beginCall and retainCustody.
Admit(op, k, g, l) ==
    IF phase[g] \in Admitting(k)
    THEN /\ kind[l] = "foreign"
         /\ kind' = [kind EXCEPT ![l] = k]
         /\ generation' = [generation EXCEPT ![l] = g]
         /\ Count(k, g, 1)
         /\ Reply(op, g, "accepted")
         /\ UNCHANGED <<phase, released>>
    ELSE /\ Reply(op, g, IF phase[g] = "foreign" THEN "foreign-generation"
                         ELSE "admission-closed")
         /\ UNCHANGED <<recordVars, leaseVars>>

BeginCall(g, l) == Admit("beginCall", "call", g, l)
RetainCustody(g, l) == Admit("retainCustody", "custody", g, l)

Revoked(g) == phase[g] \in {"retiring", "retired"}

\* Mutant of CallVerdict: a call stays good for as long as it is held.
VerdictOfLease(l) ==
    IF kind[l] = "foreign" THEN "foreign-lease"
    ELSE IF kind[l] # "call" THEN "wrong-lease-kind"
    ELSE IF released[l] THEN "released-lease"
    ELSE "admitted"

CallVerdict(l) ==
    IF kind[l] = "foreign" THEN "foreign-lease"
    ELSE IF kind[l] # "call" THEN "wrong-lease-kind"
    ELSE IF released[l] THEN "released-lease"
    ELSE IF Revoked(generation[l]) THEN "revoked"
    ELSE "admitted"

CheckCall(l) ==
    /\ Reply("checkCall", l, CallVerdict(l))
    /\ UNCHANGED <<recordVars, leaseVars>>

Held(l) == kind[l] # "foreign" /\ ~released[l]

Release(l) ==
    IF Held(l)
    THEN /\ released' = [released EXCEPT ![l] = TRUE]
         /\ Count(kind[l], generation[l], -1)
         /\ Reply("release", l, "released")
         /\ UNCHANGED <<phase, kind, generation>>
    ELSE /\ Reply("release", l, IF kind[l] = "foreign" THEN "foreign-lease"
                                ELSE "already-released")
         /\ UNCHANGED <<recordVars, leaseVars>>

\* finishRetirement finds by its counters that nothing is retained.
Idle(g) == calls[g] = 0 /\ custody[g] = 0

FinishRetirement(g) ==
    IF phase[g] = "retiring" /\ ~Idle(g)
    THEN /\ Reply("finishRetirement", g, "retained-work")
         /\ UNCHANGED <<recordVars, leaseVars>>
    ELSE Change("finishRetirement", g, {"retiring"}, "retired", {"retired"})

\* snapshot() only reads: its result is the record of g.
Next ==
    \/ \E g \in Generations :
        \/ Stage(g) \/ Activate(g) \/ Quiesce(g) \/ Resume(g) \/ Retire(g)
        \/ FinishRetirement(g)
        \/ \E l \in Leases : BeginCall(g, l) \/ RetainCustody(g, l)
    \/ \E l \in Leases : CheckCall(l) \/ Release(l)

Spec == Init /\ [][Next]_vars
-----------------------------------------------------------------------------
(* What the kernel keeps.                                                  *)

Unreleased(g) == {l \in Leases : kind[l] # "foreign" /\ ~released[l] /\ generation[l] = g}
OfKind(k, g) == {l \in Unreleased(g) : kind[l] = k}

\* The values every variable of the kernel ranges over.
TypeOK ==
    /\ phase \in [Generations -> Phases \cup {"foreign"}]
    /\ calls \in [Generations -> Nat]
    /\ custody \in [Generations -> Nat]
    /\ kind \in [Leases -> Kinds \cup {"foreign"}]
    /\ generation \in [Leases -> Generations \cup {None}]
    /\ released \in [Leases -> BOOLEAN]

\* "held leases still count until explicit release": the counters of a
\* generation are the numbers of its unreleased leases of each kind, through
\* every order of issue, revocation and repeated release.
Accounted ==
    \A g \in Generations :
        /\ calls[g] = Cardinality(OfKind("call", g))
        /\ custody[g] = Cardinality(OfKind("custody", g))

\* "finishRetirement records only completed kernel bookkeeping": a retired
\* generation retains no call and no custody, and never will again.
RetiredIsIdle ==
    \A g \in Generations : phase[g] = "retired" => Unreleased(g) = {}

\* "retire revokes existing call authority immediately": once revoked a
\* generation is never usable again, and a lease it issued is never admitted.
RevokedForGood ==
    [][\A g \in Generations : Revoked(g) =>
          /\ Revoked(g)'
          /\ Unreleased(g)' \subseteq Unreleased(g)
          /\ \A l \in Unreleased(g) : CallVerdict(l)' # "admitted"]_vars

\* The kernel implements the retention contract: its counters decide exactly
\* what the sets of held leases would.
StageOf(p) ==
    CASE p = "foreign" -> "unused"
      [] p \in {"staged", "active"} -> "open"
      [] p = "quiescing" -> "shut"
      [] p = "retiring" -> "revoked"
      [] p = "retired" -> "finished"

Contract == INSTANCE GenerationRetention
    WITH stage <- [g \in Generations |-> StageOf(phase[g])],
         held <- [g \in Generations |-> Unreleased(g)]

Retention == Contract!Spec
=============================================================================
