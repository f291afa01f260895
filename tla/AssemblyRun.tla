------------------------------ MODULE AssemblyRun ------------------------------
(***************************************************************************)
(* packages/assembly/src/features/construction/run.ts: the runs of one     *)
(* prepared program (createProgram in prepare-program.ts).  A run calls    *)
(* the factories one after the other, waits for the promise each of them   *)
(* returns, and ends with an outcome.  A product is the implementation it  *)
(* was made for.                                                           *)
(*                                                                         *)
(* A factory is user code: while it runs, it may abort any signal, start   *)
(* other runs and settle promises of factories called before, and so may   *)
(* the program between two tasks.                                          *)
(***************************************************************************)
EXTENDS Integers, Sequences, FiniteSets

CONSTANTS
    Runs, Signals,
    Fresh,     \* the signal of a run that is given none; nobody can abort it
    Order,     \* the implementations in construction order
    Needs,     \* the providers injected into each
    Inputs,    \* those that are borrowed from the caller of the run
    Roots,
    Commits    \* what the port commitCreated may do to the journal

Impls == {Order[i] : i \in DOMAIN Order}

\* prepareConstruction has checked the plan: every implementation comes once and
\* after its providers, and an input is never a root.
ASSUME ProgramAssumption ==
    /\ Fresh \notin Signals
    /\ Order \in Seq(Impls)
    /\ \A i, j \in DOMAIN Order : Order[i] = Order[j] => i = j
    /\ Needs \in [Impls -> SUBSET Impls]
    /\ \A j \in DOMAIN Order : \A p \in Needs[Order[j]] :
          \E i \in 1..(j - 1) : Order[i] = p
    /\ Inputs \subseteq Impls /\ Roots \subseteq Impls \ Inputs
    /\ Commits \subseteq {"append", "throw before", "throw after", "skip"}

VARIABLES
    aborted,    \* the signals that are aborted, for good
    stack,      \* the runs that are executing, the innermost first
    pc,
    signal,
    at,         \* the step of the program that is next
    supplied,   \* the run's map createdById, as a set
    journal,    \* created
    returned,   \* a product not yet in the journal, as a set of at most one
    carrier,    \* what has become of the promise of the factory called last
    outcome,
    made,       \* the products of fulfilled promises
    calls       \* how many factories the run has called

runVars == <<signal, at, supplied, journal, returned, carrier, outcome, made, calls>>
vars == <<aborted, stack, pc, runVars>>

States == {"idle", "loop", "factory", "await", "done"}
Settled == {"valid", "invalid", "hostile", "rejected", "unsupported"}
Fulfilled == {"valid", "invalid", "hostile"}
NoOutcome == [status |-> "none"]

Init ==
    /\ aborted = {} /\ stack = <<>>
    /\ pc = [r \in Runs |-> "idle"]
    /\ signal = [r \in Runs |-> Fresh]
    /\ at = [r \in Runs |-> 1]
    /\ supplied = [r \in Runs |-> {}]
    /\ journal = [r \in Runs |-> <<>>]
    /\ returned = [r \in Runs |-> {}]
    /\ carrier = [r \in Runs |-> "none"]
    /\ outcome = [r \in Runs |-> NoOutcome]
    /\ made = [r \in Runs |-> {}]
    /\ calls = [r \in Runs |-> 0]
-----------------------------------------------------------------------------
\* User code may act when nothing runs, or from inside a factory.
UserCode == stack # <<>> => pc[Head(stack)] = "factory"

Running(r, state) == stack # <<>> /\ Head(stack) = r /\ pc[r] = state

Aborted(s) == s \in aborted

\* How a run ends: what it reports of its journal, its unclaimed product and, if it
\* failed, of a cancellation that came as well.
Failed(r, phase) ==
    [status |-> "failed", phase |-> phase, created |-> journal'[r],
     returned |-> returned'[r], cancelled |-> Aborted(signal'[r])]

Cancelled(r) == [status |-> "cancelled", created |-> journal[r]]
Succeeded(r) == [status |-> "succeeded", created |-> journal[r]]

End(r, o) ==
    /\ pc' = [pc EXCEPT ![r] = "done"]
    /\ outcome' = [outcome EXCEPT ![r] = o]

\* run({signal, scope, inputs}): everything up to the first step of the program.
\* The inputs are admitted all at once, or the run fails.
Start(r, s, admitted) ==
    /\ UserCode /\ pc[r] = "idle"
    /\ signal' = [signal EXCEPT ![r] = s]
    /\ UNCHANGED <<aborted, at, supplied, journal, returned, carrier, made, calls>>
    /\ \/ /\ Aborted(s)
          /\ End(r, Cancelled(r))
          /\ UNCHANGED stack
       \/ /\ ~Aborted(s) /\ ~admitted
          /\ End(r, Failed(r, "inputs"))
          /\ UNCHANGED stack
       \/ /\ ~Aborted(s) /\ admitted
          /\ pc' = [pc EXCEPT ![r] = "loop"]
          /\ stack' = <<r>> \o stack
          /\ UNCHANGED outcome
-----------------------------------------------------------------------------
\* One turn of the loop over the steps, until a factory is called.
LoopStep(r) ==
    /\ Running(r, "loop")
    /\ UNCHANGED <<aborted, signal, journal, returned, made>>

Cancel(r) ==
    /\ LoopStep(r)
    /\ Aborted(signal[r])
    /\ End(r, Cancelled(r))
    /\ stack' = Tail(stack)
    /\ UNCHANGED <<at, supplied, carrier, calls>>

\* Variant: the signal is not read again before a factory.
GoesOnAnyway(r) == at[r] <= Len(Order)

\* A loop that goes on has found its signal not aborted, at this step.
GoesOn(r) == ~Aborted(signal[r]) /\ at[r] <= Len(Order)

Borrow(r) ==
    /\ LoopStep(r)
    /\ GoesOn(r)
    /\ Order[at[r]] \in Inputs
    /\ supplied' = [supplied EXCEPT ![r] = @ \cup {Order[at[r]]}]
    /\ at' = [at EXCEPT ![r] = @ + 1]
    /\ UNCHANGED <<stack, pc, carrier, outcome, calls>>

\* The capabilities of every provider are taken from createdById.
Injectable(r) == Needs[Order[at[r]]] \subseteq supplied[r]

CallFactory(r) ==
    /\ LoopStep(r)
    /\ GoesOn(r)
    /\ Order[at[r]] \notin Inputs
    /\ IF Injectable(r)
       THEN /\ pc' = [pc EXCEPT ![r] = "factory"]
            /\ carrier' = [carrier EXCEPT ![r] = "none"]
            /\ calls' = [calls EXCEPT ![r] = @ + 1]
            /\ UNCHANGED <<stack, outcome>>
       ELSE /\ End(r, Failed(r, "internal"))
            /\ stack' = Tail(stack)
            /\ UNCHANGED <<carrier, calls>>
    /\ UNCHANGED <<at, supplied>>

\* After the last step; an abort while the last factory ran still cancels.
Finish(r) ==
    /\ LoopStep(r)
    /\ ~Aborted(signal[r]) /\ at[r] > Len(Order)
    /\ End(r, IF Roots \subseteq supplied[r] THEN Succeeded(r) ELSE Failed(r, "internal"))
    /\ stack' = Tail(stack)
    /\ UNCHANGED <<at, supplied, carrier, calls>>
-----------------------------------------------------------------------------
\* The factory throws before it returns.
Throw(r) ==
    /\ Running(r, "factory")
    /\ UNCHANGED <<aborted, signal, at, supplied, journal, returned, carrier, made, calls>>
    /\ End(r, Failed(r, "factory"))
    /\ stack' = Tail(stack)

\* It returns a promise, or something else that the run does not wait for.
Return(r) ==
    /\ Running(r, "factory")
    /\ carrier' \in {[carrier EXCEPT ![r] = c] : c \in {"pending", "unsupported"}}
    /\ pc' = [pc EXCEPT ![r] = "await"]
    /\ stack' = Tail(stack)
    /\ UNCHANGED <<aborted, signal, at, supplied, journal, returned, outcome, made, calls>>

\* The promise is fulfilled with a product that is as declared, is not, or throws
\* when it is inspected; or it is rejected.
Settle(r) ==
    /\ UserCode
    /\ carrier[r] = "pending"
    /\ \E c \in Fulfilled \cup {"rejected"} :
          /\ carrier' = [carrier EXCEPT ![r] = c]
          /\ made' = [made EXCEPT ![r] = IF c \in Fulfilled THEN @ \cup {Order[at[r]]} ELSE @]
    /\ UNCHANGED <<aborted, stack, pc, signal, at, supplied, journal, returned, outcome, calls>>

Abort(s) ==
    /\ UserCode
    /\ ~Aborted(s)
    /\ aborted' = aborted \cup {s}
    /\ UNCHANGED <<stack, pc, runVars>>
-----------------------------------------------------------------------------
\* The run continues in a task of its own.
Resume(r) ==
    /\ stack = <<>> /\ pc[r] = "await"
    /\ UNCHANGED <<aborted, signal, carrier, made, calls>>

\* Variant: only a rejection is noticed.
NoProductRejected(r) ==
    /\ Resume(r)
    /\ carrier[r] = "rejected"
    /\ UNCHANGED <<stack, at, supplied, journal, returned>>
    /\ End(r, Failed(r, "factory"))

NoProduct(r) ==
    /\ Resume(r)
    /\ carrier[r] \in {"rejected", "unsupported"}
    /\ UNCHANGED <<stack, at, supplied, journal, returned>>
    /\ End(r, Failed(r, "factory"))

\* The product is retained before any part of it is looked at.
Retained(r) == returned' = [returned EXCEPT ![r] = {Order[at[r]]}]

BadProduct(r) ==
    /\ Resume(r)
    /\ carrier[r] \in {"invalid", "hostile"}
    /\ Retained(r)
    /\ UNCHANGED <<stack, at, supplied, journal>>
    /\ End(r, Failed(r, IF carrier[r] = "invalid" THEN "completion" ELSE "internal"))

Appends == {"append", "throw after"}

\* Variant: a commit that throws leaves the product with the run as well.
TransferTwice(r, c) ==
    /\ journal' = [journal EXCEPT ![r] = IF c \in Appends THEN Append(@, Order[at[r]]) ELSE @]
    /\ returned' = [returned EXCEPT ![r] = IF c = "append" THEN {} ELSE {Order[at[r]]}]

\* The journal holds the product, or the run still does.
Transfer(r, c) ==
    /\ journal' = [journal EXCEPT ![r] = IF c \in Appends THEN Append(@, Order[at[r]]) ELSE @]
    /\ returned' = [returned EXCEPT ![r] = IF c \in Appends THEN {} ELSE {Order[at[r]]}]

Commit(r) ==
    /\ Resume(r)
    /\ carrier[r] = "valid"
    /\ "append" \in Commits
    /\ Transfer(r, "append")
    /\ supplied' = [supplied EXCEPT ![r] = @ \cup {Order[at[r]]}]
    /\ at' = [at EXCEPT ![r] = @ + 1]
    /\ pc' = [pc EXCEPT ![r] = "loop"]
    /\ stack' = <<r>>
    /\ UNCHANGED outcome

\* A commit that throws, or that leaves the product out, ends the run.
CommitFails(r) ==
    /\ Resume(r)
    /\ carrier[r] = "valid"
    /\ \E c \in Commits \ {"append"} : Transfer(r, c)
    /\ UNCHANGED <<stack, at, supplied>>
    /\ End(r, Failed(r, "internal"))
-----------------------------------------------------------------------------
Machine(r) ==
    \/ Cancel(r) \/ Borrow(r) \/ CallFactory(r) \/ Finish(r)
    \/ NoProduct(r) \/ BadProduct(r) \/ Commit(r) \/ CommitFails(r)

Factory(r) == Throw(r) \/ Return(r)

Next ==
    \/ \E r \in Runs : Machine(r) \/ Factory(r) \/ Settle(r)
    \/ \E r \in Runs, s \in Signals \cup {Fresh}, admitted \in BOOLEAN :
          Start(r, s, admitted)
    \/ \E s \in Signals : Abort(s)

Spec == Init /\ [][Next]_vars

\* Tasks run, a factory returns or throws, and its promise settles; a run waits for
\* one that does not.
Fairness ==
    \A r \in Runs : WF_vars(Machine(r)) /\ WF_vars(Factory(r)) /\ WF_vars(Settle(r))

FairSpec == Spec /\ Fairness
-----------------------------------------------------------------------------
(* What packages/assembly/README.md promises of a run: who holds which product *)
(* at every moment, and what an abort at any moment does.                      *)

Entries(s) == {s[i] : i \in DOMAIN s}

\* A product is on its way from its promise to the run that waits for it.
InFlight(r) ==
    IF pc[r] = "await" /\ carrier[r] \in Fulfilled THEN {Order[at[r]]} ELSE {}

\* s lists the factory products of the first k steps of the program, in order.
BuiltBy(k) == {Order[i] : i \in 1..k} \ Inputs

Lists(s, k) ==
    /\ Entries(s) = BuiltBy(k)
    /\ \A i, j \in DOMAIN s : i < j =>
          \E a, b \in DOMAIN Order : a < b /\ s[i] = Order[a] /\ s[j] = Order[b]

\* A product that a factory has fulfilled its promise with is at one place: on its
\* way to the run, in `created`, or `returned`; never at two and never at none.
CustodyIsTotal ==
    \A r \in Runs :
        /\ made[r] = Entries(journal[r]) \cup returned[r] \cup InFlight(r)
        /\ Entries(journal[r]) \cap (returned[r] \cup InFlight(r)) = {}
        /\ returned[r] \cap InFlight(r) = {}
        /\ \A i, j \in DOMAIN journal[r] : journal[r][i] = journal[r][j] => i = j

\* An outcome leaves nothing behind: it names every product of its run, and no
\* factory is in flight that might still give one ("Cancellation waits for an
\* in-flight factory to settle", README.md:130).
CustodyIsReported ==
    \A r \in Runs :
        pc[r] = "done" =>
            /\ carrier[r] # "pending"
            /\ made[r] = Entries(outcome[r].created)
                         \cup IF outcome[r].status = "failed" THEN outcome[r].returned ELSE {}

\* The custody of products: where each is at any moment, and who is told in the end.
CustodyIsKept == CustodyIsTotal /\ CustodyIsReported

\* No factory is called once the signal of a run is aborted, whoever aborted it: a
\* factory of the same run, another run or the program between two tasks.  And when
\* the run ends, its outcome says whether it was cancelled: a success is complete
\* and not aborted, and a failure reports an abort that came as well.  It names the
\* products in the order of the program, without the borrowed inputs.
StopsCalls(r) == Aborted(signal[r]) /\ pc[r] # "idle" => calls'[r] = calls[r]

SaysWhy(r) ==
    outcome'[r] # outcome[r] =>
        LET o == outcome'[r]
            late == signal'[r] \in aborted'
        IN  /\ \E k \in 0..Len(Order) : Lists(o.created, k)
            /\ o.status = "cancelled" => late
            /\ o.status = "failed" => o.cancelled = late
            /\ o.status = "succeeded" => ~late /\ Lists(o.created, Len(Order))

OutcomeIsTrue == [][\A r \in Runs : StopsCalls(r) /\ SaysWhy(r)]_vars

\* Every run that is started ends, if its factories return and settle.
RunsEnd == \A r \in Runs : pc[r] # "idle" ~> pc[r] = "done"
=============================================================================
