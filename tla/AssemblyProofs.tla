----------------------------- MODULE AssemblyProofs -----------------------------
(***************************************************************************)
(* Theorems about construction runs, for any number of runs and signals    *)
(* and any program whose steps come after their providers.                 *)
(***************************************************************************)
EXTENDS AssemblyRun, TLAPS

\* The types the steps rely on.
Shape ==
    /\ pc \in [Runs -> States]
    /\ at \in [Runs -> Nat \ {0}]
    /\ journal \in [Runs -> Seq(Impls)]
    /\ returned \in [Runs -> SUBSET Impls]
    /\ made \in [Runs -> SUBSET Impls]
    /\ carrier \in [Runs -> Settled \cup {"none", "pending"}]
    /\ DOMAIN outcome = Runs

\* A run at work has returned nothing, its journal lists earlier steps, and only a
\* run that awaits has a promise pending.
AtWork(r) ==
    pc[r] # "done" =>
        /\ returned[r] = {}
        /\ \A i \in DOMAIN journal[r] : \E k \in DOMAIN Order :
              k < at[r] /\ journal[r][i] = Order[k]
        /\ pc[r] \in {"factory", "await"} => at[r] \in DOMAIN Order

\* Nothing is pending but for a run that awaits.
Pending(r) == carrier[r] = "pending" => pc[r] = "await"

Custody(r) ==
    /\ made[r] = Entries(journal[r]) \cup returned[r] \cup InFlight(r)
    /\ Entries(journal[r]) \cap (returned[r] \cup InFlight(r)) = {}
    /\ returned[r] \cap InFlight(r) = {}
    /\ \A i, j \in DOMAIN journal[r] : journal[r][i] = journal[r][j] => i = j

\* The outcome of a run is what the run holds at its end.
Reported(r) ==
    pc[r] = "done" =>
        /\ outcome[r].created = journal[r]
        /\ outcome[r].status = "failed" => outcome[r].returned = returned[r]
        /\ outcome[r].status # "failed" => returned[r] = {}

RunInv(r) == AtWork(r) /\ Pending(r) /\ Custody(r) /\ Reported(r)

\* The inductive invariant.
IInv == Shape /\ \A r \in Runs : RunInv(r)

LEMMA Program ==
    /\ DOMAIN Order = 1..Len(Order) /\ Len(Order) \in Nat
    /\ \A k \in DOMAIN Order : Order[k] \in Impls
    /\ \A i, j \in DOMAIN Order : Order[i] = Order[j] => i = j
<1>1. Order \in Seq(Impls)
    BY ProgramAssumption
<1>2. DOMAIN Order = 1..Len(Order) /\ Len(Order) \in Nat
    BY <1>1
<1>3. \A k \in DOMAIN Order : Order[k] \in Impls
    BY DEF Impls
<1>4. \A i, j \in DOMAIN Order : Order[i] = Order[j] => i = j
    BY ProgramAssumption
<1> QED BY <1>2, <1>3, <1>4

\* Another step leaves the invariant of a run alone.
LEMMA OtherRun ==
    ASSUME NEW q \in Runs, RunInv(q),
           pc'[q] = pc[q], at'[q] = at[q], journal'[q] = journal[q],
           returned'[q] = returned[q], made'[q] = made[q], carrier'[q] = carrier[q],
           outcome'[q] = outcome[q]
    PROVE  RunInv(q)'
BY DEF RunInv, AtWork, Pending, Custody, Reported, InFlight, Entries

\* A step that only moves the control of a run that has no promise to wait for.
LEMMA MovesOn ==
    ASSUME Shape, NEW r \in Runs, RunInv(r), NEW to \in {"loop", "factory"},
           pc[r] \in {"idle", "loop"}, pc' = [pc EXCEPT ![r] = to],
           to = "factory" => at[r] \in DOMAIN Order,
           UNCHANGED <<at, journal, returned, made, outcome>>,
           carrier' \in {carrier, [carrier EXCEPT ![r] = "none"]}
    PROVE  RunInv(r)'
<1>1. pc[r] # "await" /\ pc[r] # "done" /\ pc'[r] = to /\ carrier[r] # "pending"
    BY DEF Shape, RunInv, Pending
<1>2. carrier'[r] # "pending"
    BY <1>1 DEF Shape
<1>3. AtWork(r)' /\ Pending(r)' /\ Reported(r)'
    BY <1>1, <1>2 DEF RunInv, AtWork, Pending, Reported
<1>4. Custody(r)'
    BY <1>1 DEF RunInv, Custody, InFlight, Entries
<1> QED BY <1>3, <1>4 DEF RunInv

\* A run that ends without a product in flight, with what it has.
LEMMA EndsWith ==
    ASSUME Shape, NEW r \in Runs, RunInv(r), NEW o,
           pc[r] # "done", InFlight(r) = {}, carrier[r] # "pending", End(r, o),
           UNCHANGED <<at, journal, returned, made, carrier>>,
           o.created = journal[r], o.status = "failed" => o.returned = returned[r]
    PROVE  RunInv(r)'
<1>1. pc'[r] = "done" /\ outcome'[r] = o
    BY DEF End, Shape
<1>2. AtWork(r)' /\ Pending(r)' /\ Reported(r)'
    BY <1>1 DEF RunInv, AtWork, Pending, Reported
<1>3. Custody(r)'
    BY <1>1 DEF RunInv, Custody, InFlight, Entries
<1> QED BY <1>2, <1>3 DEF RunInv
-----------------------------------------------------------------------------
LEMMA InitInv == Init => IInv
<1> SUFFICES ASSUME Init PROVE IInv
    OBVIOUS
<1>1. Shape
    BY DEF Init, Shape, States
<1>2. ASSUME NEW r \in Runs PROVE RunInv(r)
    BY DEF Init, RunInv, AtWork, Pending, Custody, Reported, InFlight, Entries
<1> QED BY <1>1, <1>2 DEF IInv
-----------------------------------------------------------------------------
\* What a step of one run must show: its own invariant, and that it touches no
\* other run.
LEMMA OwnStep ==
    ASSUME IInv, NEW r \in Runs, Shape', RunInv(r)',
           \A q \in Runs \ {r} :
              /\ pc'[q] = pc[q] /\ at'[q] = at[q] /\ journal'[q] = journal[q]
              /\ returned'[q] = returned[q] /\ made'[q] = made[q]
              /\ carrier'[q] = carrier[q] /\ outcome'[q] = outcome[q]
    PROVE  IInv'
<1>1. ASSUME NEW q \in Runs \ {r} PROVE RunInv(q)'
    <2>1. RunInv(q)
        BY DEF IInv
    <2> QED BY <2>1, OtherRun
<1> QED BY <1>1 DEF IInv

\* A step that ends a run and leaves what it holds alone.
LEMMA EndInv ==
    ASSUME IInv, NEW r \in Runs, NEW o,
           pc[r] # "done", InFlight(r) = {}, carrier[r] # "pending", End(r, o),
           UNCHANGED <<at, journal, returned, made, carrier>>,
           o.created = journal[r], o.status = "failed" => o.returned = returned[r]
    PROVE  IInv'
<1>1. Shape /\ RunInv(r)
    BY DEF IInv
<1>2. Shape'
    BY <1>1 DEF Shape, States, End
<1>3. RunInv(r)'
    BY <1>1, EndsWith
<1> QED BY <1>1, <1>2, <1>3, OwnStep DEF Shape, End

\* What the three kinds of outcome carry.
LEMMA Outcomes ==
    ASSUME NEW r \in Runs, NEW phase
    PROVE  /\ Failed(r, phase).created = journal'[r]
           /\ Failed(r, phase).returned = returned'[r]
           /\ Failed(r, phase).status = "failed"
           /\ Cancelled(r).created = journal[r] /\ Cancelled(r).status = "cancelled"
           /\ Succeeded(r).created = journal[r] /\ Succeeded(r).status = "succeeded"
BY DEF Failed, Cancelled, Succeeded

LEMMA StartInv ==
    ASSUME IInv, NEW r \in Runs, NEW s, NEW admitted, Start(r, s, admitted)
    PROVE  IInv'
<1>1. /\ Shape /\ RunInv(r) /\ pc[r] = "idle"
      /\ UNCHANGED <<at, journal, returned, carrier, made>>
    BY DEF IInv, Start
<1>2. carrier[r] # "pending" /\ InFlight(r) = {}
    BY <1>1 DEF RunInv, Pending, InFlight
<1>3. CASE pc' = [pc EXCEPT ![r] = "loop"] /\ UNCHANGED outcome
    <2>1. Shape'
        BY <1>1, <1>3 DEF Shape, States
    <2>2. RunInv(r)'
        BY <1>1, <1>3, MovesOn
    <2> QED BY <1>1, <1>3, <2>1, <2>2, OwnStep DEF Shape
<1>4. CASE End(r, Cancelled(r)) \/ End(r, Failed(r, "inputs"))
    BY <1>1, <1>2, <1>4, EndInv, Outcomes
<1> QED BY <1>3, <1>4 DEF Start

\* The steps of the loop that stay in it.
LEMMA BorrowInv == ASSUME IInv, NEW r \in Runs, Borrow(r) PROVE IInv'
<1>1. /\ Shape /\ RunInv(r) /\ pc[r] = "loop" /\ at[r] \in Nat
      /\ at' = [at EXCEPT ![r] = @ + 1]
      /\ UNCHANGED <<pc, journal, returned, carrier, made, outcome>>
    BY DEF IInv, Borrow, LoopStep, Running, Shape
<1>2. Shape' /\ at'[r] = at[r] + 1
    BY <1>1 DEF Shape
<1>3. AtWork(r)'
    <2>1. \A i \in DOMAIN journal[r] : \E k \in DOMAIN Order :
             k < at[r] + 1 /\ journal[r][i] = Order[k]
        BY <1>1, Program DEF RunInv, AtWork
    <2> QED BY <1>1, <1>2, <2>1 DEF RunInv, AtWork
<1>4. Pending(r)' /\ Custody(r)' /\ Reported(r)'
    BY <1>1 DEF RunInv, Pending, Custody, Reported, InFlight, Entries
<1> QED BY <1>1, <1>2, <1>3, <1>4, OwnStep DEF Shape, RunInv

LEMMA LoopEnds ==
    ASSUME IInv, NEW r \in Runs, LoopStep(r),
           Cancel(r) \/ Finish(r) \/ (CallFactory(r) /\ ~Injectable(r))
    PROVE  IInv'
<1>1. /\ Shape /\ RunInv(r) /\ pc[r] = "loop"
      /\ UNCHANGED <<at, journal, returned, carrier, made>>
    BY DEF IInv, LoopStep, Running, Cancel, Finish, CallFactory
<1>2. carrier[r] # "pending" /\ InFlight(r) = {}
    BY <1>1 DEF RunInv, Pending, InFlight
<1>3. \/ End(r, Cancelled(r)) \/ End(r, Succeeded(r)) \/ End(r, Failed(r, "internal"))
    BY DEF Cancel, Finish, CallFactory
<1> QED BY <1>1, <1>2, <1>3, EndInv, Outcomes

LEMMA CallInv ==
    ASSUME IInv, NEW r \in Runs, CallFactory(r), Injectable(r) PROVE IInv'
<1>1. /\ Shape /\ RunInv(r) /\ pc[r] = "loop"
      /\ pc' = [pc EXCEPT ![r] = "factory"] /\ carrier' = [carrier EXCEPT ![r] = "none"]
      /\ UNCHANGED <<at, journal, returned, made, outcome>>
    BY DEF IInv, CallFactory, LoopStep, Running
<1>2. at[r] \in DOMAIN Order
    <2>1. at[r] <= Len(Order)
        BY DEF CallFactory, GoesOn
    <2> QED BY <1>1, <2>1, Program DEF Shape
<1>3. Shape'
    BY <1>1 DEF Shape, States
<1>4. RunInv(r)'
    BY <1>1, <1>2, MovesOn
<1> QED BY <1>1, <1>3, <1>4, OwnStep DEF Shape

LEMMA ThrowInv == ASSUME IInv, NEW r \in Runs, Throw(r) PROVE IInv'
<1>1. /\ Shape /\ RunInv(r) /\ pc[r] = "factory" /\ End(r, Failed(r, "factory"))
      /\ UNCHANGED <<at, journal, returned, carrier, made>>
    BY DEF IInv, Throw, Running
<1>2. carrier[r] # "pending" /\ InFlight(r) = {}
    BY <1>1 DEF RunInv, Pending, InFlight
<1> QED BY <1>1, <1>2, EndInv, Outcomes

LEMMA ReturnInv == ASSUME IInv, NEW r \in Runs, Return(r) PROVE IInv'
<1>1. /\ Shape /\ RunInv(r) /\ pc[r] = "factory"
      /\ pc' = [pc EXCEPT ![r] = "await"]
      /\ UNCHANGED <<at, journal, returned, made, outcome>>
    BY DEF IInv, Return, Running
<1>2. PICK c \in {"pending", "unsupported"} : carrier' = [carrier EXCEPT ![r] = c]
    BY DEF Return
<1>3. Shape' /\ pc'[r] = "await" /\ carrier'[r] = c
    BY <1>1, <1>2 DEF Shape, States, Settled
<1>4. InFlight(r) = {} /\ InFlight(r)' = {}
    BY <1>1, <1>2, <1>3 DEF InFlight, Fulfilled
<1>5. AtWork(r)' /\ Pending(r)' /\ Reported(r)'
    BY <1>1, <1>3 DEF RunInv, AtWork, Pending, Reported
<1>6. Custody(r)'
    BY <1>1, <1>4 DEF RunInv, Custody, Entries
<1> QED BY <1>1, <1>2, <1>3, <1>5, <1>6, OwnStep DEF Shape, RunInv

\* A promise is fulfilled once: its product is on no list of its run yet.
LEMMA SettleInv == ASSUME IInv, NEW r \in Runs, Settle(r) PROVE IInv'
<1>1. /\ Shape /\ RunInv(r) /\ carrier[r] = "pending" /\ pc[r] = "await"
      /\ UNCHANGED <<pc, at, journal, returned, outcome>>
    BY DEF IInv, Settle, RunInv, Pending
<1>2. PICK c \in Fulfilled \cup {"rejected"} :
         /\ carrier' = [carrier EXCEPT ![r] = c]
         /\ made' = [made EXCEPT ![r] = IF c \in Fulfilled THEN @ \cup {Order[at[r]]} ELSE @]
    BY DEF Settle
<1>3. at[r] \in DOMAIN Order /\ Order[at[r]] \in Impls /\ returned[r] = {}
    BY <1>1, Program DEF RunInv, AtWork
<1>4. Shape' /\ carrier'[r] = c
    BY <1>1, <1>2, <1>3 DEF Shape, Settled, Fulfilled
<1>5. Order[at[r]] \notin Entries(journal[r])
    <2>1. at[r] \in Nat
        BY <1>1 DEF Shape
    <2> QED BY <1>1, <1>3, <2>1, Program DEF RunInv, AtWork, Entries
<1>6. InFlight(r) = {} /\ InFlight(r)' = IF c \in Fulfilled THEN {Order[at[r]]} ELSE {}
    BY <1>1, <1>2, <1>4 DEF InFlight, Fulfilled
<1>7. made'[r] = made[r] \cup InFlight(r)'
    BY <1>1, <1>2, <1>6 DEF Shape
<1>8. Custody(r)'
    BY <1>1, <1>3, <1>5, <1>6, <1>7 DEF RunInv, Custody, Entries
<1>9. AtWork(r)' /\ Pending(r)' /\ Reported(r)'
    BY <1>1, <1>4 DEF RunInv, AtWork, Pending, Reported
<1> QED BY <1>1, <1>2, <1>4, <1>8, <1>9, OwnStep DEF Shape, RunInv

LEMMA NoProductInv == ASSUME IInv, NEW r \in Runs, NoProduct(r) PROVE IInv'
<1>1. /\ Shape /\ RunInv(r) /\ pc[r] = "await" /\ End(r, Failed(r, "factory"))
      /\ carrier[r] \in {"rejected", "unsupported"}
      /\ UNCHANGED <<at, journal, returned, carrier, made>>
    BY DEF IInv, NoProduct, Resume
<1>2. carrier[r] # "pending" /\ InFlight(r) = {}
    BY <1>1 DEF InFlight, Fulfilled
<1> QED BY <1>1, <1>2, EndInv, Outcomes

\* What a run knows when the promise it waits for is fulfilled.
LEMMA Arrival ==
    ASSUME IInv, NEW r \in Runs, pc[r] = "await", carrier[r] \in Fulfilled
    PROVE  /\ Shape /\ RunInv(r) /\ returned[r] = {} /\ at[r] \in Nat \ {0}
           /\ at[r] \in DOMAIN Order /\ Order[at[r]] \in Impls
           /\ InFlight(r) = {Order[at[r]]}
           /\ made[r] = Entries(journal[r]) \cup {Order[at[r]]}
           /\ Order[at[r]] \notin Entries(journal[r])
           /\ journal[r] \in Seq(Impls) /\ carrier[r] # "pending"
<1>1. Shape /\ RunInv(r)
    BY DEF IInv
<1>2. at[r] \in Nat \ {0} /\ journal[r] \in Seq(Impls)
    BY <1>1 DEF Shape
<1>3. returned[r] = {} /\ at[r] \in DOMAIN Order /\ Order[at[r]] \in Impls
    BY <1>1, Program DEF RunInv, AtWork
<1>4. InFlight(r) = {Order[at[r]]}
    BY DEF InFlight
<1>5. /\ made[r] = Entries(journal[r]) \cup {Order[at[r]]}
      /\ Order[at[r]] \notin Entries(journal[r])
    BY <1>1, <1>3, <1>4 DEF RunInv, Custody
<1>6. carrier[r] # "pending"
    BY DEF Fulfilled
<1> QED BY <1>1, <1>2, <1>3, <1>4, <1>5, <1>6

\* The product goes where the step says, and nowhere else.
LEMMA Handed ==
    ASSUME IInv, NEW r \in Runs, pc[r] = "await", carrier[r] \in Fulfilled,
           made' = made, pc'[r] # "await",
           \/ journal'[r] = journal[r] /\ returned'[r] = {Order[at[r]]}
           \/ journal'[r] = Append(journal[r], Order[at[r]]) /\ returned'[r] = {}
    PROVE  Custody(r)'
<1>1. InFlight(r)' = {}
    BY DEF InFlight
<1>2. CASE journal'[r] = journal[r] /\ returned'[r] = {Order[at[r]]}
    BY <1>1, <1>2, Arrival DEF Custody, Entries, RunInv
<1>3. CASE journal'[r] = Append(journal[r], Order[at[r]]) /\ returned'[r] = {}
    <2>1. /\ journal[r] \in Seq(Impls) /\ Len(journal[r]) \in Nat
          /\ DOMAIN journal[r] = 1..Len(journal[r])
          /\ DOMAIN journal'[r] = 1..Len(journal[r]) + 1
          /\ journal'[r][Len(journal[r]) + 1] = Order[at[r]]
          /\ \A i \in DOMAIN journal[r] : journal'[r][i] = journal[r][i]
        BY <1>3, Arrival
    <2>2. Entries(journal[r])' = Entries(journal[r]) \cup {Order[at[r]]}
        BY <2>1 DEF Entries
    <2>3. \A i, j \in DOMAIN journal[r] : journal[r][i] = journal[r][j] => i = j
        BY Arrival DEF RunInv, Custody
    <2>4. \A i, j \in DOMAIN journal'[r] : journal'[r][i] = journal'[r][j] => i = j
        BY <2>1, <2>3, Arrival, SMTT(30) DEF Entries
    <2> QED BY <1>1, <1>3, <2>2, <2>4, Arrival DEF Custody
<1> QED BY <1>2, <1>3

\* A product that the journal does not take is returned with the failure.
LEMMA FailsHolding ==
    ASSUME IInv, NEW r \in Runs, NEW phase, pc[r] = "await", carrier[r] \in Fulfilled,
           End(r, Failed(r, phase)), UNCHANGED <<at, carrier, made>>,
           \/ journal' = journal /\ returned' = [returned EXCEPT ![r] = {Order[at[r]]}]
           \/ /\ journal' = [journal EXCEPT ![r] = Append(@, Order[at[r]])]
              /\ returned' = [returned EXCEPT ![r] = {}]
    PROVE  IInv'
<1>1. Shape /\ Order[at[r]] \in Impls /\ journal[r] \in Seq(Impls)
    BY Arrival
<1>2. Shape'
    <2>1. Append(journal[r], Order[at[r]]) \in Seq(Impls)
        BY <1>1
    <2>2. pc' \in [Runs -> States] /\ DOMAIN outcome' = Runs
        BY <1>1 DEF Shape, End, States
    <2>3. journal' \in [Runs -> Seq(Impls)]
        <3>1. CASE journal' = journal
            BY <1>1, <3>1 DEF Shape
        <3>2. CASE journal' = [journal EXCEPT ![r] = Append(@, Order[at[r]])]
            BY <1>1, <2>1, <3>2 DEF Shape
        <3> QED BY <3>1, <3>2
    <2>4. returned' \in [Runs -> SUBSET Impls]
        <3>1. CASE returned' = [returned EXCEPT ![r] = {Order[at[r]]}]
            BY <1>1, <3>1 DEF Shape
        <3>2. CASE returned' = [returned EXCEPT ![r] = {}]
            BY <1>1, <3>2 DEF Shape
        <3> QED BY <3>1, <3>2
    <2> QED BY <1>1, <2>2, <2>3, <2>4 DEF Shape
<1>3. pc'[r] = "done" /\ outcome'[r] = Failed(r, phase)
    BY <1>1 DEF End, Shape
<1>4. Custody(r)'
    BY <1>1, <1>3, Handed DEF Shape
<1>5. AtWork(r)' /\ Reported(r)'
    BY <1>3, Outcomes DEF AtWork, Reported
<1>6. Pending(r)'
    BY Arrival DEF Pending
<1> QED BY <1>1, <1>2, <1>4, <1>5, <1>6, OwnStep DEF Shape, RunInv, End

LEMMA BadProductInv == ASSUME IInv, NEW r \in Runs, BadProduct(r) PROVE IInv'
<1>1. pc[r] = "await" /\ carrier[r] \in Fulfilled
    BY DEF BadProduct, Resume, Fulfilled
<1>2. /\ UNCHANGED <<at, carrier, made, journal>>
      /\ returned' = [returned EXCEPT ![r] = {Order[at[r]]}]
      /\ End(r, Failed(r, "completion")) \/ End(r, Failed(r, "internal"))
    BY DEF BadProduct, Resume, Retained
<1> QED BY <1>1, <1>2, FailsHolding

LEMMA CommitFailsInv == ASSUME IInv, NEW r \in Runs, CommitFails(r) PROVE IInv'
<1>1. pc[r] = "await" /\ carrier[r] \in Fulfilled
    BY DEF CommitFails, Resume, Fulfilled
<1>2. UNCHANGED <<at, carrier, made>> /\ End(r, Failed(r, "internal"))
    BY DEF CommitFails, Resume
<1>3. PICK c \in Commits \ {"append"} : Transfer(r, c)
    BY DEF CommitFails
<1>4. CASE c \in Appends
    BY <1>1, <1>2, <1>3, <1>4, FailsHolding DEF Transfer
<1>5. CASE c \notin Appends
    <2>1. journal' = journal
        BY <1>1, <1>3, <1>5, Arrival DEF Transfer, Shape
    <2> QED BY <1>1, <1>2, <1>3, <1>5, <2>1, FailsHolding DEF Transfer
<1> QED BY <1>4, <1>5

LEMMA CommitInv == ASSUME IInv, NEW r \in Runs, Commit(r) PROVE IInv'
<1>1. pc[r] = "await" /\ carrier[r] \in Fulfilled
    BY DEF Commit, Resume, Fulfilled
<1>2. /\ pc' = [pc EXCEPT ![r] = "loop"] /\ at' = [at EXCEPT ![r] = @ + 1]
      /\ journal' = [journal EXCEPT ![r] = Append(@, Order[at[r]])]
      /\ returned' = [returned EXCEPT ![r] = {}]
      /\ UNCHANGED <<carrier, made, outcome>>
    BY DEF Commit, Resume, Transfer, Appends
<1>3. Shape /\ RunInv(r) /\ Order[at[r]] \in Impls /\ journal[r] \in Seq(Impls)
    BY <1>1, Arrival
<1>4. /\ pc'[r] = "loop" /\ at'[r] = at[r] + 1 /\ returned'[r] = {}
      /\ journal'[r] = Append(journal[r], Order[at[r]])
    BY <1>2, <1>3 DEF Shape
<1>5. Shape'
    <2>1. Append(journal[r], Order[at[r]]) \in Seq(Impls)
        BY <1>3
    <2> QED BY <1>2, <1>3, <2>1 DEF Shape, States
<1>6. Custody(r)'
    BY <1>1, <1>2, <1>4, Handed
<1>7. AtWork(r)'
    <2>1. ASSUME NEW i \in DOMAIN journal'[r]
          PROVE  \E k \in DOMAIN Order : k < at'[r] /\ journal'[r][i] = Order[k]
        <3>1. CASE i \in DOMAIN journal[r]
            <4>1. PICK k \in DOMAIN Order : k < at[r] /\ journal[r][i] = Order[k]
                BY <1>1, <1>3, <3>1 DEF RunInv, AtWork
            <4>2. journal'[r][i] = journal[r][i]
                BY <1>3, <1>4, <3>1
            <4>3. k < at[r] + 1
                BY <4>1, <1>1, Program, Arrival
            <4> QED BY <1>4, <4>1, <4>2, <4>3
        <3>2. CASE i = Len(journal[r]) + 1
            <4>1. journal'[r][i] = Order[at[r]]
                BY <1>3, <1>4, <3>2
            <4>2. at[r] \in DOMAIN Order /\ at[r] < at[r] + 1
                BY <1>1, Arrival
            <4> QED BY <1>4, <4>1, <4>2
        <3> QED BY <1>3, <1>4, <2>1, <3>1, <3>2
    <2> QED BY <1>4, <2>1 DEF AtWork
<1>8. Pending(r)' /\ Reported(r)'
    BY <1>1, <1>2, <1>4, Arrival DEF Pending, Reported
<1> QED BY <1>2, <1>3, <1>5, <1>6, <1>7, <1>8, OwnStep DEF Shape, RunInv
-----------------------------------------------------------------------------
LEMMA InvAlways == Spec => []IInv
<1>1. IInv /\ [Next]_vars => IInv'
  <2> SUFFICES ASSUME IInv, [Next]_vars PROVE IInv'
      OBVIOUS
  <2>1. ASSUME NEW r \in Runs, Machine(r) PROVE IInv'
      <3>1. CASE Cancel(r) \/ Finish(r)
          BY <3>1, LoopEnds DEF Cancel, Finish
      <3>2. CASE CallFactory(r)
          BY <3>2, CallInv, LoopEnds DEF CallFactory
      <3> QED BY <2>1, <3>1, <3>2, BorrowInv, NoProductInv, BadProductInv, CommitInv,
                 CommitFailsInv DEF Machine
  <2>2. ASSUME UNCHANGED <<pc, at, journal, returned, carrier, outcome, made>> PROVE IInv'
      <3>1. Shape'
          BY <2>2 DEF IInv, Shape
      <3>2. ASSUME NEW q \in Runs PROVE RunInv(q)'
          <4>1. RunInv(q)
              BY DEF IInv
          <4> QED BY <2>2, <4>1, OtherRun
      <3> QED BY <3>1, <3>2 DEF IInv
  <2>3. CASE \E s \in Signals : Abort(s)
      BY <2>2, <2>3 DEF Abort, runVars
  <2>4. CASE UNCHANGED vars
      BY <2>2, <2>4 DEF vars, runVars
  <2> QED BY <2>1, <2>3, <2>4, StartInv, ThrowInv, ReturnInv, SettleInv DEF Next, Factory
<1> QED BY <1>1, InitInv, PTL DEF Spec

\* Whatever a factory, its promise, its product or the commit does, and whenever the
\* signal is aborted, every product is at exactly one place.
THEOREM CustodyAlways == Spec => []CustodyIsTotal
<1>1. IInv => CustodyIsTotal
    BY DEF IInv, RunInv, Custody, CustodyIsTotal
<1> QED BY <1>1, InvAlways, PTL

\* Every outcome names every product of its run, and nothing is in flight any more.
THEOREM ReportsAlways == Spec => []CustodyIsReported
<1>1. IInv => CustodyIsReported
  <2> SUFFICES ASSUME IInv, NEW r \in Runs, pc[r] = "done"
               PROVE  /\ carrier[r] # "pending"
                      /\ made[r] = Entries(outcome[r].created) \cup
                            IF outcome[r].status = "failed" THEN outcome[r].returned ELSE {}
      BY DEF CustodyIsReported
  <2>1. RunInv(r) /\ InFlight(r) = {}
      BY DEF IInv, InFlight
  <2> QED BY <2>1 DEF RunInv, Pending, Custody, Reported
<1> QED BY <1>1, InvAlways, PTL

\* Both together: no product of a run is lost, held twice or left out of its report
\* (commit and outcome of run.ts).
THEOREM CustodyKept == Spec => []CustodyIsKept
BY CustodyAlways, ReportsAlways, PTL DEF CustodyIsKept
-----------------------------------------------------------------------------
(* What an outcome says of the signal and of the program.                      *)

\* A run at work stands at a step of the program, or behind its last one, its
\* journal lists what the steps before made, and it waits for no borrowed input.
Ordered(r) ==
    pc[r] # "done" =>
        /\ at[r] \in 1..(Len(Order) + 1)
        /\ Lists(journal[r], at[r] - 1)
        /\ pc[r] \in {"factory", "await"} => Order[at[r]] \notin Inputs

OInv ==
    /\ IInv
    /\ DOMAIN signal = Runs /\ DOMAIN calls = Runs
    /\ \A r \in Runs : Ordered(r)

\* The steps before the one behind k are those before k, and k.
LEMMA BuiltNext ==
    ASSUME NEW k \in Nat \ {0}
    PROVE  BuiltBy(k) = BuiltBy(k - 1) \cup ({Order[k]} \ Inputs)
<1>1. 1..k = (1..(k - 1)) \cup {k}
    OBVIOUS
<1> QED BY <1>1 DEF BuiltBy

\* A borrowed input adds nothing to the list.
LEMMA ListsSkip ==
    ASSUME NEW s, NEW k \in Nat \ {0}, Lists(s, k - 1), Order[k] \in Inputs
    PROVE  Lists(s, k)
BY BuiltNext DEF Lists

\* What the next factory made comes last.
LEMMA ListsNext ==
    ASSUME NEW s \in Seq(Impls), NEW k \in DOMAIN Order, Lists(s, k - 1),
           Order[k] \notin Inputs
    PROVE  Lists(Append(s, Order[k]), k)
<1> DEFINE t == Append(s, Order[k])
<1>1. k \in Nat \ {0} /\ Order[k] \in Impls
    BY Program
<1>2. /\ Len(s) \in Nat /\ DOMAIN s = 1..Len(s) /\ DOMAIN t = 1..(Len(s) + 1)
      /\ t[Len(s) + 1] = Order[k] /\ \A i \in DOMAIN s : t[i] = s[i]
    BY <1>1
<1>3. Entries(t) = Entries(s) \cup {Order[k]}
    BY <1>2 DEF Entries
<1>4. Entries(t) = BuiltBy(k)
    BY <1>1, <1>3, BuiltNext DEF Lists
<1>5. ASSUME NEW i \in DOMAIN t, NEW j \in DOMAIN t, i < j
      PROVE  \E a, b \in DOMAIN Order : a < b /\ t[i] = Order[a] /\ t[j] = Order[b]
    <2>1. i \in DOMAIN s
        BY <1>2, <1>5
    <2>2. CASE j \in DOMAIN s
        BY <1>2, <1>5, <2>1, <2>2 DEF Lists
    <2>3. CASE j = Len(s) + 1
        <3>1. s[i] \in BuiltBy(k - 1)
            BY <2>1 DEF Lists, Entries
        <3>2. PICK a \in 1..(k - 1) : s[i] = Order[a]
            BY <3>1 DEF BuiltBy
        <3>3. a \in DOMAIN Order /\ a < k
            BY <1>1, <3>2, Program
        <3>4. t[i] = Order[a] /\ t[j] = Order[k]
            BY <1>2, <2>1, <2>3, <3>2
        <3> QED BY <3>3, <3>4
    <2> QED BY <1>2, <2>2, <2>3
<1>6. Lists(t, k)
    BY <1>4, <1>5 DEF Lists
<1> QED BY <1>6

LEMMA OrderedInit == Init => OInv
<1> SUFFICES ASSUME Init PROVE OInv
    OBVIOUS
<1>1. ASSUME NEW r \in Runs PROVE Ordered(r)
    <2>1. at[r] = 1 /\ journal[r] = <<>> /\ pc[r] = "idle"
        BY DEF Init
    <2>2. BuiltBy(0) = {}
        BY DEF BuiltBy
    <2>3. ASSUME NEW s, DOMAIN s = {} PROVE Lists(s, 0)
        BY <2>2, <2>3 DEF Lists, Entries
    <2>4. Lists(<<>>, 0)
        <3>1. DOMAIN <<>> = {}
            OBVIOUS
        <3> QED BY <2>3, <3>1
    <2> QED BY <2>1, <2>4, Program DEF Ordered
<1>2. DOMAIN signal = Runs /\ DOMAIN calls = Runs
    BY DEF Init
<1> QED BY <1>1, <1>2, InitInv DEF OInv

\* A run whose step of the program, journal and control stay keeps its order.
LEMMA OrderStays ==
    ASSUME NEW q \in Runs, Ordered(q), at'[q] = at[q], journal'[q] = journal[q],
           pc'[q] = pc[q] \/ pc'[q] = "done"
              \/ (pc[q] # "done" /\ (pc'[q] \in {"factory", "await"} =>
                                        Order[at[q]] \notin Inputs))
    PROVE  Ordered(q)'
BY DEF Ordered, Lists, Entries

\* What every step of a run r does to the order of its own and of the others.
LEMMA OrderStep ==
    ASSUME OInv, NEW r \in Runs, Ordered(r)',
           \A q \in Runs \ {r} :
              pc'[q] = pc[q] /\ at'[q] = at[q] /\ journal'[q] = journal[q]
    PROVE  \A q \in Runs : Ordered(q)'
<1>1. ASSUME NEW q \in Runs \ {r} PROVE Ordered(q)'
    BY <1>1, OrderStays DEF OInv
<1> QED BY <1>1

LEMMA StartOrder ==
    ASSUME OInv, NEW r \in Runs, NEW s, NEW admitted, Start(r, s, admitted)
    PROVE  \A q \in Runs : Ordered(q)'
<1>1. /\ pc[r] = "idle" /\ UNCHANGED <<at, journal>> /\ Ordered(r) /\ Shape
      /\ \E to \in {"loop", "done"} : pc' = [pc EXCEPT ![r] = to]
    BY DEF Start, End, OInv, IInv
<1>2. PICK to \in {"loop", "done"} : pc' = [pc EXCEPT ![r] = to]
    BY <1>1
<1>3. pc'[r] = to /\ \A q \in Runs \ {r} : pc'[q] = pc[q]
    BY <1>1, <1>2 DEF Shape
<1>4. Ordered(r)'
    BY <1>1, <1>3, OrderStays
<1> QED BY <1>1, <1>3, <1>4, OrderStep

\* The steps that keep the step of the program and the journal, and that go to a
\* factory only for a factory, or end the run.
LEMMA StayingOrder ==
    ASSUME OInv, NEW r \in Runs,
           \/ Cancel(r) \/ CallFactory(r) \/ Finish(r) \/ NoProduct(r) \/ BadProduct(r)
           \/ CommitFails(r) \/ Throw(r) \/ Return(r) \/ Settle(r)
    PROVE  \A q \in Runs : Ordered(q)'
<1>1. Ordered(r) /\ Shape
    BY DEF OInv, IInv
<1>2. CASE \/ Cancel(r) \/ Finish(r) \/ NoProduct(r) \/ BadProduct(r)
           \/ CommitFails(r) \/ Throw(r)
    <2>1. pc' = [pc EXCEPT ![r] = "done"]
        BY <1>2 DEF Cancel, Finish, NoProduct, BadProduct, CommitFails, Throw, End
    <2>2. pc'[r] = "done" /\ \A q \in Runs \ {r} : pc'[q] = pc[q]
        BY <1>1, <2>1 DEF Shape
    <2>3. at' = at
        BY <1>2 DEF Cancel, Finish, NoProduct, BadProduct, CommitFails, Throw
    <2>4. \A q \in Runs \ {r} : journal'[q] = journal[q]
        <3>1. CASE CommitFails(r)
            BY <1>1, <3>1 DEF CommitFails, Transfer, Shape
        <3>2. CASE ~CommitFails(r)
            BY <1>2, <3>2 DEF Cancel, LoopStep, Finish, NoProduct, BadProduct, Throw
        <3> QED BY <3>1, <3>2
    <2>5. Ordered(r)'
        BY <2>2 DEF Ordered
    <2> QED BY <2>2, <2>3, <2>4, <2>5, OrderStep
<1>3. CASE CallFactory(r)
    <2>1. pc[r] = "loop" /\ UNCHANGED <<at, journal>> /\ Order[at[r]] \notin Inputs
        BY <1>3 DEF CallFactory, LoopStep, Running
    <2>2. PICK to \in {"factory", "done"} : pc' = [pc EXCEPT ![r] = to]
        BY <1>3 DEF CallFactory, End
    <2>3. pc'[r] = to /\ \A q \in Runs \ {r} : pc'[q] = pc[q]
        BY <1>1, <2>2 DEF Shape
    <2>4. Ordered(r)'
        BY <1>1, <2>1, <2>3, OrderStays
    <2> QED BY <2>1, <2>3, <2>4, OrderStep
<1>4. CASE Return(r)
    <2>1. /\ pc[r] = "factory" /\ UNCHANGED <<at, journal>>
          /\ pc' = [pc EXCEPT ![r] = "await"]
        BY <1>4 DEF Return, Running
    <2>2. pc'[r] = "await" /\ \A q \in Runs \ {r} : pc'[q] = pc[q]
        BY <1>1, <2>1 DEF Shape
    <2>3. Order[at[r]] \notin Inputs
        BY <1>1, <2>1 DEF Ordered
    <2>4. Ordered(r)'
        BY <1>1, <2>1, <2>2, <2>3, OrderStays
    <2> QED BY <2>1, <2>2, <2>4, OrderStep
<1>5. CASE Settle(r)
    <2>1. UNCHANGED <<pc, at, journal>>
        BY <1>5 DEF Settle
    <2>2. Ordered(r)'
        BY <1>1, <2>1, OrderStays
    <2> QED BY <2>1, <2>2, OrderStep
<1> QED BY <1>2, <1>3, <1>4, <1>5

\* A borrowed input is passed over; a product comes to the end of the journal.
LEMMA BorrowOrder ==
    ASSUME OInv, NEW r \in Runs, Borrow(r) PROVE \A q \in Runs : Ordered(q)'
<1>1. /\ Shape /\ Ordered(r) /\ pc[r] = "loop" /\ UNCHANGED <<pc, journal>>
      /\ at' = [at EXCEPT ![r] = @ + 1] /\ at[r] <= Len(Order) /\ Order[at[r]] \in Inputs
    BY DEF OInv, IInv, Borrow, LoopStep, Running, GoesOn
<1>2. at[r] \in Nat \ {0} /\ at'[r] = at[r] + 1 /\ \A q \in Runs \ {r} : at'[q] = at[q]
    BY <1>1 DEF Shape
<1>3. Lists(journal[r], at[r])
    BY <1>1, <1>2, ListsSkip DEF Ordered
<1>4. at'[r] \in 1..(Len(Order) + 1) /\ at'[r] - 1 = at[r]
    BY <1>1, <1>2, Program
<1>5. Ordered(r)'
    BY <1>1, <1>3, <1>4 DEF Ordered, Lists, Entries
<1> QED BY <1>1, <1>2, <1>5, OrderStep

LEMMA CommitOrder ==
    ASSUME OInv, NEW r \in Runs, Commit(r) PROVE \A q \in Runs : Ordered(q)'
<1>1. pc[r] = "await" /\ carrier[r] \in Fulfilled /\ IInv
    BY DEF OInv, Commit, Resume, Fulfilled
<1>2. /\ pc' = [pc EXCEPT ![r] = "loop"] /\ at' = [at EXCEPT ![r] = @ + 1]
      /\ journal' = [journal EXCEPT ![r] = Append(@, Order[at[r]])]
    BY DEF Commit, Transfer, Appends
<1>3. /\ Shape /\ Ordered(r) /\ at[r] \in DOMAIN Order /\ journal[r] \in Seq(Impls)
      /\ at[r] \in Nat \ {0}
    BY <1>1, Arrival DEF OInv
<1>4. /\ pc'[r] = "loop" /\ at'[r] = at[r] + 1
      /\ journal'[r] = Append(journal[r], Order[at[r]])
      /\ \A q \in Runs \ {r} : pc'[q] = pc[q] /\ at'[q] = at[q] /\ journal'[q] = journal[q]
    BY <1>2, <1>3 DEF Shape
<1>5. Lists(journal'[r], at[r])
    BY <1>1, <1>3, <1>4, ListsNext DEF Ordered
<1>6. at'[r] \in 1..(Len(Order) + 1) /\ at'[r] - 1 = at[r]
    BY <1>3, <1>4, Program
<1>7. Ordered(r)'
    BY <1>4, <1>5, <1>6 DEF Ordered, Lists, Entries
<1> QED BY <1>4, <1>7, OrderStep

LEMMA OrderAlways == Spec => []OInv
<1>1. OInv /\ IInv' /\ [Next]_vars => OInv'
  <2> SUFFICES ASSUME OInv, IInv', [Next]_vars PROVE OInv'
      OBVIOUS
  <2>1. DOMAIN signal' = Runs /\ DOMAIN calls' = Runs
      <3>1. \/ signal' = signal \/ \E r \in Runs, s \in Signals \cup {Fresh} :
                                     signal' = [signal EXCEPT ![r] = s]
          BY DEF Next, Machine, Factory, Start, LoopStep, Cancel, Borrow, CallFactory, Finish,
                 Resume, NoProduct, BadProduct, Commit, CommitFails, Throw, Return, Settle,
                 Abort, vars, runVars
      <3>2. \/ calls' = calls \/ \E r \in Runs : calls' = [calls EXCEPT ![r] = @ + 1]
          BY DEF Next, Machine, Factory, Start, LoopStep, Cancel, Borrow, CallFactory, Finish,
                 Resume, NoProduct, BadProduct, Commit, CommitFails, Throw, Return, Settle,
                 Abort, vars, runVars
      <3> QED BY <3>1, <3>2 DEF OInv
  <2>2. ASSUME UNCHANGED <<pc, at, journal>> PROVE \A q \in Runs : Ordered(q)'
      BY <2>2, OrderStays DEF OInv
  <2>3. CASE \E s \in Signals : Abort(s)
      BY <2>1, <2>2, <2>3 DEF Abort, runVars, OInv
  <2>4. CASE UNCHANGED vars
      BY <2>1, <2>2, <2>4 DEF vars, runVars, OInv
  <2>5. ASSUME NEW r \in Runs, Machine(r) \/ Factory(r) \/ Settle(r)
        PROVE  \A q \in Runs : Ordered(q)'
      BY <2>5, StayingOrder, BorrowOrder, CommitOrder DEF Machine, Factory
  <2> QED BY <2>1, <2>3, <2>4, <2>5, StartOrder DEF Next, OInv
<1> QED BY <1>1, OrderedInit, InvAlways, PTL DEF Spec

\* Only a call counts, and it is made by a run that has just looked at its signal.
LEMMA CallsStop ==
    ASSUME OInv, [Next]_vars, NEW r \in Runs PROVE StopsCalls(r)
<1> SUFFICES ASSUME Aborted(signal[r]), pc[r] # "idle" PROVE calls'[r] = calls[r]
    BY DEF StopsCalls
<1>1. \/ calls' = calls
      \/ \E q \in Runs : CallFactory(q) /\ calls' = [calls EXCEPT ![q] = @ + 1]
    BY DEF Next, Machine, Factory, Start, LoopStep, Cancel, Borrow, CallFactory, Finish,
           Resume, NoProduct, BadProduct, Commit, CommitFails, Throw, Return, Settle,
           Abort, vars, runVars
<1>2. ~CallFactory(r)
    BY DEF CallFactory, GoesOn
<1> QED BY <1>1, <1>2 DEF OInv

\* A run ends with an outcome of three kinds; nothing else changes an outcome.
LEMMA Endings ==
    ASSUME OInv, [Next]_vars, NEW r \in Runs, outcome'[r] # outcome[r]
    PROVE  /\ pc[r] # "done" /\ aborted' = aborted /\ \E phase :
                \/ outcome'[r] = Failed(r, phase)
                \/ outcome'[r] = Cancelled(r) /\ Aborted(signal'[r])
                \/ /\ outcome'[r] = Succeeded(r) /\ ~Aborted(signal'[r])
                   /\ at[r] > Len(Order)
           /\ \/ journal'[r] = journal[r]
              \/ /\ journal'[r] = Append(journal[r], Order[at[r]])
                 /\ pc[r] = "await" /\ carrier[r] = "valid"
<1>1. Shape /\ DOMAIN signal = Runs
    BY DEF OInv, IInv
<1>2. ASSUME NEW q \in Runs, NEW o, End(q, o)
      PROVE  q = r /\ outcome'[r] = o
    BY <1>1, <1>2 DEF End, Shape
<1>3. ASSUME NEW q \in Runs, NEW s, NEW admitted, Start(q, s, admitted)
      PROVE  /\ q = r /\ pc[r] = "idle" /\ aborted' = aborted /\ journal' = journal
             /\ \/ outcome'[r] = Failed(r, "inputs")
                \/ outcome'[r] = Cancelled(r) /\ Aborted(signal'[r])
    <2>1. CASE outcome' = outcome
        BY <2>1
    <2>2. CASE Aborted(s) /\ End(q, Cancelled(q))
        <3>1. q = r /\ outcome'[r] = Cancelled(q)
            BY <1>2, <2>2
        <3>2. signal'[r] = s
            BY <1>1, <1>3, <3>1 DEF Start
        <3> QED BY <1>3, <2>2, <3>1, <3>2 DEF Start
    <2>3. CASE End(q, Failed(q, "inputs"))
        <3>1. q = r /\ outcome'[r] = Failed(q, "inputs")
            BY <1>2, <2>3
        <3> QED BY <1>3, <3>1 DEF Start
    <2> QED BY <1>3, <2>1, <2>2, <2>3 DEF Start
<1>4. ASSUME NEW q \in Runs, LoopStep(q), Cancel(q) \/ Finish(q) \/ CallFactory(q)
      PROVE  /\ q = r /\ pc[r] = "loop" /\ aborted' = aborted /\ journal' = journal
             /\ \/ outcome'[r] = Failed(r, "internal")
                \/ outcome'[r] = Cancelled(r) /\ Aborted(signal'[r])
                \/ /\ outcome'[r] = Succeeded(r) /\ ~Aborted(signal'[r])
                   /\ at[r] > Len(Order)
    <2>1. /\ UNCHANGED <<aborted, signal, journal>> /\ pc[q] = "loop"
        BY <1>4 DEF LoopStep, Running
    <2>2. CASE Cancel(q)
        <3>1. q = r /\ outcome'[r] = Cancelled(q) /\ Aborted(signal[q])
            BY <1>2, <2>2 DEF Cancel
        <3> QED BY <2>1, <3>1 DEF Aborted
    <2>3. CASE Finish(q)
        <3>1. CASE End(q, Succeeded(q))
            <4>1. q = r /\ outcome'[r] = Succeeded(q)
                BY <1>2, <3>1
            <4>2. ~Aborted(signal[q]) /\ at[q] > Len(Order)
                BY <2>3 DEF Finish
            <4> QED BY <2>1, <4>1, <4>2 DEF Aborted
        <3>2. CASE End(q, Failed(q, "internal"))
            <4>1. q = r /\ outcome'[r] = Failed(q, "internal")
                BY <1>2, <3>2
            <4> QED BY <2>1, <4>1
        <3> QED BY <2>3, <3>1, <3>2 DEF Finish
    <2>4. CASE CallFactory(q)
        <3>1. CASE End(q, Failed(q, "internal"))
            <4>1. q = r /\ outcome'[r] = Failed(q, "internal")
                BY <1>2, <3>1
            <4> QED BY <2>1, <4>1
        <3> QED BY <2>4, <3>1 DEF CallFactory
    <2> QED BY <1>4, <2>2, <2>3, <2>4
<1>5. ASSUME NEW q \in Runs, NoProduct(q) \/ BadProduct(q) \/ Throw(q)
      PROVE  /\ q = r /\ pc[r] # "done" /\ aborted' = aborted /\ journal' = journal
             /\ \E phase : outcome'[r] = Failed(r, phase)
    <2>1. PICK phase : End(q, Failed(q, phase))
        BY <1>5 DEF NoProduct, BadProduct, Throw
    <2>2. q = r /\ outcome'[r] = Failed(q, phase)
        BY <1>2, <2>1
    <2>3. pc[q] # "done" /\ aborted' = aborted /\ journal' = journal
        BY <1>5 DEF NoProduct, BadProduct, Throw, Resume, Running
    <2> QED BY <2>2, <2>3
<1>6. ASSUME NEW q \in Runs, CommitFails(q)
      PROVE  /\ q = r /\ pc[r] = "await" /\ carrier[r] = "valid" /\ aborted' = aborted
             /\ outcome'[r] = Failed(r, "internal")
             /\ \/ journal'[r] = journal[r]
                \/ journal'[r] = Append(journal[r], Order[at[r]])
    <2>1. q = r /\ outcome'[r] = Failed(q, "internal")
        BY <1>2, <1>6 DEF CommitFails
    <2>2. pc[q] = "await" /\ carrier[q] = "valid" /\ aborted' = aborted
        BY <1>6 DEF CommitFails, Resume
    <2>3. \/ journal'[q] = journal[q]
          \/ journal'[q] = Append(journal[q], Order[at[q]])
        BY <1>1, <1>6 DEF CommitFails, Transfer, Shape
    <2> QED BY <2>1, <2>2, <2>3
<1>7. ASSUME NEW q \in Runs, \/ Borrow(q) \/ Commit(q) \/ Return(q) \/ Settle(q)
      PROVE  FALSE
    BY <1>7 DEF Borrow, Commit, Return, Settle
<1>8. ~UNCHANGED vars /\ ~\E s \in Signals : Abort(s)
    BY DEF vars, runVars, Abort
<1>9. ASSUME NEW q \in Runs, Machine(q) \/ Factory(q) \/ Settle(q)
      PROVE  \/ LoopStep(q) /\ (Cancel(q) \/ Finish(q) \/ CallFactory(q))
             \/ NoProduct(q) \/ BadProduct(q) \/ Throw(q) \/ CommitFails(q)
    BY <1>7, <1>9 DEF Machine, Factory, Cancel, Finish, CallFactory
<1> QED BY <1>3, <1>4, <1>5, <1>6, <1>8, <1>9 DEF Next

LEMMA WhySaid ==
    ASSUME OInv, [Next]_vars, NEW r \in Runs PROVE SaysWhy(r)
<1> SUFFICES ASSUME outcome'[r] # outcome[r]
             PROVE  LET o == outcome'[r]
                        late == signal'[r] \in aborted'
                    IN  /\ \E k \in 0..Len(Order) : Lists(o.created, k)
                        /\ o.status = "cancelled" => late
                        /\ o.status = "failed" => o.cancelled = late
                        /\ o.status = "succeeded" => ~late /\ Lists(o.created, Len(Order))
    BY DEF SaysWhy
<1>1. /\ pc[r] # "done" /\ aborted' = aborted /\ Len(Order) \in Nat
      /\ at[r] \in 1..(Len(Order) + 1) /\ Lists(journal[r], at[r] - 1)
    BY Endings, Program DEF OInv, Ordered
<1>2. \E k \in 0..Len(Order) : Lists(journal'[r], k)
    <2>1. CASE journal'[r] = journal[r]
        <3>1. at[r] - 1 \in 0..Len(Order)
            BY <1>1
        <3> QED BY <1>1, <2>1, <3>1
    <2>2. CASE /\ journal'[r] = Append(journal[r], Order[at[r]])
               /\ pc[r] = "await" /\ carrier[r] = "valid"
        <3>1. journal[r] \in Seq(Impls) /\ at[r] \in DOMAIN Order
            BY <2>2, Arrival DEF OInv, Fulfilled
        <3>2. Order[at[r]] \notin Inputs
            BY <2>2 DEF OInv, Ordered
        <3>3. Lists(journal'[r], at[r]) /\ at[r] \in 0..Len(Order)
            BY <1>1, <2>2, <3>1, <3>2, ListsNext, Program
        <3> QED BY <3>3
    <2> QED BY <2>1, <2>2, Endings
<1>3. PICK phase :
         \/ outcome'[r] = Failed(r, phase)
         \/ outcome'[r] = Cancelled(r) /\ Aborted(signal'[r])
         \/ outcome'[r] = Succeeded(r) /\ ~Aborted(signal'[r]) /\ at[r] > Len(Order)
    BY Endings
<1>4. CASE outcome'[r] = Failed(r, phase)
    <2>1. /\ outcome'[r].created = journal'[r] /\ outcome'[r].status = "failed"
          /\ outcome'[r].cancelled = (signal'[r] \in aborted)
        BY <1>4 DEF Failed, Aborted
    <2> QED BY <1>1, <1>2, <2>1
<1>5. at[r] - 1 \in 0..Len(Order)
    BY <1>1
<1>6. CASE outcome'[r] = Cancelled(r) /\ Aborted(signal'[r])
    BY <1>1, <1>5, <1>6, Outcomes DEF Aborted
<1>7. CASE outcome'[r] = Succeeded(r) /\ ~Aborted(signal'[r]) /\ at[r] > Len(Order)
    <2>1. at[r] - 1 = Len(Order)
        BY <1>1, <1>7
    <2> QED BY <1>1, <1>5, <1>7, <2>1, Outcomes DEF Aborted
<1> QED BY <1>3, <1>4, <1>6, <1>7

\* A run calls no factory once its signal is aborted, whoever aborted it and when,
\* and its outcome says truly whether it was, and names the products in the order of
\* the program (the loop of run.ts and its three ways to end).
THEOREM OutcomesTell == Spec => OutcomeIsTrue
<1>1. OInv /\ [Next]_vars => [\A r \in Runs : StopsCalls(r) /\ SaysWhy(r)]_vars
    BY CallsStop, WhySaid
<1> QED BY <1>1, OrderAlways, PTL DEF Spec, OutcomeIsTrue
=============================================================================
