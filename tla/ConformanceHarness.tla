--------------------------- MODULE ConformanceHarness ---------------------------
(***************************************************************************)
(* packages/conformance: what smoke(), isolate() and the cases of a contract *)
(* suite do with runs and scopes.  smoke() runs a prepared program once, and *)
(* then once for each factory and each way to disturb it; every attempt has  *)
(* a signal and a scope of its own, and its wrapped factories find by the    *)
(* signal what they have to inject.  isolate() builds one module in a scope  *)
(* which it hands to its caller; a case builds its subject in a scope which  *)
(* it closes.  Scopes are abstracted to the cleanups that are registered in  *)
(* them and not released.                                                    *)
(*                                                                           *)
(* Run k of the program is attempt k of smoke(), under signal k.             *)
(***************************************************************************)
EXTENDS AssemblyRun

CONSTANTS
    Requests,       \* the arguments of smoke(): `inject', and `at' if it is given
    Shapes,         \* capabilities, as their prototypes, the nearest first
    MaxSurprises    \* how often code of the user does what it should not

VARIABLES
    procedure,      \* "smoke", "isolate" or "case"
    stage,
    request,
    shape,          \* of the capability of each factory
    plans,          \* what each attempt injects, and where
    called,         \* the factories that each attempt has called
    injected,       \* the attempts whose injected failure was raised
    held,           \* cleanups that are not released: <<attempt, implementation>>
    steps,          \* what smoke() reports of its attempts
    surprises

harness == <<procedure, stage, request, shape, plans, called, injected, held, steps, surprises>>

Factories == {Order[k] : k \in DOMAIN Order} \ Inputs
Ends == {"resolved", "rejected"}
NoRequest == [inject |-> <<>>, given |-> FALSE, at |-> <<>>]
NoPlan == [inject |-> "none", at |-> "none"]

HarnessInit ==
    /\ Init
    /\ procedure = "none" /\ stage = "idle"
    /\ request = NoRequest /\ shape = [i \in Factories |-> <<>>]
    /\ plans = <<NoPlan>> /\ called = [r \in Runs |-> <<>>] /\ injected = {}
    /\ held = {} /\ steps = <<>> /\ surprises = 0

Invoke ==
    /\ stage = "idle"
    /\ procedure' \in {"smoke", "isolate", "case"} /\ stage' = "begin"
    /\ request' \in Requests /\ shape' \in [Factories -> Shapes]
    /\ UNCHANGED <<vars, plans, called, injected, held, steps, surprises>>

Surprise == surprises < MaxSurprises /\ surprises' = surprises + 1
AsItShould == UNCHANGED surprises
-----------------------------------------------------------------------------
(* Ports: functions that a capability has from a class are refused, those of *)
(* the containers of the language and of plain objects are not.              *)

PrototypeMembers(chain) ==
    UNION {chain[k].members : k \in {k \in DOMAIN chain : \A j \in 1..k : chain[j].kind = "ordinary"}}

Ids(seq) == {seq[k] : k \in DOMAIN seq}
OwnMemberViolations(created) == {i \in Ids(created) : PrototypeMembers(shape[i]) # {}}
-----------------------------------------------------------------------------
(* smoke().                                                                *)

Attempt == Len(steps) + 1
Plan == plans[Attempt]

\* The root is composed once, by the api it is given, or smoke() gives up.
Compose ==
    /\ procedure = "smoke" /\ stage = "begin"
    /\ \/ stage' = "attempt" /\ AsItShould
       \/ stage' = "rejected" /\ Surprise
    /\ UNCHANGED <<vars, procedure, request, shape, plans, called, injected, held, steps>>

Begin ==
    /\ procedure = "smoke" /\ stage = "attempt"
    /\ \/ Start(Attempt, Attempt, TRUE) /\ AsItShould
       \/ Start(Attempt, Attempt, FALSE) /\ Surprise
    /\ stage' = "run"
    /\ UNCHANGED <<procedure, request, shape, plans, called, injected, held, steps>>

Current(r) == stage = "run" /\ r = Attempt
Target(r) == Order[at[r]] = Plan.at

\* The wrapper notes the call and calls the factory.
Call(r) ==
    /\ Current(r) /\ CallFactory(r)
    /\ called' = IF pc'[r] = "factory" THEN [called EXCEPT ![r] = Append(@, Order[at[r]])] ELSE called
    /\ UNCHANGED <<procedure, stage, request, shape, plans, injected, held, steps, surprises>>

Proceed(r) ==
    /\ Current(r)
    /\ Cancel(r) \/ Borrow(r) \/ Finish(r) \/ NoProduct(r) \/ BadProduct(r) \/ Commit(r)
    /\ UNCHANGED harness

\* A factory, or what it has started, registers a cleanup in the scope.
Register(r) ==
    /\ Current(r) /\ UserCode
    /\ \E i \in Ids(called[r]) : held' = held \cup {<<r, i>>}
    /\ UNCHANGED <<vars, procedure, stage, request, shape, plans, called, injected, steps, surprises>>

FailsBeforeReturn(r) ==
    /\ Current(r) /\ r \notin aborted
    /\ Throw(r) /\ Surprise
    /\ UNCHANGED <<procedure, stage, request, shape, plans, called, injected, held, steps>>

\* The carrier is there; the wrapper aborts before it hands it on.
InjectAbort(r) ==
    /\ Current(r) /\ Running(r, "factory") /\ Target(r) /\ Plan.inject = "abort"
    /\ Abort(r)
    /\ UNCHANGED harness

HandOn(r) ==
    /\ Current(r) /\ Running(r, "factory")
    /\ Target(r) /\ Plan.inject = "abort" => r \in aborted
    /\ Return(r)
    /\ IF carrier'[r] = "unsupported" THEN Surprise ELSE AsItShould
    /\ UNCHANGED <<procedure, stage, request, shape, plans, called, injected, held, steps>>

\* What fulfils is rejected by the wrapper, with the failure it was told to inject;
\* what the factory itself rejects stays as it is.
Settles(r) ==
    /\ Current(r) /\ Settle(r)
    /\ IF Target(r) /\ Plan.inject = "fail"
       THEN /\ carrier'[r] = "rejected"
            /\ \/ injected' = injected \cup {r} /\ AsItShould
               \/ UNCHANGED injected /\ Surprise
       ELSE /\ IF carrier'[r] = "valid" THEN AsItShould ELSE Surprise
            /\ UNCHANGED injected
    /\ UNCHANGED <<procedure, stage, request, shape, plans, called, held, steps>>

Position(seq, id) == CHOOSE k \in DOMAIN seq : seq[k] = id

\* Mutant: only the status is compared.
ExpectedStatus(r) ==
    outcome[r].status = CASE Plan.inject = "none" -> "succeeded" [] Plan.inject = "fail" -> "failed" [] OTHER -> "cancelled"

\* The outcome of an attempt is what its plan expects.
Expected(r) ==
    LET o == outcome[r]
    IN  CASE Plan.inject = "none" -> o.status = "succeeded" /\ Ids(o.created) \subseteq Ids(called[r])
          [] Plan.inject = "fail" ->
                /\ o.status = "failed" /\ o.phase = "factory" /\ carrier[r] = "rejected"
                /\ Target(r) /\ r \in injected
                /\ o.created = SubSeq(called[1], 1, Position(called[1], Plan.at) - 1)
          [] OTHER -> o.status = "cancelled" \/ (o.status = "failed" /\ o.cancelled)

\* The factories and ways that are still to be tried, after the first run.
Targets == IF request.given THEN request.at ELSE called[1]
Injections ==
    LET modes == Len(request.inject)
    IN  [k \in 1..(Len(Targets) * modes) |->
            [inject |-> request.inject[((k - 1) % modes) + 1], at |-> Targets[((k - 1) \div modes) + 1]]]
Unusable == ~(Ids(Targets) \subseteq Ids(called[1])) \/ OwnMemberViolations(outcome[1].created) # {}

Verdict(all) == IF \E k \in DOMAIN all : all[k].problem THEN "rejected" ELSE "resolved"

\* The scope of the attempt is closed, whatever came of it, and the attempt judged.
Close ==
    LET r == Attempt
        own == {h \in held : h[1] = r}
    IN  /\ procedure = "smoke" /\ stage = "run" /\ pc[r] = "done"
        /\ \E debts \in SUBSET own :
              /\ IF debts = {} THEN AsItShould ELSE Surprise
              /\ held' = (held \ own) \cup debts
              /\ steps' = Append(steps, [outcome |-> outcome[r].status, debts |-> debts,
                                         problem |-> ~Expected(r) \/ debts # {}])
        /\ IF r = 1
           THEN IF outcome[1].status # "succeeded" \/ Unusable
                THEN stage' = "rejected" /\ UNCHANGED plans
                ELSE /\ plans' = plans \o Injections
                     /\ stage' = IF Len(plans') > 1 THEN "attempt" ELSE Verdict(steps')
           ELSE /\ stage' = IF r < Len(plans) THEN "attempt" ELSE Verdict(steps')
                /\ UNCHANGED plans
        /\ UNCHANGED <<vars, procedure, request, shape, called, injected>>
-----------------------------------------------------------------------------
(* isolate(), and a case of a contract suite.  Of the run that isolate()    *)
(* makes, only how it ends is told apart.                                   *)

Subject == Order[Len(Order)]

\* isolate() may refuse its arguments, the composition or its preparation, or find
\* the scope that it should open its own under closing.
Open ==
    /\ procedure \in {"isolate", "case"} /\ stage = "begin"
    /\ \/ stage' = "user" /\ AsItShould
       \/ procedure = "isolate" /\ stage' = "rejected" /\ Surprise
    /\ UNCHANGED <<vars, procedure, request, shape, plans, called, injected, held, steps>>

SubjectRegisters ==
    /\ stage = "user"
    /\ held' = held \cup {<<1, Subject>>}
    /\ UNCHANGED <<vars, procedure, stage, request, shape, plans, called, injected, steps, surprises>>

\* The module was built, or it was not; the case passed, or it did not.
SubjectEnds ==
    /\ stage = "user"
    /\ \/ /\ stage' = (IF procedure = "case" THEN "close"
                       ELSE IF PrototypeMembers(shape[Subject]) # {} THEN "failed" ELSE "resolved")
          /\ AsItShould
       \/ stage' = "failed" /\ Surprise
    /\ UNCHANGED <<vars, procedure, request, shape, plans, called, injected, held, steps>>

SubjectCloses ==
    /\ stage \in {"close", "failed"}
    /\ \E debts \in SUBSET held :
          /\ IF debts = {} THEN AsItShould ELSE Surprise
          /\ held' = debts
          /\ steps' = <<[outcome |-> stage, debts |-> debts, problem |-> stage = "failed" \/ debts # {}]>>
    /\ stage' = Verdict(steps')
    /\ UNCHANGED <<vars, procedure, request, shape, plans, called, injected>>
-----------------------------------------------------------------------------
Mine ==
    \/ Compose \/ Begin \/ Close
    \/ \E r \in Runs : Call(r) \/ Proceed(r) \/ InjectAbort(r) \/ FailsBeforeReturn(r) \/ HandOn(r)
                       \/ Settles(r)
    \/ Open \/ SubjectEnds \/ SubjectCloses

HarnessNext == Invoke \/ Mine \/ SubjectRegisters \/ \E r \in Runs : Register(r)

HarnessSpec == HarnessInit /\ [][HarnessNext]_<<vars, harness>> /\ WF_<<vars, harness>>(Mine)
-----------------------------------------------------------------------------
\* An attempt that disturbed one factory did so: it was called, none was after it,
\* and all before it were built; what was not to be disturbed was built whole.
Reached(r) ==
    LET plan == plans[r]
        Final == IF called[r] = <<>> THEN "none" ELSE called[r][Len(called[r])]
    IN  CASE plan.inject = "none" -> outcome[r].created = called[r] /\ Ids(called[r]) = Factories
          [] plan.inject = "fail" -> Final = plan.at /\ outcome[r].created = SubSeq(called[1], 1, Len(called[r]) - 1)
          [] OTHER -> Final = plan.at /\ r \in aborted

\* Nothing that belongs to an attempt outlives it unless it is reported.
LeftIsReported ==
    \A h \in held : h[1] = Attempt \/ h \in steps[h[1]].debts

\* Resolved means what it says: every way was tried on every factory that was asked
\* for, each reached its factory, and all that was registered is released.
ResolvedIsTrue ==
    /\ held = {}
    /\ Len(steps) = Len(plans)
    /\ \A r \in DOMAIN plans : Reached(r)
    /\ \A i \in Ids(Targets), m \in Ids(request.inject) : \E r \in DOMAIN plans : plans[r] = [inject |-> m, at |-> i]

\* Nothing is rejected without a cause.
HasCause ==
    \/ surprises > 0
    \/ \E i \in Factories : PrototypeMembers(shape[i]) # {}
    \/ request.given /\ ~(Ids(request.at) \subseteq Factories)

HarnessIsTrue ==
    /\ LeftIsReported
    /\ stage = "resolved" /\ procedure = "smoke" => ResolvedIsTrue
    /\ stage = "resolved" /\ procedure = "case" => held = {}
    /\ stage = "rejected" /\ procedure # "smoke" => held \subseteq UNION {steps[k].debts : k \in DOMAIN steps}
    /\ stage = "rejected" => HasCause

\* smoke(), isolate() and a case settle, if the factories and the case do.
HarnessSettles == stage = "begin" ~> stage \in Ends
=============================================================================
