----------------------------- MODULE ReleaseProofs -----------------------------
(***************************************************************************)
(* `latest` never goes back, for any packages, histories of main, pins and *)
(* number of runs, attempts and accidents.                                 *)
(***************************************************************************)
EXTENDS NpmRelease, SequenceTheorems, TLAPS

Steps == {"source", "prepare", "publish", "verify", "promote"}
Statuses == {"running", "skipped", "failed", "cancelled", "succeeded"}
Run == [event : {"workflow_run", "workflow_dispatch"}, subject : Nat,
        conclusion : {"success", "partial", "failure", "cancelled", "none"},
        sha : Nat, attempt : Nat, at : Steps, status : Statuses]

Shape ==
    /\ history \in Histories /\ main \in DOMAIN history
    /\ runs \in Seq(Run)
    /\ \A i \in DOMAIN runs : runs[i].sha \in DOMAIN history
    /\ active \in 0..Len(runs) /\ waiting \in 0..Len(runs)
    /\ latest \in [Packages -> Versions]
    /\ DOMAIN ci \subseteq Nat

\* The two runs of the concurrency group are different runs, and both are running.
Grouped ==
    /\ waiting # 0 => waiting # active /\ runs[waiting].status = "running"
    /\ active # 0 => runs[active].status = "running"

Unprepared(i, attempt) == \A a \in artifacts : a.name # <<i, attempt>>

\* An artifact belongs to an attempt that was made, and no two have one name; an
\* attempt that waits, or has not left its first job, has none.
Named ==
    /\ \A i \in Nat \ {0}, n \in Nat :
          (i \in DOMAIN runs => n > runs[i].attempt) => Unprepared(i, n)
    /\ \A a, b \in artifacts : a.name = b.name => a = b
    /\ waiting # 0 => Unprepared(waiting, runs[waiting].attempt)
    /\ active # 0 /\ runs[active].at \in {"source", "prepare"} => Unprepared(active, runs[active].attempt)

\* What the active attempt has prepared is not older than `latest`: only it
\* promotes, and it compared the versions itself.
Current ==
    active # 0 =>
        \A a \in artifacts : a.name = NameOf(active) =>
            \A p \in Packages : /\ a.manifest[p].version \in Versions
                                /\ AtMost(latest[p], a.manifest[p].version)

\* The inductive invariant.
IInv == Shape /\ Grouped /\ Named /\ Current

\* The walk over the numbers of two versions decides their order.
LEMMA NewerIsExact ==
    ASSUME NEW v \in Versions, NEW w \in Versions
    PROVE  Newer(v, w) <=> ~AtMost(v, w)
<1>1. \A k \in 1..3 : v[k] \in Nat /\ w[k] \in Nat
    BY DEF Versions
<1>2. \A k \in 1..3 : k = 1 \/ k = 2 \/ k = 3
    OBVIOUS
<1>3. 1..0 = {} /\ 1..1 = {1} /\ 1..2 = {1, 2}
    OBVIOUS
<1>4. Newer(v, w) <=> \/ v[1] > w[1]
                      \/ v[2] > w[2] /\ v[1] = w[1]
                      \/ v[3] > w[3] /\ v[1] = w[1] /\ v[2] = w[2]
    <2>1. ASSUME NEW k \in 1..3, v[k] > w[k], \A j \in 1..k - 1 : v[j] = w[j]
          PROVE  \/ v[1] > w[1]
                 \/ v[2] > w[2] /\ v[1] = w[1]
                 \/ v[3] > w[3] /\ v[1] = w[1] /\ v[2] = w[2]
        BY <2>1, <1>2
    <2>2. ASSUME v[1] > w[1] PROVE Newer(v, w)
        BY <2>2 DEF Newer
    <2>3. ASSUME v[2] > w[2], v[1] = w[1] PROVE Newer(v, w)
        <3>1. \A j \in 1..2 - 1 : v[j] = w[j]
            BY <2>3
        <3> QED BY <2>3, <3>1 DEF Newer
    <2>4. ASSUME v[3] > w[3], v[1] = w[1], v[2] = w[2] PROVE Newer(v, w)
        <3>1. \A j \in 1..3 - 1 : v[j] = w[j]
            BY <2>4
        <3> QED BY <2>4, <3>1 DEF Newer
    <2> QED BY <2>1, <2>2, <2>3, <2>4 DEF Newer
<1> QED BY <1>1, <1>4 DEF AtMost

LEMMA AtMostReflexive == ASSUME NEW v \in Versions PROVE AtMost(v, v)
BY DEF AtMost, Versions

\* A run that is replaced keeps the sequence of runs one.
LEMMA Replaced ==
    ASSUME NEW rs \in Seq(Run), NEW i \in DOMAIN rs, NEW r \in Run
    PROVE  LET new == [rs EXCEPT ![i] = r]
           IN  /\ new \in Seq(Run) /\ DOMAIN new = DOMAIN rs /\ Len(new) = Len(rs)
               /\ new[i] = r /\ \A j \in DOMAIN rs : j # i => new[j] = rs[j]
<1> HIDE DEF Run
<1> QED BY ExceptSeq

Again(r, at) == [r EXCEPT !.attempt = @ + 1, !.status = "running", !.at = at]

\* The parts of a run that running it again sets.
LEMMA AgainIsRun ==
    ASSUME NEW r \in Run, NEW at \in Steps
    PROVE  LET q == Again(r, at)
           IN  q \in Run /\ q.attempt = r.attempt + 1 /\ q.status = "running" /\ q.sha = r.sha
<1>1. r.attempt + 1 \in Nat /\ "running" \in Statuses
    BY DEF Run, Statuses
<1> DEFINE q1 == [r EXCEPT !.attempt = r.attempt + 1]
           q2 == [q1 EXCEPT !.status = "running"]
           q3 == [q2 EXCEPT !.at = at]
<1>2. q1 \in Run /\ q1.attempt = r.attempt + 1 /\ q1.sha = r.sha
    BY <1>1 DEF Run
<1>3. q3 = Again(r, at)
    BY DEF Again
<1> HIDE DEF q1
<1>4. q2 \in Run /\ q2.attempt = q1.attempt /\ q2.sha = r.sha /\ q2.status = "running"
    BY <1>1, <1>2 DEF Run
<1> HIDE DEF q2
<1>5. q3 \in Run /\ q3.attempt = q2.attempt /\ q3.sha = r.sha /\ q3.status = "running"
    BY <1>4 DEF Run
<1> QED BY <1>2, <1>3, <1>4, <1>5

LEMMA InitInv == Init => IInv
<1> SUFFICES ASSUME Init PROVE IInv
    OBVIOUS
<1>1. history \in Histories /\ main \in DOMAIN history /\ latest \in [Packages -> Versions]
    BY HistoriesAssumption DEF Init, Commit
<1>2. runs = << >> /\ runs \in Seq(Run) /\ Len(runs) = 0
    BY DEF Init
<1>3. DOMAIN runs = {} /\ active = 0 /\ waiting = 0 /\ artifacts = {} /\ DOMAIN ci = {1}
    BY <1>2 DEF Init
<1>4. Shape
    BY <1>1, <1>2, <1>3 DEF Shape
<1> QED BY <1>3, <1>4 DEF IInv, Grouped, Named, Current, Unprepared

\* A run that ends: the next one, if any, has not prepared anything.
LEMMA EndInv ==
    ASSUME IInv, active # 0, NEW status \in Statuses, End(status),
           UNCHANGED <<repository, artifacts>>, latest' \in [Packages -> Versions]
    PROVE  IInv'
<1>1. active \in DOMAIN runs /\ runs[active] \in Run
    BY DEF IInv, Shape
<1> DEFINE r == [runs[active] EXCEPT !.status = status]
<1>2. runs' = [runs EXCEPT ![active] = r]
    BY DEF End
<1>r. r \in Run /\ r.status = status /\ r.attempt = runs[active].attempt /\ r.sha = runs[active].sha /\ r.at = runs[active].at
    BY <1>1 DEF Run
<1> HIDE DEF r
<1>3. runs' \in Seq(Run) /\ DOMAIN runs' = DOMAIN runs /\ Len(runs') = Len(runs)
    BY <1>1, <1>2, <1>r, Replaced DEF IInv, Shape
<1>4. \A i \in DOMAIN runs : /\ runs'[i].attempt = runs[i].attempt /\ runs'[i].sha = runs[i].sha
                             /\ i # active => runs'[i] = runs[i]
    BY <1>1, <1>2, <1>r, Replaced DEF IInv, Shape
<1>5. Shape'
    BY <1>3, <1>4 DEF IInv, Shape, End, repository
<1>6. active' = waiting /\ waiting' = 0 /\ artifacts' = artifacts
    BY DEF End
<1>7. waiting # 0 => waiting \in DOMAIN runs /\ waiting # active
    BY DEF IInv, Shape, Grouped
<1>8. Grouped'
    BY <1>4, <1>6, <1>7 DEF IInv, Grouped
<1>9. Named'
    BY <1>3, <1>4, <1>6, <1>7 DEF IInv, Named, Unprepared
<1>10. Current'
    BY <1>4, <1>6, <1>7 DEF IInv, Named, Unprepared, Current, NameOf
<1> QED BY <1>5, <1>8, <1>9, <1>10 DEF IInv

\* The active run moves to its next step.
LEMMA GoToInv ==
    ASSUME IInv, active # 0, NEW step \in Steps, GoTo(step), UNCHANGED <<repository, artifacts, latest>>,
           step \in {"source", "prepare"} => runs[active].at \in {"source", "prepare"}
    PROVE  IInv'
<1>1. active \in DOMAIN runs /\ runs[active] \in Run
    BY DEF IInv, Shape
<1> DEFINE r == [runs[active] EXCEPT !.at = step]
<1>2. runs' = [runs EXCEPT ![active] = r]
    BY DEF GoTo
<1>r. r \in Run /\ r.at = step /\ r.attempt = runs[active].attempt /\ r.sha = runs[active].sha /\ r.status = runs[active].status
    BY <1>1 DEF Run
<1> HIDE DEF r
<1>3. runs' \in Seq(Run) /\ DOMAIN runs' = DOMAIN runs /\ Len(runs') = Len(runs)
    BY <1>1, <1>2, <1>r, Replaced DEF IInv, Shape
<1>4. \A i \in DOMAIN runs : /\ runs'[i].attempt = runs[i].attempt /\ runs'[i].sha = runs[i].sha
                             /\ runs'[i].status = runs[i].status
                             /\ i # active => runs'[i] = runs[i]
    BY <1>1, <1>2, <1>r, Replaced DEF IInv, Shape
<1>5. runs'[active].at = step
    BY <1>1, <1>2, <1>r, Replaced DEF IInv, Shape
<1>6. Shape'
    BY <1>3, <1>4 DEF IInv, Shape, GoTo, repository
<1>7. active' = active /\ waiting' = waiting /\ artifacts' = artifacts /\ latest' = latest
    BY DEF GoTo
<1>8. waiting # 0 => waiting \in DOMAIN runs
    BY DEF IInv, Shape
<1>9. Grouped'
    BY <1>1, <1>4, <1>7, <1>8 DEF IInv, Grouped
<1>10. Named'
    BY <1>1, <1>3, <1>4, <1>5, <1>7, <1>8 DEF IInv, Named, Unprepared
<1>11. Current'
    BY <1>1, <1>4, <1>7 DEF IInv, Current, NameOf
<1> QED BY <1>6, <1>9, <1>10, <1>11 DEF IInv

\* A run that enters the group, with an attempt that has prepared nothing.
LEMMA EnterInv ==
    ASSUME IInv, NEW rs \in Seq(Run), NEW i \in DOMAIN rs, Enter(i, rs),
           DOMAIN runs \subseteq DOMAIN rs, i # active, i # waiting,
           \A j \in DOMAIN runs : j # i => rs[j] = runs[j],
           i \in DOMAIN runs => rs[i].attempt >= runs[i].attempt,
           \A j \in DOMAIN rs : rs[j].sha \in DOMAIN history,
           rs[i].status = "running", Unprepared(i, rs[i].attempt),
           UNCHANGED <<history, main, artifacts, latest>>, DOMAIN ci' \subseteq Nat
    PROVE  IInv'
<1>1. DOMAIN runs = 1..Len(runs) /\ DOMAIN rs = 1..Len(rs)
    BY DEF IInv, Shape
<1>2. (active # 0 => active \in DOMAIN runs) /\ (waiting # 0 => waiting \in DOMAIN runs)
    BY <1>1 DEF IInv, Shape
<1>3. \A j \in DOMAIN runs : /\ runs[j].attempt \in Nat /\ rs[j].attempt \in Nat
                             /\ rs[j].attempt >= runs[j].attempt
    <2>1. \A j \in DOMAIN runs : runs[j] \in Run /\ rs[j] \in Run
        BY <1>1 DEF IInv, Shape
    <2>2. \A j \in DOMAIN runs : runs[j].attempt \in Nat /\ rs[j].attempt \in Nat
        BY <2>1 DEF Run
    <2> QED BY <2>2
<1>4. \A j \in Nat \ {0}, n \in Nat : (j \in DOMAIN rs => n > rs[j].attempt) => Unprepared(j, n)
    BY <1>1, <1>3 DEF IInv, Named
<1>5. CASE active = 0
    <2>1. active' = i /\ runs' = rs /\ waiting' = waiting
        BY <1>5 DEF Enter
    <2>2. Shape'
        BY <1>1, <1>2, <2>1 DEF IInv, Shape
    <2>3. Grouped'
        BY <1>2, <2>1 DEF IInv, Grouped
    <2>4. Named'
        BY <1>2, <1>4, <2>1 DEF IInv, Named, Unprepared
    <2>5. Current'
        BY <2>1 DEF Current, Unprepared, NameOf
    <2> QED BY <2>2, <2>3, <2>4, <2>5 DEF IInv
<1>6. CASE active # 0 /\ waiting = 0
    <2>1. active' = active /\ runs' = rs /\ waiting' = i /\ rs[active] = runs[active]
        BY <1>2, <1>6 DEF Enter
    <2>2. Shape'
        BY <1>1, <1>2, <1>6, <2>1 DEF IInv, Shape
    <2>3. Grouped'
        BY <1>2, <1>6, <2>1 DEF IInv, Grouped
    <2>4. Named'
        BY <1>2, <1>4, <2>1 DEF IInv, Named, Unprepared
    <2>5. Current'
        BY <2>1 DEF IInv, Current, NameOf
    <2> QED BY <2>2, <2>3, <2>4, <2>5 DEF IInv
<1>7. CASE active # 0 /\ waiting # 0
    <2> DEFINE r == [rs[waiting] EXCEPT !.status = "cancelled"]
    <2>0. active' = active /\ waiting' = i /\ runs' = [rs EXCEPT ![waiting] = r]
        BY <1>7 DEF Enter
    <2>r. r \in Run /\ r.attempt = rs[waiting].attempt /\ r.sha = rs[waiting].sha
        <3>1. rs[waiting] \in Run /\ "cancelled" \in Statuses
            BY <1>2, <1>7 DEF Statuses
        <3> QED BY <3>1 DEF Run
    <2> HIDE DEF r
    <2>1. runs' \in Seq(Run) /\ DOMAIN runs' = DOMAIN rs /\ Len(runs') = Len(rs)
        BY <1>2, <1>7, <2>0, <2>r, Replaced
    <2>2. \A j \in DOMAIN rs : /\ runs'[j].attempt = rs[j].attempt /\ runs'[j].sha = rs[j].sha
                               /\ j # waiting => runs'[j] = rs[j]
        BY <1>2, <1>7, <2>0, <2>r, Replaced
    <2>3. active # waiting /\ runs'[active] = runs[active] /\ runs'[i] = rs[i]
        BY <1>2, <1>7, <2>2 DEF IInv, Grouped
    <2>4. Shape'
        BY <1>1, <1>2, <1>7, <2>0, <2>1, <2>2 DEF IInv, Shape
    <2>5. Grouped'
        BY <1>7, <2>0, <2>3 DEF IInv, Grouped
    <2>6. Named'
        BY <1>4, <2>0, <2>1, <2>2, <2>3, SMTT(30) DEF IInv, Named, Unprepared
    <2>7. Current'
        BY <2>0, <2>3 DEF IInv, Current, NameOf
    <2> QED BY <2>4, <2>5, <2>6, <2>7 DEF IInv
<1> QED BY <1>5, <1>6, <1>7

LEMMA TriggerInv ==
    ASSUME IInv, NEW event \in {"workflow_run", "workflow_dispatch"}, NEW subject \in Nat,
           NEW conclusion \in {"success", "partial", "failure", "cancelled", "none"},
           Trigger(event, subject, conclusion),
           UNCHANGED <<history, main, artifacts, latest>>, DOMAIN ci' \subseteq Nat
    PROVE  IInv'
<1> DEFINE r == [event |-> event, subject |-> subject, conclusion |-> conclusion,
                 sha |-> main, attempt |-> 1, at |-> "source", status |-> "running"]
           rs == Append(runs, r)
<1>1. DOMAIN history \subseteq Nat /\ main \in Nat
    BY HistoriesAssumption DEF IInv, Shape
<1>2. r \in Run /\ r.sha = main /\ r.status = "running" /\ r.attempt = 1
    <2>1. "source" \in Steps /\ "running" \in Statuses /\ 1 \in Nat
        BY DEF Steps, Statuses
    <2> QED BY <1>1, <2>1 DEF Run
<1>3. Enter(Len(runs) + 1, rs)
    BY DEF Trigger
<1> HIDE DEF r
<1>4. /\ rs \in Seq(Run) /\ Len(runs) + 1 \in DOMAIN rs /\ DOMAIN rs = DOMAIN runs \cup {Len(runs) + 1}
      /\ rs[Len(runs) + 1] = r /\ \A j \in DOMAIN runs : rs[j] = runs[j]
      /\ Len(runs) + 1 \notin DOMAIN runs /\ Len(runs) + 1 \in Nat \ {0}
    BY <1>2 DEF IInv, Shape
<1> HIDE DEF rs
<1>5. Len(runs) + 1 # active /\ Len(runs) + 1 # waiting
    BY DEF IInv, Shape
<1>6. Unprepared(Len(runs) + 1, 1)
    BY <1>4 DEF IInv, Named
<1>7. \A j \in DOMAIN rs : rs[j].sha \in DOMAIN history
    BY <1>2, <1>4 DEF IInv, Shape
<1> QED BY <1>2, <1>3, <1>4, <1>5, <1>6, <1>7, EnterInv

LEMMA RerunInv == ASSUME IInv, NEW i \in DOMAIN runs, Rerun(i) PROVE IInv'
<1>1. PICK at \in {"source", Job(runs[i].at)} :
          Enter(i, [runs EXCEPT ![i].attempt = @ + 1, ![i].status = "running", ![i].at = at])
    BY DEF Rerun
<1> DEFINE r == Again(runs[i], at)
           rs == [runs EXCEPT ![i] = r]
<1>2. runs[i] \in Run /\ i \in Nat \ {0}
    BY DEF IInv, Shape
<1>3. at \in Steps
    BY <1>2 DEF Job, Run, Steps
<1>4. r \in Run /\ r.attempt = runs[i].attempt + 1 /\ r.status = "running" /\ r.sha = runs[i].sha
    BY <1>2, <1>3, AgainIsRun
<1>5. Enter(i, rs)
    BY <1>1, <1>2 DEF IInv, Shape, Again
<1> HIDE DEF r
<1>6. /\ rs \in Seq(Run) /\ DOMAIN rs = DOMAIN runs /\ rs[i] = r
      /\ \A j \in DOMAIN runs : j # i => rs[j] = runs[j]
    BY <1>4, Replaced DEF IInv, Shape
<1> HIDE DEF rs
<1>7. i # active /\ i # waiting
    BY <1>2 DEF Rerun, IInv, Grouped
<1>8. runs[i].attempt \in Nat /\ Unprepared(i, runs[i].attempt + 1)
    BY <1>2 DEF IInv, Named, Run
<1>9. \A j \in DOMAIN rs : rs[j].sha \in DOMAIN history
    BY <1>4, <1>6 DEF IInv, Shape
<1>10. UNCHANGED <<history, main, ci, artifacts, latest>>
    BY DEF Rerun, repository, registry
<1> QED BY <1>4, <1>5, <1>6, <1>7, <1>8, <1>9, <1>10, EnterInv DEF IInv, Shape

\* The step that uploads: the attempt had no artifact, and its versions are at
\* least those of `latest`.
LEMMA PrepareInv == ASSUME IInv, Prepare PROVE IInv'
<1>1. active # 0 /\ active \in DOMAIN runs /\ runs[active] \in Run /\ runs[active].at = "prepare"
    BY DEF Prepare, At, Active, IInv, Shape
<1>2. UNCHANGED <<repository, latest>>
    BY DEF Prepare, registry
<1>3. ASSUME NEW status \in {"failed", "skipped"}, End(status), UNCHANGED artifacts
      PROVE  IInv'
    <2>1. status \in Statuses /\ latest' \in [Packages -> Versions]
        BY <1>2 DEF Statuses, IInv, Shape
    <2> QED BY <1>1, <1>2, <1>3, <2>1, EndInv
<1>4. ASSUME \A p \in Packages : ~Newer(latest[p], Version(p)), GoTo("publish"),
             artifacts' = artifacts \cup {[name |-> NameOf(active), manifest |-> Manifest(Source)]}
      PROVE  IInv'
    <2> DEFINE new == [name |-> NameOf(active), manifest |-> Manifest(Source)]
    <2>1. runs[active].sha \in DOMAIN history /\ history \in Histories
        BY <1>1 DEF IInv, Shape
    <2>2. \A p \in Packages : Version(p) \in Versions /\ new.manifest[p].version = Version(p)
        BY <2>1, HistoriesAssumption DEF Version, Source, Active, Commit, Manifest
    <2>3. \A p \in Packages : AtMost(latest[p], Version(p))
        BY <1>4, <2>2, NewerIsExact DEF IInv, Shape
    <2>4. new.name = <<active, runs[active].attempt>> /\ artifacts' = artifacts \cup {new}
        BY <1>4 DEF NameOf
    <2> HIDE DEF new
    <2>5. Unprepared(active, runs[active].attempt)
        BY <1>1 DEF IInv, Named
    <2> DEFINE r == [runs[active] EXCEPT !.at = "publish"]
    <2>6. runs' = [runs EXCEPT ![active] = r] /\ active' = active /\ waiting' = waiting
        BY <1>4 DEF GoTo
    <2>7. r \in Run /\ r.at = "publish" /\ r.status = runs[active].status
          /\ r.attempt = runs[active].attempt /\ r.sha = runs[active].sha
        BY <1>1 DEF Run, Steps
    <2> HIDE DEF r
    <2>8. runs' \in Seq(Run) /\ DOMAIN runs' = DOMAIN runs /\ Len(runs') = Len(runs) /\ runs'[active] = r
        BY <1>1, <2>6, <2>7, Replaced DEF IInv, Shape
    <2>9. \A i \in DOMAIN runs : i # active => runs'[i] = runs[i]
        BY <1>1, <2>6, <2>7, Replaced DEF IInv, Shape
    <2>10. (waiting # 0 => waiting \in DOMAIN runs /\ waiting # active) /\ runs[active].attempt \in Nat
        BY <1>1 DEF IInv, Shape, Grouped, Run
    <2>11. \A i \in DOMAIN runs : runs'[i].attempt = runs[i].attempt /\ runs'[i].sha = runs[i].sha
        BY <2>7, <2>8, <2>9
    <2>12. Shape'
        BY <1>2, <2>6, <2>8, <2>11 DEF IInv, Shape, repository
    <2>13. Grouped'
        BY <1>1, <2>6, <2>7, <2>8, <2>9, <2>10 DEF IInv, Grouped
    <2>14. Named'
        <3>1. \A i \in Nat \ {0}, n \in Nat :
                  (i \in DOMAIN runs' => n > runs'[i].attempt) => Unprepared(i, n)'
            BY <1>1, <2>4, <2>8, <2>10, <2>11 DEF IInv, Named, Unprepared
        <3>2. \A a, b \in artifacts' : a.name = b.name => a = b
            BY <2>4, <2>5 DEF IInv, Named, Unprepared
        <3>3. waiting' # 0 => Unprepared(waiting, runs[waiting].attempt)'
            BY <2>4, <2>6, <2>10, <2>11 DEF IInv, Named, Unprepared
        <3>4. runs'[active'].at = "publish"
            BY <2>6, <2>7, <2>8
        <3> QED BY <3>1, <3>2, <3>3, <3>4 DEF Named, Unprepared
    <2>15. Current'
        <3>1. NameOf(active)' = new.name
            BY <1>1, <2>4, <2>6, <2>11 DEF NameOf
        <3>2. \A a \in artifacts' : a.name = NameOf(active)' => a = new
            BY <2>4, <2>5, <3>1 DEF Unprepared
        <3> QED BY <1>2, <2>2, <2>3, <3>2 DEF Current
    <2> QED BY <2>12, <2>13, <2>14, <2>15 DEF IInv
<1> QED BY <1>3, <1>4 DEF Prepare

\* What the phases of the publisher use is an artifact of this attempt.
LEMMA PreparedIsCurrent ==
    ASSUME IInv, active # 0, Found, NEW p \in Packages
    PROVE  Prepared[p].version \in Versions /\ AtMost(latest[p], Prepared[p].version)
<1> DEFINE a == CHOOSE a \in artifacts : a.name = NameOf(active)
<1>1. a \in artifacts /\ a.name = NameOf(active)
    BY DEF Found
<1> QED BY <1>1 DEF IInv, Current, Prepared

\* A promotion sets `latest` of one package to what is prepared.
LEMMA PromoteInv ==
    ASSUME IInv, NEW p \in Packages, Promote(p)
    PROVE  IInv' /\ \A q \in Packages : AtMost(latest[q], latest'[q])
<1>1. /\ active # 0 /\ Found /\ active \in DOMAIN runs /\ runs[active] \in Run
      /\ latest' = [latest EXCEPT ![p] = Prepared[p].version] /\ UNCHANGED <<repository, artifacts>>
    BY DEF Promote, Phase, At, IInv, Shape
<1>2. Prepared[p].version \in Versions /\ AtMost(latest[p], Prepared[p].version)
    BY <1>1, PreparedIsCurrent
<1>3. latest' \in [Packages -> Versions]
    BY <1>1, <1>2 DEF IInv, Shape
<1>4. \A q \in Packages : AtMost(latest[q], latest'[q])
    BY <1>1, <1>2, AtMostReflexive DEF IInv, Shape
<1>5. CASE End("succeeded")
    BY <1>1, <1>3, <1>4, <1>5, EndInv DEF Statuses
<1>6. CASE UNCHANGED <<runs, active, waiting>>
    <2>1. Shape' /\ Grouped' /\ Named'
        BY <1>1, <1>3, <1>6 DEF IInv, Shape, Grouped, Named, Unprepared, repository
    <2>2. \A a \in artifacts : a.name = NameOf(active) => a.manifest = Prepared
        BY <1>1 DEF IInv, Named, Prepared, Found
    <2>3. \A a \in artifacts : a.name = NameOf(active) =>
              \A q \in Packages : AtMost(latest'[q], a.manifest[q].version)
        BY <1>1, <1>2, <2>2, AtMostReflexive DEF IInv, Current, Shape
    <2>4. Current'
        BY <1>1, <1>6, <2>3 DEF IInv, Current, NameOf
    <2> QED BY <1>4, <2>1, <2>4 DEF IInv
<1> QED BY <1>5, <1>6 DEF Promote

\* The other steps keep the invariant and leave `latest` alone.
LEMMA StepInv ==
    ASSUME IInv, CheckSource \/ (\E p \in Packages : Publish(p)) \/ Verify \/ NoArtifact \/ Fault
    PROVE  IInv' /\ UNCHANGED latest
<1>1. latest' = latest => latest' \in [Packages -> Versions]
    BY DEF IInv, Shape
<1>2. \A status \in {"failed", "skipped"} : status \in Statuses
    BY DEF Statuses
<1>3. CASE CheckSource
    <2>1. active # 0 /\ runs[active].at = "source" /\ UNCHANGED <<repository, artifacts, latest>>
        BY <1>3 DEF CheckSource, At, Active, registry
    <2>2. CASE \E status \in {"failed", "skipped"} : End(status)
        BY <1>1, <1>2, <2>1, <2>2, EndInv
    <2>3. CASE GoTo("prepare")
        BY <2>1, <2>3, GoToInv DEF Steps
    <2> QED BY <1>3, <2>2, <2>3 DEF CheckSource
<1>4. ASSUME NEW p \in Packages, Publish(p) PROVE IInv' /\ UNCHANGED latest
    <2>1. active # 0 /\ UNCHANGED <<repository, artifacts, latest>>
        BY <1>4 DEF Publish, Phase, At
    <2>2. CASE GoTo("verify")
        BY <2>1, <2>2, GoToInv DEF Steps
    <2>3. CASE UNCHANGED <<runs, active, waiting>>
        BY <2>1, <2>3 DEF IInv, Shape, Grouped, Named, Unprepared, Current, NameOf, repository
    <2> QED BY <1>4, <2>1, <2>2, <2>3 DEF Publish, Advance
<1>5. CASE Verify
    <2>1. active # 0 /\ UNCHANGED <<repository, artifacts, latest>>
        BY <1>5 DEF Verify, At, registry
    <2>2. CASE End("failed")
        BY <1>1, <1>2, <2>1, <2>2, EndInv
    <2>3. CASE GoTo("promote")
        BY <2>1, <2>3, GoToInv DEF Steps
    <2> QED BY <1>5, <2>2, <2>3 DEF Verify
<1>6. CASE NoArtifact \/ Fault
    <2>1. active # 0 /\ End("failed") /\ UNCHANGED <<repository, artifacts, latest>>
        BY <1>6 DEF NoArtifact, Fault, At, registry
    <2> QED BY <1>1, <1>2, <2>1, EndInv
<1> QED BY <1>3, <1>4, <1>5, <1>6

\* So do main, its CI and the requests for a run.
LEMMA RequestInv ==
    ASSUME IInv, Merge \/ (\E c \in DOMAIN ci : CompleteCi(c)) \/ Dispatch \/ (\E i \in DOMAIN runs : Rerun(i))
    PROVE  IInv' /\ UNCHANGED latest
<1>1. CASE Merge
    <2>1. main' \in DOMAIN history
        BY <1>1, HistoriesAssumption DEF Merge, IInv, Shape
    <2>2. DOMAIN ci' \subseteq Nat
        BY <1>1 DEF Merge
    <2> QED BY <1>1, <2>1, <2>2
        DEF Merge, IInv, Shape, Grouped, Named, Unprepared, Current, NameOf, registry
<1>2. ASSUME NEW c \in DOMAIN ci, CompleteCi(c) PROVE IInv' /\ UNCHANGED latest
    <2>1. PICK conclusion \in {"success", "partial", "failure", "cancelled"} :
              ci' = [ci EXCEPT ![c] = conclusion] /\ Trigger("workflow_run", c, conclusion)
        BY <1>2 DEF CompleteCi
    <2>2. c \in Nat /\ DOMAIN ci' \subseteq Nat
        BY <2>1 DEF IInv, Shape
    <2>3. UNCHANGED <<history, main, artifacts, latest>>
        BY <1>2 DEF CompleteCi, registry
    <2> QED BY <2>1, <2>2, <2>3, TriggerInv
<1>3. CASE Dispatch
    <2>1. Trigger("workflow_dispatch", 0, "none") /\ UNCHANGED <<history, main, ci, artifacts, latest>>
        BY <1>3 DEF Dispatch, repository, registry
    <2>2. DOMAIN ci' \subseteq Nat
        BY <2>1 DEF IInv, Shape
    <2> QED BY <2>1, <2>2, TriggerInv
<1>4. ASSUME NEW i \in DOMAIN runs, Rerun(i) PROVE IInv' /\ UNCHANGED latest
    BY <1>4, RerunInv DEF Rerun, registry
<1> QED BY <1>1, <1>2, <1>3, <1>4

LEMMA NextInv ==
    ASSUME IInv, [Next]_vars
    PROVE  IInv' /\ \A p \in Packages : AtMost(latest[p], latest'[p])
<1>1. UNCHANGED latest => \A p \in Packages : AtMost(latest[p], latest'[p])
    BY AtMostReflexive DEF IInv, Shape
<1>2. CASE UNCHANGED vars
    BY <1>1, <1>2 DEF vars, repository, registry, IInv, Shape, Grouped, Named, Unprepared, Current, NameOf
<1>3. CASE Prepare
    BY <1>1, <1>3, PrepareInv DEF Prepare, registry
<1>4. CASE \E p \in Packages : Promote(p)
    BY <1>4, PromoteInv
<1> QED BY <1>1, <1>2, <1>3, <1>4, StepInv, RequestInv DEF Next, Step

\* The invariant of the publication: only the active attempt promotes, and what
\* it prepared is at least `latest`.
THEOREM PublicationInv == Spec => []IInv
BY InitInv, NextInv, PTL DEF Spec

\* No interleaving of runs, re-runs, failures and reverts takes `latest` back.
THEOREM NeverGoesBackwards == Spec => NeverBackwards
<1>1. IInv /\ [Next]_vars => [\A p \in Packages : AtMost(latest[p], latest'[p])]_vars
    BY NextInv
<1> QED BY <1>1, PublicationInv, PTL DEF Spec, NeverBackwards
-----------------------------------------------------------------------------
(* What is latest is qualified.                                                *)

Conclusions == {"running", "stopping", "success", "partial", "failure", "cancelled"}

\* The runs are of commits that main had.
Known ==
    /\ ci \in Seq(Conclusions) /\ Len(ci) = main
    /\ DOMAIN published = Packages
    /\ \A i \in DOMAIN runs : runs[i].sha \in DOMAIN ci

\* A run behind its first job has seen that CI passed.
Passed == \A i \in DOMAIN runs : runs[i].at # "source" => ci[runs[i].sha] = "success"

\* What an attempt has prepared is the source of one commit whose CI passed.
MadeOf(manifest, c) ==
    \A p \in Packages : /\ manifest[p].version = Commit(c).version[p]
                        /\ manifest[p].bytes # Absent
                        /\ manifest[p].bytes.tree = Commit(c).tree[p]

Faithful ==
    \A a \in artifacts : \E c \in DOMAIN ci : ci[c] = "success" /\ MadeOf(a.manifest, c)

\* An attempt that promotes has what it prepared on the registry.
OnRegistry(manifest) ==
    \A p \in Packages : PublishedAt(p, manifest[p].version) = manifest[p].bytes

Verified ==
    active # 0 /\ runs[active].at = "promote" =>
        \A a \in artifacts : a.name = NameOf(active) => OnRegistry(a.manifest)

QInv == IInv /\ Known /\ Passed /\ Faithful /\ Verified /\ LatestIsQualified

\* What a step may do to main's CI and the registry: a commit that passed stays so,
\* and a version keeps its bytes.
Grows ==
    /\ history' = history
    /\ \A c \in DOMAIN ci : c \in DOMAIN ci' /\ (ci[c] = "success" => ci'[c] = "success")
    /\ \A p \in Packages : \A v \in DOMAIN published[p] :
          v \in DOMAIN published'[p] /\ published'[p][v] = published[p][v]

LEMMA QInit == Init => QInv
<1> SUFFICES ASSUME Init PROVE QInv
    OBVIOUS
<1>1. runs = << >> /\ DOMAIN runs = {} /\ artifacts = {} /\ active = 0
    BY DEF Init
<1>2. ci = <<"success">> /\ DOMAIN ci = {1} /\ ci[1] = "success" /\ Len(ci) = 1 /\ main = 1
    BY DEF Init
<1>3. ci \in Seq(Conclusions)
    BY <1>2 DEF Conclusions
<1>4. DOMAIN published = Packages
    BY DEF Init
<1>5. Known /\ Passed /\ Faithful /\ Verified
    BY <1>1, <1>2, <1>3, <1>4 DEF Known, Passed, Faithful, Verified
<1>6. ASSUME NEW q \in Packages
      PROVE  /\ Commit(1).version[q] \in DOMAIN published[q]
             /\ published[q][Commit(1).version[q]].tree = Commit(1).tree[q]
    BY DEF Init, Packed
<1>7. \A p \in Packages : latest[p] = Commit(1).version[p]
    BY DEF Init
<1>8. LatestIsQualified
    BY <1>2, <1>6, <1>7 DEF LatestIsQualified
<1> QED BY <1>5, <1>8, InitInv DEF QInv

\* What holds of a growing registry goes on to hold.
LEMMA Kept ==
    ASSUME QInv, Grows
    PROVE  /\ artifacts' = artifacts => Faithful'
           /\ latest' = latest => LatestIsQualified'
           /\ \A m : (\A p \in Packages : m[p].bytes # Absent) /\ OnRegistry(m) => OnRegistry(m)'
<1>1. history' = history
    BY DEF Grows
<1>2. ASSUME artifacts' = artifacts PROVE Faithful'
    <2> SUFFICES ASSUME NEW a \in artifacts
                 PROVE  \E c \in DOMAIN ci' : ci'[c] = "success" /\ MadeOf(a.manifest, c)'
        BY <1>2 DEF Faithful
    <2>1. PICK c \in DOMAIN ci : ci[c] = "success" /\ MadeOf(a.manifest, c)
        BY DEF QInv, Faithful
    <2>2. c \in DOMAIN ci' /\ ci'[c] = "success" /\ MadeOf(a.manifest, c)'
        BY <1>1, <2>1 DEF Grows, MadeOf, Commit, Absent
    <2> QED BY <2>2
<1>3. ASSUME latest' = latest PROVE LatestIsQualified'
    <2> SUFFICES ASSUME NEW p \in Packages
                 PROVE  \E c \in DOMAIN ci' :
                           /\ ci'[c] = "success" /\ Commit(c)'.version[p] = latest[p]
                           /\ \A q \in Packages :
                                 /\ Commit(c)'.version[q] \in DOMAIN published'[q]
                                 /\ published'[q][Commit(c)'.version[q]].tree = Commit(c)'.tree[q]
        BY <1>3 DEF LatestIsQualified
    <2>1. PICK c \in DOMAIN ci :
             /\ ci[c] = "success" /\ Commit(c).version[p] = latest[p]
             /\ \A q \in Packages :
                   /\ Commit(c).version[q] \in DOMAIN published[q]
                   /\ published[q][Commit(c).version[q]].tree = Commit(c).tree[q]
        BY DEF QInv, LatestIsQualified
    <2>2. Commit(c)' = Commit(c)
        BY <1>1 DEF Commit
    <2>3. c \in DOMAIN ci' /\ ci'[c] = "success"
        BY <2>1 DEF Grows
    <2> QED BY <2>1, <2>2, <2>3 DEF Grows
<1>4. ASSUME NEW m, \A p \in Packages : m[p].bytes # Absent, OnRegistry(m) PROVE OnRegistry(m)'
    <2> SUFFICES ASSUME NEW p \in Packages
                 PROVE  PublishedAt(p, m[p].version)' = m[p].bytes
        BY DEF OnRegistry
    <2>1. m[p].version \in DOMAIN published[p] /\ published[p][m[p].version] = m[p].bytes
        BY <1>4 DEF OnRegistry, PublishedAt
    <2> QED BY <2>1 DEF Grows, PublishedAt
<1> QED BY <1>2, <1>3, <1>4

LEMMA GrowsAlways == ASSUME QInv, [Next]_vars PROVE Grows
<1>1. DOMAIN published = Packages /\ ci \in Seq(Conclusions)
    BY DEF QInv, Known
<1>2. CASE UNCHANGED <<history, ci, published>>
    BY <1>2 DEF Grows
<1>3. CASE Merge
    <2> DEFINE old == [c \in DOMAIN ci |-> IF ci[c] = "running" THEN "stopping" ELSE ci[c]]
    <2>1. DOMAIN ci = 1..Len(ci) /\ Len(ci) \in Nat /\ \A c \in DOMAIN ci : ci[c] \in Conclusions
        BY <1>1
    <2>2. /\ old \in Seq(Conclusions) /\ Len(old) = Len(ci) /\ DOMAIN old = DOMAIN ci
          /\ \A c \in DOMAIN ci : ci[c] = "success" => old[c] = "success"
        <3>1. DOMAIN old = 1..Len(ci) /\ \A c \in 1..Len(ci) : old[c] \in Conclusions
            BY <2>1 DEF Conclusions
        <3>2. old \in [1..Len(ci) -> Conclusions]
            BY <3>1
        <3> QED BY <2>1, <3>2
    <2>3. ci' = Append(old, "running") /\ UNCHANGED <<history, published>>
        BY <1>3 DEF Merge, registry
    <2> HIDE DEF old
    <2>4. \A c \in DOMAIN ci : c \in DOMAIN ci' /\ ci'[c] = old[c]
        BY <2>1, <2>2, <2>3 DEF Conclusions
    <2> QED BY <2>2, <2>3, <2>4 DEF Grows
<1>4. ASSUME NEW d \in DOMAIN ci, CompleteCi(d) PROVE Grows
    <2>1. PICK conclusion \in {"success", "partial", "failure", "cancelled"} :
             ci' = [ci EXCEPT ![d] = conclusion] /\ ci[d] \in {"stopping", "running"}
        BY <1>4 DEF CompleteCi
    <2>2. UNCHANGED <<history, published>>
        BY <1>4 DEF CompleteCi, registry
    <2> QED BY <2>1, <2>2 DEF Grows
<1>5. ASSUME NEW p \in Packages, Publish(p) PROVE Grows
    <2> DEFINE v == Prepared[p].version
    <2>1. UNCHANGED <<history, ci>>
        BY <1>5 DEF Publish, repository
    <2>2. CASE published' = published
        BY <2>1, <2>2 DEF Grows
    <2>3. CASE /\ v \notin DOMAIN published[p]
               /\ published' = [published EXCEPT ![p] =
                     [u \in DOMAIN published[p] \cup {v} |->
                         IF u = v THEN Prepared[p].bytes ELSE published[p][u]]]
        <3>1. \A q \in Packages \ {p} : published'[q] = published[q]
            BY <1>1, <2>3
        <3>2. published'[p] = [u \in DOMAIN published[p] \cup {v} |->
                                   IF u = v THEN Prepared[p].bytes ELSE published[p][u]]
            BY <1>1, <2>3
        <3>3. \A u \in DOMAIN published[p] :
                  u \in DOMAIN published'[p] /\ published'[p][u] = published[p][u]
            BY <2>3, <3>2
        <3> QED BY <2>1, <3>1, <3>3 DEF Grows
    <2> QED BY <1>5, <2>2, <2>3 DEF Publish
<1>6. ASSUME Dispatch \/ (\E i \in DOMAIN runs : Rerun(i)) \/ CheckSource \/ Prepare \/ Verify
             \/ (\E p \in Packages : Promote(p)) \/ NoArtifact \/ Fault \/ UNCHANGED vars
      PROVE  UNCHANGED <<history, ci, published>>
    BY <1>6 DEF Dispatch, Rerun, CheckSource, Prepare, Verify, Promote, NoArtifact, Fault, vars,
                repository, registry
<1> QED BY <1>2, <1>3, <1>4, <1>5, <1>6 DEF Next, Step

\* A run that ends: its registry, its artifacts and the commits stay, and the next
\* one has prepared nothing.
LEMMA EndQ ==
    ASSUME QInv, active # 0, NEW status \in Statuses, End(status), UNCHANGED <<repository, artifacts>>
    PROVE  (\A i \in DOMAIN runs' : runs'[i].sha \in DOMAIN ci') /\ Passed' /\ Verified'
<1>1. active \in DOMAIN runs /\ runs[active] \in Run /\ runs \in Seq(Run)
    BY DEF QInv, IInv, Shape
<1> DEFINE r == [runs[active] EXCEPT !.status = status]
<1>2. runs' = [runs EXCEPT ![active] = r]
    BY DEF End
<1>3. /\ r \in Run /\ r.attempt = runs[active].attempt /\ r.sha = runs[active].sha
      /\ r.at = runs[active].at
    BY <1>1 DEF Run
<1> HIDE DEF r
<1>4. /\ DOMAIN runs' = DOMAIN runs
      /\ \A i \in DOMAIN runs : /\ runs'[i].attempt = runs[i].attempt
                                /\ runs'[i].sha = runs[i].sha /\ runs'[i].at = runs[i].at
    BY <1>1, <1>2, <1>3, Replaced
<1>5. active' = waiting /\ (waiting # 0 => waiting \in DOMAIN runs)
    BY DEF End, QInv, IInv, Shape
<1>6. waiting # 0 => Unprepared(waiting, runs[waiting].attempt)
    BY DEF QInv, IInv, Named
<1>7. Verified'
    BY <1>4, <1>5, <1>6 DEF Verified, NameOf, Unprepared
<1> QED BY <1>4, <1>7 DEF QInv, Known, Passed, repository

\* The active run moves on; to its last job, with what it prepared on the registry.
LEMMA GoToQ ==
    ASSUME QInv, Grows, active # 0, NEW step \in Steps, GoTo(step), ci' = ci,
           ci[runs[active].sha] = "success",
           step = "promote" => \A a \in artifacts : a.name = NameOf(active) => OnRegistry(a.manifest),
           step = "promote" => artifacts' = artifacts /\ published' = published
    PROVE  (\A i \in DOMAIN runs' : runs'[i].sha \in DOMAIN ci') /\ Passed' /\ Verified'
<1>1. active \in DOMAIN runs /\ runs[active] \in Run /\ runs \in Seq(Run)
    BY DEF QInv, IInv, Shape
<1> DEFINE r == [runs[active] EXCEPT !.at = step]
<1>2. runs' = [runs EXCEPT ![active] = r] /\ active' = active
    BY DEF GoTo
<1>3. /\ r \in Run /\ r.attempt = runs[active].attempt /\ r.sha = runs[active].sha
      /\ r.at = step
    BY <1>1 DEF Run
<1> HIDE DEF r
<1>4. /\ DOMAIN runs' = DOMAIN runs /\ runs'[active].at = step
      /\ \A i \in DOMAIN runs : /\ runs'[i].attempt = runs[i].attempt
                                /\ runs'[i].sha = runs[i].sha
                                /\ i # active => runs'[i].at = runs[i].at
    BY <1>1, <1>2, <1>3, Replaced
<1>5. (\A i \in DOMAIN runs' : runs'[i].sha \in DOMAIN ci') /\ Passed'
    BY <1>4 DEF QInv, Known, Passed
<1>6. Verified'
    <2>1. NameOf(active)' = NameOf(active)
        BY <1>1, <1>2, <1>4 DEF NameOf
    <2>2. CASE step = "promote"
        BY <1>2, <2>1, <2>2 DEF Verified, OnRegistry, PublishedAt, Absent
    <2>3. CASE step # "promote"
        BY <1>2, <1>4, <2>3 DEF Verified
    <2> QED BY <2>2, <2>3
<1> QED BY <1>5, <1>6

\* A run that enters the group does so with an attempt that has prepared nothing,
\* and at its first job, or behind it as before.
LEMMA EnterQ ==
    ASSUME QInv, Grows, NEW rs \in Seq(Run), NEW i \in DOMAIN rs, Enter(i, rs),
           DOMAIN runs \subseteq DOMAIN rs, i # active, i # waiting,
           \A j \in DOMAIN rs : j # i => j \in DOMAIN runs /\ rs[j] = runs[j],
           rs[i].sha \in DOMAIN ci, rs[i].at # "source" => ci[rs[i].sha] = "success",
           Unprepared(i, rs[i].attempt), UNCHANGED <<artifacts, published>>
    PROVE  (\A j \in DOMAIN runs' : runs'[j].sha \in DOMAIN ci') /\ Passed' /\ Verified'
<1>1. (active # 0 => active \in DOMAIN runs) /\ (waiting # 0 => waiting \in DOMAIN runs)
    BY DEF QInv, IInv, Shape
<1>2. /\ DOMAIN runs' = DOMAIN rs
      /\ \A j \in DOMAIN rs : /\ runs'[j].sha = rs[j].sha /\ runs'[j].at = rs[j].at
                              /\ runs'[j].attempt = rs[j].attempt
    <2>1. CASE runs' = rs
        BY <2>1
    <2>2. CASE waiting # 0 /\ runs' = [rs EXCEPT ![waiting].status = "cancelled"]
        <3> DEFINE r == [rs[waiting] EXCEPT !.status = "cancelled"]
        <3>1. runs' = [rs EXCEPT ![waiting] = r]
            BY <2>2
        <3>2. rs[waiting] \in Run /\ waiting \in DOMAIN rs
            BY <1>1, <2>2
        <3>3. /\ r \in Run /\ r.attempt = rs[waiting].attempt /\ r.sha = rs[waiting].sha
              /\ r.at = rs[waiting].at
            BY <3>2 DEF Run, Statuses
        <3> HIDE DEF r
        <3> QED BY <3>1, <3>2, <3>3, Replaced
    <2> QED BY <2>1, <2>2 DEF Enter
<1>3. ASSUME NEW j \in DOMAIN rs
      PROVE  /\ runs'[j].sha \in DOMAIN ci'
             /\ runs'[j].at # "source" => ci'[runs'[j].sha] = "success"
    <2>1. rs[j].sha \in DOMAIN ci /\ (rs[j].at # "source" => ci[rs[j].sha] = "success")
        BY DEF QInv, Known, Passed
    <2> QED BY <1>2, <2>1 DEF Grows
<1>4. Verified'
    <2>1. CASE active' = i
        BY <1>2, <2>1 DEF Verified, Unprepared, NameOf
    <2>2. CASE active # 0 /\ active' = active
        <3>1. active \in DOMAIN rs /\ rs[active] = runs[active]
            BY <1>1, <2>2
        <3>2. NameOf(active)' = NameOf(active) /\ runs'[active].at = runs[active].at
            BY <1>2, <2>2, <3>1 DEF NameOf
        <3> QED BY <2>2, <3>2 DEF QInv, Verified, OnRegistry, PublishedAt, Absent
    <2> QED BY <2>1, <2>2 DEF Enter
<1> QED BY <1>2, <1>3, <1>4 DEF Passed

LEMMA TriggerQ ==
    ASSUME QInv, Grows, NEW event \in {"workflow_run", "workflow_dispatch"}, NEW subject \in Nat,
           NEW conclusion \in {"success", "partial", "failure", "cancelled", "none"},
           Trigger(event, subject, conclusion), UNCHANGED <<artifacts, published>>
    PROVE  (\A j \in DOMAIN runs' : runs'[j].sha \in DOMAIN ci') /\ Passed' /\ Verified'
<1> DEFINE r == [event |-> event, subject |-> subject, conclusion |-> conclusion,
                 sha |-> main, attempt |-> 1, at |-> "source", status |-> "running"]
           rs == Append(runs, r)
<1>1. main \in Nat /\ main \in DOMAIN ci
    <2>1. main \in DOMAIN history /\ DOMAIN history = 1..Len(history)
        BY HistoriesAssumption DEF QInv, IInv, Shape
    <2>2. ci \in Seq(Conclusions) /\ Len(ci) = main
        BY DEF QInv, Known
    <2> QED BY <2>1, <2>2
<1>2. r \in Run /\ r.sha = main /\ r.at = "source" /\ r.attempt = 1
    <2>1. "source" \in Steps /\ "running" \in Statuses /\ 1 \in Nat
        BY DEF Steps, Statuses
    <2> QED BY <1>1, <2>1 DEF Run
<1>3. Enter(Len(runs) + 1, rs)
    BY DEF Trigger
<1> HIDE DEF r
<1>4. /\ rs \in Seq(Run) /\ Len(runs) + 1 \in DOMAIN rs /\ DOMAIN rs = DOMAIN runs \cup {Len(runs) + 1}
      /\ rs[Len(runs) + 1] = r /\ \A j \in DOMAIN runs : rs[j] = runs[j]
      /\ Len(runs) + 1 \notin DOMAIN runs /\ Len(runs) + 1 \in Nat \ {0}
    BY <1>2 DEF QInv, IInv, Shape
<1> HIDE DEF rs
<1>5. Len(runs) + 1 # active /\ Len(runs) + 1 # waiting
    BY DEF QInv, IInv, Shape
<1>6. Unprepared(Len(runs) + 1, 1)
    BY <1>4 DEF QInv, IInv, Named
<1> QED BY <1>1, <1>2, <1>3, <1>4, <1>5, <1>6, EnterQ

LEMMA RerunQ ==
    ASSUME QInv, Grows, NEW i \in DOMAIN runs, Rerun(i)
    PROVE  (\A j \in DOMAIN runs' : runs'[j].sha \in DOMAIN ci') /\ Passed' /\ Verified'
<1>1. PICK at \in {"source", Job(runs[i].at)} :
          Enter(i, [runs EXCEPT ![i].attempt = @ + 1, ![i].status = "running", ![i].at = at])
    BY DEF Rerun
<1> DEFINE r == Again(runs[i], at)
           rs == [runs EXCEPT ![i] = r]
<1>2. runs[i] \in Run /\ i \in Nat \ {0} /\ runs \in Seq(Run)
    BY DEF QInv, IInv, Shape
<1>3. at \in Steps /\ (at # "source" => runs[i].at # "source")
    BY <1>2 DEF Job, Run, Steps
<1>4. r \in Run /\ r.attempt = runs[i].attempt + 1 /\ r.sha = runs[i].sha
    BY <1>2, <1>3, AgainIsRun
<1>5. r.at = at
    BY <1>2 DEF Again, Run
<1>6. Enter(i, rs)
    BY <1>1, <1>2 DEF Again
<1> HIDE DEF r
<1>7. /\ rs \in Seq(Run) /\ DOMAIN rs = DOMAIN runs /\ rs[i] = r
      /\ \A j \in DOMAIN runs : j # i => rs[j] = runs[j]
    BY <1>2, <1>4, Replaced
<1> HIDE DEF rs
<1>8. i # active /\ i # waiting
    BY <1>2 DEF Rerun, QInv, IInv, Grouped
<1>9. runs[i].attempt \in Nat /\ Unprepared(i, runs[i].attempt + 1)
    BY <1>2, SMTT(30) DEF QInv, IInv, Named, Run
<1>10. UNCHANGED <<artifacts, published>>
    BY DEF Rerun, registry
<1>11. rs[i].sha \in DOMAIN ci /\ (rs[i].at # "source" => ci[rs[i].sha] = "success")
    BY <1>3, <1>4, <1>5, <1>7 DEF QInv, Known, Passed
<1> QED BY <1>4, <1>6, <1>7, <1>8, <1>9, <1>10, <1>11, EnterQ

\* What Prepare uploads is made of the source it checked: a retained or pinned
\* archive only if it was packed from that tree.
LEMMA ManifestIsMade ==
    ASSUME active # 0, RetainedAgree(Source), OriginalsQualify
    PROVE  MadeOf(Manifest(Source), Source)
<1> SUFFICES ASSUME NEW p \in Packages
             PROVE  /\ BytesOf(Source, p) # Absent
                    /\ BytesOf(Source, p).tree = Commit(Source).tree[p]
    BY DEF MadeOf, Manifest
<1>1. \A b : DOMAIN b = {"tree", "tools"} => b # Absent
    BY DEF Absent
<1> DEFINE kept == PinsOf(RetainedPins, Source, p)
           pinned == PinsOf(CohortPins, Source, p)
<1>2. CASE kept \cup pinned = {}
    <2>1. BytesOf(Source, p) = Packed(Source, p)
        BY <1>2 DEF BytesOf
    <2>2. DOMAIN Packed(Source, p) = {"tree", "tools"} /\ Packed(Source, p).tree = Commit(Source).tree[p]
        BY DEF Packed
    <2> QED BY <1>1, <2>1, <2>2
<1>3. CASE kept \cup pinned # {}
    <2>1. PICK pin \in kept \cup pinned : BytesOf(Source, p) = pin.bytes
        BY <1>3 DEF BytesOf
    <2>2. CASE pin \in kept
        <3>1. pin \in RetainedPins /\ pin.package = p /\ pin.tree = Commit(Source).tree[p]
            BY <2>2 DEF PinsOf, RetainedAgree
        <3> QED BY <1>1, <2>1, <3>1, PinsAssumption
    <2>3. CASE pin \in pinned
        <3>1. pin \in CohortPins /\ pin.package = p /\ pin \in Pinned(Source)
            BY <2>3 DEF PinsOf, Pinned
        <3>2. Packed(Source, p).tree = pin.bytes.tree
            BY <3>1 DEF OriginalsQualify
        <3>3. Packed(Source, p).tree = Commit(Source).tree[p]
            BY DEF Packed
        <3> QED BY <1>1, <2>1, <3>1, <3>2, <3>3, PinsAssumption
    <2> QED BY <2>1, <2>2, <2>3
<1> QED BY <1>2, <1>3

LEMMA PrepareQ ==
    ASSUME QInv, Grows, Prepare
    PROVE  /\ \A j \in DOMAIN runs' : runs'[j].sha \in DOMAIN ci'
           /\ Passed' /\ Verified' /\ Faithful'
<1>1. /\ active # 0 /\ runs[active].at = "prepare" /\ active \in DOMAIN runs
      /\ UNCHANGED <<repository, registry>>
    BY DEF Prepare, At, Active, QInv, IInv, Shape
<1>2. ASSUME NEW status \in {"failed", "skipped"}, End(status), UNCHANGED artifacts
      PROVE  /\ \A j \in DOMAIN runs' : runs'[j].sha \in DOMAIN ci'
             /\ Passed' /\ Verified' /\ Faithful'
    BY <1>1, <1>2, EndQ, Kept DEF Statuses
<1>3. ASSUME GoTo("publish"), RetainedAgree(Source), OriginalsQualify,
             artifacts' = artifacts \cup {[name |-> NameOf(active), manifest |-> Manifest(Source)]}
      PROVE  /\ \A j \in DOMAIN runs' : runs'[j].sha \in DOMAIN ci'
             /\ Passed' /\ Verified' /\ Faithful'
    <2>1. ci[Source] = "success" /\ Source \in DOMAIN ci
        BY <1>1 DEF QInv, Passed, Known, Source, Active
    <2>2. /\ \A j \in DOMAIN runs' : runs'[j].sha \in DOMAIN ci'
          /\ Passed' /\ Verified'
        BY <1>1, <1>3, <2>1, GoToQ DEF Steps, Source, Active, repository
    <2> DEFINE new == [name |-> NameOf(active), manifest |-> Manifest(Source)]
    <2>3. MadeOf(new.manifest, Source)
        BY <1>1, <1>3, ManifestIsMade
    <2>4. artifacts' = artifacts \cup {new}
        BY <1>3
    <2> HIDE DEF new
    <2>5. \A a \in artifacts' : \E c \in DOMAIN ci : ci[c] = "success" /\ MadeOf(a.manifest, c)
        BY <2>1, <2>3, <2>4 DEF QInv, Faithful
    <2>6. Faithful'
        BY <1>1, <2>5 DEF Faithful, MadeOf, Commit, repository, Absent
    <2> QED BY <2>2, <2>6
<1> QED BY <1>2, <1>3 DEF Prepare

\* A package becomes latest with the version that was verified with all others.
LEMMA PromoteQ ==
    ASSUME QInv, Grows, NEW p \in Packages, Promote(p)
    PROVE  /\ \A j \in DOMAIN runs' : runs'[j].sha \in DOMAIN ci'
           /\ Passed' /\ Verified' /\ LatestIsQualified'
<1>1. /\ active # 0 /\ runs[active].at = "promote" /\ Found
      /\ latest' = [latest EXCEPT ![p] = Prepared[p].version]
      /\ UNCHANGED <<repository, artifacts, published>>
    BY DEF Promote, Phase, At, Active
<1>2. (\A j \in DOMAIN runs' : runs'[j].sha \in DOMAIN ci') /\ Passed' /\ Verified'
    <2>1. CASE End("succeeded")
        BY <1>1, <2>1, EndQ DEF Statuses
    <2>2. CASE UNCHANGED <<runs, active, waiting>>
        BY <1>1, <2>2 DEF QInv, Known, Passed, Verified, NameOf, OnRegistry, PublishedAt, Absent,
                          repository
    <2> QED BY <2>1, <2>2 DEF Promote
<1>3. PICK a \in artifacts : a.name = NameOf(active) /\ Prepared = a.manifest
    BY <1>1 DEF Found, Prepared
<1>4. PICK c \in DOMAIN ci : ci[c] = "success" /\ MadeOf(a.manifest, c)
    BY DEF QInv, Faithful
<1>5. OnRegistry(a.manifest)
    BY <1>1, <1>3 DEF QInv, Verified
<1>6. ASSUME NEW q \in Packages
      PROVE  /\ Commit(c).version[q] \in DOMAIN published[q]
             /\ published[q][Commit(c).version[q]].tree = Commit(c).tree[q]
    <2>1. /\ a.manifest[q].version = Commit(c).version[q]
          /\ a.manifest[q].bytes # Absent /\ a.manifest[q].bytes.tree = Commit(c).tree[q]
        BY <1>4 DEF MadeOf
    <2>2. PublishedAt(q, Commit(c).version[q]) = a.manifest[q].bytes
        BY <1>5, <2>1 DEF OnRegistry
    <2> QED BY <2>1, <2>2 DEF PublishedAt
<1>7. UNCHANGED <<history, ci, published>> /\ DOMAIN latest = Packages
    BY <1>1 DEF repository, QInv, IInv, Shape
<1>8. ASSUME NEW q \in Packages
      PROVE  \E d \in DOMAIN ci : /\ ci[d] = "success" /\ Commit(d).version[q] = latest'[q]
                                  /\ \A o \in Packages :
                                        /\ Commit(d).version[o] \in DOMAIN published[o]
                                        /\ published[o][Commit(d).version[o]].tree = Commit(d).tree[o]
    <2>1. CASE q = p
        <3>1. latest'[q] = Commit(c).version[q]
            BY <1>1, <1>3, <1>4, <1>7, <2>1 DEF MadeOf
        <3> QED BY <1>4, <1>6, <3>1
    <2>2. CASE q # p
        <3>1. latest'[q] = latest[q]
            BY <1>1, <1>7, <2>2
        <3> QED BY <3>1 DEF QInv, LatestIsQualified
    <2> QED BY <2>1, <2>2
<1>9. LatestIsQualified'
    BY <1>7, <1>8 DEF LatestIsQualified, Commit
<1> QED BY <1>2, <1>9

LEMMA StepQ ==
    ASSUME QInv, Grows, CheckSource \/ (\E p \in Packages : Publish(p)) \/ Verify \/ NoArtifact \/ Fault
    PROVE  (\A j \in DOMAIN runs' : runs'[j].sha \in DOMAIN ci') /\ Passed' /\ Verified'
<1>1. ASSUME CheckSource \/ Verify \/ NoArtifact \/ Fault
      PROVE  active # 0 /\ UNCHANGED <<repository, artifacts, published>>
    BY <1>1 DEF CheckSource, Verify, NoArtifact, Fault, At, registry
<1>2. \A status \in {"failed", "skipped"} : status \in Statuses
    BY DEF Statuses
<1>3. CASE CheckSource
    <2>1. CASE \E status \in {"failed", "skipped"} : End(status)
        BY <1>1, <1>2, <1>3, <2>1, EndQ
    <2>2. CASE GoTo("prepare") /\ QualifiedCi(Source)
        BY <1>1, <1>3, <2>2, GoToQ DEF Steps, QualifiedCi, Source, Active, repository
    <2> QED BY <1>3, <2>1, <2>2 DEF CheckSource
<1>4. ASSUME NEW p \in Packages, Publish(p)
      PROVE  (\A j \in DOMAIN runs' : runs'[j].sha \in DOMAIN ci') /\ Passed' /\ Verified'
    <2>1. /\ active # 0 /\ runs[active].at = "publish" /\ UNCHANGED <<repository, artifacts>>
          /\ active \in DOMAIN runs
        BY <1>4 DEF Publish, Phase, At, Active, QInv, IInv, Shape
    <2>2. ci[runs[active].sha] = "success"
        BY <2>1 DEF QInv, Passed
    <2>3. CASE GoTo("verify")
        BY <2>1, <2>2, <2>3, GoToQ DEF Steps, repository
    <2>4. CASE UNCHANGED <<runs, active, waiting>>
        BY <2>1, <2>4 DEF QInv, Known, Passed, Verified, repository
    <2> QED BY <1>4, <2>3, <2>4 DEF Publish, Advance
<1>5. CASE Verify
    <2>1. CASE End("failed")
        BY <1>1, <1>2, <1>5, <2>1, EndQ
    <2>2. CASE GoTo("promote") /\ \A p \in Packages : Returned(p)
        <3>1. /\ active # 0 /\ runs[active].at = "verify" /\ active \in DOMAIN runs
              /\ UNCHANGED <<repository, artifacts, published>>
            BY <1>5 DEF Verify, At, Active, registry, QInv, IInv, Shape
        <3>2. ci[runs[active].sha] = "success"
            BY <3>1 DEF QInv, Passed
        <3>3. OnRegistry(Prepared)
            BY <2>2 DEF OnRegistry, Returned
        <3>4. \A a \in artifacts : a.name = NameOf(active) => a.manifest = Prepared
            BY <1>5 DEF Verify, Found, Prepared, QInv, IInv, Named
        <3>5. \A a \in artifacts : a.name = NameOf(active) => OnRegistry(a.manifest)
            BY <3>3, <3>4
        <3> QED BY <2>2, <3>1, <3>2, <3>5, GoToQ DEF Steps, repository
    <2> QED BY <1>5, <2>1, <2>2 DEF Verify
<1>6. CASE NoArtifact \/ Fault
    <2>1. End("failed")
        BY <1>6 DEF NoArtifact, Fault
    <2> QED BY <1>1, <1>2, <1>6, <2>1, EndQ
<1> QED BY <1>3, <1>4, <1>5, <1>6

LEMMA RequestQ ==
    ASSUME QInv, Grows,
           Merge \/ (\E c \in DOMAIN ci : CompleteCi(c)) \/ Dispatch \/ (\E i \in DOMAIN runs : Rerun(i))
    PROVE  (\A j \in DOMAIN runs' : runs'[j].sha \in DOMAIN ci') /\ Passed' /\ Verified'
<1>1. CASE Merge
    <2>1. UNCHANGED <<runs, active, artifacts, published>>
        BY <1>1 DEF Merge, registry
    <2>2. (\A j \in DOMAIN runs' : runs'[j].sha \in DOMAIN ci') /\ Passed'
        BY <2>1 DEF QInv, Known, Passed, Grows
    <2>3. Verified'
        BY <2>1 DEF QInv, Verified, NameOf, OnRegistry, PublishedAt, Absent
    <2> QED BY <2>2, <2>3
<1>2. ASSUME NEW c \in DOMAIN ci, CompleteCi(c)
      PROVE  (\A j \in DOMAIN runs' : runs'[j].sha \in DOMAIN ci') /\ Passed' /\ Verified'
    <2>1. PICK conclusion \in {"success", "partial", "failure", "cancelled"} :
              Trigger("workflow_run", c, conclusion)
        BY <1>2 DEF CompleteCi
    <2>2. c \in Nat /\ UNCHANGED <<artifacts, published>>
        BY <1>2 DEF CompleteCi, registry, QInv, IInv, Shape
    <2> QED BY <2>1, <2>2, TriggerQ
<1>3. CASE Dispatch
    BY <1>3, TriggerQ DEF Dispatch, registry
<1> QED BY <1>1, <1>2, <1>3, RerunQ

\* The sequence of CI runs is one for each commit that main had.
LEMMA CiStays ==
    ASSUME QInv, [Next]_vars
    PROVE  ci' \in Seq(Conclusions) /\ Len(ci') = main' /\ DOMAIN published' = Packages
<1>1. /\ ci \in Seq(Conclusions) /\ Len(ci) = main /\ DOMAIN published = Packages
      /\ DOMAIN ci = 1..Len(ci) /\ Len(ci) \in Nat /\ \A c \in DOMAIN ci : ci[c] \in Conclusions
    BY DEF QInv, Known
<1>2. CASE UNCHANGED <<main, ci, published>>
    BY <1>1, <1>2
<1>3. CASE Merge
    <2> DEFINE old == [c \in DOMAIN ci |-> IF ci[c] = "running" THEN "stopping" ELSE ci[c]]
    <2>1. old \in [1..Len(ci) -> Conclusions]
        BY <1>1 DEF Conclusions
    <2>2. old \in Seq(Conclusions) /\ Len(old) = Len(ci)
        BY <1>1, <2>1
    <2>3. ci' = Append(old, "running") /\ main' = main + 1 /\ published' = published
        BY <1>3 DEF Merge, registry
    <2> HIDE DEF old
    <2>4. "running" \in Conclusions
        BY DEF Conclusions
    <2> QED BY <1>1, <2>2, <2>3, <2>4
<1>4. ASSUME NEW c \in DOMAIN ci, CompleteCi(c)
      PROVE  ci' \in Seq(Conclusions) /\ Len(ci') = main' /\ DOMAIN published' = Packages
    <2>1. PICK conclusion \in Conclusions : ci' = [ci EXCEPT ![c] = conclusion]
        BY <1>4 DEF CompleteCi, Conclusions
    <2>2. main' = main /\ published' = published
        BY <1>4 DEF CompleteCi, registry
    <2> QED BY <1>1, <2>1, <2>2
<1>5. ASSUME NEW p \in Packages, Publish(p)
      PROVE  UNCHANGED <<main, ci>> /\ DOMAIN published' = Packages
    BY <1>1, <1>5 DEF Publish, repository
<1>6. ASSUME Dispatch \/ (\E i \in DOMAIN runs : Rerun(i)) \/ CheckSource \/ Prepare \/ Verify
             \/ (\E p \in Packages : Promote(p)) \/ NoArtifact \/ Fault \/ UNCHANGED vars
      PROVE  UNCHANGED <<main, ci, published>>
    BY <1>6 DEF Dispatch, Rerun, CheckSource, Prepare, Verify, Promote, NoArtifact, Fault, vars,
                repository, registry
<1> QED BY <1>1, <1>2, <1>3, <1>4, <1>5, <1>6 DEF Next, Step

LEMMA NextQ == ASSUME QInv, [Next]_vars PROVE QInv'
<1>1. IInv' /\ Grows
    BY NextInv, GrowsAlways DEF QInv
<1>2. (\A j \in DOMAIN runs' : runs'[j].sha \in DOMAIN ci') /\ Passed' /\ Verified'
    <2>1. CASE UNCHANGED vars
        BY <2>1 DEF vars, repository, registry, QInv, Known, Passed, Verified, NameOf, OnRegistry,
                    PublishedAt, Absent
    <2> QED BY <1>1, <2>1, PrepareQ, PromoteQ, StepQ, RequestQ DEF Next, Step
<1>3. Known'
    BY <1>2, CiStays DEF Known
<1>4. Faithful'
    <2>1. CASE Prepare
        BY <1>1, <2>1, PrepareQ
    <2>2. CASE ~Prepare
        <3>1. artifacts' = artifacts
            BY <2>2 DEF Next, Step, Merge, CompleteCi, Dispatch, Rerun, CheckSource, Publish,
                        Verify, Promote, NoArtifact, Fault, vars
        <3> QED BY <1>1, <3>1, Kept
    <2> QED BY <2>1, <2>2
<1>5. LatestIsQualified'
    <2>1. CASE \E p \in Packages : Promote(p)
        BY <1>1, <2>1, PromoteQ
    <2>2. CASE ~\E p \in Packages : Promote(p)
        <3>1. latest' = latest
            BY <2>2 DEF Next, Step, Merge, CompleteCi, Dispatch, Rerun, CheckSource, Prepare,
                        Publish, Verify, NoArtifact, Fault, vars, registry
        <3> QED BY <1>1, <3>1, Kept
    <2> QED BY <2>1, <2>2
<1> QED BY <1>1, <1>2, <1>3, <1>4, <1>5 DEF QInv

\* Whatever fails, is run again or replaced, what is latest comes from a commit whose
\* CI passed with every job, and all packages of that commit are on the registry with
\* the payload of its source.
THEOREM LatestAlwaysQualified == Spec => []LatestIsQualified
<1>1. QInv => LatestIsQualified
    BY DEF QInv
<1> QED BY <1>1, QInit, NextQ, PTL DEF Spec
=============================================================================
