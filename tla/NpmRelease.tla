------------------------------- MODULE NpmRelease -------------------------------
(***************************************************************************)
(* The publication of the packages: .github/workflows/npm-release.yml and  *)
(* architecture/tooling/npm-release.  Runs of the workflow prepare archives*)
(* of main, have them published under a candidate tag, verify what the     *)
(* registry returns, and have `latest` promoted; main moves on meanwhile,  *)
(* requests fail, runs fail between any two steps and are run again.       *)
(*                                                                         *)
(* A commit is a record of the `version` (three numbers) and the source    *)
(* `tree` of each package, and the build `tools`.  The bytes of an archive *)
(* are the tree and the tools they were made with.                         *)
(***************************************************************************)
EXTENDS Integers, Sequences, FiniteSets

CONSTANTS
    Packages,
    Histories,     \* sequences of commits that main may have; the first is released
    RetainedPins,  \* policy.ts: archives kept for a package, version and tree
    RetainedTools,
    Cohort,        \* current-archives.ts: versions whose archives are on the registry
    CohortPins,    \*   already, and those archives
    MaxFaults, MaxDispatches, MaxAttempts  \* bounds of this model

Versions == [1..3 -> Nat]

ASSUME HistoriesAssumption ==
    \A h \in Histories :
        /\ DOMAIN h = 1..Len(h) /\ h # <<>>
        /\ \A c \in DOMAIN h : h[c].version \in [Packages -> Versions]

\* An archive was packed from a tree with tools; a retained one from the tree it is
\* retained for.
ASSUME PinsAssumption ==
    /\ \A pin \in RetainedPins \cup CohortPins : DOMAIN pin.bytes = {"tree", "tools"}
    /\ \A pin \in RetainedPins : pin.bytes.tree = pin.tree

VARIABLES
    history, main,
    ci,            \* the CI run of each commit that main had
    runs,          \* the release runs: their trigger, attempt and progress
    active, waiting, \* the run of the concurrency group that is in progress, and the one pending
    done,          \* packages that the publisher has dealt with in its job
    artifacts,     \* the uploaded manifests, by run and attempt
    published,     \* the registry: the bytes of each version,
    latest,        \*   and the version tagged latest
    faults

repository == <<history, main, ci>>
registry == <<published, latest>>
vars == <<repository, runs, active, waiting, done, artifacts, registry, faults>>

Commit(c) == history[c]
Absent == <<>>
Packed(c, p) == [tree |-> Commit(c).tree[p], tools |-> Commit(c).tools]

PublishedAt(p, v) == IF v \in DOMAIN published[p] THEN published[p][v] ELSE Absent

Init ==
    /\ history \in Histories /\ main = 1
    /\ ci = <<"success">>
    /\ runs = <<>> /\ active = 0 /\ waiting = 0
    /\ done = {} /\ artifacts = {}
    /\ published = [p \in Packages |-> [v \in {Commit(1).version[p]} |-> Packed(1, p)]]
    /\ latest = [p \in Packages |-> Commit(1).version[p]]
    /\ faults = 0
-----------------------------------------------------------------------------
(* GitHub: CI on main, one run at a time, and the concurrency group of the *)
(* release, which lets one run proceed and keeps the last of the others.   *)

\* Run i enters the group; one that was waiting is cancelled.
Enter(i, rs) ==
    IF active = 0
    THEN active' = i /\ runs' = rs /\ UNCHANGED waiting
    ELSE /\ waiting' = i /\ UNCHANGED active
         /\ runs' = IF waiting = 0 THEN rs ELSE [rs EXCEPT ![waiting].status = "cancelled"]

Trigger(event, subject, conclusion) ==
    Enter(Len(runs) + 1,
          Append(runs, [event |-> event, subject |-> subject, conclusion |-> conclusion,
                        sha |-> main, attempt |-> 1, at |-> "source", status |-> "running"]))

Merge ==
    /\ main < Len(history) /\ main' = main + 1
    /\ ci' = Append([c \in DOMAIN ci |-> IF ci[c] = "running" THEN "stopping" ELSE ci[c]], "running")
    /\ UNCHANGED <<history, runs, active, waiting, done, artifacts, registry, faults>>

\* A successful run may have lost a job of its roster: "partial".
CompleteCi(c) ==
    /\ \A b \in 1..c - 1 : ci[b] # "stopping"
    /\ \E conclusion \in {"success", "partial", "failure", "cancelled"} :
          /\ IF conclusion = "cancelled" THEN ci[c] = "stopping" ELSE ci[c] = "running"
          /\ ci' = [ci EXCEPT ![c] = conclusion]
          /\ Trigger("workflow_run", c, conclusion)
    /\ UNCHANGED <<history, main, done, artifacts, registry, faults>>

Dispatch ==
    /\ Cardinality({i \in DOMAIN runs : runs[i].event = "workflow_dispatch"}) < MaxDispatches
    /\ Trigger("workflow_dispatch", 0, "none")
    /\ UNCHANGED <<repository, done, artifacts, registry, faults>>

Job(at) == IF at = "prepare" THEN "source" ELSE at

\* "Re-run all jobs" starts again; "re-run failed jobs" with the one that failed.
Rerun(i) ==
    /\ runs[i].status # "running" /\ runs[i].attempt < MaxAttempts
    /\ \E at \in {"source", Job(runs[i].at)} :
          /\ at = "source" \/ runs[i].status \in {"failed", "cancelled"}
          /\ Enter(i, [runs EXCEPT ![i].attempt = @ + 1, ![i].status = "running", ![i].at = at])
    /\ UNCHANGED <<repository, done, artifacts, registry, faults>>
-----------------------------------------------------------------------------
(* The steps of the active run.                                            *)

Active == runs[active]
Source == Active.sha
Version(p) == Commit(Source).version[p]

At(step) == active # 0 /\ Active.at = step

GoTo(step) ==
    /\ runs' = [runs EXCEPT ![active].at = step]
    /\ UNCHANGED <<active, waiting>>

End(status) ==
    /\ runs' = [runs EXCEPT ![active].status = status]
    /\ active' = waiting /\ waiting' = 0
    /\ done' = {}

\* assertQualifiedCi: the conclusion, and every job of the roster.
QualifiedCi(c) == ci[c] = "success"

\* The condition of the job.
Admitted(run) == run.event = "workflow_dispatch" \/ run.conclusion \in {"success", "partial"}

Stale(run) == run.sha # main \/ (run.event = "workflow_run" /\ run.subject # run.sha)

CheckSource ==
    /\ At("source")
    /\ IF ~Admitted(Active) \/ Stale(Active) THEN End("skipped")
       ELSE IF ~QualifiedCi(Source) THEN End("failed")
       ELSE GoTo("prepare") /\ UNCHANGED done
    /\ UNCHANGED <<repository, artifacts, registry, faults>>

\* The walk over the numbers of requiresRelease.
Newer(newest, version) ==
    \E k \in 1..3 : newest[k] > version[k] /\ \A j \in 1..k - 1 : newest[j] = version[j]

\* Variant: only the packages whose version this commit has changed.
ChangedHere(p) == Source > 1 /\ Version(p) # Commit(Source - 1).version[p]

RequiresRelease(p) == PublishedAt(p, Version(p)) = Absent \/ latest[p] # Version(p)
-----------------------------------------------------------------------------
(* Which bytes are released.                                               *)

PinsOf(pins, c, p) == {pin \in pins : pin.package = p /\ pin.version = Commit(c).version[p]}

\* retainedPackage and assertRetainedBuildInputs.
RetainedAgree(c) ==
    LET retained == UNION {PinsOf(RetainedPins, c, p) : p \in Packages}
    IN  /\ \A pin \in retained : pin.tree = Commit(c).tree[pin.package]
        /\ retained # {} => Commit(c).tools = RetainedTools

\* currentArchivesFor: one of the pinned coordinates needs the whole cohort.
Pinned(c) == UNION {PinsOf(CohortPins, c, p) : p \in Packages}
CohortAgrees(c) == Pinned(c) # {} => Commit(c).version = Cohort

\* qualifyCurrentArchive: the registry has the pinned bytes, of the same payload.
OriginalsQualify ==
    \A pin \in Pinned(Source) :
        /\ PublishedAt(pin.package, pin.version) = pin.bytes
        /\ Packed(Source, pin.package).tree = pin.bytes.tree

BytesOf(c, p) ==
    LET pins == PinsOf(RetainedPins, c, p) \cup PinsOf(CohortPins, c, p)
    IN  IF pins = {} THEN Packed(c, p) ELSE (CHOOSE pin \in pins : TRUE).bytes

Manifest(c) == [p \in Packages |-> [version |-> Commit(c).version[p], bytes |-> BytesOf(c, p)]]

\* Variant: attempts of a run share the name of their artifact.
NameOfRun(i) == <<i>>

\* npm-release-<run_id>-<run_attempt>
NameOf(i) == <<i, runs[i].attempt>>

\* The manifest, ready=true and the upload come last.
Prepare ==
    /\ At("prepare")
    /\ IF \E p \in Packages : Newer(latest[p], Version(p)) THEN End("failed") /\ UNCHANGED artifacts
       ELSE IF Active.event = "workflow_run" /\ \A p \in Packages : ~RequiresRelease(p)
       THEN End("skipped") /\ UNCHANGED artifacts
       ELSE IF ~(RetainedAgree(Source) /\ CohortAgrees(Source) /\ OriginalsQualify)
       THEN End("failed") /\ UNCHANGED artifacts
       ELSE /\ GoTo("publish") /\ UNCHANGED done
            /\ artifacts' = artifacts \cup {[name |-> NameOf(active), manifest |-> Manifest(Source)]}
    /\ UNCHANGED <<repository, registry, faults>>
-----------------------------------------------------------------------------
(* The shared publisher, and the verification between its phases.  Each job*)
(* fetches the artifact of its run and attempt.                            *)

Found == \E a \in artifacts : a.name = NameOf(active)
Prepared == (CHOOSE a \in artifacts : a.name = NameOf(active)).manifest

\* A phase of the publisher handles the packages one by one.
Phase(step, p) == At(step) /\ Found /\ p \in Packages \ done

Advance(p, step) ==
    IF done \cup {p} = Packages
    THEN done' = {} /\ GoTo(step)
    ELSE done' = done \cup {p} /\ UNCHANGED <<runs, active, waiting>>

Publish(p) ==
    /\ Phase("publish", p) /\ Advance(p, "verify")
    /\ LET v == Prepared[p].version
       IN  published' = IF v \in DOMAIN published[p] THEN published
                        ELSE [published EXCEPT ![p] =
                                [u \in DOMAIN @ \cup {v} |-> IF u = v THEN Prepared[p].bytes ELSE @[u]]]
    /\ UNCHANGED <<repository, artifacts, latest, faults>>

\* Variant: the archives of the registry are not compared.
ReturnedAny(p) == PublishedAt(p, Prepared[p].version) # Absent

\* assertArchive, of what the publisher has downloaded.
Returned(p) == PublishedAt(p, Prepared[p].version) = Prepared[p].bytes

Verify ==
    /\ At("verify") /\ Found
    /\ IF \A p \in Packages : Returned(p)
       THEN GoTo("promote") /\ UNCHANGED done
       ELSE End("failed")
    /\ UNCHANGED <<repository, artifacts, registry, faults>>

Promote(p) ==
    /\ Phase("promote", p)
    /\ latest' = [latest EXCEPT ![p] = Prepared[p].version]
    /\ IF done \cup {p} = Packages THEN End("succeeded")
       ELSE done' = done \cup {p} /\ UNCHANGED <<runs, active, waiting>>
    /\ UNCHANGED <<repository, artifacts, published, faults>>

NoArtifact ==
    /\ (At("publish") \/ At("verify") \/ At("promote")) /\ ~Found
    /\ End("failed")
    /\ UNCHANGED <<repository, artifacts, registry, faults>>

\* A command, a request or the runner fails between two steps.
Fault ==
    /\ active # 0 /\ faults < MaxFaults /\ faults' = faults + 1
    /\ End("failed")
    /\ UNCHANGED <<repository, artifacts, registry>>

Step ==
    \/ CheckSource \/ Prepare
    \/ (\E p \in Packages : Publish(p)) \/ Verify \/ (\E p \in Packages : Promote(p))
    \/ NoArtifact

Next ==
    \/ Merge \/ (\E c \in DOMAIN ci : CompleteCi(c))
    \/ Dispatch \/ (\E i \in DOMAIN runs : Rerun(i))
    \/ Step \/ Fault

\* A run that may proceed does, and CI ends; nobody has to dispatch or run again.
Fairness == WF_vars(Step) /\ WF_vars(\E c \in DOMAIN ci : CompleteCi(c))

Spec == Init /\ [][Next]_vars /\ Fairness
-----------------------------------------------------------------------------
(* What the publication promises of the registry and of main.              *)

\* v is w, or an older version.
AtMost(v, w) ==
    \/ v[1] < w[1]
    \/ v[1] = w[1] /\ (v[2] < w[2] \/ (v[2] = w[2] /\ v[3] <= w[3]))

\* `latest` never goes back to an older version, whichever run is run again, and
\* whatever main was reverted to ("fails closed to prevent accidental regression").
NeverBackwards == [][\A p \in Packages : AtMost(latest[p], latest'[p])]_vars

\* What is latest was made of the source of one commit whose CI passed with every
\* job; and it was promoted when all packages of that commit were on the
\* registry, with the payload of that source.
LatestIsQualified ==
    \A p \in Packages : \E c \in DOMAIN ci :
        /\ ci[c] = "success" /\ Commit(c).version[p] = latest[p]
        /\ \A q \in Packages :
              /\ Commit(c).version[q] \in DOMAIN published[q]
              /\ published[q][Commit(c).version[q]].tree = Commit(c).tree[q]

\* Without accidents and interventions, main with a passed CI has its versions on
\* latest in the end, also if its changes came with a commit whose own run was
\* stale or replaced ("This also catches a pending version when a newer
\* documentation commit superseded its original CI").
Disturbed == faults > 0 \/ \E i \in DOMAIN runs : runs[i].attempt > 1

\* No earlier commit has a newer version of a package, nor other bytes of the same.
Releasable(c) ==
    /\ \A b \in 1..c : \A p \in Packages :
          LET was == Commit(b).version[p] now == Commit(c).version[p]
          IN  AtMost(was, now) /\ (was = now => BytesOf(b, p) = BytesOf(c, p))
    /\ RetainedAgree(c) /\ CohortAgrees(c)
    /\ \A pin \in Pinned(c) : pin.bytes.tree = Commit(c).tree[pin.package]

PendingIsReleased ==
    []<>(\/ Disturbed \/ ci[main] # "success" \/ ~Releasable(main)
         \/ \A p \in Packages : latest[p] = Commit(main).version[p])
=============================================================================
