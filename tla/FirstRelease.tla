------------------------------ MODULE FirstRelease ------------------------------
(***************************************************************************)
(* The first publication of a package, from a retained archive, by          *)
(* architecture/tooling/first-core-release.mjs: it uploads one version under *)
(* a provisional tag, has a consumer try what the registry serves, and moves *)
(* the intended tag.  A write is announced in a durable checkpoint before it *)
(* is made, its answer is never believed, and a run that resumes an earlier  *)
(* one only reads.                                                           *)
(*                                                                           *)
(* Around it: a registry whose answers lag behind it, requests that fail, are *)
(* lost or land late, saves that fail, a process that dies, and others who   *)
(* publish and tag.  The arguments are well formed, and the retained archive *)
(* is the one they name.                                                     *)
(***************************************************************************)
EXTENDS Naturals

CONSTANTS MaxRuns,      \* how often the procedure is run, each time resuming
          MaxFaults,    \* failed requests and saves, and crashes
          MaxOthers     \* what others do to the package

VARIABLES
    registry,   \* the archive of the version, and what the two tags name
    replica,    \* what the registry answers, archive and tags apart
    flight,     \* writes that failed and may still land
    previous,   \* the targets of the tags that the owner expects
    durable,    \* the checkpoint as it was last saved
    phase,      \* the next step of the running procedure, or "idle"
    part,       \* what has been done: nothing, upload, consumer, promotion
    reads,      \* READ_ATTEMPTS of this reading
    record,     \* the checkpoint in memory
    downloaded, \* the archive of the registry
    selected,   \* the tags as they were last read
    status,     \* of the last run that ended
    runs, faults, others,
    calls,      \* how often each write was asked of the registry
    consumed,   \* the consumer of this run passed
    refuted,    \* a download was corrupt or a consumer failed
    lagged      \* an answer was not the registry's state

world == <<registry, replica, flight>>
owner == <<previous, durable>>
process == <<phase, part, reads, record, downloaded, selected, status>>
counters == <<runs, faults, others, calls, consumed, refuted, lagged>>
vars == <<world, owner, process, counters>>

ReadAttempts == 3
Writes == {"upload", "setTag"}
Targets == {"previous", "version", "other"}
Fresh == [uploadAttempted |-> FALSE, promotionAttempted |-> FALSE,
          intendedObserved |-> FALSE, stage |-> "observing"]
NoTags == [provisional |-> "previous", intended |-> "previous"]

Init ==
    /\ \/ registry = [archive |-> "absent", tags |-> NoTags]
       \/ \E p, i \in {"previous", "version"} :
             registry = [archive |-> "ours", tags |-> [provisional |-> p, intended |-> i]]
    /\ replica = registry /\ flight = {} /\ previous = registry.tags
    /\ durable = Fresh /\ record = Fresh
    /\ phase = "idle" /\ part = "nothing" /\ reads = 1
    /\ downloaded = "absent" /\ selected = NoTags /\ status = "none"
    /\ runs = 0 /\ faults = 0 /\ others = 0
    /\ calls = [w \in Writes |-> 0]
    /\ consumed = FALSE /\ refuted = FALSE /\ lagged = FALSE

Fault == faults < MaxFaults /\ faults' = faults + 1
-----------------------------------------------------------------------------
(* The steps of a run.  `note' and the evidence are left out.              *)

GoTo(next) == phase' = next /\ UNCHANGED <<reads, record, status>>

Finish(result) ==
    /\ phase' = "end" /\ status' = result
    /\ record' = [record EXCEPT !.stage = result]
    /\ UNCHANGED reads

\* One of the attempts of a reading is over.
Again(next) ==
    IF reads < ReadAttempts
    THEN reads' = reads + 1 /\ phase' = next /\ UNCHANGED <<record, status>>
    ELSE Finish("incomplete")

Resume ==
    /\ phase = "idle" /\ runs < MaxRuns
    /\ runs' = runs + 1
    /\ part' = "nothing" /\ reads' = 1 /\ downloaded' = "absent" /\ consumed' = FALSE
    /\ IF durable.stage = "failed"
       THEN phase' = "end" /\ status' = "failed" /\ record' = durable
       ELSE /\ phase' = "version" /\ record' = [durable EXCEPT !.stage = "observing"]
            /\ UNCHANGED status
    /\ UNCHANGED <<world, owner, selected, faults, others, calls, refuted, lagged>>

AllowInitialAbsence == ~record.uploadAttempted /\ ~record.promotionAttempted

ReadVersion ==
    /\ phase = "version"
    /\ \/ Fault /\ Again("version") /\ UNCHANGED <<downloaded, lagged>>
       \/ /\ lagged' = (lagged \/ replica.archive # registry.archive)
          /\ \/ replica.archive = "foreign" /\ Finish("failed")
             \/ replica.archive = "ours" /\ GoTo("download")
             \/ /\ replica.archive = "absent"
                /\ IF AllowInitialAbsence /\ reads = 1 THEN GoTo("tags") ELSE Again("version")
          /\ UNCHANGED <<downloaded, faults>>
    /\ UNCHANGED <<world, owner, part, selected, runs, others, calls, consumed, refuted>>

Download ==
    /\ phase = "download"
    /\ \/ Fault /\ Again("version") /\ UNCHANGED <<downloaded, refuted>>
       \/ Finish("failed") /\ refuted' = TRUE /\ UNCHANGED <<downloaded, faults>>
       \/ /\ downloaded' = "ours" /\ reads' = 1
          /\ phase' = IF part = "nothing" THEN "tags" ELSE "consumer"
          /\ UNCHANGED <<record, status, faults, refuted>>
    /\ UNCHANGED <<world, owner, part, selected, runs, others, calls, consumed, lagged>>

ExpectedProvisional == IF record.uploadAttempted THEN "version" ELSE previous.provisional

\* Mutant: a tag that is not there yet is the doing of others.
NeverPending(tags) == FALSE

PendingProvisional(tags) ==
    /\ tags.provisional # ExpectedProvisional
    /\ record.uploadAttempted /\ tags.provisional = previous.provisional

ConcurrentChange(tags) ==
    \/ record.intendedObserved /\ tags.intended # "version"
    \/ tags.provisional # ExpectedProvisional /\ ~PendingProvisional(tags)
    \/ tags.intended \notin {previous.intended, "version"}

RequireIntended == part = "promotion" \/ (part = "consumer" /\ record.promotionAttempted)

\* Mutant: the write is made before its checkpoint is saved.
IntentUnsaved(flag, stage) ==
    /\ record' = [record EXCEPT ![flag] = TRUE, !.stage = stage]
    /\ phase' = "call" /\ UNCHANGED <<reads, status>>

Intent(flag, stage) ==
    /\ record' = [record EXCEPT ![flag] = TRUE, !.stage = stage]
    /\ phase' = "save" /\ UNCHANGED <<reads, status>>

Unconfirmed(tags) ==
    PendingProvisional(tags) \/ (RequireIntended /\ tags.intended # "version")

\* What follows a reading of the tags, by what has been done.
Proceed(tags) ==
    \/ Unconfirmed(tags) /\ Again("tags")
    \/ /\ ~Unconfirmed(tags) /\ part = "nothing" /\ downloaded = "ours"
       /\ GoTo("consumer")
    \/ /\ ~Unconfirmed(tags) /\ part = "nothing" /\ downloaded = "absent"
       /\ IF "version" \in {tags.intended, tags.provisional} THEN Finish("incomplete")
          ELSE Intent("uploadAttempted", "upload-intent")
    \/ /\ ~Unconfirmed(tags) /\ part \in {"consumer", "promotion"}
       /\ IF tags.intended = "version" THEN Finish("completed")
          ELSE Intent("promotionAttempted", "promotion-intent")

ReadTags ==
    /\ phase = "tags"
    /\ \/ Fault /\ Again("tags") /\ UNCHANGED <<selected, lagged>>
       \/ /\ lagged' = (lagged \/ replica.tags # registry.tags)
          /\ selected' = replica.tags
          /\ IF ConcurrentChange(selected') THEN Finish("failed")
             ELSE IF selected'.intended = "version" /\ ~record.intendedObserved
             THEN /\ record' = [record EXCEPT !.intendedObserved = TRUE]
                  /\ phase' = "observed" /\ UNCHANGED <<reads, status>>
             ELSE Proceed(selected')
          /\ UNCHANGED faults
    /\ UNCHANGED <<world, owner, part, downloaded, runs, others, calls, consumed, refuted>>

\* A save that fails may have saved, or not.
Save ==
    /\ phase \in {"observed", "save"}
    /\ \/ /\ durable' = record
          /\ IF phase = "observed" THEN Proceed(selected) ELSE GoTo("call")
          /\ UNCHANGED faults
       \/ Fault /\ durable' \in {durable, record} /\ Finish("incomplete")
    /\ UNCHANGED <<world, previous, part, downloaded, selected, runs, others, calls, consumed,
                   refuted, lagged>>

\* The registry keeps the first archive of a version, and tags only what it has.
Landed(write, r) ==
    CASE write = "upload" /\ r.archive = "absent" ->
            [archive |-> "ours", tags |-> [r.tags EXCEPT !.provisional = "version"]]
      [] write = "setTag" /\ r.archive # "absent" -> [r EXCEPT !.tags.intended = "version"]
      [] OTHER -> r

Intended == IF part = "nothing" THEN "upload" ELSE "setTag"

\* The answer makes no difference: what was written is read again.
Mutate ==
    /\ phase = "call"
    /\ calls' = [calls EXCEPT ![Intended] = @ + 1]
    /\ \/ registry' = Landed(Intended, registry) /\ UNCHANGED <<flight, faults>>
       \/ Fault /\ flight' = flight \cup {Intended} /\ UNCHANGED registry
    /\ reads' = 1
    /\ IF Intended = "upload" THEN phase' = "version" /\ part' = "upload"
       ELSE phase' = "tags" /\ part' = "promotion"
    /\ UNCHANGED <<replica, owner, record, downloaded, selected, status, runs, others, consumed,
                   refuted, lagged>>

Consume ==
    /\ phase = "consumer"
    /\ \/ /\ consumed' = TRUE /\ phase' = "tags" /\ part' = "consumer" /\ reads' = 1
          /\ UNCHANGED <<record, status, refuted>>
       \/ Finish("failed") /\ refuted' = TRUE /\ UNCHANGED <<consumed, part>>
    /\ UNCHANGED <<world, owner, downloaded, selected, runs, faults, others, calls, lagged>>

\* The caller persists the result of the run.
Return ==
    /\ phase = "end"
    /\ durable' = record /\ phase' = "idle"
    /\ UNCHANGED <<world, previous, part, reads, record, downloaded, selected, status, counters>>

Crash ==
    /\ phase # "idle" /\ Fault
    /\ phase' = "idle"
    /\ UNCHANGED <<world, owner, part, reads, record, downloaded, selected, status,
                   runs, others, calls, consumed, refuted, lagged>>
-----------------------------------------------------------------------------
(* The registry, and others who use it.                                    *)

Land ==
    /\ \E w \in flight : registry' = Landed(w, registry) /\ flight' = flight \ {w}
    /\ UNCHANGED <<replica, owner, process, counters>>

CatchUp ==
    /\ \/ replica' = [replica EXCEPT !.archive = registry.archive]
       \/ replica' = [replica EXCEPT !.tags = registry.tags]
    /\ UNCHANGED <<registry, flight, owner, process, counters>>

Other ==
    /\ others < MaxOthers /\ others' = others + 1
    /\ \/ registry.archive = "absent" /\ registry' = [registry EXCEPT !.archive = "foreign"]
       \/ \E t \in Targets : registry' = [registry EXCEPT !.tags.intended = t]
       \/ \E t \in Targets : registry' = [registry EXCEPT !.tags.provisional = t]
    /\ UNCHANGED <<replica, flight, owner, process, runs, faults, calls, consumed, refuted, lagged>>

Next ==
    \/ Resume \/ ReadVersion \/ Download \/ ReadTags \/ Save \/ Mutate \/ Consume
    \/ Return \/ Crash
    \/ Land \/ CatchUp \/ Other

Spec == Init /\ [][Next]_vars
-----------------------------------------------------------------------------
\* The boolean part of a checkpoint.
Flags == {"uploadAttempted", "promotionAttempted", "intendedObserved"}

\* Announced writes are never forgotten, whichever save or result was the last.
Remembers(before, after) ==
    \A flag \in Flags : before[flag] => after[flag]

\* However often the procedure is run, whatever dies, fails or lands late, each
\* write is asked of the registry at most once, and only when a checkpoint that is
\* never lost says so; none is asked after a failure was recorded, and the tag is
\* not asked for once it was seen at the version.
AsksOnce ==
    /\ \A w \in Writes : calls[w] <= 1
    /\ calls["upload"] = 1 => durable.uploadAttempted
    /\ calls["setTag"] = 1 => durable.promotionAttempted

StepAsksOnce ==
    /\ AsksOnce'
    /\ Remembers(durable, durable')
    /\ calls' # calls => durable.stage # "failed" /\ ~durable.intendedObserved

WritesOnce == [][StepAsksOnce]_vars

\* What a run reports is so.  A completed one has tried the archive of the registry
\* and then seen the tags, which are there unless others moved them; a failed one is
\* the doing of others or of the archive, never of a fault, a delay or a crash; and
\* nothing is left incomplete without a cause.
ReportIsTrue ==
    /\ status = "completed" =>
          /\ registry.archive = "ours"
          /\ phase = "end" => consumed /\ selected.intended = "version"
          /\ others = 0 => /\ registry.tags.intended = "version"
                           /\ calls["upload"] = 1 => registry.tags.provisional = "version"
    /\ status = "failed" => others > 0 \/ refuted
    /\ status = "incomplete" => faults > 0 \/ others > 0 \/ lagged
=============================================================================
