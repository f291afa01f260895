--------------------------- MODULE FirstReleaseProofs ---------------------------
(***************************************************************************)
(* The first publication asks the registry for each write at most once, and  *)
(* what its runs report is so, for any number of runs, faults and            *)
(* interferences.                                                            *)
(***************************************************************************)
EXTENDS FirstRelease, TLAPS

Stages == {"observing", "upload-intent", "promotion-intent", "incomplete", "failed", "completed"}
Checkpoints == [uploadAttempted : BOOLEAN, promotionAttempted : BOOLEAN,
                intendedObserved : BOOLEAN, stage : Stages]
Tags == [provisional : Targets, intended : Targets]
Archives == {"absent", "ours", "foreign"}
Registries == [archive : Archives, tags : Tags]

TypeInv ==
    /\ registry \in Registries /\ replica \in Registries /\ previous \in Tags /\ selected \in Tags
    /\ flight \subseteq Writes
    /\ durable \in Checkpoints /\ record \in Checkpoints
    /\ phase \in {"idle", "version", "download", "tags", "observed", "consumer", "save", "call", "end"}
    /\ part \in {"nothing", "upload", "consumer", "promotion"}
    /\ reads \in Nat /\ downloaded \in {"absent", "ours"}
    /\ calls \in [Writes -> Nat]

\* While a run is in progress, it knows what is durable.
Knows == phase # "idle" => Remembers(durable, record)

\* Only the very first run may find that the version is absent.
Unattempted == ~record.uploadAttempted /\ ~record.promotionAttempted

FirstIsFresh ==
    phase \in {"tags", "observed"} /\ part = "nothing" /\ downloaded = "absent" => Unattempted

\* After an upload the archive is read and tried before the tags are read.
TagsAreNext == phase \in {"tags", "observed"} => part # "upload"

UploadIsAnnounced == phase # "idle" /\ part = "upload" => record.uploadAttempted

\* What was observed of the intended tag is the version.
ObservedIsVersion == phase = "observed" => selected.intended = "version"

\* An announced write has not been asked for, and the tag has not been seen.
Announced ==
    phase \in {"save", "call"} =>
        /\ part \in {"nothing", "consumer"}
        /\ calls[Intended] = 0 /\ ~record.intendedObserved
        /\ record.stage \in {"upload-intent", "promotion-intent"}
        /\ IF part = "nothing" THEN record.uploadAttempted ELSE record.promotionAttempted

CallIsDurable == phase = "call" => durable = record

IInv ==
    /\ TypeInv /\ Knows /\ FirstIsFresh /\ TagsAreNext /\ UploadIsAnnounced
    /\ ObservedIsVersion /\ Announced /\ CallIsDurable /\ AsksOnce

LEMMA InitIInv == Init => IInv
BY DEF Init, IInv, TypeInv, Knows, FirstIsFresh, TagsAreNext, UploadIsAnnounced,
       ObservedIsVersion, Announced, CallIsDurable, AsksOnce, Registries, Tags, Archives, Targets,
       Checkpoints, Stages, Fresh, NoTags, Writes, Unattempted

\* What this run has not announced has never been asked for.
LEMMA Unasked ==
    ASSUME IInv, phase # "idle", part \in {"nothing", "consumer"},
           IF part = "nothing" THEN ~record.uploadAttempted ELSE ~record.promotionAttempted
    PROVE  calls[Intended] = 0
<1>1. calls["upload"] \in {0, 1} /\ calls["setTag"] \in {0, 1}
  BY DEF IInv, TypeInv, AsksOnce, Writes
<1> QED
  BY <1>1 DEF IInv, Knows, Remembers, Flags, AsksOnce, Intended

\* Where a run goes after it has read the tags, and what it then announces.
LEMMA ProceedLeads ==
    ASSUME IInv, UNCHANGED <<part, downloaded, calls>>, phase \in {"tags", "observed"},
           NEW tags \in Tags, Proceed(tags),
           record.intendedObserved => tags.intended = "version"
    PROVE  /\ phase' \in {"tags", "consumer", "save", "end"}
           /\ record' \in Checkpoints /\ reads' \in Nat /\ Remembers(record, record')
           /\ FirstIsFresh' /\ TagsAreNext' /\ ObservedIsVersion' /\ Announced'
<1> USE DEF Checkpoints, Stages, Remembers, Flags
<1>1. record \in Checkpoints /\ reads \in Nat
      /\ part \in {"nothing", "upload", "consumer", "promotion"}
  BY DEF IInv, TypeInv
<1>2. part = "nothing" /\ downloaded = "absent" => Unattempted
  BY DEF IInv, FirstIsFresh
<1>3. /\ phase' \in {"tags", "consumer", "save", "end"}
      /\ record' \in Checkpoints /\ reads' \in Nat /\ Remembers(record, record')
      /\ phase' = "tags" => record' = record
      /\ phase' = "save" =>
            /\ part \in {"nothing", "consumer"}
            /\ ~record'.intendedObserved
            /\ record'.stage \in {"upload-intent", "promotion-intent"}
            /\ IF part = "nothing" THEN record'.uploadAttempted /\ ~record.uploadAttempted
               ELSE record'.promotionAttempted /\ ~record.promotionAttempted
  <2>1. part # "upload" /\ downloaded \in {"absent", "ours"}
    BY DEF IInv, TypeInv, TagsAreNext
  <2>3. CASE Again("tags")
    BY <1>1, <2>3 DEF Again, Finish, ReadAttempts
  <2>4. CASE GoTo("consumer")
    BY <1>1, <2>4 DEF GoTo
  <2>5. CASE Finish("incomplete") \/ Finish("completed")
    BY <1>1, <2>5 DEF Finish
  <2>6. CASE /\ Intent("uploadAttempted", "upload-intent")
             /\ part = "nothing" /\ downloaded = "absent" /\ tags.intended # "version"
    BY <1>1, <1>2, <2>6 DEF Intent, Unattempted
  <2>7. CASE /\ Intent("promotionAttempted", "promotion-intent")
             /\ part \in {"consumer", "promotion"} /\ tags.intended # "version"
             /\ ~(RequireIntended /\ tags.intended # "version")
    BY <1>1, <2>7 DEF Intent, RequireIntended
  <2> QED
    BY <1>1, <2>3, <2>4, <2>5, <2>6, <2>7, <2>1 DEF Proceed, Unconfirmed
<1>4. Announced'
  <2>1. CASE phase' = "save"
    <3>1. calls[Intended] = 0
      BY <1>3, <2>1, Unasked
    <3>2. Intended' = Intended
      BY DEF Intended
    <3> QED
      BY <1>3, <2>1, <3>1, <3>2 DEF Announced
  <2>2. CASE phase' # "save"
    BY <1>3, <2>2 DEF Announced
  <2> QED
    BY <2>1, <2>2
<1> QED
  BY <1>2, <1>3, <1>4 DEF FirstIsFresh, TagsAreNext, ObservedIsVersion, Unattempted, IInv

\* The parts of the invariant that a step of the run may disturb.
LEMMA RunStep ==
    ASSUME IInv, UNCHANGED <<previous, durable, calls>>, registry' \in Registries,
           replica' \in Registries, flight' \subseteq Writes, selected' \in Tags,
           reads' \in Nat, downloaded' \in {"absent", "ours"}, record' \in Checkpoints,
           phase' \in {"version", "download", "tags", "consumer", "end", "observed", "save"},
           part' \in {"nothing", "upload", "consumer", "promotion"},
           phase # "idle", Remembers(record, record'),
           FirstIsFresh', TagsAreNext', ObservedIsVersion', Announced',
           part' = "upload" => part = "upload"
    PROVE  IInv'
BY DEF IInv, TypeInv, Knows, UploadIsAnnounced, CallIsDurable, AsksOnce, Remembers, Flags

LEMMA ReadTagsStep == IInv /\ ReadTags => IInv'
<1> SUFFICES ASSUME IInv, ReadTags PROVE IInv'
  OBVIOUS
<1> USE DEF Checkpoints, Stages, Flags, Remembers
<1>1. /\ record \in Checkpoints /\ reads \in Nat
      /\ part \in {"nothing", "upload", "consumer", "promotion"}
  BY DEF IInv, TypeInv
<1>2. /\ part = "nothing" /\ downloaded = "absent" => Unattempted
      /\ part # "upload" /\ phase = "tags"
  BY DEF IInv, FirstIsFresh, TagsAreNext, ReadTags
<1>3. UNCHANGED <<previous, durable, calls, registry, replica, flight, downloaded, part>>
  BY DEF ReadTags, world, owner
<1>4. selected' \in Tags
  BY DEF ReadTags, IInv, TypeInv, Registries
<1>5. CASE Again("tags")
  <2>1. /\ record' \in Checkpoints /\ Remembers(record, record') /\ reads' \in Nat
        /\ phase' \in {"tags", "end"} /\ (phase' = "tags" => record' = record)
    BY <1>1, <1>5 DEF Again, Finish, ReadAttempts
  <2> QED
    BY <1>2, <1>3, <1>4, <2>1, RunStep
       DEF FirstIsFresh, TagsAreNext, ObservedIsVersion, Announced, Unattempted, IInv, TypeInv
<1>6. CASE selected' = replica.tags /\ ConcurrentChange(selected') /\ Finish("failed")
  <2>1. /\ record' \in Checkpoints /\ Remembers(record, record') /\ reads' \in Nat
        /\ phase' = "end"
    BY <1>1, <1>6 DEF Finish
  <2> QED
    BY <1>2, <1>3, <1>4, <2>1, RunStep
       DEF FirstIsFresh, TagsAreNext, ObservedIsVersion, Announced, Unattempted, IInv, TypeInv
<1>7. CASE /\ selected'.intended = "version"
           /\ record' = [record EXCEPT !.intendedObserved = TRUE]
           /\ phase' = "observed" /\ UNCHANGED reads
  <2>1. record' \in Checkpoints /\ Remembers(record, record')
        /\ record'.uploadAttempted = record.uploadAttempted
        /\ record'.promotionAttempted = record.promotionAttempted
    BY <1>1, <1>7
  <2> QED
    BY <1>1, <1>2, <1>3, <1>4, <1>7, <2>1, RunStep
       DEF FirstIsFresh, TagsAreNext, ObservedIsVersion, Announced, Unattempted, IInv, TypeInv
<1>8. CASE ~ConcurrentChange(selected') /\ Proceed(selected')
  <2>1. record.intendedObserved => selected'.intended = "version"
    BY <1>8 DEF ConcurrentChange
  <2> QED
    BY <1>2, <1>3, <1>4, <1>8, <2>1, ProceedLeads, RunStep DEF IInv, TypeInv
<1> QED
  BY <1>5, <1>6, <1>7, <1>8 DEF ReadTags

LEMMA SaveStep == IInv /\ Save => IInv'
<1> SUFFICES ASSUME IInv, Save PROVE IInv'
  OBVIOUS
<1> USE DEF Checkpoints, Stages, Flags, Remembers
<1>1. /\ record \in Checkpoints /\ durable \in Checkpoints /\ reads \in Nat /\ selected \in Tags
      /\ phase \in {"observed", "save"} /\ Remembers(durable, record)
  BY DEF IInv, TypeInv, Knows, Save
<1>2. UNCHANGED <<previous, calls, registry, replica, flight, downloaded, part, selected>>
  BY DEF Save, world
<1>3. AsksOnce /\ (durable' \in {durable, record} => AsksOnce')
  BY <1>1, <1>2 DEF IInv, AsksOnce, Writes
<1>4. CASE durable' = record /\ phase = "observed" /\ Proceed(selected)
  <2>1. /\ phase' \in {"tags", "consumer", "save", "end"}
        /\ record' \in Checkpoints /\ reads' \in Nat /\ Remembers(record, record')
        /\ FirstIsFresh' /\ TagsAreNext' /\ ObservedIsVersion' /\ Announced'
    BY <1>1, <1>2, <1>4, ProceedLeads DEF IInv, ObservedIsVersion
  <2>2. Knows' /\ CallIsDurable' /\ TypeInv' /\ UploadIsAnnounced'
    BY <1>1, <1>2, <1>4, <2>1 DEF IInv, TypeInv, Knows, CallIsDurable, UploadIsAnnounced
  <2> QED
    BY <1>3, <1>4, <2>1, <2>2 DEF IInv
<1>5. CASE durable' = record /\ phase = "save" /\ GoTo("call")
  BY <1>1, <1>2, <1>3, <1>5
     DEF GoTo, IInv, TypeInv, Knows, FirstIsFresh, TagsAreNext, UploadIsAnnounced,
         ObservedIsVersion, Announced, CallIsDurable, Intended
<1>6. CASE durable' \in {durable, record} /\ Finish("incomplete")
  BY <1>1, <1>2, <1>3, <1>6
     DEF Finish, IInv, TypeInv, Knows, FirstIsFresh, TagsAreNext, UploadIsAnnounced,
         ObservedIsVersion, Announced, CallIsDurable
<1> QED
  BY <1>1, <1>4, <1>5, <1>6 DEF Save

LEMMA MutateStep == IInv /\ Mutate => IInv'
<1> SUFFICES ASSUME IInv, Mutate PROVE IInv'
  OBVIOUS
<1>1. /\ part \in {"nothing", "consumer"} /\ calls[Intended] = 0 /\ durable = record
      /\ IF part = "nothing" THEN record.uploadAttempted ELSE record.promotionAttempted
  BY DEF IInv, Announced, CallIsDurable, Mutate
<1>2. Landed(Intended, registry) \in Registries
  BY DEF IInv, TypeInv, Registries, Archives, Tags, Targets, Landed, Intended
<1>3. /\ UNCHANGED <<replica, previous, durable, record, downloaded, selected>>
      /\ registry' \in Registries /\ flight' \subseteq Writes /\ reads' = 1
      /\ calls' = [calls EXCEPT ![Intended] = @ + 1]
      /\ IF Intended = "upload" THEN phase' = "version" /\ part' = "upload"
         ELSE phase' = "tags" /\ part' = "promotion"
  BY <1>2 DEF Mutate, owner, IInv, TypeInv, Intended, Writes
<1>4. calls' \in [Writes -> Nat] /\ AsksOnce'
  BY <1>1, <1>3 DEF IInv, TypeInv, AsksOnce, Writes, Intended
<1>5. TypeInv'
  BY <1>1, <1>3, <1>4 DEF IInv, TypeInv
<1>6. phase' \notin {"observed", "save", "call", "idle"} /\ (phase' = "tags" => part' = "promotion")
  BY <1>3
<1>7. Knows' /\ UploadIsAnnounced'
  BY <1>1, <1>3 DEF Knows, Remembers, UploadIsAnnounced, Intended
<1> QED
  BY <1>4, <1>5, <1>6, <1>7
     DEF IInv, FirstIsFresh, TagsAreNext, ObservedIsVersion, Announced, CallIsDurable

LEMMA ReadArchiveStep == IInv /\ (ReadVersion \/ Download) => IInv'
<1> SUFFICES ASSUME IInv, ReadVersion \/ Download PROVE IInv'
  OBVIOUS
<1> USE DEF Checkpoints, Stages, Flags, Remembers
<1>1. record \in Checkpoints /\ reads \in Nat /\ phase \in {"version", "download"}
  BY DEF IInv, TypeInv, ReadVersion, Download
<1>2. UNCHANGED <<previous, durable, calls, registry, replica, flight, part, selected>>
  BY DEF ReadVersion, Download, world, owner
<1>3. downloaded' \in {"absent", "ours"}
  BY DEF ReadVersion, Download, IInv, TypeInv
<1>4. CASE Again("version") \/ Finish("failed") \/ GoTo("download")
  <2>1. /\ record' \in Checkpoints /\ Remembers(record, record') /\ reads' \in Nat
        /\ phase' \in {"version", "download", "end"}
    BY <1>1, <1>4 DEF Again, Finish, GoTo, ReadAttempts
  <2> QED
    BY <1>1, <1>2, <1>3, <2>1, RunStep
       DEF FirstIsFresh, TagsAreNext, ObservedIsVersion, Announced, IInv, TypeInv
<1>5. CASE AllowInitialAbsence /\ GoTo("tags") /\ UNCHANGED downloaded
  <2>1. Unattempted' /\ part # "upload" /\ UNCHANGED record /\ reads' = reads /\ phase' = "tags"
    BY <1>1, <1>5 DEF AllowInitialAbsence, GoTo, Unattempted, IInv, UploadIsAnnounced
  <2> QED
    BY <1>1, <1>2, <1>3, <2>1, RunStep
       DEF FirstIsFresh, TagsAreNext, ObservedIsVersion, Announced, IInv, TypeInv
<1>6. CASE /\ downloaded' = "ours" /\ reads' = 1 /\ UNCHANGED record
           /\ phase' = IF part = "nothing" THEN "tags" ELSE "consumer"
  BY <1>1, <1>2, <1>6, RunStep
     DEF FirstIsFresh, TagsAreNext, ObservedIsVersion, Announced, IInv, TypeInv
<1> QED
  BY <1>4, <1>5, <1>6 DEF ReadVersion, Download

LEMMA RestStep == IInv /\ (Resume \/ Consume \/ Return \/ Crash) => IInv'
<1> SUFFICES ASSUME IInv, Resume \/ Consume \/ Return \/ Crash PROVE IInv'
  OBVIOUS
<1> USE DEF Checkpoints, Stages, Flags, Remembers, world, owner, process, counters
<1>1. CASE Resume
  BY <1>1 DEF Resume, IInv, TypeInv, Knows, FirstIsFresh, TagsAreNext, UploadIsAnnounced,
         ObservedIsVersion, Announced, CallIsDurable, AsksOnce
<1>2. CASE Consume
  <2>1. /\ record' \in Checkpoints /\ reads' \in Nat /\ Remembers(record, record')
        /\ phase' \in {"tags", "end"} /\ phase = "consumer"
        /\ part' \in {"nothing", "upload", "consumer", "promotion"}
        /\ (phase' = "tags" => part' = "consumer") /\ (part' = "upload" => part = "upload")
    BY <1>2 DEF Consume, Finish, IInv, TypeInv
  <2> QED
    BY <1>2, <2>1, RunStep
       DEF Consume, IInv, TypeInv, FirstIsFresh, TagsAreNext, ObservedIsVersion, Announced
<1>3. CASE Return
  <2>1. AsksOnce'
    BY <1>3 DEF Return, IInv, TypeInv, Knows, AsksOnce
  <2> QED
    BY <1>3, <2>1 DEF Return, IInv, TypeInv, Knows, FirstIsFresh, TagsAreNext, UploadIsAnnounced,
         ObservedIsVersion, Announced, CallIsDurable
<1>4. CASE Crash
  BY <1>4 DEF Crash, IInv, TypeInv, Knows, FirstIsFresh, TagsAreNext, UploadIsAnnounced,
         ObservedIsVersion, Announced, CallIsDurable, AsksOnce
<1> QED
  BY <1>1, <1>2, <1>3, <1>4

LEMMA WorldStep == IInv /\ (Land \/ CatchUp \/ Other) => IInv'
<1> SUFFICES ASSUME IInv, Land \/ CatchUp \/ Other PROVE IInv'
  OBVIOUS
<1>1. registry' \in Registries /\ replica' \in Registries /\ flight' \subseteq Writes
  BY DEF IInv, TypeInv, Registries, Archives, Tags, Targets, Writes, Land, CatchUp, Other, Landed
<1>2. UNCHANGED <<previous, durable, process, calls>>
  BY DEF Land, CatchUp, Other, owner, counters
<1> QED
  BY <1>1, <1>2 DEF IInv, TypeInv, Knows, FirstIsFresh, TagsAreNext, UploadIsAnnounced,
         ObservedIsVersion, Announced, CallIsDurable, AsksOnce, Intended, Unattempted, process

LEMMA NextIInv == IInv /\ [Next]_vars => IInv'
<1> SUFFICES ASSUME IInv, [Next]_vars PROVE IInv'
  OBVIOUS
<1>1. CASE UNCHANGED vars
  BY <1>1 DEF IInv, TypeInv, Knows, FirstIsFresh, TagsAreNext, UploadIsAnnounced,
         ObservedIsVersion, Announced, CallIsDurable, AsksOnce, Intended, Unattempted,
         vars, world, owner, process, counters
<1> QED
  BY <1>1, ReadTagsStep, SaveStep, MutateStep, ReadArchiveStep, RestStep, WorldStep DEF Next

\* No step forgets what a checkpoint announced, and no write is asked for after a
\* failure was recorded or the tag was seen at the version.
LEMMA StepsRemember ==
    IInv /\ [Next]_vars => [StepAsksOnce]_vars
<1>0. IInv' => AsksOnce'
  BY DEF IInv
<1> SUFFICES ASSUME IInv, Next
             PROVE  /\ Remembers(durable, durable')
                    /\ calls' # calls => durable.stage # "failed" /\ ~durable.intendedObserved
  BY <1>0, NextIInv DEF StepAsksOnce
<1>1. phase # "idle" => Remembers(durable, record)
  BY DEF IInv, Knows
<1>2. CASE Save \/ Return
  BY <1>1, <1>2 DEF Save, Return, Remembers, counters
<1>3. CASE Mutate
  BY <1>3 DEF IInv, Announced, CallIsDurable, Mutate, Remembers, owner
<1>4. CASE Resume \/ ReadVersion \/ Download \/ ReadTags \/ Consume \/ Crash \/ Land \/ CatchUp \/ Other
  BY <1>4 DEF Resume, ReadVersion, Download, ReadTags, Consume, Crash, Land, CatchUp, Other,
              Remembers, owner, counters
<1> QED
  BY <1>2, <1>3, <1>4 DEF Next

\* Each write of a first publication is asked of the registry at most once, announced
\* by a checkpoint that is never lost, and never after a recorded failure or against
\* an observed promotion: mutate() of first-core-release.mjs and what leads to it.
THEOREM AskedOnce == Spec => WritesOnce
BY InitIInv, NextIInv, StepsRemember, PTL DEF Spec, WritesOnce
-----------------------------------------------------------------------------
(* What a run reports is so.                                               *)

\* Nothing has gone wrong, nobody has interfered, and every answer was up to date.
Undisturbed == faults = 0 /\ others = 0 /\ ~lagged

ReportTypes ==
    /\ status \in {"none", "completed", "failed", "incomplete"}
    /\ faults \in Nat /\ others \in Nat
    /\ consumed \in BOOLEAN /\ refuted \in BOOLEAN /\ lagged \in BOOLEAN

\* The archive is there to stay: whatever was read or concluded of it still holds.
ArchiveIsKept ==
    /\ replica.archive # "absent" => replica.archive = registry.archive
    /\ \/ phase = "download" \/ downloaded = "ours" \/ status = "completed"
       \/ record.promotionAttempted \/ durable.promotionAttempted
       => registry.archive = "ours"
    /\ registry.archive = "foreign" => others > 0

\* What has been done, this run did: it has tried the archive that it downloaded.
Tried ==
    /\ phase = "consumer" => downloaded = "ours"
    /\ part \in {"consumer", "promotion"} => consumed /\ downloaded = "ours"
    /\ phase # "idle" /\ part = "promotion" => record.promotionAttempted

\* An observed promotion is durable as soon as the run goes on.
ObservedIsSaved ==
    /\ phase = "observed" => record.intendedObserved
    /\ phase \notin {"idle", "observed", "end"} /\ record.intendedObserved => durable.intendedObserved
    /\ status = "completed" =>
          /\ durable.intendedObserved
          /\ phase = "end" => consumed /\ selected.intended = "version"

\* The provisional tag was as expected, or not yet.
Acceptable(tags) == tags.provisional = ExpectedProvisional \/ PendingProvisional(tags)
SelectedIsAcceptable == phase = "observed" => Acceptable(selected)

\* Unless others move them, the tags only ever advance to the version, the replica
\* behind the registry and the run behind the replica.
Advances(before, after) ==
    \A t \in {"provisional", "intended"} : before[t] = "version" => after[t] = "version"

TagsAdvance ==
    /\ "upload" \in flight => durable.uploadAttempted
    /\ others = 0 =>
          /\ Advances(replica.tags, registry.tags) /\ Advances(selected, replica.tags)
          /\ \A t \in {"provisional", "intended"} :
                /\ registry.tags[t] \in {previous[t], "version"}
                /\ replica.tags[t] \in {previous[t], "version"}
          /\ record.intendedObserved \/ durable.intendedObserved
                => replica.tags.intended = "version"
          /\ ~durable.uploadAttempted =>
                /\ registry.tags.provisional = previous.provisional
                /\ replica.tags.provisional = previous.provisional
          /\ status = "completed" =>
                /\ registry.tags.intended = "version"
                /\ calls["upload"] = 1 => registry.tags.provisional = "version"

\* A failure has a cause, the recorded one too.
FailedForCause ==
    status = "failed" \/ record.stage = "failed" \/ durable.stage = "failed"
    => others > 0 \/ refuted

\* As long as nothing is amiss, the registry is where the run believes it to be.
Uploading == phase \in {"save", "call"} /\ part = "nothing"
Promoting == phase \in {"save", "call"} /\ part # "nothing"
OnCourse ==
    Undisturbed =>
        /\ status # "incomplete" /\ reads = 1 /\ flight = {}
        /\ registry.archive = "absent" => registry.tags = NoTags
        /\ phase = "observed" => selected = registry.tags
        /\ phase \in {"tags", "observed"} /\ part = "nothing" /\ downloaded = "absent"
              => registry.archive = "absent"
        /\ Uploading => registry.archive = "absent"
        /\ (durable.uploadAttempted \/ record.uploadAttempted) /\ ~Uploading
              => registry.archive = "ours" /\ registry.tags.provisional = "version"
        /\ (durable.promotionAttempted \/ record.promotionAttempted) /\ ~Promoting
              => registry.tags.intended = "version"

RInv ==
    /\ IInv /\ ReportTypes /\ ArchiveIsKept /\ Tried /\ ObservedIsSaved /\ SelectedIsAcceptable
    /\ TagsAdvance /\ FailedForCause /\ OnCourse

\* The types that the proofs below keep needing.
LEMMA ReportTypesOf ==
    ASSUME RInv
    PROVE  /\ registry \in Registries /\ replica \in Registries /\ previous \in Tags
           /\ selected \in Tags /\ durable \in Checkpoints /\ record \in Checkpoints
           /\ part \in {"nothing", "upload", "consumer", "promotion"}
           /\ downloaded \in {"absent", "ours"} /\ reads \in Nat /\ IInv /\ ReportTypes
BY DEF RInv, IInv, TypeInv

\* The invariant says of the reports what they are to be.
LEMMA ReportSound == RInv => ReportIsTrue
BY DEF RInv, ReportIsTrue, ReportTypes, ArchiveIsKept, ObservedIsSaved, TagsAdvance,
       FailedForCause, OnCourse, Undisturbed

\* No run has been made, and the replica is up to date.
LEMMA InitReport == Init => RInv
<1> SUFFICES ASSUME Init PROVE RInv
  OBVIOUS
<1>1. IInv
  BY InitIInv
<1>2. /\ record = Fresh /\ durable = Fresh /\ phase = "idle" /\ part = "nothing" /\ flight = {}
      /\ downloaded = "absent" /\ status = "none" /\ reads = 1 /\ selected = NoTags
      /\ faults = 0 /\ others = 0 /\ calls["upload"] = 0
      /\ replica = registry /\ previous = registry.tags
      /\ registry.archive \in {"absent", "ours"}
      /\ registry.archive = "absent" => registry.tags = NoTags
      /\ registry.tags.intended \in {"previous", "version"}
      /\ registry.tags.provisional \in {"previous", "version"}
  <2>1. CASE registry = [archive |-> "absent", tags |-> NoTags]
    BY <2>1 DEF Init, NoTags, Writes
  <2>2. CASE \E p, i \in {"previous", "version"} :
                registry = [archive |-> "ours", tags |-> [provisional |-> p, intended |-> i]]
    BY <2>2 DEF Init, Writes
  <2> QED
    BY <2>1, <2>2 DEF Init
<1>6. consumed \in BOOLEAN /\ refuted \in BOOLEAN /\ lagged \in BOOLEAN
  BY Zenon DEF Init
<1>7. ReportTypes
  BY <1>2, <1>6 DEF ReportTypes
<1>3. ArchiveIsKept /\ Tried /\ ObservedIsSaved /\ SelectedIsAcceptable
  BY <1>2 DEF ArchiveIsKept, Tried, ObservedIsSaved, SelectedIsAcceptable, Fresh
<1>4. TagsAdvance
  BY <1>2 DEF TagsAdvance, Advances, NoTags, Fresh
<1>5. FailedForCause /\ OnCourse
  BY <1>2 DEF FailedForCause, OnCourse, Uploading, Promoting, Fresh
<1> QED
  BY <1>1, <1>7, <1>3, <1>4, <1>5 DEF RInv

\* Unless others interfere, no tag is ever where it should not be.
LEMMA Undisputed ==
    ASSUME RInv, others = 0, phase # "idle"
    PROVE  ~ConcurrentChange(replica.tags)
<1>1. Remembers(durable, record)
  BY DEF RInv, IInv, Knows
<1> QED
  BY <1>1, ReportTypesOf DEF RInv, TagsAdvance, ConcurrentChange, ExpectedProvisional, PendingProvisional, Remembers,
        Flags, Tags, Registries, Checkpoints

\* On course, what the registry has is what the run waits for.
LEMMA Confirmed ==
    ASSUME RInv, Undisturbed, phase \in {"tags", "observed"},
           NEW tags, tags = registry.tags
    PROVE  /\ ~Unconfirmed(tags)
           /\ part = "nothing" /\ downloaded = "absent" =>
                 "version" \notin {tags.intended, tags.provisional}
<1>1. ~Uploading /\ ~Promoting
  BY DEF Uploading, Promoting
<1>2. /\ record.uploadAttempted => tags.provisional = "version"
      /\ record.promotionAttempted => tags.intended = "version"
  BY <1>1 DEF RInv, OnCourse
<1>3. ~PendingProvisional(tags)
  BY <1>2 DEF PendingProvisional, ExpectedProvisional
<1>4. part = "promotion" => record.promotionAttempted
  BY DEF RInv, Tried
<1>5. ~Unconfirmed(tags)
  BY <1>2, <1>3, <1>4 DEF Unconfirmed, RequireIntended
<1>6. part = "nothing" /\ downloaded = "absent" => tags = NoTags
  BY DEF RInv, OnCourse
<1> QED
  BY <1>5, <1>6 DEF NoTags

\* What follows a reading of the tags.
ProceedsTo(tags) ==
    /\ phase' \in {"tags", "consumer", "save", "end"}
    /\ record'.intendedObserved = record.intendedObserved
    /\ phase' = "consumer" => downloaded = "ours"
    /\ phase' # "end" =>
          /\ status' = status
          /\ record'.stage \in {record.stage, "upload-intent", "promotion-intent"}
    /\ phase' = "save" =>
          /\ ~Unconfirmed(tags) /\ tags.intended # "version"
          /\ IF part = "nothing"
             THEN downloaded = "absent" /\ record'.promotionAttempted = record.promotionAttempted
             ELSE part = "consumer" /\ record'.uploadAttempted = record.uploadAttempted
    /\ phase' # "save" =>
          /\ record'.uploadAttempted = record.uploadAttempted
          /\ record'.promotionAttempted = record.promotionAttempted
    /\ phase' = "end" =>
          /\ record'.stage = status'
          /\ \/ /\ status' = "completed" /\ ~Unconfirmed(tags) /\ tags.intended = "version"
                /\ part \in {"consumer", "promotion"}
             \/ /\ status' = "incomplete"
                /\ \/ Unconfirmed(tags)
                   \/ /\ part = "nothing" /\ downloaded = "absent"
                      /\ "version" \in {tags.intended, tags.provisional}
    /\ reads' # reads => Unconfirmed(tags)

\* The steps of Proceed, one by one.
LEMMA ProceedDoes ==
    ASSUME RInv, phase \in {"tags", "observed"},
           NEW tags, Proceed(tags)
    PROVE  ProceedsTo(tags)
<1>1. part \in {"nothing", "consumer", "promotion"} /\ record \in Checkpoints /\ reads \in Nat
      /\ downloaded \in {"absent", "ours"}
  BY ReportTypesOf DEF RInv, IInv, TagsAreNext
<1>2. CASE Unconfirmed(tags) /\ Again("tags")
  BY <1>1, <1>2 DEF Again, Finish, ProceedsTo, Checkpoints, ReadAttempts
<1>3. CASE ~Unconfirmed(tags) /\ part = "nothing" /\ downloaded = "ours" /\ GoTo("consumer")
  BY <1>1, <1>3 DEF GoTo, ProceedsTo
<1>4. CASE /\ ~Unconfirmed(tags) /\ part = "nothing" /\ downloaded = "absent"
           /\ "version" \in {tags.intended, tags.provisional} /\ Finish("incomplete")
  BY <1>1, <1>4 DEF Finish, ProceedsTo, Checkpoints
<1>5. CASE /\ ~Unconfirmed(tags) /\ part = "nothing" /\ downloaded = "absent"
           /\ tags.intended # "version" /\ Intent("uploadAttempted", "upload-intent")
  BY <1>1, <1>5 DEF Intent, ProceedsTo, Checkpoints
<1>6. CASE /\ ~Unconfirmed(tags) /\ part \in {"consumer", "promotion"}
           /\ tags.intended = "version" /\ Finish("completed")
  BY <1>1, <1>6 DEF Finish, ProceedsTo, Checkpoints
<1>7. CASE /\ ~Unconfirmed(tags) /\ part \in {"consumer", "promotion"}
           /\ tags.intended # "version" /\ Intent("promotionAttempted", "promotion-intent")
  BY <1>1, <1>7 DEF Intent, ProceedsTo, Checkpoints, Unconfirmed, RequireIntended
<1> QED
  BY <1>1, <1>2, <1>3, <1>4, <1>5, <1>6, <1>7 DEF Proceed

\* A run that goes on by what it reads of the tags: its reading is selected, and
\* acceptable; what has been observed is saved.
LEMMA ProceedReports ==
    ASSUME RInv, IInv', phase \in {"tags", "observed"}, ProceedsTo(selected'),
           UNCHANGED <<registry, replica, flight, previous, part, downloaded, faults, others, calls,
                       consumed, refuted>>,
           durable' \in {durable, record},
           record.intendedObserved => durable'.intendedObserved,
           selected'.intended = "version" => record.intendedObserved,
           Acceptable(selected'),
           lagged' \in BOOLEAN, lagged => lagged',
           others = 0 => Advances(selected', replica.tags),
           Undisturbed' => selected' = registry.tags
    PROVE  RInv'
<1> USE ReportTypesOf
<1>1. part # "upload" /\ (phase' = "end" => status' \in {"completed", "incomplete"})
  BY DEF RInv, IInv, TagsAreNext, ProceedsTo
<1>2. /\ faults \in Nat /\ others \in Nat /\ consumed \in BOOLEAN /\ refuted \in BOOLEAN
      /\ status \in {"none", "completed", "failed", "incomplete"}
  BY DEF ReportTypes
<1>3. ReportTypes'
  <2>1. status' \in {"none", "completed", "failed", "incomplete"}
    BY <1>1, <1>2 DEF ProceedsTo
  <2> QED
    BY <1>2, <2>1 DEF ReportTypes
<1>4. /\ registry.archive = "foreign" => others > 0
      /\ \/ downloaded = "ours" \/ status = "completed"
         \/ record.promotionAttempted \/ durable.promotionAttempted
         => registry.archive = "ours"
      /\ replica.archive # "absent" => replica.archive = registry.archive
      /\ part \in {"consumer", "promotion"} => downloaded = "ours" /\ consumed
      /\ part = "promotion" => record.promotionAttempted
  BY DEF RInv, ArchiveIsKept, Tried
<1>5. ArchiveIsKept'
  BY <1>1, <1>4 DEF ArchiveIsKept, ProceedsTo
<1>6. Tried'
  BY <1>1, <1>4 DEF Tried, ProceedsTo
<1>7. ObservedIsSaved'
  <2>1. status = "completed" => durable.intendedObserved
    BY DEF RInv, ObservedIsSaved
  <2>2. durable.intendedObserved => durable'.intendedObserved
    BY DEF RInv, IInv, Knows, Remembers, Flags
  <2> QED
    BY <1>1, <1>4, <2>1, <2>2 DEF ObservedIsSaved, ProceedsTo
<1>8. SelectedIsAcceptable'
  BY DEF SelectedIsAcceptable, ProceedsTo
<1>9. TagsAdvance'
  <2>1. durable.uploadAttempted => durable'.uploadAttempted
    BY DEF RInv, IInv, Knows, Remembers, Flags
  <2>2. CASE others = 0
    <3>1. /\ \A t \in {"provisional", "intended"} :
                /\ registry.tags[t] \in {previous[t], "version"}
                /\ replica.tags[t] \in {previous[t], "version"}
          /\ Advances(replica.tags, registry.tags)
          /\ record.intendedObserved \/ durable.intendedObserved
                => replica.tags.intended = "version"
          /\ ~durable.uploadAttempted =>
                /\ registry.tags.provisional = previous.provisional
                /\ replica.tags.provisional = previous.provisional
          /\ status = "completed" =>
                /\ registry.tags.intended = "version"
                /\ calls["upload"] = 1 => registry.tags.provisional = "version"
      BY <2>2 DEF RInv, TagsAdvance
    <3>2. status' = "completed" /\ phase' = "end" =>
             /\ registry.tags.intended = "version"
             /\ calls["upload"] = 1 => registry.tags.provisional = "version"
      <4> SUFFICES ASSUME status' = "completed", phase' = "end"
                   PROVE  /\ registry.tags.intended = "version"
                          /\ calls["upload"] = 1 => registry.tags.provisional = "version"
        OBVIOUS
      <4>1. selected'.intended = "version" /\ ~PendingProvisional(selected')
        BY DEF ProceedsTo, Unconfirmed
      <4>2. calls["upload"] = 1 => record.uploadAttempted
        BY DEF RInv, IInv, AsksOnce, Knows, Remembers, Flags
      <4>3. record.uploadAttempted => selected'.provisional = "version"
        BY <4>1 DEF Acceptable, ExpectedProvisional
      <4> QED
        BY <2>2, <3>1, <4>1, <4>2, <4>3 DEF Advances
    <3> QED
      BY <1>2, <2>1, <2>2, <3>1, <3>2 DEF TagsAdvance, ProceedsTo, RInv
  <2>3. "upload" \in flight => durable.uploadAttempted
    BY DEF RInv, TagsAdvance
  <2> QED
    BY <2>1, <2>2, <2>3 DEF TagsAdvance
<1>10. FailedForCause'
  BY <1>1 DEF RInv, FailedForCause, ProceedsTo
<1>11. OnCourse'
  <2> SUFFICES ASSUME Undisturbed' PROVE OnCourse'
    BY DEF OnCourse
  <2>1. Undisturbed
    BY <1>2 DEF Undisturbed
  <2>2. /\ ~Unconfirmed(selected')
        /\ part = "nothing" /\ downloaded = "absent" =>
              "version" \notin {selected'.intended, selected'.provisional}
    BY <2>1, Confirmed
  <2>3. ~Uploading /\ ~Promoting
    BY DEF Uploading, Promoting
  <2>4. /\ status # "incomplete" /\ reads = 1 /\ flight = {}
        /\ registry.archive = "absent" => registry.tags = NoTags
        /\ part = "nothing" /\ downloaded = "absent" => registry.archive = "absent"
        /\ durable.uploadAttempted \/ record.uploadAttempted
              => registry.archive = "ours" /\ registry.tags.provisional = "version"
        /\ durable.promotionAttempted \/ record.promotionAttempted
              => registry.tags.intended = "version"
    BY <2>1, <2>3 DEF RInv, OnCourse
  <2>5. status' # "incomplete" /\ reads' = 1
    BY <2>2, <2>4 DEF ProceedsTo
  <2> QED
    BY <1>1, <2>4, <2>5 DEF OnCourse, ProceedsTo, Uploading, Promoting
<1> QED
  BY <1>3, <1>5, <1>6, <1>7, <1>8, <1>9, <1>10, <1>11 DEF RInv

\* A run that ends early, or only goes on: what it knew of the world still holds.
LEMMA EndsOrGoesOn ==
    ASSUME RInv, IInv', phase # "idle",
           UNCHANGED <<registry, replica, flight, previous, part, others, calls>>,
           durable' \in {durable, record},
           record'.uploadAttempted = record.uploadAttempted,
           record'.promotionAttempted = record.promotionAttempted,
           record'.intendedObserved \in {TRUE, record.intendedObserved},
           record'.intendedObserved =>
              record.intendedObserved \/ (others = 0 => replica.tags.intended = "version"),
           lagged' \in BOOLEAN, consumed' = consumed, refuted' \in BOOLEAN, faults' \in Nat,
           downloaded' = downloaded, lagged => lagged', refuted => refuted', faults' >= faults,
           selected' # selected => selected' = replica.tags,
           Undisturbed' => reads' = reads /\ phase \notin {"save", "call"},
           \/ /\ phase' = "end" /\ status' = record'.stage
              /\ \/ status' = "failed" /\ (others > 0 \/ refuted')
                 \/ status' = "incomplete" /\ ~Undisturbed'
           \/ /\ status' = status /\ record'.stage = record.stage
              /\ ~Undisturbed' /\ phase' \in {phase, "version"}
              /\ phase \in {"tags", "version", "download"}
              /\ UNCHANGED record
    PROVE  RInv'
<1> USE ReportTypesOf
<1>1. /\ faults \in Nat /\ others \in Nat /\ consumed \in BOOLEAN /\ refuted \in BOOLEAN
      /\ status \in {"none", "completed", "failed", "incomplete"}
  BY DEF ReportTypes
<1>2. Undisturbed' => Undisturbed /\ status' # "incomplete" /\ phase' = "end" 
  BY <1>1 DEF Undisturbed
<1>3. /\ durable.uploadAttempted => record.uploadAttempted
      /\ durable.promotionAttempted => record.promotionAttempted
      /\ durable.intendedObserved => record.intendedObserved
  BY DEF RInv, IInv, Knows, Remembers, Flags
<1>4. ReportTypes'
  BY <1>1 DEF ReportTypes
<1>5. ArchiveIsKept'
  BY <1>3 DEF RInv, ArchiveIsKept
<1>6. Tried'
  BY DEF RInv, Tried
<1>7. ObservedIsSaved'
  BY <1>3 DEF RInv, ObservedIsSaved
<1>8. SelectedIsAcceptable'
  BY DEF SelectedIsAcceptable
<1>9. TagsAdvance'
  BY <1>3 DEF RInv, TagsAdvance, Advances
<1>10. FailedForCause'
  BY DEF RInv, FailedForCause
<1>11. OnCourse'
  BY <1>2, <1>3 DEF RInv, OnCourse, Uploading, Promoting
<1> QED
  BY <1>4, <1>5, <1>6, <1>7, <1>8, <1>9, <1>10, <1>11 DEF RInv

\* A reading of the tags fails, finds the doing of others, observes the promotion, or
\* goes on by what it read.
LEMMA ReadTagsReports == RInv /\ ReadTags => RInv'
<1> SUFFICES ASSUME RInv, ReadTags PROVE RInv'
  OBVIOUS
<1> USE ReportTypesOf
<1>1. IInv'
  BY ReadTagsStep DEF RInv
<1>2. /\ phase = "tags"
      /\ UNCHANGED <<registry, replica, flight, previous, durable, part, downloaded, others, calls,
                     consumed, refuted>>
  BY DEF ReadTags, world, owner
<1>3. /\ faults \in Nat /\ others \in Nat /\ consumed \in BOOLEAN /\ refuted \in BOOLEAN
      /\ lagged \in BOOLEAN
  BY DEF ReportTypes
<1>4. CASE Fault /\ Again("tags") /\ UNCHANGED <<selected, lagged>>
  <2>1. faults' \in Nat /\ faults' >= faults /\ ~Undisturbed'
    BY <1>3, <1>4 DEF Fault, Undisturbed
  <2>2. /\ record'.uploadAttempted = record.uploadAttempted
        /\ record'.promotionAttempted = record.promotionAttempted
        /\ record'.intendedObserved = record.intendedObserved
        /\ \/ phase' = "end" /\ status' = "incomplete" /\ record'.stage = "incomplete"
           \/ phase' = "tags" /\ UNCHANGED <<status, record>>
    BY <1>4 DEF Again, Finish, Checkpoints
  <2> QED
    BY <1>1, <1>2, <1>3, <1>4, <2>1, <2>2, EndsOrGoesOn
<1>5. CASE /\ lagged' = (lagged \/ replica.tags # registry.tags) /\ selected' = replica.tags
           /\ UNCHANGED faults
           /\ IF ConcurrentChange(selected') THEN Finish("failed")
              ELSE IF selected'.intended = "version" /\ ~record.intendedObserved
              THEN /\ record' = [record EXCEPT !.intendedObserved = TRUE]
                   /\ phase' = "observed" /\ UNCHANGED <<reads, status>>
              ELSE Proceed(selected')
  <2>1. /\ lagged' \in BOOLEAN /\ (lagged => lagged')
        /\ Undisturbed' => Undisturbed /\ selected' = registry.tags
    BY <1>2, <1>3, <1>5 DEF Undisturbed
  <2>2. CASE ConcurrentChange(selected') /\ Finish("failed")
    <3>1. others > 0
      BY <1>2, <1>3, <1>5, <2>2, Undisputed
    <3>2. /\ record'.uploadAttempted = record.uploadAttempted
          /\ record'.promotionAttempted = record.promotionAttempted
          /\ record'.intendedObserved = record.intendedObserved
          /\ phase' = "end" /\ status' = "failed" /\ record'.stage = "failed" /\ reads' = reads
      BY <2>2 DEF Finish, Checkpoints
    <3> QED
      BY <1>1, <1>2, <1>3, <1>5, <2>1, <3>1, <3>2, EndsOrGoesOn
  <2>3. ~ConcurrentChange(selected') => Acceptable(selected')
    BY DEF ConcurrentChange, Acceptable
  <2>4. CASE /\ ~ConcurrentChange(selected') /\ Proceed(selected')
             /\ ~(selected'.intended = "version" /\ ~record.intendedObserved)
    <3>1. ProceedsTo(selected')
      BY <1>2, <2>4, ProceedDoes
    <3>2. record.intendedObserved => durable'.intendedObserved
      BY <1>2 DEF RInv, ObservedIsSaved
    <3>3. others = 0 => Advances(selected', replica.tags)
      BY <1>5 DEF Advances
    <3> QED
      BY <1>1, <1>2, <1>3, <1>5, <2>1, <2>3, <2>4, <3>1, <3>2, <3>3, ProceedReports
  <2>5. CASE /\ ~ConcurrentChange(selected') /\ selected'.intended = "version"
             /\ record' = [record EXCEPT !.intendedObserved = TRUE]
             /\ phase' = "observed" /\ UNCHANGED <<reads, status>>
    <3>1. /\ record'.uploadAttempted = record.uploadAttempted
          /\ record'.promotionAttempted = record.promotionAttempted
          /\ record'.stage = record.stage /\ record'.intendedObserved
      BY <2>5 DEF Checkpoints
    <3>2. ReportTypes' /\ ArchiveIsKept' /\ Tried' /\ ObservedIsSaved' /\ FailedForCause'
      <4>1. ReportTypes'
        BY <1>2, <1>5, <2>1, <2>5 DEF RInv, ReportTypes
      <4>2. ArchiveIsKept' /\ Tried'
        BY <1>2, <2>5, <3>1 DEF RInv, ArchiveIsKept, Tried
      <4>3. ObservedIsSaved' /\ FailedForCause'
        BY <1>2, <2>5, <3>1 DEF RInv, ObservedIsSaved, FailedForCause
      <4> QED
        BY <4>1, <4>2, <4>3
    <3>3. SelectedIsAcceptable'
      <4>1. ExpectedProvisional' = ExpectedProvisional
        BY <1>2, <3>1 DEF ExpectedProvisional
      <4>2. PendingProvisional(selected') => PendingProvisional(selected)'
        BY <1>2, <3>1, <4>1 DEF PendingProvisional
      <4> QED
        BY <2>3, <2>5, <4>1, <4>2 DEF SelectedIsAcceptable, Acceptable
    <3>4. TagsAdvance'
      BY <1>2, <1>5, <2>5, <3>1 DEF RInv, TagsAdvance, Advances
    <3>5. OnCourse'
      <4>1. ~Uploading /\ ~Promoting /\ ~Uploading' /\ ~Promoting'
        BY <1>2, <2>5 DEF Uploading, Promoting
      <4> QED
        BY <1>2, <2>1, <2>5, <3>1, <4>1 DEF RInv, OnCourse
    <3> QED
      BY <1>1, <3>2, <3>3, <3>4, <3>5 DEF RInv
  <2> QED
    BY <1>5, <2>2, <2>4, <2>5
<1> QED
  BY <1>4, <1>5 DEF ReadTags

\* A save, and what it was made for.
LEMMA SaveReports == RInv /\ Save => RInv'
<1> SUFFICES ASSUME RInv, Save PROVE RInv'
  OBVIOUS
<1> USE ReportTypesOf
<1>1. IInv'
  BY SaveStep DEF RInv
<1>2. /\ phase \in {"observed", "save"}
      /\ UNCHANGED <<registry, replica, flight, previous, part, downloaded, selected, others, calls,
                     consumed, refuted, lagged>>
  BY DEF Save, world
<1>3. /\ faults \in Nat /\ others \in Nat /\ consumed \in BOOLEAN /\ refuted \in BOOLEAN
      /\ lagged \in BOOLEAN
  BY DEF ReportTypes
<1>4. CASE durable' = record /\ phase = "observed" /\ Proceed(selected) /\ UNCHANGED faults
  <2>1. ProceedsTo(selected')
    BY <1>2, <1>4, ProceedDoes
  <2>2. record.intendedObserved /\ Acceptable(selected')
    <3>1. Acceptable(selected)
      BY <1>4 DEF RInv, SelectedIsAcceptable
    <3>2. Acceptable(selected') = Acceptable(selected)
      BY <1>2
    <3> QED
      BY <1>4, <3>1, <3>2 DEF RInv, ObservedIsSaved
  <2>3. /\ others = 0 => Advances(selected', replica.tags)
        /\ Undisturbed' => selected' = registry.tags
    BY <1>2, <1>4 DEF RInv, TagsAdvance, OnCourse, Undisturbed
  <2> QED
    BY <1>1, <1>2, <1>3, <1>4, <2>1, <2>2, <2>3, ProceedReports
<1>5. CASE durable' \in {durable, record} /\ Fault /\ Finish("incomplete")
  <2>1. faults' \in Nat /\ faults' >= faults /\ ~Undisturbed'
    BY <1>3, <1>5 DEF Fault, Undisturbed
  <2>2. /\ record'.uploadAttempted = record.uploadAttempted
        /\ record'.promotionAttempted = record.promotionAttempted
        /\ record'.intendedObserved = record.intendedObserved
        /\ phase' = "end" /\ status' = "incomplete" /\ record'.stage = "incomplete"
    BY <1>5 DEF Finish, Checkpoints
  <2> QED
    BY <1>1, <1>2, <1>3, <1>5, <2>1, <2>2, EndsOrGoesOn
<1>6. CASE durable' = record /\ phase = "save" /\ GoTo("call") /\ UNCHANGED faults
  <2>0. phase' = "call" /\ UNCHANGED <<reads, record, status>> /\ (Undisturbed' => Undisturbed)
    BY <1>2, <1>6 DEF GoTo, Undisturbed
  <2>1. /\ durable.uploadAttempted => record.uploadAttempted
        /\ durable.promotionAttempted => record.promotionAttempted
        /\ durable.intendedObserved => record.intendedObserved
    BY <1>6 DEF RInv, IInv, Knows, Remembers, Flags
  <2>2. ReportTypes'
    BY <1>2, <1>6, <2>0 DEF RInv, ReportTypes
  <2>6. ArchiveIsKept' /\ Tried'
    BY <1>2, <1>6, <2>0, <2>1 DEF RInv, ArchiveIsKept, Tried
  <2>3. ObservedIsSaved' /\ SelectedIsAcceptable' /\ FailedForCause'
    BY <1>2, <1>6, <2>0, <2>1
       DEF RInv, ObservedIsSaved, SelectedIsAcceptable, FailedForCause
  <2>4. TagsAdvance'
    BY <1>2, <1>6, <2>0, <2>1 DEF RInv, TagsAdvance, Advances
  <2>5. OnCourse'
    BY <1>2, <1>6, <2>0, <2>1 DEF RInv, OnCourse, Uploading, Promoting
  <2> QED
    BY <1>1, <2>2, <2>6, <2>3, <2>4, <2>5 DEF RInv
<1> QED
  BY <1>2, <1>4, <1>5, <1>6 DEF Save

\* A reading of the version: on course it is absent only for the first run to look.
LEMMA ReadVersionReports == RInv /\ ReadVersion => RInv'
<1> SUFFICES ASSUME RInv, ReadVersion PROVE RInv'
  OBVIOUS
<1> USE ReportTypesOf
<1>1. IInv'
  BY ReadArchiveStep DEF RInv
<1>2. /\ phase = "version"
      /\ UNCHANGED <<registry, replica, flight, previous, durable, part, downloaded, selected,
                     others, calls, consumed, refuted>>
  BY DEF ReadVersion, world, owner
<1>3. /\ faults \in Nat /\ others \in Nat /\ consumed \in BOOLEAN /\ refuted \in BOOLEAN
      /\ lagged \in BOOLEAN
  BY DEF ReportTypes
<1>4. ASSUME Again("version"), ~Undisturbed', faults' \in Nat, faults' >= faults,
             lagged' \in BOOLEAN, lagged => lagged'
      PROVE  RInv'
  <2>1. /\ record'.uploadAttempted = record.uploadAttempted
        /\ record'.promotionAttempted = record.promotionAttempted
        /\ record'.intendedObserved = record.intendedObserved
        /\ \/ phase' = "end" /\ status' = "incomplete" /\ record'.stage = "incomplete"
           \/ phase' = "version" /\ UNCHANGED <<status, record>>
    BY <1>4 DEF Again, Finish, Checkpoints
  <2> QED
    BY <1>1, <1>2, <1>3, <1>4, <2>1, EndsOrGoesOn
<1>5. CASE Fault /\ Again("version") /\ UNCHANGED lagged
  <2>1. faults' \in Nat /\ faults' >= faults /\ ~Undisturbed'
    BY <1>3, <1>5 DEF Fault, Undisturbed
  <2> QED
    BY <1>3, <1>4, <1>5, <2>1
<1>6. CASE /\ lagged' = (lagged \/ replica.archive # registry.archive)
           /\ UNCHANGED faults
           /\ \/ replica.archive = "foreign" /\ Finish("failed")
              \/ replica.archive = "ours" /\ GoTo("download")
              \/ /\ replica.archive = "absent"
                 /\ IF AllowInitialAbsence /\ reads = 1 THEN GoTo("tags") ELSE Again("version")
  <2>1. /\ lagged' \in BOOLEAN /\ (lagged => lagged')
        /\ Undisturbed' => Undisturbed /\ replica.archive = registry.archive
    BY <1>2, <1>3, <1>6 DEF Undisturbed
  <2>2. CASE replica.archive = "foreign" /\ Finish("failed")
    <3>1. others > 0
      BY <2>2 DEF RInv, ArchiveIsKept
    <3>2. /\ record'.uploadAttempted = record.uploadAttempted
          /\ record'.promotionAttempted = record.promotionAttempted
          /\ record'.intendedObserved = record.intendedObserved
          /\ phase' = "end" /\ status' = "failed" /\ record'.stage = "failed" /\ reads' = reads
      BY <2>2 DEF Finish, Checkpoints
    <3> QED
      BY <1>1, <1>2, <1>3, <1>6, <2>1, <3>1, <3>2, EndsOrGoesOn
  <2>3. CASE \/ replica.archive = "ours" /\ GoTo("download")
             \/ replica.archive = "absent" /\ AllowInitialAbsence /\ reads = 1 /\ GoTo("tags")
    <3>1. /\ UNCHANGED <<record, status, reads>> /\ phase' \in {"download", "tags"}
          /\ phase' = "download" => replica.archive = "ours"
          /\ phase' = "tags" => replica.archive = "absent"
      BY <2>3 DEF GoTo
    <3>2. ReportTypes'
      BY <1>2, <1>3, <1>6, <2>1, <3>1 DEF RInv, ReportTypes
    <3>3. ArchiveIsKept' /\ Tried'
      BY <1>2, <3>1 DEF RInv, ArchiveIsKept, Tried
    <3>4. ObservedIsSaved' /\ SelectedIsAcceptable' /\ FailedForCause'
      BY <1>2, <3>1 DEF RInv, ObservedIsSaved, SelectedIsAcceptable, FailedForCause
    <3>5. TagsAdvance'
      BY <1>2, <3>1 DEF RInv, TagsAdvance, Advances
    <3>6. OnCourse'
      BY <1>2, <2>1, <3>1 DEF RInv, OnCourse, Uploading, Promoting
    <3> QED
      BY <1>1, <3>2, <3>3, <3>4, <3>5, <3>6 DEF RInv
  <2>4. CASE /\ replica.archive = "absent" /\ ~(AllowInitialAbsence /\ reads = 1)
             /\ Again("version")
    <3>1. ~Undisturbed'
      <4> SUFFICES ASSUME Undisturbed' PROVE FALSE
        OBVIOUS
      <4>1. registry.archive = "absent" /\ Undisturbed /\ ~Uploading
        BY <1>2, <2>1, <2>4 DEF Uploading
      <4>2. reads = 1 /\ ~record.uploadAttempted
        BY <4>1 DEF RInv, OnCourse
      <4>3. ~record.promotionAttempted
        BY <4>1 DEF RInv, ArchiveIsKept
      <4> QED
        BY <2>4, <4>2, <4>3 DEF AllowInitialAbsence
    <3> QED
      BY <1>3, <1>4, <1>6, <2>1, <2>4, <3>1
  <2> QED
    BY <1>6, <2>2, <2>3, <2>4
<1> QED
  BY <1>5, <1>6 DEF ReadVersion

\* The archive is downloaded, or refuted.
LEMMA DownloadReports == RInv /\ Download => RInv'
<1> SUFFICES ASSUME RInv, Download PROVE RInv'
  OBVIOUS
<1> USE ReportTypesOf
<1>1. IInv'
  BY ReadArchiveStep DEF RInv
<1>2. /\ phase = "download"
      /\ UNCHANGED <<registry, replica, flight, previous, durable, part, selected,
                     others, calls, consumed, lagged>>
  BY DEF Download, world, owner
<1>3. /\ faults \in Nat /\ others \in Nat /\ consumed \in BOOLEAN /\ refuted \in BOOLEAN
      /\ lagged \in BOOLEAN
  BY DEF ReportTypes
<1>4. CASE Fault /\ Again("version") /\ UNCHANGED <<downloaded, refuted>>
  <2>1. faults' \in Nat /\ faults' >= faults /\ ~Undisturbed'
    BY <1>3, <1>4 DEF Fault, Undisturbed
  <2>2. /\ record'.uploadAttempted = record.uploadAttempted
        /\ record'.promotionAttempted = record.promotionAttempted
        /\ record'.intendedObserved = record.intendedObserved
        /\ \/ phase' = "end" /\ status' = "incomplete" /\ record'.stage = "incomplete"
           \/ phase' = "version" /\ UNCHANGED <<status, record>>
    BY <1>4 DEF Again, Finish, Checkpoints
  <2> QED
    BY <1>1, <1>2, <1>3, <1>4, <2>1, <2>2, EndsOrGoesOn
<1>5. CASE Finish("failed") /\ refuted' = TRUE /\ UNCHANGED <<downloaded, faults>>
  <2>1. /\ record'.uploadAttempted = record.uploadAttempted
        /\ record'.promotionAttempted = record.promotionAttempted
        /\ record'.intendedObserved = record.intendedObserved
        /\ phase' = "end" /\ status' = "failed" /\ record'.stage = "failed" /\ reads' = reads
    BY <1>5 DEF Finish, Checkpoints
  <2>2. refuted' /\ refuted' \in BOOLEAN
    BY <1>5
  <2> QED
    BY <1>1, <1>2, <1>3, <1>5, <2>1, <2>2, EndsOrGoesOn
<1>6. CASE /\ downloaded' = "ours" /\ reads' = 1
           /\ phase' = IF part = "nothing" THEN "tags" ELSE "consumer"
           /\ UNCHANGED <<record, status, faults, refuted>>
  <2>2. ReportTypes'
    BY <1>2, <1>3, <1>6 DEF RInv, ReportTypes
  <2>3. ArchiveIsKept' /\ Tried'
    BY <1>2, <1>6 DEF RInv, ArchiveIsKept, Tried
  <2>4. ObservedIsSaved' /\ SelectedIsAcceptable' /\ FailedForCause'
    BY <1>2, <1>6 DEF RInv, ObservedIsSaved, SelectedIsAcceptable, FailedForCause
  <2>5. TagsAdvance'
    BY <1>2, <1>6 DEF RInv, TagsAdvance, Advances
  <2>6. OnCourse'
    BY <1>2, <1>6 DEF RInv, OnCourse, Uploading, Promoting, Undisturbed
  <2> QED
    BY <1>1, <2>2, <2>3, <2>4, <2>5, <2>6 DEF RInv
<1> QED
  BY <1>4, <1>5, <1>6 DEF Download

\* A write that was announced is made, and on course it lands.
LEMMA MutateReports == RInv /\ Mutate => RInv'
<1> SUFFICES ASSUME RInv, Mutate PROVE RInv'
  OBVIOUS
<1> USE ReportTypesOf
<1>1. IInv'
  BY MutateStep DEF RInv
<1>2. /\ phase = "call" /\ part \in {"nothing", "consumer"} /\ durable = record
      /\ ~record.intendedObserved /\ reads' = 1
      /\ IF part = "nothing" THEN record.uploadAttempted ELSE record.promotionAttempted
  BY DEF RInv, IInv, Announced, CallIsDurable, Mutate
<1>3. UNCHANGED <<replica, previous, durable, record, downloaded, selected, status, others,
                  consumed, refuted, lagged>>
  BY DEF Mutate, owner
<1>4. /\ faults \in Nat /\ others \in Nat /\ consumed \in BOOLEAN /\ refuted \in BOOLEAN
      /\ lagged \in BOOLEAN /\ status \in {"none", "completed", "failed", "incomplete"}
  BY DEF ReportTypes
<1>5. IF part = "nothing" THEN phase' = "version" /\ part' = "upload" /\ Intended = "upload"
      ELSE phase' = "tags" /\ part' = "promotion" /\ Intended = "setTag"
  BY DEF Mutate, Intended
<1>6. status # "completed"
  BY <1>2 DEF RInv, ObservedIsSaved
<1>7. faults' \in Nat /\ (Undisturbed' => Undisturbed /\ faults' = faults)
  BY <1>3, <1>4 DEF Mutate, Fault, Undisturbed
<1>8. \/ registry' = Landed(Intended, registry) /\ flight' = flight
      \/ registry' = registry /\ flight' = flight \cup {Intended} /\ ~Undisturbed'
  BY <1>4 DEF Mutate, Fault, Undisturbed
<1>9. \/ registry' = registry
      \/ /\ Intended = "upload" /\ registry.archive = "absent" /\ registry'.archive = "ours"
         /\ registry'.tags = [registry.tags EXCEPT !.provisional = "version"]
      \/ /\ Intended = "setTag" /\ registry.archive # "absent"
         /\ registry'.archive = registry.archive
         /\ registry'.tags = [registry.tags EXCEPT !.intended = "version"]
  <2>1. CASE registry' = registry
    BY <2>1
  <2>2. CASE registry' = Landed("upload", registry) /\ Intended = "upload"
    BY <2>2 DEF Landed, Registries
  <2>3. CASE registry' = Landed("setTag", registry) /\ Intended = "setTag"
    BY <2>3 DEF Landed, Registries
  <2> QED
    BY <1>5, <1>8, <2>1, <2>2, <2>3
<1>10. /\ registry.archive # "absent" => registry'.archive = registry.archive
       /\ registry'.archive = "foreign" => registry.archive = "foreign"
       /\ registry'.tags.intended \in {registry.tags.intended, "version"}
       /\ registry'.tags.provisional \in {registry.tags.provisional, "version"}
       /\ Intended # "upload" => registry'.tags.provisional = registry.tags.provisional
  BY <1>9 DEF Registries, Tags
<1>11. ReportTypes'
  BY <1>3, <1>4, <1>7 DEF ReportTypes
<1>12. ArchiveIsKept'
  BY <1>3, <1>5, <1>10 DEF RInv, ArchiveIsKept
<1>13. Tried'
  BY <1>2, <1>3, <1>5 DEF RInv, Tried
<1>14. ObservedIsSaved' /\ SelectedIsAcceptable' /\ FailedForCause'
  BY <1>2, <1>3, <1>5, <1>6 DEF RInv, ObservedIsSaved, SelectedIsAcceptable, FailedForCause
<1>15. TagsAdvance'
  <2>1. "upload" \in flight' => durable.uploadAttempted
    BY <1>2, <1>5, <1>8 DEF RInv, TagsAdvance
  <2>2. ~durable.uploadAttempted => registry'.tags.provisional = registry.tags.provisional
    BY <1>2, <1>5, <1>10
  <2> QED
    BY <1>3, <1>6, <1>10, <2>1, <2>2 DEF RInv, TagsAdvance, Advances
<1>16. OnCourse'
  <2> SUFFICES ASSUME Undisturbed' PROVE OnCourse'
    BY DEF OnCourse
  <2>1. Undisturbed /\ registry' = Landed(Intended, registry) /\ flight' = flight
    BY <1>7, <1>8
  <2>2. ~Uploading' /\ ~Promoting'
    BY <1>5 DEF Uploading, Promoting
  <2>3. CASE part = "nothing"
    <3>1. /\ registry.archive = "absent" /\ status # "incomplete" /\ flight = {}
          /\ durable.promotionAttempted \/ record.promotionAttempted
                => registry.tags.intended = "version"
      BY <1>2, <2>1, <2>3 DEF RInv, OnCourse, Uploading, Promoting
    <3>2. /\ registry'.archive = "ours" /\ registry'.tags.provisional = "version"
          /\ registry'.tags.intended = registry.tags.intended
      BY <1>5, <2>1, <2>3, <3>1 DEF Landed, Registries, Tags
    <3> QED
      BY <1>2, <1>3, <1>5, <2>1, <2>2, <2>3, <3>1, <3>2 DEF OnCourse
  <2>4. CASE part = "consumer"
    <3>1. /\ status # "incomplete" /\ flight = {} /\ registry.archive = "ours"
          /\ durable.uploadAttempted \/ record.uploadAttempted
                => registry.tags.provisional = "version"
      BY <1>2, <2>1, <2>4 DEF RInv, OnCourse, Uploading, Promoting, ArchiveIsKept
    <3>2. /\ registry'.archive = "ours" /\ registry'.tags.intended = "version"
          /\ registry'.tags.provisional = registry.tags.provisional
      BY <1>5, <2>1, <2>4, <3>1 DEF Landed, Registries, Tags
    <3> QED
      BY <1>2, <1>3, <1>5, <2>1, <2>2, <2>4, <3>1, <3>2 DEF OnCourse
  <2> QED
    BY <1>2, <2>3, <2>4
<1> QED
  BY <1>1, <1>11, <1>12, <1>13, <1>14, <1>15, <1>16 DEF RInv

\* A consumer tries the archive.
LEMMA ConsumeReports == RInv /\ Consume => RInv'
<1> SUFFICES ASSUME RInv, Consume PROVE RInv'
  OBVIOUS
<1> USE ReportTypesOf
<1>1. IInv'
  BY RestStep DEF RInv
<1>2. /\ phase = "consumer"
      /\ UNCHANGED <<registry, replica, flight, previous, durable, downloaded, selected, faults,
                     others, calls, lagged>>
  BY DEF Consume, world, owner
<1>3. /\ faults \in Nat /\ others \in Nat /\ consumed \in BOOLEAN /\ refuted \in BOOLEAN
      /\ lagged \in BOOLEAN
  BY DEF ReportTypes
<1>4. CASE Finish("failed") /\ refuted' = TRUE /\ UNCHANGED <<consumed, part>>
  <2>1. /\ record'.uploadAttempted = record.uploadAttempted
        /\ record'.promotionAttempted = record.promotionAttempted
        /\ record'.intendedObserved = record.intendedObserved
        /\ phase' = "end" /\ status' = "failed" /\ record'.stage = "failed" /\ reads' = reads
    BY <1>4 DEF Finish, Checkpoints
  <2>2. refuted' /\ refuted' \in BOOLEAN
    BY <1>4
  <2> QED
    BY <1>1, <1>2, <1>3, <1>4, <2>1, <2>2, EndsOrGoesOn
<1>5. CASE /\ consumed' = TRUE /\ phase' = "tags" /\ part' = "consumer" /\ reads' = 1
           /\ UNCHANGED <<record, status, refuted>>
  <2>1. ReportTypes'
    BY <1>2, <1>3, <1>5 DEF RInv, ReportTypes
  <2>2. ArchiveIsKept' /\ Tried'
    BY <1>2, <1>5 DEF RInv, ArchiveIsKept, Tried
  <2>3. ObservedIsSaved' /\ SelectedIsAcceptable' /\ FailedForCause'
    BY <1>2, <1>5 DEF RInv, ObservedIsSaved, SelectedIsAcceptable, FailedForCause
  <2>4. TagsAdvance'
    BY <1>2, <1>5 DEF RInv, TagsAdvance, Advances
  <2>5. OnCourse'
    BY <1>2, <1>5 DEF RInv, OnCourse, Uploading, Promoting, Undisturbed
  <2> QED
    BY <1>1, <2>1, <2>2, <2>3, <2>4, <2>5 DEF RInv
<1> QED
  BY <1>4, <1>5 DEF Consume

\* A run resumes from what is durable; an earlier failure is reported again.
LEMMA ResumeReports == RInv /\ Resume => RInv'
<1> SUFFICES ASSUME RInv, Resume PROVE RInv'
  OBVIOUS
<1> USE ReportTypesOf
<1>1. IInv'
  BY RestStep DEF RInv
<1>2. /\ phase = "idle" /\ part' = "nothing" /\ reads' = 1 /\ downloaded' = "absent"
      /\ consumed' = FALSE
      /\ UNCHANGED <<registry, replica, flight, previous, durable, selected, faults, others, calls,
                     refuted, lagged>>
  BY DEF Resume, world, owner
<1>3. /\ record'.uploadAttempted = durable.uploadAttempted
      /\ record'.promotionAttempted = durable.promotionAttempted
      /\ record'.intendedObserved = durable.intendedObserved
      /\ \/ /\ durable.stage = "failed" /\ phase' = "end" /\ status' = "failed"
            /\ record'.stage = "failed"
         \/ phase' = "version" /\ status' = status /\ record'.stage = "observing"
  <2>1. CASE durable.stage = "failed"
    BY <2>1 DEF Resume
  <2>2. CASE durable.stage # "failed"
    BY <2>2 DEF Resume, Checkpoints
  <2> QED
    BY <2>1, <2>2
<1>4. consumed' \in BOOLEAN
  BY <1>2
<1>5. ReportTypes'
  BY <1>2, <1>3, <1>4 DEF RInv, ReportTypes
<1>6. ArchiveIsKept' /\ Tried'
  BY <1>2, <1>3 DEF RInv, ArchiveIsKept, Tried
<1>7. ObservedIsSaved' /\ SelectedIsAcceptable' /\ FailedForCause'
  BY <1>2, <1>3 DEF RInv, ObservedIsSaved, SelectedIsAcceptable, FailedForCause
<1>8. TagsAdvance'
  BY <1>2, <1>3 DEF RInv, TagsAdvance, Advances
<1>9. OnCourse'
  BY <1>2, <1>3 DEF RInv, OnCourse, Uploading, Promoting, Undisturbed
<1> QED
  BY <1>1, <1>5, <1>6, <1>7, <1>8, <1>9 DEF RInv

\* A run is over: its result is saved, or it died.
LEMMA ReturnReports == RInv /\ (Return \/ Crash) => RInv'
<1> SUFFICES ASSUME RInv, Return \/ Crash PROVE RInv'
  OBVIOUS
<1> USE ReportTypesOf
<1>1. IInv'
  BY RestStep DEF RInv
<1>2. /\ UNCHANGED <<registry, replica, flight, previous, part, reads, record, downloaded, selected,
                     status, others, calls, consumed, refuted, lagged>>
      /\ phase' = "idle" /\ phase # "idle"
  BY DEF Return, Crash, world, owner, counters
<1>3. /\ faults \in Nat /\ others \in Nat /\ consumed \in BOOLEAN /\ refuted \in BOOLEAN
      /\ lagged \in BOOLEAN
  BY DEF ReportTypes
<1>4. /\ durable.uploadAttempted => record.uploadAttempted
      /\ durable.promotionAttempted => record.promotionAttempted
      /\ durable.intendedObserved => record.intendedObserved
  BY <1>2 DEF RInv, IInv, Knows, Remembers, Flags
<1>5. faults' \in Nat /\ durable' \in {durable, record} /\ (Undisturbed' => Undisturbed /\ phase = "end")
  BY <1>2, <1>3 DEF Return, Crash, Fault, Undisturbed, counters, owner
<1>6. ReportTypes'
  BY <1>2, <1>5 DEF RInv, ReportTypes
<1>7. ArchiveIsKept' /\ Tried'
  BY <1>2, <1>4, <1>5 DEF RInv, ArchiveIsKept, Tried
<1>8. ObservedIsSaved' /\ SelectedIsAcceptable' /\ FailedForCause'
  BY <1>2, <1>4, <1>5 DEF RInv, ObservedIsSaved, SelectedIsAcceptable, FailedForCause
<1>9. TagsAdvance'
  BY <1>2, <1>4, <1>5 DEF RInv, TagsAdvance, Advances
<1>10. OnCourse'
  BY <1>2, <1>4, <1>5 DEF RInv, OnCourse, Uploading, Promoting
<1> QED
  BY <1>1, <1>6, <1>7, <1>8, <1>9, <1>10 DEF RInv

\* A late write lands, the replica catches up, or others interfere.
LEMMA WorldReports == RInv /\ (Land \/ CatchUp \/ Other) => RInv'
<1> SUFFICES ASSUME RInv, Land \/ CatchUp \/ Other PROVE RInv'
  OBVIOUS
<1> USE ReportTypesOf
<1>1. IInv'
  BY WorldStep DEF RInv
<1>2. UNCHANGED <<previous, durable, phase, part, reads, record, downloaded, selected, status,
                  faults, calls, consumed, refuted, lagged>>
  BY DEF Land, CatchUp, Other, owner, process, counters
<1>3. /\ faults \in Nat /\ others \in Nat /\ consumed \in BOOLEAN /\ refuted \in BOOLEAN
      /\ lagged \in BOOLEAN
  BY DEF ReportTypes
<1>7. SelectedIsAcceptable'
  BY <1>2 DEF RInv, SelectedIsAcceptable, Acceptable, ExpectedProvisional, PendingProvisional
<1>4. CASE Land
  <2>1. /\ flight # {} /\ flight' \subseteq flight
        /\ UNCHANGED <<replica, others>>
        /\ \E w \in flight : registry' = Landed(w, registry)
    BY <1>4 DEF Land, counters
  <2>2. /\ registry.archive # "absent" => registry'.archive = registry.archive
        /\ registry'.archive = "foreign" => registry.archive = "foreign"
        /\ registry'.tags.intended \in {registry.tags.intended, "version"}
        /\ registry'.tags.provisional \in {registry.tags.provisional, "version"}
        /\ ~durable.uploadAttempted => registry'.tags.provisional = registry.tags.provisional
    <3>1. PICK w \in flight : registry' = Landed(w, registry)
      BY <2>1
    <3>2. w \in Writes
      BY DEF RInv, IInv, TypeInv
    <3>3. CASE w = "upload" /\ registry.archive = "absent"
      <4>1. durable.uploadAttempted
        BY <3>3 DEF RInv, TagsAdvance
      <4> QED
        BY <3>1, <3>3, <4>1 DEF Landed, Registries, Tags
    <3>4. CASE w = "setTag" /\ registry.archive # "absent"
      BY <3>1, <3>4 DEF Landed, Registries, Tags
    <3>5. CASE registry' = registry
      BY <3>5
    <3> QED
      BY <3>1, <3>2, <3>3, <3>4, <3>5 DEF Landed, Writes
  <2>3. ReportTypes' /\ Tried' /\ ObservedIsSaved' /\ FailedForCause'
    BY <1>2, <2>1 DEF RInv, ReportTypes, Tried, ObservedIsSaved, FailedForCause
  <2>4. ArchiveIsKept' /\ SelectedIsAcceptable'
    BY <1>2, <1>7, <2>1, <2>2 DEF RInv, ArchiveIsKept
  <2>5. TagsAdvance'
    BY <1>2, <2>1, <2>2 DEF RInv, TagsAdvance, Advances
  <2>6. OnCourse'
    BY <1>2, <2>1 DEF RInv, OnCourse, Undisturbed
  <2> QED
    BY <1>1, <2>3, <2>4, <2>5, <2>6 DEF RInv
<1>5. CASE CatchUp
  <2>1. /\ UNCHANGED <<registry, flight, others>>
        /\ replica'.archive \in {replica.archive, registry.archive}
        /\ replica'.tags \in {replica.tags, registry.tags}
    BY <1>5 DEF CatchUp, counters, Registries
  <2>3. ReportTypes' /\ Tried' /\ ObservedIsSaved' /\ FailedForCause' /\ SelectedIsAcceptable'
    BY <1>2, <1>7, <2>1
       DEF RInv, ReportTypes, Tried, ObservedIsSaved, FailedForCause
  <2>4. ArchiveIsKept'
    BY <1>2, <2>1 DEF RInv, ArchiveIsKept
  <2>5. TagsAdvance'
    BY <1>2, <2>1 DEF RInv, TagsAdvance, Advances
  <2>6. OnCourse'
    BY <1>2, <2>1 DEF RInv, OnCourse, Undisturbed, Uploading, Promoting
  <2> QED
    BY <1>1, <2>3, <2>4, <2>5, <2>6 DEF RInv
<1>6. CASE Other
  <2>1. /\ UNCHANGED <<replica, flight>> /\ others' \in Nat /\ others' > 0
        /\ registry.archive # "absent" => registry'.archive = registry.archive
    BY <1>3, <1>6 DEF Other, Registries
  <2>3. ReportTypes' /\ Tried' /\ ObservedIsSaved' /\ FailedForCause'
    BY <1>2, <2>1 DEF RInv, ReportTypes, Tried, ObservedIsSaved, FailedForCause
  <2>4. ArchiveIsKept' /\ SelectedIsAcceptable'
    BY <1>2, <1>7, <2>1 DEF RInv, ArchiveIsKept
  <2>5. TagsAdvance'
    BY <1>2, <2>1 DEF RInv, TagsAdvance
  <2>6. OnCourse'
    BY <2>1 DEF OnCourse, Undisturbed
  <2> QED
    BY <1>1, <2>3, <2>4, <2>5, <2>6 DEF RInv
<1> QED
  BY <1>4, <1>5, <1>6

\* Every step preserves the invariant.
LEMMA NextReports == RInv /\ [Next]_vars => RInv'
<1> SUFFICES ASSUME RInv, [Next]_vars PROVE RInv'
  OBVIOUS
<1>1. CASE UNCHANGED vars
  <2>1. IInv'
    BY <1>1, NextIInv DEF RInv
  <2> QED
    BY <1>1, <2>1 DEF RInv, ReportTypes, ArchiveIsKept, Tried, ObservedIsSaved,
       SelectedIsAcceptable, TagsAdvance, FailedForCause, OnCourse, Undisturbed, Uploading,
       Promoting, Acceptable, ExpectedProvisional, PendingProvisional, Advances,
       vars, world, owner, process, counters
<1> QED
  BY <1>1, ReadVersionReports, DownloadReports, ReadTagsReports, SaveReports, MutateReports,
     ConsumeReports, ResumeReports, ReturnReports, WorldReports DEF Next

\* What a run of first-core-release.mjs reports is so, for any number of runs, faults and
\* interferences: a completed one tried the registry's archive and saw the tags, a failed
\* one has someone else or the archive to blame, an incomplete one a cause.
THEOREM ReportsAreTrue == Spec => []ReportIsTrue
BY InitReport, NextReports, ReportSound, PTL DEF Spec
=============================================================================
