---------------------------- MODULE ReleaseCandidate ----------------------------
(***************************************************************************)
(* architecture/tooling/release-candidate: the Host that lets Changesets    *)
(* version this repository, checks what came of it, and checks a release    *)
(* pull request by doing the same again in private.  As in WorkspaceCustody *)
(* a task is a script of steps, each of which reads or writes one thing     *)
(* while others may change the checkout, its HEAD or the installed tools.   *)
(*                                                                         *)
(* A path is a pair of its kind and a name.  What is at a path is a         *)
(* sequence of at most one record of a mode and data: of a manifest its     *)
(* version and the rest; of a changelog its sections; of an intent its      *)
(* requests and summary; of a baseline its version and interface; of the    *)
(* configuration what it ignores.  The engine, the build and the producer   *)
(* are what is installed: genuine, or one that does one thing wrong.        *)
(***************************************************************************)
EXTENDS Integers, SequencesExt, FiniteSetsExt

CONSTANTS
    Files,        \* all paths, in the order of `sort`
    Packages,     \* of the workspace
    Pair,         \* those that have a public baseline
    Leaves,       \* versions of the leaves that the decision leaves unchanged
    Cohort,       \* admittedMetadataCohort: <<package, old, new, type>>
    Metadata,     \* the version of the baselines before and after
    Commits,      \* the tree of each commit, and its ancestors
    Scenarios     \* tasks, checkouts, and the edits that somebody makes meanwhile

Absent == <<>>
Ordinary(data) == <<[mode |-> "file", data |-> data]>>
IsOrdinary(c) == c # Absent /\ c[1].mode = "file"

Manifest(p) == <<"manifest", p>>
Changelog(p) == <<"changelog", p>>
Baseline(p) == <<"baseline", p>>
Config == <<"file", "config">>
Policy == <<"file", "policy">>
Decision == <<"file", "decision">>
Source == <<"file", "source">>
Stray == <<"file", "stray">>

Of(kind) == {f \in ToSet(Files) : f[1] = kind}
Present(t, kind) == {f \in Of(kind) : t[f] # Absent}
DataAt(t, f) == t[f][1].data

VARIABLES
    head, tree, tools, main, \* the checkout, what is installed, and origin/main
    edits,      \* what may still be done to them: a path, a tool or another place, and what it becomes
    task, input, todo, verdict,
    known,      \* what the task has read
    replay,     \* the private worktree in which a pull request is done again
    work,       \* the private worktree in which baselines are promoted
    wrote,      \* history: the paths of the checkout that the task wrote,
    disturbed   \*   and whether somebody has changed anything meanwhile

checkout == <<head, tree, tools, main>>
vars == <<checkout, edits, disturbed, task, input, todo, verdict, known, replay, work, wrote>>

NoTree == [f \in ToSet(Files) |-> Absent]
NoExecution == [source |-> "", engine |-> "", producer |-> "", build |-> ""]

Begin(scenario) ==
    /\ head = scenario.head /\ tree = scenario.tree /\ tools = scenario.tools
    /\ main = scenario.main /\ edits = scenario.edits
    /\ task = scenario.task /\ input = scenario.input
    /\ todo = <<[do |-> "start", with |-> ""]>> /\ verdict = "working"
    /\ known = [execution |-> NoExecution, before |-> NoTree, seen |-> NoTree,
                candidate |-> NoTree, plan |-> [intents |-> <<>>, releases |-> {}]]
    /\ replay = NoTree /\ work = NoTree /\ wrote = {} /\ disturbed = FALSE

Edit ==
    /\ verdict = "working"
    /\ \E e \in edits :
          /\ LET at == e[1] to == e[2]
             IN  CASE at = <<"head">> -> head' = to /\ UNCHANGED <<tree, tools, main>>
                   [] at = <<"main">> -> main' = to /\ UNCHANGED <<head, tree, tools>>
                   [] at[1] = "tools" -> tools' = [tools EXCEPT ![at[2]] = to] /\ UNCHANGED <<head, tree, main>>
                   [] at \in ToSet(Files) -> tree' = [tree EXCEPT ![at] = to] /\ UNCHANGED <<head, tools, main>>
          /\ edits' = edits \ {e} /\ disturbed' = TRUE
    /\ UNCHANGED <<task, input, todo, verdict, known, replay, work, wrote>>

\* Where the release is prepared: the checkout, or the private worktree of the base.
Private == task = "check-pr"
TreeNow == IF Private THEN replay ELSE tree
HeadNow == IF Private THEN input.base ELSE head
-----------------------------------------------------------------------------
(* What a tree says: the workspace, its intents, and what they ask for.     *)

Ignored(t) == DataAt(t, Config).ignore
Versioned(t) == {p \in Packages : Manifest(p) \in Present(t, "manifest")} \ Ignored(t)

\* configuration and inventory: the documents the Host itself interprets.
Configured(t) ==
    /\ IsOrdinary(t[Config]) /\ DataAt(t, Config).valid
    /\ \A f \in Present(t, "manifest") : IsOrdinary(t[f])
    /\ Ignored(t) \subseteq {f[2] : f \in Present(t, "manifest")}

Intents(t) == Present(t, "intent")
Requests(t, f) == DataAt(t, f).requests
Eligible(t, f) == DOMAIN Requests(t, f) \cap Versioned(t)
IsPending(t, f) == Requests(t, f) = <<>> \/ Eligible(t, f) # {}

\* intents(): the engine's records of the intents are those of the source.
IntentsAgree(t, plan) ==
    /\ \A f \in Intents(t) : IsOrdinary(t[f]) /\ DOMAIN Requests(t, f) \subseteq Packages
    /\ plan.intents = [f \in Intents(t) |-> DataAt(t, f)]
    /\ \A f \in Intents(t) : Eligible(t, f) \in {{}, DOMAIN Requests(t, f)}

Changing(plan) == {r \in plan.releases : r.old # r.new}
HasRelease(plan) == Changing(plan) # {}
Consumptions(t, plan) == IF HasRelease(plan) THEN {f \in Intents(t) : IsPending(t, f)} ELSE {}

\* releaseRows and the two readings of the cohort.
Rows(plan) == {<<r.package, r.old, r.new, r.type>> : r \in Changing(plan)}
PairReleases(t, plan) == {r \in Changing(plan) : t[Policy] # Absent /\ r.package \in Pair}
Authorized(t) == t[Decision] # Absent /\ DataAt(t, Decision) = "accepted"

PendingMetadataCohort(t, plan) ==
    /\ task = "status"
    /\ PairReleases(t, plan) # {} /\ Rows(plan) # Cohort

PlannedBaselines(t, plan) ==
    IF PairReleases(t, plan) = {} \/ PendingMetadataCohort(t, plan) THEN {}
    ELSE {Baseline(p) : p \in Pair}

\* What plannedBaselines asserts before it names the baselines.
Admitted(t, plan) ==
    PairReleases(t, plan) # {} =>
        /\ Authorized(t) /\ Rows(plan) = Cohort /\ DataAt(t, Policy) = "pair"
        /\ \A p \in DOMAIN Leaves :
              t[Manifest(p)] # Absent /\ DataAt(t, Manifest(p)).version = Leaves[p]

\* permissions: what a release may change, all of it ordinary files.
Permitted(t, plan) ==
    UNION {{Manifest(r.package), Changelog(r.package)} : r \in Changing(plan)}
    \cup PlannedBaselines(t, plan) \cup Consumptions(t, plan)
PermittedIsOrdinary(t, plan) == \A f \in Permitted(t, plan) : t[f] # Absent => IsOrdinary(t[f])

MetadataBaseline(f, before, after) ==
    /\ IsOrdinary(before[f]) /\ IsOrdinary(after[f])
    /\ DataAt(before, f).version = Metadata.old
    /\ after[f] = Ordinary([DataAt(before, f) EXCEPT !.version = Metadata.new])
-----------------------------------------------------------------------------
(* External: the Changesets engine, the build and the producer of baselines. *)

Bump(v, type) == CASE type = "patch" -> v + 1 [] type = "minor" -> 10 * (v \div 10) + 10
Types(t, p) == {Requests(t, f)[p] : f \in {f \in Intents(t) : p \in Eligible(t, f)}}
Summaries(t, p) == {DataAt(t, f).summary : f \in {f \in Intents(t) : p \in Eligible(t, f)}}

ReleaseFor(t, p) ==
    LET old == DataAt(t, Manifest(p)).version
        type == IF "minor" \in Types(t, p) THEN "minor" ELSE "patch"
    IN  [package |-> p, old |-> old, new |-> Bump(old, type), type |-> type]

PlanFor(t) ==
    [intents |-> [f \in Intents(t) |-> DataAt(t, f)],
     releases |-> {ReleaseFor(t, p) : p \in {p \in Versioned(t) : Types(t, p) # {}}}]

VersionedTree(t) ==
    LET plan == PlanFor(t)
    IN  [f \in ToSet(Files) |->
            IF f \in Consumptions(t, plan) THEN Absent
            ELSE IF \E r \in plan.releases : f = Manifest(r.package)
            THEN <<[t[f][1] EXCEPT !.data.version = ReleaseFor(t, f[2]).new]>>
            ELSE IF \E r \in plan.releases : f = Changelog(r.package)
            THEN LET section == [version |-> ReleaseFor(t, f[2]).new, notes |-> Summaries(t, f[2])]
                 IN  Ordinary(<<section>> \o IF t[f] = Absent THEN <<>> ELSE DataAt(t, f))
            ELSE t[f]]

Engine(kind, t) ==
    LET genuine == PlanFor(t)
        first == CHOOSE f \in Intents(t) : TRUE
    IN  IF Intents(t) = {} THEN genuine
        ELSE CASE kind = "other request" -> [genuine EXCEPT !.intents[first].requests = <<>>]
               [] kind = "other summary" -> [genuine EXCEPT !.intents[first].summary = "other"]
               [] kind = "lost intent" -> [genuine EXCEPT !.intents = [f \in Intents(t) \ {first} |-> @[f]]]
               [] OTHER -> genuine

EngineTree(kind, t) ==
    LET genuine == VersionedTree(t)
        released == {r.package : r \in PlanFor(t).releases}
    IN  CASE kind = "stray output" -> [genuine EXCEPT ![Stray] = Ordinary("output")]
          [] kind = "kept intent" -> [f \in ToSet(Files) |-> IF f[1] = "intent" THEN t[f] ELSE genuine[f]]
          [] kind = "lost history" ->
                [f \in ToSet(Files) |->
                    IF f[1] = "changelog" /\ f[2] \in released
                    THEN Ordinary(<<Head(DataAt(genuine, f))>>) ELSE genuine[f]]
          [] kind = "other range" ->
                [f \in ToSet(Files) |->
                    IF f[1] = "manifest" /\ f[2] \in released
                    THEN <<[genuine[f][1] EXCEPT !.data.rest = "other"]>> ELSE genuine[f]]
          [] OTHER -> genuine

Promoted(kind, t) ==
    LET genuine == [f \in ToSet(Files) |->
            IF f[1] = "baseline" /\ t[f] # Absent
            THEN <<[t[f][1] EXCEPT !.data.version = DataAt(t, Manifest(f[2])).version]>> ELSE t[f]]
    IN  CASE kind = "stray output" -> [genuine EXCEPT ![Stray] = Ordinary("output")]
          [] kind = "other interface" ->
                [f \in ToSet(Files) |-> IF f[1] = "baseline" /\ t[f] # Absent
                    THEN <<[genuine[f][1] EXCEPT !.data.api = "other"]>> ELSE genuine[f]]
          [] OTHER -> genuine
-----------------------------------------------------------------------------
(* The check of a candidate.                                                *)

\* difference
Difference(before, after) == {f \in ToSet(Files) : before[f] # after[f]}

\* External: checkReleaseCandidate, as far as its callers rely on it.  What is
\* bound is the same; only what is permitted differs; manifests have the versions
\* of the plan and are otherwise unchanged; and the right intents are consumed.
ReleaseChecks(before, plan, permitted, after) ==
    /\ Difference(before, after) \subseteq permitted
    /\ \A f \in Difference(before, after) : after[f] # Absent => IsOrdinary(after[f])
    /\ \A r \in Changing(plan) :
          LET f == Manifest(r.package)
          IN  /\ after[f] # Absent /\ DataAt(before, f).version = r.old
              /\ DataAt(after, f) = [DataAt(before, f) EXCEPT !.version = r.new]
    /\ {f \in Intents(before) : after[f] = Absent} = Consumptions(before, plan)

\* changelogHistory: the new heading comes first, and the history comes last.
ChangelogHistory(before, after, r) ==
    LET f == Changelog(r.package)
        current == DataAt(after, f)
    IN  /\ IsOrdinary(after[f]) /\ current # <<>> /\ current[1].version = r.new
        /\ before[f] # Absent => IsSuffix(DataAt(before, f), current)

Check(permitted, after) ==
    /\ ReleaseChecks(known.before, known.plan, permitted, after)
    /\ \A r \in Changing(known.plan) : ChangelogHistory(known.before, after, r)
-----------------------------------------------------------------------------
(* Steps.                                                                  *)

Now == Head(todo)
At(do) == todo # <<>> /\ Now.do = do
Step(do) == <<[do |-> do, with |-> ""]>>
StepWith(do, with) == <<[do |-> do, with |-> with]>>
StepEach(do, files) ==
    LET listed == SelectSeq(Files, LAMBDA f : f \in files)
    IN  [k \in DOMAIN listed |-> [do |-> do, with |-> listed[k]]]

Then(steps) ==
    /\ todo' = steps \o Tail(todo)
    /\ verdict' = IF todo' = <<>> THEN "passed" ELSE verdict
Fail == todo' = <<>> /\ verdict' = "failed"
Require(condition, steps) == IF condition THEN Then(steps) ELSE Fail
Learn(what, value) == known' = [known EXCEPT ![what] = value]

Untouched == UNCHANGED <<tree, replay, work, wrote>>
Watch == Untouched /\ UNCHANGED known

\* custody: HEAD, and then the tools, of which the producer and the build only if
\* the policy of baselines is there.
Custody(use) == StepWith("source", use) \o StepWith("tools", use)

ReadSource ==
    /\ At("source") /\ Untouched
    /\ IF Now.with = "keep" THEN Then(<<>>) /\ Learn("execution", [NoExecution EXCEPT !.source = HeadNow])
       ELSE Require(HeadNow = known.execution.source, <<>>) /\ UNCHANGED known

ToolsAt(t) ==
    IF t[Policy] # Absent THEN tools ELSE [tools EXCEPT !.producer = "none", !.build = "none"]
ToolsOf(execution) ==
    [engine |-> execution.engine, producer |-> execution.producer, build |-> execution.build]

ReadTools ==
    /\ At("tools") /\ Untouched
    /\ LET found == ToolsAt(IF Now.with = "work" THEN work ELSE TreeNow)
           execution == [known.execution EXCEPT !.engine = found.engine, !.producer = found.producer,
                                                !.build = found.build]
       IN  IF Now.with = "keep" THEN Then(<<>>) /\ Learn("execution", execution)
           ELSE Require(found = ToolsOf(known.execution), <<>>) /\ UNCHANGED known

\* snapshot: what is tracked or there is listed, then each file is read.  Nobody
\* else writes into a private worktree.
Snapshot == Step("list")

ListFiles ==
    /\ At("list") /\ Untouched
    /\ IF Private THEN Learn("seen", replay) /\ Then(<<>>)
       ELSE LET listed == {f \in ToSet(Files) : tree[f] # Absent \/ Commits[head].tree[f] # Absent}
            IN  /\ Learn("seen", NoTree)
                /\ Then(StepEach("read", listed))

ReadFile ==
    /\ At("read") /\ Untouched
    /\ known' = [known EXCEPT !.seen[Now.with] = tree[Now.with]]
    /\ Then(<<>>)

\* `git status` does not see what was hidden from it.
Clean ==
    /\ At("clean") /\ Watch
    /\ Require(Difference(Commits[HeadNow].tree, TreeNow) \subseteq input.hidden, <<>>)
-----------------------------------------------------------------------------
(* prepareRelease.                                                          *)

PrepareRelease ==
    Step("clean") \o Custody("keep") \o Snapshot \o Step("accept") \o Step("plan")
    \o Custody("same") \o Snapshot \o Step("unchanged") \o Step("admit")

\* The files are those of the commit, whatever Git was told to ignore.
AcceptSource ==
    /\ At("accept") /\ Untouched
    /\ Learn("before", known.seen)
    /\ Require(known.seen = Commits[known.execution.source].tree /\ Configured(known.seen), <<>>)

Plan ==
    /\ At("plan")
    /\ Learn("plan", Engine(tools.engine, TreeNow)) /\ Then(<<>>)
    /\ IF tools.engine = "rewriter" /\ ~Private
       THEN tree' = [tree EXCEPT ![Source] = Ordinary("rewritten")] /\ wrote' = wrote \cup {Source}
       ELSE UNCHANGED <<tree, wrote>>
    /\ replay' = IF tools.engine = "rewriter" /\ Private
                 THEN [replay EXCEPT ![Source] = Ordinary("rewritten")] ELSE replay
    /\ UNCHANGED work

Unchanged == At("unchanged") /\ Watch /\ Require(known.seen = known.before, <<>>)

IsPendingAdmission == PendingMetadataCohort(known.before, known.plan)

Admit ==
    /\ At("admit") /\ Watch
    /\ Require(/\ IntentsAgree(known.before, known.plan)
               /\ PairReleases(known.before, known.plan) # {} => Authorized(known.before)
               /\ IsPendingAdmission \/ Admitted(known.before, known.plan)
               /\ PermittedIsOrdinary(known.before, known.plan), <<>>)

\* processedMain
ProcessedMain == At("processed") /\ Watch /\ Require(known.execution.source = input.processed, <<>>)
-----------------------------------------------------------------------------
(* versionPreparedRelease.                                                  *)

VersionPreparedRelease ==
    Custody("same") \o Snapshot \o Step("unchanged")
    \o Step("engine") \o Snapshot \o Step("candidate")
    \o Custody("same") \o Snapshot \o Step("check")

RunEngine ==
    /\ At("engine") /\ Then(<<>>) /\ UNCHANGED <<known, work>>
    /\ LET versioned == EngineTree(tools.engine, TreeNow)
       IN  IF ~HasRelease(known.plan) THEN UNCHANGED <<tree, replay, wrote>>
           ELSE IF Private THEN replay' = versioned /\ UNCHANGED <<tree, wrote>>
           ELSE tree' = versioned /\ wrote' = wrote \cup Difference(tree, versioned) /\ UNCHANGED replay

BaselinePaths == PlannedBaselines(known.before, known.plan)

\* Without the baselines first; then they are produced, if the plan has them.
CheckVersions ==
    /\ At("candidate") /\ Untouched
    /\ Learn("candidate", known.seen)
    /\ Require(Check(Permitted(known.before, known.plan) \ Of("baseline"), known.seen),
               IF BaselinePaths = {} THEN <<>> ELSE
               Custody("same") \o Step("work") \o StepWith("tools", "work") \o Step("build")
               \o StepWith("tools", "work") \o Custody("same") \o Step("promote")
               \o StepWith("tools", "work") \o Step("promoted") \o Custody("same") \o Snapshot
               \o Step("caller") \o StepEach("write", BaselinePaths))

\* The changed files are copied onto a private checkout of the source.
CopyCandidate ==
    /\ At("work") /\ work' = known.candidate /\ UNCHANGED <<tree, replay, wrote, known>>
    /\ Require(\A f \in Difference(known.before, known.candidate) :
                  known.candidate[f] # Absent => IsOrdinary(known.candidate[f]), <<>>)

BuildWork ==
    /\ At("build") /\ UNCHANGED <<tree, replay, wrote, known>>
    /\ work' = IF tools.build = "rewriter" THEN [work EXCEPT ![Source] = Ordinary("rewritten")] ELSE work
    /\ Require(work' = known.candidate, <<>>)

Promote ==
    /\ At("promote") /\ UNCHANGED <<tree, replay, wrote, known>>
    /\ work' = Promoted(tools.producer, work)
    /\ Require(tools.producer # "failing", <<>>)

PromotedFits ==
    /\ At("promoted") /\ Watch
    /\ Require(/\ Difference(known.candidate, work) = BaselinePaths
               /\ \A f \in BaselinePaths : MetadataBaseline(f, known.before, work), <<>>)

CallerFits ==
    /\ At("caller") /\ Watch
    /\ Require(/\ known.seen = known.candidate
               /\ \A f \in BaselinePaths : known.candidate[f] = known.before[f], <<>>)

WriteBaseline ==
    /\ At("write") /\ Then(<<>>) /\ UNCHANGED <<known, work>>
    /\ IF Private THEN replay' = [replay EXCEPT ![Now.with] = work[Now.with]] /\ UNCHANGED <<tree, wrote>>
       ELSE /\ tree' = [tree EXCEPT ![Now.with] = work[Now.with]]
            /\ wrote' = wrote \cup {Now.with} /\ UNCHANGED replay

\* checkGeneratedCandidate
CheckCandidate ==
    /\ At("check") /\ Watch
    /\ Require(/\ \A f \in BaselinePaths : MetadataBaseline(f, known.before, known.seen)
               /\ Check(Permitted(known.before, known.plan), known.seen), <<>>)
-----------------------------------------------------------------------------
(* verifyRelease: the base is done again, and the head must be the same.     *)

CurrentBase == At("base") /\ Watch /\ Require(main = input.base, <<>>)

CheckOut ==
    /\ At("check out") /\ replay' = Commits[input.base].tree
    /\ Require(input.base \in Commits[input.head].ancestors, <<>>)
    /\ UNCHANGED <<tree, work, wrote, known>>

Releases == At("releases") /\ Watch /\ Require(HasRelease(known.plan), <<>>)

\* The tools of the head, twice, as the policy of the head has them.
HeadTools ==
    /\ At("head tools") /\ Watch
    /\ Require(ToolsAt(Commits[input.head].tree) = ToolsOf(known.execution), <<>>)

\* Variant: the head need only pass the check itself.
HeadPasses ==
    /\ At("compare") /\ Watch
    /\ Require(Check(Permitted(known.before, known.plan), Commits[input.head].tree), <<>>)

CompareHead ==
    /\ At("compare") /\ Watch
    /\ LET actual == Commits[input.head].tree
       IN  Require(/\ Check(Permitted(known.before, known.plan), actual)
                   /\ actual = known.seen, <<>>)
-----------------------------------------------------------------------------
\* releaseCandidateMain
Start ==
    /\ At("start") /\ Watch
    /\ Then(CASE task = "status" -> PrepareRelease \o Step("processed")
              [] task = "version" -> PrepareRelease \o Step("processed") \o VersionPreparedRelease
              [] task = "check-pr" -> Step("base") \o Step("check out") \o PrepareRelease
                                      \o Step("releases") \o VersionPreparedRelease
                                      \o Step("head tools") \o Step("head tools") \o Step("compare"))

Work ==
    \/ Start
    \/ ReadSource \/ ReadTools \/ ListFiles \/ ReadFile \/ Clean
    \/ AcceptSource \/ Plan \/ Unchanged \/ Admit \/ ProcessedMain
    \/ RunEngine \/ CheckVersions \/ CheckCandidate
    \/ CopyCandidate \/ BuildWork \/ Promote \/ PromotedFits \/ CallerFits \/ WriteBaseline
    \/ CurrentBase \/ CheckOut \/ Releases \/ HeadTools \/ CompareHead

Init == \E scenario \in Scenarios : Begin(scenario)
Next ==
    \/ Edit
    \/ Work /\ UNCHANGED <<head, tools, main, edits, disturbed, task, input>>
Spec == Init /\ [][Next]_vars
-----------------------------------------------------------------------------
(* What the Host promises, said of commits and of genuine tools.            *)

ReleaseOf(t) ==
    LET plan == PlanFor(t)
    IN  IF ~HasRelease(plan) THEN t
        ELSE IF PairReleases(t, plan) = {} THEN VersionedTree(t)
        ELSE Promoted("genuine", VersionedTree(t))

\* A source whose plan may be reported; and one that may be released.
Reportable(t) ==
    LET plan == PlanFor(t)
    IN  /\ Configured(t) /\ IntentsAgree(t, plan)
        /\ PairReleases(t, plan) # {} => Authorized(t) /\ (Rows(plan) = Cohort => Admitted(t, plan))
        /\ \A f \in Difference(t, VersionedTree(t)) : t[f] # Absent => IsOrdinary(t[f])

Releasable(t) ==
    LET plan == PlanFor(t)
    IN  /\ Reportable(t) /\ Admitted(t, plan)
        /\ PairReleases(t, plan) # {} =>
              \A p \in Pair : MetadataBaseline(Baseline(p), t, ReleaseOf(t))

Processed == Commits[input.processed].tree

\* The heading and the history of every changelog of a release: an intent or a
\* changelog that is changed just before the engine reads it leaves other notes in
\* between, which `version` does not find, and the replay of the pull request does.
HeadAndHistory(t, plan) ==
    [f \in ToSet(Files) |->
        IF IsOrdinary(t[f]) /\ \E r \in Changing(plan) : f = Changelog(r.package)
        THEN LET kept == IF Processed[f] = Absent THEN 0 ELSE Len(DataAt(Processed, f))
                 now == DataAt(t, f)
             IN  <<now[1].version, SubSeq(now, Len(now) - kept + 1, Len(now))>>
        ELSE t[f]]

Genuine == tools = [engine |-> "genuine", producer |-> "genuine", build |-> "genuine"]

IsReleaseOfBase ==
    LET base == Commits[input.base].tree
    IN  /\ Releasable(base) /\ HasRelease(PlanFor(base))
        /\ input.base \in Commits[input.head].ancestors
        /\ Commits[input.head].tree = ReleaseOf(base)

\* A plan is reported only as it follows from the processed commit.  A candidate
\* that passed is what that commit releases, file by file, whoever was at work and
\* whichever tool did wrong; and a pull request that passed is that, to the word.
PassedIsReleased ==
    verdict = "passed" =>
        CASE task = "status" -> Reportable(Processed) /\ known.plan = PlanFor(Processed)
          [] task = "version" ->
                LET plan == PlanFor(Processed)
                IN  /\ Releasable(Processed)
                    /\ HeadAndHistory(known.seen, plan) = HeadAndHistory(ReleaseOf(Processed), plan)
          [] task = "check-pr" -> IsReleaseOfBase /\ (~disturbed => main = input.base)

\* "Unadmitted plans never run version": the task writes into the checkout only
\* what it was asked for, of a commit that may be released.  (An engine that
\* writes while it plans is found out afterwards.)
WritesWhenReady ==
    wrote # {} /\ tools.engine # "rewriter" =>
        /\ task = "version"
        /\ HasRelease(PlanFor(Processed)) /\ Admitted(Processed, PlanFor(Processed))

AsCommitted == head = input.processed /\ (wrote = {} => tree = Processed)

\* Nothing fails if nobody interferes and all is as it should be.
FailedForCause ==
    verdict = "failed" /\ ~disturbed /\ Genuine =>
        ~CASE task = "status" -> AsCommitted /\ Reportable(Processed)
           [] task = "version" -> AsCommitted /\ Releasable(Processed)
           [] task = "check-pr" -> main = input.base /\ IsReleaseOfBase

\* A release candidate is judged by its commit, and by nothing that was changed
\* or installed meanwhile.
CandidateIsTrue == PassedIsReleased /\ WritesWhenReady /\ FailedForCause
=============================================================================
