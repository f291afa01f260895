---------------------------- MODULE WorkspaceCustody ----------------------------
(***************************************************************************)
(* The checks and builds of this repository that read its HEAD, its index  *)
(* and its working tree while somebody else may change them:               *)
(* architecture/checks/tracked-file-custody.ts and its callers.  A task is *)
(* a script of steps.  Each step reads one thing of the workspace, by one  *)
(* Git command or one access of a file, and all that a task knows is what  *)
(* its steps have read.                                                    *)
(*                                                                         *)
(* A commit stands for the contents of its tree; a content is a record of  *)
(* what is at a path, its bytes and whether it is executable.              *)
(***************************************************************************)
EXTENDS Integers, SequencesExt, FiniteSets

CONSTANTS
    Paths,       \* the paths that may be tracked, in the order of `sort`
    Documents,   \* governance.mjs: GOVERNED_DOCUMENT_PATH,
    Inputs,      \*   and what readGovernanceInput reads besides them
    Sources,     \* generate-core.ts: the scopes of inputs(), all of packages/
    Projected,   \* policy.ts: projectionPaths,
    Projection,  \*   what project() makes of the bytes that it accepts,
    Marker,      \*   and markerPath
    Generated,   \* GENERATED_PRODUCTION_PATH
    Commits,     \* the contents of each commit
    Scenarios    \* tasks, workspaces, and the edits that somebody makes meanwhile

Content(kind, bytes, executable) == [kind |-> kind, bytes |-> bytes, executable |-> executable]
Absent == Content("absent", "", FALSE)
IntentToAdd == Content("intent-to-add", "", FALSE)
Emission == Content("regular", "emission", FALSE)

IsRegular(c) == c.kind = "regular"
IsAbsent(c) == c.kind = "absent"

VARIABLES
    head, index, tree, \* the workspace: a commit, and what is at each path
    edits,       \* what may still be done to it
    past,        \* history: the workspaces that the task has had so far
    task, todo,  \* the steps that are left
    verdict,
    snapshot,    \* the index captures that are kept: the task's own and its Host's
    known        \* what else the task has read

workspace == <<head, index, tree>>
WorkspaceNow == [head |-> head, index |-> index, tree |-> tree]
vars == <<workspace, edits, past, task, todo, verdict, snapshot, known>>

Locations == ToSet(Paths) \cup {Marker, Generated}
Nothing == [p \in Locations |-> Absent]

Begin(scenario) ==
    /\ head = scenario.head /\ index = scenario.index /\ tree = scenario.tree
    /\ edits = scenario.edits /\ past = {WorkspaceNow}
    /\ task = scenario.task
    /\ todo = <<[do |-> "start"]>>
    /\ verdict = "working"
    /\ snapshot = [s \in {"own", "host"} |-> [tree |-> Nothing, entries |-> Nothing]]
    /\ known = [head |-> "", partial |-> [tree |-> Nothing, staged |-> Nothing],
                opened |-> Absent, marker |-> "", named |-> "", marked |-> FALSE,
                entries |-> Nothing, before |-> Nothing, compiled |-> {},
                inventory |-> {}, begun |-> FALSE]

\* Somebody else at work: each location is changed at most once while a task works.
Edit ==
    /\ verdict = "working"
    /\ \E e \in edits :
          /\ CASE e.at = "head" -> head' = e.to /\ UNCHANGED <<index, tree>>
               [] e.at = "index" -> index' = [index EXCEPT ![e.path] = e.to] /\ UNCHANGED <<head, tree>>
               [] e.at = "tree" -> tree' = [tree EXCEPT ![e.path] = e.to] /\ UNCHANGED <<head, index>>
          /\ edits' = edits \ {e} /\ past' = past \cup {WorkspaceNow'}
    /\ UNCHANGED <<task, todo, verdict, snapshot, known>>
-----------------------------------------------------------------------------
(* Scripts.                                                                *)

Now == Head(todo)
At(do) == todo # <<>> /\ Now.do = do

Step(do) == <<[do |-> do]>>
StepFor(do, s, purpose) == <<[do |-> do, of |-> s, purpose |-> purpose]>>
StepAt(do, p, use) == <<[do |-> do, path |-> p, use |-> use]>>

ForEach(list, Script(_)) == FlattenSeq([k \in DOMAIN list |-> Script(list[k])])
InOrder(set) == SelectSeq(Paths, LAMBDA p : p \in set)

\* The rest of the script, after the steps that this one turned out to need.
Then(steps) ==
    /\ todo' = steps \o Tail(todo)
    /\ verdict' = IF todo' = <<>> THEN "passed" ELSE verdict

\* A build that has begun cleans its production up before it fails.
Fail ==
    IF known.begun THEN todo' = Step("clean") /\ verdict' = "failing"
    ELSE todo' = <<>> /\ verdict' = "failed"

Require(condition, steps) == IF condition THEN Then(steps) ELSE Fail

Learn(what, value) == known' = [known EXCEPT ![what] = value]
-----------------------------------------------------------------------------
(* Captures of the index: three commands, each of which sees its own moment. *)

Capture(s) == Step("tree") \o Step("staged") \o StepFor("diff", s, "keep")
Compare(s) == Step("tree") \o Step("staged") \o StepFor("diff", s, "compare")

\* `git ls-files --stage` lists an intent to add as an empty file.
Listed(entry) == IF entry = IntentToAdd THEN Content("regular", "", FALSE) ELSE entry

\* `git diff --cached --ita-invisible-in-index`: what differs from HEAD now.
Visible(entry) == IF entry = IntentToAdd THEN Absent ELSE entry
Diff == [p \in {q \in Locations : Visible(index[q]) # Commits[head][q]} |-> Visible(index[p])]

MatchesHead(p) == known.partial.staged[p] = known.partial.tree[p]

MatchesDiff(p) == p \in DOMAIN Diff /\ Diff[p] = known.partial.staged[p]

ReadTree == At("tree") /\ Learn("partial", [tree |-> Commits[head], staged |-> Nothing]) /\ Then(<<>>)

ReadStaged ==
    /\ At("staged")
    /\ known' = [known EXCEPT !.partial.staged = [p \in Locations |-> Listed(index[p])]]
    /\ Then(<<>>)

\* What was listed must be explained by HEAD or by the difference, or be empty:
\* an intent to add; and what differs must have been listed, unless it is deleted.
MaterializeIndexEntries ==
    LET staged == known.partial.staged
        explained == {p \in Locations : ~IsAbsent(staged[p]) /\ (MatchesHead(p) \/ MatchesDiff(p))}
    IN  [coherent |->
            /\ \A p \in Locations : staged[p].kind \in {"absent", "regular", "symlink"}
            /\ \A p \in Locations \ explained :
                  IsAbsent(staged[p]) \/ (IsRegular(staged[p]) /\ staged[p].bytes = "")
            /\ \A p \in DOMAIN Diff \ explained : IsAbsent(Diff[p]),
         entries |-> [p \in Locations |->
            IF IsAbsent(staged[p]) \/ p \in explained THEN staged[p]
            ELSE [staged[p] EXCEPT !.kind = "intent-to-add"]]]

ReadDiff ==
    /\ At("diff")
    /\ LET found == MaterializeIndexEntries
           current == [tree |-> known.partial.tree, entries |-> found.entries]
       IN  IF Now.purpose = "keep"
           THEN Require(found.coherent, <<>>) /\ snapshot' = [snapshot EXCEPT ![Now.of] = current]
           ELSE Require(found.coherent /\ current = snapshot[Now.of], <<>>) /\ UNCHANGED snapshot
    /\ Learn("partial", [tree |-> Nothing, staged |-> Nothing])
-----------------------------------------------------------------------------
(* Reading a file of the working tree: its path is inspected, it is opened   *)
(* and read, and the path is inspected again.                                *)

ReadFile(p, use) == StepAt("inspect", p, use) \o StepAt("open", p, use) \o StepAt("confirm", p, use)
ReadFiles(list, use) == ForEach(list, LAMBDA p : ReadFile(p, use))

Entry(p) == snapshot["own"].entries[p]

CommittedSource(p) == Commits[known.named][p]
ProjectedContent(p) == [CommittedSource(p) EXCEPT !.bytes = Projection[@]]

\* What assertTrackedWorkspaceMatchesHead expects of a path.
Expected(p) == IF known.marked /\ p \in Projected THEN ProjectedContent(p) ELSE Entry(p)

Accepts(use, p, c) ==
    CASE use = "verified" -> c = Expected(p)
      [] use = "indexed" -> c.bytes = Entry(p).bytes
      [] use = "projected" -> c = ProjectedContent(p)
      [] use = "marker" -> TRUE
      [] use = "marker again" -> c.bytes = known.marker
      [] use = "generated" -> c = Emission

\* Only the reader of the generated source insists that it is the same file.
SameFile(p) == Now.use = "generated" => tree[p] = known.opened

Inspect == At("inspect") /\ Learn("opened", tree[Now.path]) /\ Require(IsRegular(tree[Now.path]), <<>>)
Open ==
    /\ At("open")
    /\ Learn("opened", tree[Now.path])
    /\ Require(IsRegular(tree[Now.path]) /\ SameFile(Now.path), <<>>)
Confirm ==
    /\ At("confirm")
    /\ known' = [known EXCEPT !.opened = Absent,
                              !.marker = IF Now.use = "marker" THEN known.opened.bytes ELSE @]
    /\ Require(/\ IsRegular(tree[Now.path]) /\ SameFile(Now.path)
               /\ Accepts(Now.use, Now.path, known.opened), <<>>)
-----------------------------------------------------------------------------
(* The projections of a Host whose checkout is marked.                      *)

Projections(s) ==
    ReadFile(Marker, "marker") \o Step("names") \o StepFor("at head", s, "") \o Compare(s)
    \o ForEach(InOrder(Projected), LAMBDA p : StepAt("source", p, s) \o ReadFile(p, "projected"))
    \o ReadFile(Marker, "marker again") \o Compare(s)

\* nodeMarker reads the marker once more, by its name.
MarkerNames ==
    /\ At("names")
    /\ Learn("named", tree[Marker].bytes)
    /\ Require(tree[Marker].bytes \in DOMAIN Commits, <<>>)

MarkerIsHead ==
    /\ At("at head")
    /\ Require(head = known.named /\ snapshot[Now.of].tree = Commits[known.named], <<>>)
    /\ UNCHANGED known

\* What is captured of the path is what the marked commit has there.
SourceIsCommitted ==
    /\ At("source")
    /\ LET entry == snapshot[Now.use].entries[Now.path]
       IN  Require(/\ IsRegular(entry) /\ entry = CommittedSource(Now.path)
                   /\ entry.bytes \in DOMAIN Projection, <<>>)
    /\ UNCHANGED known

IsMarked == ~IsAbsent(tree[Marker])

\* readRuntimeIndexSnapshotFile
RuntimeReads(list) == ForEach(list, LAMBDA p : StepAt("read", p, ""))

ReadIndexSnapshotFile ==
    /\ At("read")
    /\ IF IsMarked /\ Now.path \in Projected THEN Then(Projections("own"))
       ELSE Require(IsRegular(Entry(Now.path)), ReadFile(Now.path, "indexed"))
    /\ UNCHANGED known
-----------------------------------------------------------------------------
(* verifyRuntimeWorkspace and assertTrackedWorkspaceMatchesHead.            *)

AssertMatches == Step("head") \o Capture("own") \o Step("admit") \o Compare("own") \o Step("same head")

VerifyWorkspace ==
    IF IsMarked THEN Capture("host") \o Projections("host") \o AssertMatches \o Projections("host")
    ELSE AssertMatches

ReadHead == At("head") /\ Learn("head", head) /\ Then(<<>>)

\* Variant: every path is read once.
PassesOnce(paths) == ReadFiles(paths, "verified")

\* The index must be HEAD's, with regular files only; then every path is read, in
\* order, and once more in the opposite order.
Passes(paths) == ReadFiles(paths, "verified") \o ReadFiles(Reverse(paths), "verified")

AdmitEntries ==
    /\ At("admit")
    /\ LET tracked == {p \in Locations : ~IsAbsent(Entry(p))}
       IN  Require(/\ snapshot["own"].entries = snapshot["own"].tree
                   /\ \A p \in tracked : IsRegular(Entry(p))
                   /\ known.marked => \A p \in Projected : Entry(p) = snapshot["host"].entries[p],
                   Passes(InOrder(tracked)))
    /\ UNCHANGED known

SameHead == At("same head") /\ Require(head = known.head, <<>>) /\ UNCHANGED known
-----------------------------------------------------------------------------
(* Generation and build of Core.                                            *)

VerifySnapshotInputs(paths) ==
    Compare("own") \o Step("not indexed") \o RuntimeReads(paths) \o Compare("own")

NotIndexed == At("not indexed") /\ Require(IsAbsent(Entry(Generated)), <<>>) /\ UNCHANGED known

\* inputs(): what is there is listed, then each file is looked at and read.
ReadInputs(captured, purpose) ==
    StepFor("list", captured, "") \o StepFor("inputs", captured, purpose)

Present(scope) == {p \in scope : ~IsAbsent(tree[p])}

ListInputs ==
    /\ At("list")
    /\ Learn("entries", Nothing)
    /\ LET indexed == IF Now.of THEN {p \in Sources : ~IsAbsent(Entry(p))} ELSE {}
           listed == Present(Sources)
       IN  Then(ForEach(InOrder(listed), LAMBDA p : StepAt("lstat", p, "") \o StepAt("digest", p, ""))
                \o IF Now.of THEN VerifySnapshotInputs(InOrder(listed \cup indexed)) ELSE <<>>)

Lstat ==
    /\ At("lstat")
    /\ known' = [known EXCEPT !.entries[Now.path] = tree[Now.path]]
    /\ Require(IsRegular(tree[Now.path]), <<>>)
Digest ==
    /\ At("digest")
    /\ known' = [known EXCEPT !.entries[Now.path].bytes = tree[Now.path].bytes]
    /\ Require(~IsAbsent(tree[Now.path]), <<>>)

InputsRead ==
    /\ At("inputs")
    /\ IF Now.purpose = "before" THEN Learn("before", known.entries) /\ Then(<<>>)
       ELSE Require(known.entries = known.before, <<>>) /\ UNCHANGED known

\* The compiler reads each source at a moment of its own.
RunTypeScript == ForEach(InOrder(Sources), LAMBDA p : StepAt("compile", p, ""))
Compiles(c) == IsAbsent(c) \/ (IsRegular(c) /\ c.bytes # "broken")
Compile ==
    /\ At("compile")
    /\ Learn("compiled", known.compiled \cup {<<Now.path, tree[Now.path]>>})
    /\ Require(Compiles(tree[Now.path]), <<>>)

VerifyInputs(captured) ==
    ReadInputs(captured, "again")
    \o IF captured THEN ReadFile(Generated, "generated") ELSE Step("same generated")

SameGenerated == At("same generated") /\ Require(tree[Generated] = Emission, <<>>) /\ UNCHANGED known

GenerateCore(captured) ==
    (IF captured THEN VerifySnapshotInputs(<<>>) ELSE <<>>)
    \o Step("begin") \o ReadInputs(captured, "before") \o RunTypeScript
    \o ReadInputs(captured, "again") \o ReadInputs(captured, "again") \o ReadInputs(captured, "again")
    \o Step("write") \o VerifyInputs(captured)

\* ... and one of the three configurations that buildCore compiles.
BuildCore(captured) ==
    GenerateCore(captured) \o VerifyInputs(captured) \o RunTypeScript \o VerifyInputs(captured)

RemoveGenerated == tree' = [tree EXCEPT ![Generated] = Absent]

BeginBuild == At("begin") /\ RemoveGenerated /\ Learn("begun", TRUE) /\ Then(<<>>)

\* writeFile with the flag "wx"
WriteGenerated ==
    /\ At("write")
    /\ IF IsAbsent(tree[Generated]) THEN tree' = [tree EXCEPT ![Generated] = Emission]
       ELSE UNCHANGED tree
    /\ Require(IsAbsent(tree[Generated]), <<>>)
    /\ UNCHANGED known

CleanProduction ==
    /\ At("clean")
    /\ RemoveGenerated
    /\ todo' = <<>> /\ verdict' = "failed"
    /\ UNCHANGED known
-----------------------------------------------------------------------------
(* runGovernance, and the contract check, which reads its inputs once.      *)

Catalog == Compare("own") \o Step("untracked")
Govern(generates) ==
    Capture("own") \o Step("not indexed") \o RuntimeReads(InOrder(Inputs)) \o Catalog
    \o StepFor("inventory", FALSE, "keep")
    \o (IF generates
        THEN BuildCore(TRUE) \o StepFor("inventory", TRUE, "keep") \o ReadFile(Generated, "generated")
        ELSE <<>>)
    \o RuntimeReads(InOrder(Inputs)) \o Step("documents") \o Catalog
    \o StepFor("inventory", generates, "compare")
    \o (IF generates THEN VerifyInputs(TRUE) ELSE <<>>) \o Compare("own")

CheckContract == Capture("own") \o RuntimeReads(InOrder(Inputs)) \o Compare("own")

TrackedDocuments == InOrder({p \in Documents : ~IsAbsent(Entry(p))})

ReadDocuments == At("documents") /\ Then(RuntimeReads(TrackedDocuments)) /\ UNCHANGED known

\* `git ls-files --others` asks the index of now.
ListUntracked ==
    /\ At("untracked")
    /\ Require(\A p \in Documents : IsAbsent(index[p]) => IsAbsent(tree[p]),
               RuntimeReads(TrackedDocuments) \o Compare("own"))
    /\ UNCHANGED known

\* productionArtifactPaths: what is there and what is indexed, which must be readable.
TakeInventory ==
    /\ At("inventory")
    /\ LET indexed == {p \in Sources : ~IsAbsent(Entry(p))}
           found == Present(Sources \cup {Generated}) \cup indexed
                    \cup (IF Now.of THEN {Generated} ELSE {})
           linked == \E p \in found : tree[p].kind = "symlink"
       IN  IF Now.purpose = "keep"
           THEN Require(~linked, RuntimeReads(InOrder(indexed))) /\ Learn("inventory", found)
           ELSE Require(found = known.inventory, RuntimeReads(InOrder(indexed))) /\ UNCHANGED known
-----------------------------------------------------------------------------
Start ==
    /\ At("start")
    /\ known' = [known EXCEPT !.marked = IsMarked]
    /\ Then(CASE task = "verify" -> VerifyWorkspace
              [] task = "contract" -> CheckContract
              [] task = "govern" -> Govern(FALSE)
              [] task = "govern and build" -> Govern(TRUE)
              [] task = "build" -> BuildCore(FALSE))

Read ==
    \/ Start \/ ReadTree \/ ReadStaged
    \/ Inspect \/ Open \/ Confirm
    \/ MarkerNames \/ MarkerIsHead \/ SourceIsCommitted \/ ReadIndexSnapshotFile
    \/ ReadHead \/ AdmitEntries \/ SameHead
    \/ NotIndexed \/ ListInputs \/ Lstat \/ Digest \/ InputsRead \/ Compile \/ SameGenerated
    \/ ReadDocuments \/ ListUntracked \/ TakeInventory

Next ==
    \/ Edit
    \/ Read /\ UNCHANGED <<workspace, edits, past, task, snapshot>>
    \/ ReadDiff /\ UNCHANGED <<workspace, edits, past, task>>
    \/ (BeginBuild \/ WriteGenerated \/ CleanProduction)
       /\ UNCHANGED <<head, index, edits, past, task, snapshot>>

Init == \E scenario \in Scenarios : Begin(scenario)
Spec == Init /\ [][Next]_vars
-----------------------------------------------------------------------------
(* What each task promises of a workspace that others may change meanwhile. *)

\* What each task asks of a workspace w, which nobody changes.

Marked(w) == ~IsAbsent(w.tree[Marker])
MarkerFits(w) == IsRegular(w.tree[Marker]) /\ w.tree[Marker].bytes = w.head

\* The working tree has what it must for the content c of p.
Shows(w, p, c) ==
    IF Marked(w) /\ p \in Projected
    THEN /\ MarkerFits(w) /\ c = Commits[w.head][p] /\ c.bytes \in DOMAIN Projection
         /\ w.tree[p] = [c EXCEPT !.bytes = Projection[@]]
    ELSE w.tree[p] = c

MatchesCommit(w) ==
    /\ Marked(w) => MarkerFits(w) /\ \A p \in Projected : IsRegular(Commits[w.head][p])
    /\ \A p \in Locations : w.index[p] = Commits[w.head][p]
    /\ \A p \in Locations : ~IsAbsent(w.index[p]) => IsRegular(w.index[p]) /\ Shows(w, p, w.index[p])

\* A path that is read by the index: what is staged is what is there.
Readable(w, p) ==
    /\ IsRegular(w.index[p])
    /\ \E executable \in BOOLEAN : Shows(w, p, [w.index[p] EXCEPT !.executable = executable])

Capturable(w) == \A p \in Locations : w.index[p].kind # "unmerged"
InputsReadable(w) == \A p \in Inputs : Readable(w, p)

DocumentsReadable(w) ==
    \A p \in Documents : Readable(w, p) \/ (IsAbsent(w.index[p]) /\ IsAbsent(w.tree[p]))

Buildable(w) == \A p \in Sources : Compiles(w.tree[p])

SourcesReadable(w, generates) ==
    \A p \in Sources :
        \/ Readable(w, p)
        \/ IsAbsent(w.index[p]) /\ (IsAbsent(w.tree[p]) \/ (~generates /\ IsRegular(w.tree[p])))

Governable(w, generates) ==
    /\ InputsReadable(w) /\ DocumentsReadable(w) /\ SourcesReadable(w, generates)
    /\ IsAbsent(w.index[Generated]) /\ (generates => Buildable(w))

Fits(w) ==
    CASE task = "verify" -> MatchesCommit(w)
      [] task = "contract" -> Capturable(w) /\ InputsReadable(w)
      [] task = "govern" -> Capturable(w) /\ Governable(w, FALSE)
      [] task = "govern and build" -> Capturable(w) /\ Governable(w, TRUE)
      [] task = "build" -> Buildable(w)

\* The file at p is the captured one, or its projection in a marked checkout.
AgreesWith(entry, w, p) ==
    /\ IsRegular(entry) /\ IsRegular(w.tree[p])
    /\ \/ w.tree[p].bytes = entry.bytes
       \/ Marked(w) /\ p \in Projected /\ w.tree[p].bytes = Projection[entry.bytes]

\* A task that passed has not put its answer together from several workspaces:
\* there was one moment at which HEAD, the index and all the files it reads and
\* compiles were as it asks and as it found them, whoever changed what, once,
\* before and after.  (The contract check reads each file once: it only knows of
\* one index, and that each file agreed with it at some moment.)
PassedAtOneMoment ==
    verdict = "passed" =>
        IF task = "contract"
        THEN /\ \E w \in past : Capturable(w) /\ w.index = snapshot["own"].entries
             /\ \A p \in Inputs : \E w \in past : AgreesWith(Entry(p), w, p)
        ELSE \E w \in past :
                /\ Fits(w)
                /\ task = "verify" => w.head = known.head
                /\ task # "build" =>
                      w.index = snapshot["own"].entries /\ Commits[w.head] = snapshot["own"].tree
                /\ \A c \in known.compiled : c[2] = w.tree[c[1]]

\* A task fails only for a reason: if nobody changes the workspace, it passes one
\* that is as it asks.  And a build that fails leaves no production behind.
FailedForCause ==
    verdict = "failed" =>
        /\ Cardinality(past) = 1 => \A w \in past : ~Fits(w)
        /\ known.begun => IsAbsent(tree[Generated])

\* Neither verdict is an accident of who was at work meanwhile.
VerdictIsTrue == PassedAtOneMoment /\ FailedForCause
=============================================================================
