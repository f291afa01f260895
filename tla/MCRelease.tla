------------------------------- MODULE MCRelease -------------------------------
(* Either the publication of two packages, of which a version of "core" is     *)
(* retained and "leaf" 0.2.1 is pinned; or one task in a workspace, which is a *)
(* check of it or a task of the release candidate.                             *)
EXTENDS NpmRelease, TLC

CommitOf(core, coreTree, leaf, leafTree, tools) ==
    [version |-> [p \in Packages |-> IF p = "core" THEN core ELSE leaf],
     tree |-> [p \in Packages |-> IF p = "core" THEN coreTree ELSE leafTree], tools |-> tools]

Start == CommitOf(<<0, 6, 1>>, 1, <<0, 2, 0>>, 1, 1)
NewLeaf == CommitOf(<<0, 6, 1>>, 1, <<0, 2, 1>>, 2, 1)

OnlyStart == <<Start>>

MCHistories == {
    OnlyStart,
    \* a new version of core, only documentation, and both again
    <<Start, CommitOf(<<0, 7, 0>>, 2, <<0, 2, 0>>, 1, 1), CommitOf(<<0, 7, 0>>, 2, <<0, 2, 0>>, 1, 1)>>,
    <<Start, CommitOf(<<0, 7, 0>>, 2, <<0, 2, 0>>, 1, 1), CommitOf(<<0, 8, 0>>, 3, <<0, 3, 0>>, 3, 1)>>,
    \* new versions that are reverted
    <<Start, CommitOf(<<0, 7, 0>>, 2, <<0, 3, 0>>, 3, 1), Start>>,
    \* the source of a version changes
    <<Start, CommitOf(<<0, 7, 0>>, 2, <<0, 3, 0>>, 3, 1), CommitOf(<<0, 7, 0>>, 3, <<0, 4, 0>>, 3, 1)>>,
    \* the cohort with other tools, and a commit that is not the cohort
    <<NewLeaf, CommitOf(<<0, 7, 1>>, 2, <<0, 2, 1>>, 2, 2), CommitOf(<<0, 7, 2>>, 2, <<0, 2, 1>>, 2, 2)>>,
    \* the cohort with another source of leaf
    <<NewLeaf, CommitOf(<<0, 7, 1>>, 2, <<0, 2, 1>>, 3, 2)>>,
    \* a retained version with its tools, and with others
    <<Start, CommitOf(<<0, 6, 2>>, 4, <<0, 3, 0>>, 1, 1), CommitOf(<<0, 6, 2>>, 4, <<0, 3, 0>>, 1, 2)>>}

MCRetainedPins ==
    {[package |-> "core", version |-> <<0, 6, 2>>, tree |-> 4, bytes |-> [tree |-> 4, tools |-> 0]]}

MCCohort == [p \in Packages |-> IF p = "core" THEN <<0, 7, 1>> ELSE <<0, 2, 1>>]
MCCohortPins == {[package |-> "leaf", version |-> <<0, 2, 1>>, bytes |-> [tree |-> 2, tools |-> 1]]}
-----------------------------------------------------------------------------
(* The workspace: a document, the root manifest (which a marked checkout       *)
(* projects), and two sources.  Every file has the bytes "one" in most commits. *)

VARIABLES head, index, tree, edits, past, task, todo, verdict, snapshot, known
atRest == <<head, index, tree, edits, past, task, todo, verdict, snapshot, known>>

Paths == <<"adr", "module", "package", "seed">>
Documents == {"adr"}
Inputs == {"package"}
Sources == {"module", "seed"}
Projected == {"package"}
Projection == "one" :> "projected"
Marker == "marker"
Generated == "generated"

Places == {"adr", "module", "package", "seed", "marker", "generated"}
Is(kind, bytes, executable) == [kind |-> kind, bytes |-> bytes, executable |-> executable]
One == Is("regular", "one", FALSE)
Two == Is("regular", "two", FALSE)
Link == Is("symlink", "one", FALSE)
None == Is("absent", "", FALSE)

First == [p \in Places |-> IF p \in {"marker", "generated"} THEN None ELSE One]
Commits == "first" :> First @@ "again" :> First @@ "next" :> [First EXCEPT !["module"] = Two]

Plain == [head |-> "first", index |-> First, tree |-> First]
MarkedCheckout == [Plain EXCEPT !.tree = ("package" :> Is("regular", "projected", FALSE))
                                         @@ ("marker" :> Is("regular", "first", FALSE)) @@ First]

\* A change of one location, applied to a workspace w, and its way back.
Change(at, path, to) == [at |-> at, path |-> path, to |-> to]
Applied(w, e) == IF e.at = "head" THEN [w EXCEPT !.head = e.to] ELSE [w EXCEPT ![e.at][e.path] = e.to]
Undone(w, e) == [e EXCEPT !.to = IF e.at = "head" THEN w.head ELSE w[e.at][e.path]]

KeyChanges ==
    {Change("head", "", c) : c \in {"again", "next"}}
    \cup {Change("index", p, Two) : p \in {"adr", "module"}}
    \cup {Change("tree", p, Two) : p \in {"adr", "module", "package", "seed"}}
    \cup {Change("tree", "adr", None)}
MarkerChanges ==
    {Change("tree", "marker", c) :
        c \in {None, Link, Is("regular", "next", FALSE), Is("regular", "none", FALSE)}}
OtherChanges ==
    {Change("index", "package", c) : c \in {Two, None, Is("intent-to-add", "", FALSE)}}
    \cup {Change("index", "adr", c) :
             c \in {None, Link, Is("unmerged", "one", FALSE), Is("regular", "one", TRUE)}}
    \cup {Change("tree", p, c) : p \in {"adr", "seed"}, c \in {None, Link, Is("regular", "one", TRUE)}}
    \cup {Change("tree", "seed", Is("regular", "broken", FALSE)),
          Change("index", "generated", One), Change("tree", "generated", Two)}

Tasks == {"verify", "contract", "govern", "govern and build", "build"}
Checks == Tasks \ {"build"}
Scenario(t, w, es) == [task |-> t, head |-> w.head, index |-> w.index, tree |-> w.tree, edits |-> es]

Pairs(changes) == {ab \in changes \X changes : ab[1].at # ab[2].at \/ ab[1].path # ab[2].path}

\* Nobody is at work, and up to two locations are not as they are in the commit.
Still(tasks, w, changes) ==
    {Scenario(t, Applied(Applied(w, a), b), {}) : t \in tasks, a \in changes, b \in changes}

\* One location is wrong and is put right, another one is right and is changed.
Crossing(tasks, w, changes) ==
    {Scenario(t, Applied(w, ab[1]), {Undone(w, ab[1]), ab[2]}) : t \in tasks, ab \in Pairs(changes)}

\* Two locations that are right are changed.
Leaving(tasks, w, changes) ==
    {Scenario(t, w, {ab[1], ab[2]}) : t \in tasks, ab \in Pairs(changes)}

Scenarios ==
    Still(Tasks, Plain, KeyChanges) \cup {Scenario(t, Plain, {}) : t \in Tasks}
    \cup {Scenario(t, Applied(Plain, e), {}) : t \in Tasks, e \in OtherChanges}
    \cup Still(Checks, MarkedCheckout, MarkerChanges \cup {Change("tree", "package", Two)})
    \cup {Scenario(t, MarkedCheckout, {}) : t \in Checks}
    \cup Crossing(Tasks \ {"govern"}, Plain, KeyChanges)
    \cup Crossing({"verify", "contract", "govern"}, MarkedCheckout, KeyChanges \cup MarkerChanges)
    \cup Leaving({"verify", "govern and build"}, Plain, {e \in KeyChanges : e.path # "adr"})

Repository == INSTANCE WorkspaceCustody
VerdictIsTrue == task \in Tasks => Repository!VerdictIsTrue

\* The checkout of the release candidate, whose `main` is origin/main.
VARIABLES tools, origin, disturbed, input, replay, work, wrote
others == <<tools, origin, disturbed, input, replay, work, wrote>>

Checkout == INSTANCE ReleaseCheckouts
CheckoutFiles == Checkout!Files
CheckoutCommits == Checkout!Commits
CheckoutScenarios == Checkout!Scenarios
Releasing == Checkout!Releasing

Host == INSTANCE ReleaseCandidate WITH
    Files <- CheckoutFiles, Packages <- Checkout!Workspaces, Pair <- Checkout!Pair,
    Leaves <- Checkout!Leaves, Cohort <- Checkout!AdmittedRows, Metadata <- Checkout!Metadata,
    Commits <- CheckoutCommits, Scenarios <- CheckoutScenarios, main <- origin
CandidateIsTrue == task \in Releasing => Host!CandidateIsTrue
-----------------------------------------------------------------------------
\* Either the publication, or a task in the workspace of a released main.
NoTask ==
    /\ head = "" /\ index = <<>> /\ tree = <<>> /\ edits = {} /\ past = {}
    /\ task = "none" /\ todo = <<>> /\ verdict = "none" /\ snapshot = <<>> /\ known = <<>>
NoOthers ==
    /\ tools = <<>> /\ origin = "" /\ disturbed = FALSE /\ input = <<>>
    /\ replay = <<>> /\ work = <<>> /\ wrote = {}

MCInit ==
    \/ Init /\ NoTask /\ NoOthers
    \/ Init /\ history = OnlyStart /\ Repository!Init /\ NoOthers
    \/ Init /\ history = OnlyStart /\ Host!Init
       /\ index = <<>> /\ past = {} /\ snapshot = <<>>

MCNext ==
    \/ task = "none" /\ Next /\ UNCHANGED <<atRest, others>>
    \/ task \in Tasks /\ Repository!Next /\ UNCHANGED <<vars, others>>
    \/ task \in Releasing /\ Host!Next /\ UNCHANGED <<vars, index, past, snapshot>>

MCSpec == MCInit /\ [][MCNext]_<<vars, atRest, others>> /\ Fairness
=============================================================================
