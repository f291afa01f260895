---------------------------- MODULE ReleaseCheckouts ----------------------------
(* What the tasks of ReleaseCandidate find: a workspace of "core", which has a   *)
(* public baseline, and of "leaf", which the decision pins; commits of it, the   *)
(* heads of pull requests among them; and what may be changed meanwhile.         *)
EXTENDS Integers, SequencesExt, TLC

One == <<"intent", "one">>
Two == <<"intent", "two">>
Core(kind) == <<kind, "core">>
Leaf(kind) == <<kind, "leaf">>
File(name) == <<"file", name>>

Files == <<
    Core("baseline"), Core("changelog"), Leaf("changelog"),
    File("config"), File("decision"), File("policy"), File("source"), File("stray"),
    One, Two, Core("manifest"), Leaf("manifest")>>

Workspaces == {"core", "leaf"}
Pair == {"core"}
Leaves == "leaf" :> 21
AdmittedRows == {<<"core", 70, 71, "patch">>}
Metadata == [old |-> 70, new |-> 71]

Nothing == <<>>
Is(data) == <<[mode |-> "file", data |-> data]>>
Executable(data) == <<[mode |-> "executable", data |-> data]>>
Settings(valid, ignore) == Is([valid |-> valid, ignore |-> ignore])
Intent(requests, summary) == Is([requests |-> requests, summary |-> summary])
Version(v, rest) == Is([version |-> v, rest |-> rest])
Api(v, api) == Is([version |-> v, api |-> api])
Section(v, note) == [version |-> v, notes |-> {note}]
OldLog(v) == <<Section(v, "old")>>
NewLog(new, old) == <<Section(71, new), Section(70, old)>>

With(t, changes) == changes @@ t

\* A workspace that is ready for the release of the cohort, and that release.
Prepared ==
    [f \in ToSet(Files) |->
        CASE f = Core("baseline") -> Api(70, "api")
          [] f = Core("changelog") -> Is(OldLog(70))
          [] f = Leaf("changelog") -> Is(OldLog(21))
          [] f = File("config") -> Settings(TRUE, {})
          [] f = File("decision") -> Is("accepted")
          [] f = File("policy") -> Is("pair")
          [] f = File("source") -> Is("source")
          [] f = One -> Intent("core" :> "patch", "fix")
          [] f = Core("manifest") -> Version(70, "rest")
          [] f = Leaf("manifest") -> Version(21, "rest")
          [] OTHER -> Nothing]

Released ==
    With(Prepared, One :> Nothing @@ Core("manifest") :> Version(71, "rest")
                   @@ Core("changelog") :> Is(NewLog("fix", "old"))
                   @@ Core("baseline") :> Api(71, "api"))

\* What may stand at a path instead.
Others ==
    [f \in ToSet(Files) |->
        CASE f = Core("baseline") -> {Api(71, "other"), Api(70, "api")}
          [] f = Core("changelog") ->
                {Nothing, Is(OldLog(70)), Is(NewLog("fix", "other")), Is(NewLog("other", "old")),
                 Executable(NewLog("fix", "old"))}
          [] f = File("config") -> {Settings(TRUE, {"core"})}
          [] f = File("decision") -> {Is("other")}
          [] f = File("policy") -> {Nothing}
          [] f \in {File("source"), File("stray")} -> {Is("other")}
          [] f = One ->
                {Nothing, Intent("core" :> "patch", "fix"), Intent("core" :> "patch", "words"),
                 Intent("core" :> "minor", "fix"), Intent(<<>>, "fix")}
          [] f = Two -> {Intent("leaf" :> "patch", "fix")}
          [] f = Core("manifest") -> {Version(70, "rest"), Version(80, "rest"), Version(71, "other")}
          [] OTHER -> {}]

Changes == UNION {{<<f, c>> : c \in Others[f]} : f \in DOMAIN Others}

KeyChanges == {e \in Changes : e[1] = One \/ e[1][2] = "core"}

Tool(name, kind) == <<<<"tools", name>>, kind>>
ToolChanges ==
    {Tool("engine", k) : k \in {"rewriter", "other request", "other summary", "lost intent",
                                "stray output", "kept intent", "lost history", "other range"}}
    \cup {Tool("producer", k) : k \in {"failing", "stray output", "other interface"}}
    \cup {Tool("build", "rewriter")}

HeadMoves == <<<<"head">>, "leaf">>
MainMoves == <<<<"main">>, "leaf">>
-----------------------------------------------------------------------------
Root(t) == [tree |-> t, ancestors |-> {}]
Child(t, of) == [tree |-> t, ancestors |-> {of}]

NoRequest == With(Prepared, One :> Intent(<<>>, "fix"))
LeafRequest == Intent("leaf" :> "patch", "fix")
IgnoringLeaf == File("config") :> Settings(TRUE, {"leaf"})

Sources ==
    "cohort" :> Prepared
    @@ "none" :> NoRequest
    @@ "future" :> With(Prepared, One :> Intent("core" :> "minor", "fix"))
    @@ "leaf" :> With(Prepared, One :> LeafRequest @@ Leaf("changelog") :> Nothing)
    @@ "ignored" :> With(Prepared, IgnoringLeaf @@ Two :> LeafRequest)
    @@ "mixed" :> With(Prepared, IgnoringLeaf @@ One :> Intent("leaf" :> "patch" @@ "core" :> "patch", "fix"))
    @@ "bare" :> With(NoRequest, File("policy") :> Nothing @@ Two :> Intent("core" :> "minor", "fix"))
    @@ "unauthorized" :> With(Prepared, File("decision") :> Is("other"))
    @@ "unpinned" :> With(Prepared, Leaf("manifest") :> Version(20, "rest"))
    @@ "behind" :> With(Prepared, Core("baseline") :> Api(69, "api"))
    @@ "executable" :> With(Prepared, Core("changelog") :> Executable(OldLog(70)))
    @@ "broken" :> With(Prepared, File("config") :> Settings(FALSE, {}))

\* Heads that are the release but for one path.
Tampered == {e \in Changes : Released[e[1]] # e[2]}
Name(e) == ToString(e)
TamperedHeads == [n \in {Name(e) : e \in Tampered} |->
    LET e == CHOOSE e \in Tampered : Name(e) = n IN Child(With(Released, e[1] :> e[2]), "cohort")]
TamperedLogs == {Name(e) : e \in {e \in Tampered : e[1] = Core("changelog")}}

Commits ==
    [c \in DOMAIN Sources |-> Root(Sources[c])]
    @@ "release" :> Child(Released, "cohort") @@ "stale" :> Root(Released)
    @@ "empty" :> Child(NoRequest, "none") @@ TamperedHeads
-----------------------------------------------------------------------------
Releasing == {"status", "version", "check-pr"}

AtHome(t, c) ==
    [task |-> t, head |-> c, tree |-> Commits[c].tree, main |-> "cohort", edits |-> {},
     tools |-> [engine |-> "genuine", producer |-> "genuine", build |-> "genuine"],
     input |-> [hidden |-> {}, processed |-> c, base |-> "", head |-> ""]]
TasksAt(c) == {AtHome(t, c) : t \in {"status", "version"}}
Pull(base, h) == [AtHome("check-pr", "cohort") EXCEPT !.input.base = base, !.input.head = h, !.main = base]

Changed(s, e) ==
    IF e[1] \in ToSet(Files) THEN [s EXCEPT !.tree[e[1]] = e[2]] ELSE [s EXCEPT !.tools[e[1][2]] = e[2]]

\* Nobody is at work; a change of a file may be hidden from `git status`.
Still ==
    UNION {TasksAt(c) : c \in DOMAIN Sources}
    \cup {Changed(s, e) : s \in TasksAt("cohort") \cup TasksAt("leaf"), e \in Changes \cup ToolChanges}
    \cup {[Changed(s, e) EXCEPT !.input.hidden = {e[1]}] : s \in TasksAt("cohort"), e \in Changes}
    \cup {[s EXCEPT !.input.processed = "leaf"] : s \in TasksAt("cohort")}
    \cup {Pull("cohort", h) : h \in {"release", "stale", "cohort"} \cup DOMAIN TamperedHeads}
    \cup {Pull("none", "release"), Pull("none", "empty"), Pull("future", "release"),
          [Pull("cohort", "release") EXCEPT !.main = "leaf"]}
    \cup {Changed(Pull("cohort", h), e) : h \in {"release"} \cup TamperedLogs, e \in ToolChanges}

\* One change, or two at different places, at any moments.
Disturbed ==
    {[s EXCEPT !.edits = {e}] : s \in TasksAt("cohort"), e \in Changes \cup ToolChanges \cup {HeadMoves, MainMoves}}
    \cup {[AtHome("version", "leaf") EXCEPT !.edits = {e}] : e \in Changes}
    \cup {[Pull("cohort", "release") EXCEPT !.edits = {e}] : e \in ToolChanges \cup {MainMoves}}
    \cup {[AtHome("version", "cohort") EXCEPT !.edits = {ab[1], ab[2]}] :
             ab \in {ab \in KeyChanges \X KeyChanges : ab[1][1] # ab[2][1]}}

Scenarios == Still \cup Disturbed
=============================================================================
