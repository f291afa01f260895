--------------------------------- MODULE Layout ---------------------------------
(***************************************************************************)
(* packages/conformance: checkModuleLayout() over the records that a        *)
(* collector has of a source tree.  It starts with a tree that follows the  *)
(* standard, and a few edits slip in: an import comes, goes or becomes one  *)
(* of types, a file is moved, or is gone when the imports are collected.    *)
(*                                                                           *)
(* A path is its directories, and the stem and the kind that the name of    *)
(* its file says; a text that is no source file, and the spelling of an     *)
(* extension, are left out.                                                  *)
(***************************************************************************)
EXTENDS Integers, SequencesExt, FiniteSetsExt

CONSTANTS
    Trees,      \* [files, imports, exports], as the standard wants them
    MaxEdits

VARIABLES
    tree,
    touched,    \* the files that an edit concerns
    edits
layout == <<tree, touched, edits>>

Host == <<>>
-----------------------------------------------------------------------------
(* Reading the records.                                                       *)

Normalized(path) == path.dirs \o <<path.stem>> = SelectSeq(path.dirs \o <<path.stem>>, LAMBDA s : s \notin {"", ".", ".."})

Readable(t) ==
    /\ IsInjective(t.files) /\ \A f \in ToSet(t.files) : Normalized(f)
    /\ \A e \in ToSet(t.imports) : /\ Normalized(e.from) /\ Normalized(e.to)
                                   /\ e.mode \in {"type", "value"} /\ e.from \in ToSet(t.files)
    /\ \A f \in DOMAIN t.exports : Normalized(f) /\ ToSet(t.exports[f]) \subseteq {"function", "value"}

\* The innermost directory below one that is called features, if anything is in it.
Site(dirs) ==
    LET marks == {k \in 1..(Len(dirs) - 1) : dirs[k] = "features"}
    IN  IF marks = {} THEN Host ELSE SubSeq(dirs, 1, Max(marks) + 1)

Parent(site) == Site(Front(site))

\* What was not collected has no site, as a file of the host.
SiteIn(t, path) == IF path \in ToSet(t.files) THEN Site(path.dirs) ELSE Host

Outgoing(t, path) == SelectSeq(t.imports, LAMBDA e : e.from = path)
Importers(t, path) == SelectSeq(t.imports, LAMBDA e : e.to = path /\ e.mode = "value")

\* How many segments a path has below the directory called composition.
BelowComposition(path) ==
    LET site == Site(path.dirs)
        marks == {k \in DOMAIN path.dirs : /\ path.dirs[k] = "composition"
                                           /\ site # Host => k = Len(site) + 1}
    IN  IF marks = {} THEN 0 ELSE Len(path.dirs) - Max(marks) + 1

\* Whether the stem is the name of the feature; the host has none to follow.
OwnSegment(path) == LET site == Site(path.dirs) IN site = Host \/ path.stem = Last(site)

IsDescriptor(path) == path.kind = "contracts" /\ BelowComposition(path) = 1 /\ OwnSegment(path)

GroupPathOf(site) == [dirs |-> Append(site, "composition"), stem |-> Last(site), kind |-> "group"]
-----------------------------------------------------------------------------
(* The violations of a file, each with the file that it is related to.        *)

Violation(code, path, other) == [code |-> code, path |-> path, related |-> other]
When(condition, code, path, other) == IF condition THEN {Violation(code, path, other)} ELSE {}

Exports(t, path) == IF path \in DOMAIN t.exports THEN t.exports[path] ELSE <<>>
IsUseCase(path) ==
    \E k \in 2..(Len(path.dirs) - 1) : path.dirs[k] = "application" /\ path.dirs[k + 1] = "use-cases"

PlacementViolations(t, path) ==
    When(path.kind = "contracts" /\ ~IsDescriptor(path), "descriptor-path", path, path)
    \cup When(BelowComposition(path) > 1, "nested-composition", path, path)
    \cup When(Len(path.dirs) > 1 /\ Last(path.dirs) = "application", "application-file", path, path)
    \cup When(IsUseCase(path) /\ Exports(t, path) # <<"function">>, "use-case-export", path, path)

Declares(t, path) ==
    \E e \in ToSet(Outgoing(t, path)) :
        e.mode = "value" /\ e.to.kind = "declaration" /\ SiteIn(t, e.to) = Site(path.dirs)

Consumers(t, path) ==
    {e \in ToSet(Importers(t, path)) : /\ Site(e.from.dirs) = Site(path.dirs)
                                       /\ e.from.kind = "module" \/ (e.from.kind = "inputs" /\ OwnSegment(e.from))}

DeclarationViolations(t, path) ==
    When(path.kind = "module" /\ ~Declares(t, path), "module-declaration", path, path)
    \cup When(path.kind = "declaration" /\ Consumers(t, path) = {}, "orphan-declaration", path, path)
    \cup {Violation("descriptor-path", path, e.to) : e \in
            {e \in ToSet(Outgoing(t, path)) :
                /\ path.kind = "declaration" /\ e.to.kind = "contracts"
                /\ ~(e.to \in ToSet(t.files) /\ IsDescriptor(e.to))}}

\* The bug of an earlier release: every importer that builds a module owns it.
ListsOrNames(e) == e.from.kind \in {"group", "root"}

\* A root that imports a module to name it does not count when a group lists it.
Lists(e) == e.from.kind = "group"

OwnerViolations(t, path) ==
    LET site == Site(path.dirs)
        groups == SelectSeq(Importers(t, path), Lists)
        roots == SelectSeq(Importers(t, path), LAMBDA e : e.from.kind = "root")
        Own(e) == IF site = Host THEN Site(e.from.dirs) = Host ELSE e.from = GroupPathOf(site)
    IN  When(groups # <<>> /\ ~(Len(groups) = 1 /\ Own(groups[1])), "group-count", path, path)
        \cup When(groups = <<>> /\ site = Host /\ Len(roots) > 1, "group-count", path, path)
        \cup When(groups = <<>> /\ (site # Host \/ roots = <<>>), "orphan-module", path, path)

GroupViolations(t, path) ==
    LET parent == Parent(Site(path.dirs))
    IN  {Violation(IF e.from.kind = "root" THEN "root-imports-sub-feature-group"
                   ELSE "child-group-outside-parent", e.from, path) : e \in
            {e \in ToSet(Importers(t, path)) : e.from.kind = "root" \/ e.from # GroupPathOf(parent)}}

Violations(t) ==
    UNION {PlacementViolations(t, f) \cup DeclarationViolations(t, f) : f \in ToSet(t.files)}
    \cup UNION {OwnerViolations(t, f) : f \in {f \in ToSet(t.files) : f.kind = "module"}}
    \cup UNION {GroupViolations(t, f) : f \in {f \in ToSet(t.files) :
                    f.kind = "group" /\ Site(f.dirs) # Host /\ Parent(Site(f.dirs)) # Host}}

ModulesPerFeature(t) ==
    [s \in {Site(f.dirs) : f \in ToSet(t.files)} \ {Host} |->
        Cardinality({f \in ToSet(t.files) : f.kind = "module" /\ Site(f.dirs) = s})]

checkModuleLayout(t) ==
    IF ~Readable(t) THEN [kind |-> "invalid"]
    ELSE [kind |-> IF Violations(t) = {} THEN "passes" ELSE "violation",
          violations |-> Violations(t), modules |-> ModulesPerFeature(t)]
-----------------------------------------------------------------------------
(* Edits.                                                                     *)

NoTree == [files |-> <<>>, imports |-> <<>>, exports |-> <<>>]

LayoutInit == tree = NoTree /\ touched = {} /\ edits = 0

Collect == tree = NoTree /\ tree' \in Trees /\ UNCHANGED <<touched, edits>>

Edit(t, files) == tree' = t /\ touched' = touched \cup files /\ edits' = edits + 1

Import ==
    \E f, g \in ToSet(tree.files) : \E mode \in {"type", "value"} :
        /\ f # g /\ g.kind \notin {"root", "source"}
        /\ Edit([tree EXCEPT !.imports = Append(@, [from |-> f, to |-> g, mode |-> mode])], {f, g})

DropImport ==
    \E k \in DOMAIN tree.imports :
        Edit([tree EXCEPT !.imports = RemoveAt(@, k)], {tree.imports[k].from, tree.imports[k].to})

ChangeMode ==
    \E k \in DOMAIN tree.imports :
        Edit([tree EXCEPT !.imports[k].mode = IF @ = "type" THEN "value" ELSE "type"],
             {tree.imports[k].from, tree.imports[k].to})

Neighbours(f) == UNION {{e.from, e.to} : e \in {e \in ToSet(tree.imports) : f \in {e.from, e.to}}}

\* A file is moved into a subdirectory, or out of its feature, and its imports follow.
Move ==
    \E k \in DOMAIN tree.files :
        LET f == tree.files[k]
            outside == {SubSeq(s, 1, Len(s) - 2) \o <<"composition">> : s \in {Site(f.dirs)} \ {Host}}
        IN  \E dirs \in {Append(f.dirs, "parts")} \cup outside :
                LET g == [f EXCEPT !.dirs = dirs]
                    Renamed(h) == IF h = f THEN g ELSE h
                IN  /\ g \notin ToSet(tree.files)
                    /\ Edit([files |-> [tree.files EXCEPT ![k] = g],
                             imports |-> [j \in DOMAIN tree.imports |->
                                 [tree.imports[j] EXCEPT !.from = Renamed(@), !.to = Renamed(@)]],
                             exports |-> [h \in {Renamed(x) : x \in DOMAIN tree.exports} |->
                                 tree.exports[IF h = g THEN f ELSE h]]],
                            Neighbours(f) \cup {f, g})

\* A file is gone when the collector comes to list it.
Vanish ==
    \E k \in DOMAIN tree.files :
        Edit([tree EXCEPT !.files = RemoveAt(@, k)], Neighbours(tree.files[k]) \cup {tree.files[k]})

ChangeExports ==
    \E f \in DOMAIN tree.exports : \E list \in {<<>>, <<"value">>, <<"function", "value">>} :
        Edit([tree EXCEPT !.exports[f] = list], {f})

LayoutNext ==
    \/ Collect
    \/ edits < MaxEdits /\ (Import \/ DropImport \/ ChangeMode \/ Move \/ Vanish \/ ChangeExports)

LayoutSpec == LayoutInit /\ [][LayoutNext]_layout
-----------------------------------------------------------------------------
(* What a verdict says.                                                       *)

\* The sites from a feature up to the one that is in no other.
Line(site) == {SubSeq(site, 1, k) : k \in {k \in 2..Len(site) : site[k - 1] = "features"}}

\* The files from which a value comes to f, up to the group of the outermost feature.
Above(site) ==
    LET top == GroupPathOf(CHOOSE s \in Line(site) : \A other \in Line(site) : Len(s) <= Len(other))
        Wider(S) == S \cup {e.from : e \in {e \in ToSet(tree.imports) :
                        e.mode = "value" /\ e.to \in S /\ e.to # top}}
        reach[k \in 0..Len(tree.files)] == IF k = 0 THEN {GroupPathOf(site)} ELSE Wider(reach[k - 1])
    IN  reach[Len(tree.files)]

\* Who builds a module: the groups that list it, or the roots if none does.
Owners(m) ==
    LET from == {e.from : e \in {e \in ToSet(tree.imports) : e.to = m /\ e.mode = "value"}}
        groups == {f \in from : f.kind = "group"}
    IN  IF groups # {} THEN groups ELSE {f \in from : f.kind = "root"}

\* Types own, place and use nothing: all that is said of them is in a declaration.
WithoutTypes == [tree EXCEPT !.imports =
    SelectSeq(@, LAMBDA e : e.mode = "value" \/ e.from.kind = "declaration")]

\* checkModuleLayout: a tree that follows the standard passes.  Of a tree that passes,
\* whatever was edited, one file builds each module, and what a sub-feature builds is
\* reached from outside only through the groups of the features around it, one level
\* at a time; and each violation is about a file that an edit concerns.
LayoutIsTrue ==
    LET report == checkModuleLayout(tree)
    IN  /\ edits = 0 => report.kind = "passes"
        /\ report.kind = "passes" =>
              \A m \in {f \in ToSet(tree.files) : f.kind = "module"} :
                  LET site == Site(m.dirs)
                  IN  /\ Cardinality(Owners(m)) = 1
                      /\ \A f \in Owners(m) :
                            IF site = Host THEN f.kind = "group" => Site(f.dirs) = Host
                            ELSE f = GroupPathOf(site)
                      /\ site # Host => Above(site) \subseteq {GroupPathOf(s) : s \in Line(site)}
        /\ report.kind = "violation" =>
              \A v \in report.violations : {v.path, v.related} \cap touched # {}
        /\ report.kind # "invalid" => report.violations = Violations(WithoutTypes)
=============================================================================
