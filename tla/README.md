# Verification of Get Modular

TLA+ models of the packages under `src/packages` and of the tools under
`src/architecture` that publish and check them, the TLC configurations that
check the models on small instances, and theorems about them that TLAPS proves
for every instance.  Paths below are relative to `src/packages` unless they start
with `docs/`, `architecture/` or `.github/`.

Contents: [1 inventory](#1-inventory), [2 plan](#2-plan),
[3 modules and code](#3-modules-and-the-code-they-model),
[4 runs](#4-runs-and-their-bounds), [5 fairness](#5-fairness),
[6 proofs](#6-proofs), [7 findings](#7-findings),
[8 limits](#8-what-is-only-model-checked-and-what-is-not-modelled).

## 1. Inventory

| Component | Code | State it keeps | Operations | What is hard |
| --- | --- | --- | --- | --- |
| Resource scopes | `resources/src/features/scope` | a tree of scopes: release slots, failed and active entries, pending setups, one close flight per scope, abort signals, a queue of flights to start | `setup`, `use`, `child`, `scoped`, `close({escalate, abandon})`, retry by closing again | user code runs in the middle of almost every operation (abort listeners, the synchronous part of setups and cleanups) and may call every operation again; reports, retries and detaching race across awaits |
| Lifecycle kernel | `lifecycle-kernel/src/features/lifecycle/kernel.ts` | phase and two counters per generation, one record per lease | `stage`, `activate`, `quiesce`, `resume`, `retire`, `beginCall`, `retainCustody`, `checkCall`, `release`, `finishRetirement`, `snapshot` | any order of calls by several holders; the counters must equal the leases they stand for |
| Observation stores | `observation/src/features/{store,delivery,testing}` | values with a revision, subscriptions, a set of dirty ones, one active and one waiting job per load, counters, delivery tasks and contexts | `set`, `watch`, `load`, `close`, the drain of a load, the waits of the tests | commits, deliveries, runs, publications and closings interleave on the event loop; callbacks write, subscribe and close; depth of a cascade |
| Composition core: graph | `core/src/features/composition-semantics` (`selected-graph`, `graph-components`, `ready-queue`, `semantic-analysis`) | stacks of two depth-first passes, indegrees, depths, a heap of ready nodes | cycles, construction order, reachability, depth limit | iterative algorithms whose result must not depend on the order of the input; partial graphs after earlier failures |
| Composition core: censuses | the same feature (`declaration-census`, `profile-census`, `selected-bindings`, `binding-record`) | tables of declarations, selections and bindings | one pass each, with diagnostics | what is reported once, and what a later pass may assume |
| Diagnostics | `core/src/features/diagnostics` | a bounded heap of the least diagnostics and a saturating count | `emit`, `finish` | the limit, the overflow record, the total order |
| Admission of a batch | `core/src/features/{compiler-facade,input-admission}` | captured documents, budgets left, what was admitted | both entries of `compile` | one document's failure must neither silence nor multiply what is said of the others; shared budgets |
| Admission of one document | `core/src/features/{input-admission,raw-scanner}` | the stack of frames of the scan, meters of values, bytes and depth, the prefix that was read | scan, replay of duplicates, shape, numeric pass; the walk over objects | iterative passes over a prefix that may end anywhere and that must agree with each other; exact numbers |
| Canonicalization, plan output, authoring | the other features of `core` | none | writing of documents, types | no state |
| Construction runs | `assembly/src/features/construction/run.ts`, `prepare-program.ts` | per run: the step, provider map, journal, the product not yet claimed, signal | `run({signal, scope, inputs})` | user factories run inside; runs overlap; aborts, hostile promises and products, a commit that throws |
| Preparation | `assembly/src/features/construction` (`prepare`, `derive-profile`, `group`, `snapshot`, `format-failure`) | owned snapshots, derived profile | `prepareConstruction`, `composeModuleGroup`, `formatFailure` | the caller's objects may change while Core is awaited; a refusal must name what is to be repaired |
| Conformance | `conformance/src/features` (`wiring`, `harness`, `suites`, `layout`) | per use: attempts with a signal and a scope each, and what was seen of them | `checkWiring`, `smoke`, `isolate`, the cases of a suite, `checkModuleLayout` | what a check lets through; disturbances are found by the signal of a run, and user code does what it should not in the middle of one |
| Publication | `.github/workflows/{ci,npm-release}.yml`, `architecture/tooling/npm-release` | main, CI runs, release runs and their artifacts, versions and tags of the registry | merge, CI, prepare, publish, verify, promote, dispatch, re-run | main moves while a run works; runs are dropped from the concurrency group, fail half way and are run again |
| First publication | `architecture/tooling/first-core-release.mjs` | a durable checkpoint, the record of the run, the registry and what it answers | observe, upload, consume, promote, resume | an answer that is lost or lags says nothing of the write; a crash between announcing a write and asking for it |
| Release candidate | `architecture/tooling/release-candidate` | the checkout, its HEAD and the copies a task makes of it | `version`, the check of a release pull request by replay | tools that are not what they were, heads that hold more than a release, places that change while a task reads them |
| Qualification judge | `architecture/checks/v1-qualification.mjs` | none | cycles and order, truth and necessity of a diagnostic, plan of a profile | it is a second compiler: the two must agree on every batch |
| Workspace checks | `architecture/checks/{governance.mjs,v1-contract.mjs,production-artifacts.mjs,tracked-file-custody.ts,projection-custody.ts}`, `architecture/tooling` (`generate-core.ts`, `build-core.ts`, `generated-production-source.ts`) | none of their own: HEAD, index and working tree, read one by one | governance, contract, verification of the workspace, build of Core | others commit, stage and write between two reads |
| Other tooling | the rest of `architecture` and `.github` | none at run time | what the governance checks say of the bytes they read, codemods, evidence | scripts that read files and compare them |

How they interact.  A Host compiles a composition with Core, gives the plan to
Assembly, and a construction run calls the factories in the plan's order.  The
factories register what they acquire with a resource scope (`scoped()` links the
module's scope to the signal of the run) and follow stores with a scope of their
own, whose abort detaches them and whose cleanup waits for the drain of a load.
The Host keeps generations of modules in the lifecycle kernel and closes scopes
when a generation may retire.  The packages share no state; they meet in these
calls, in abort signals and in promises.  All of them run on one JavaScript
thread: what interleaves is user code called in the middle of an operation, and
the continuations of promises.  The tools are processes that read and write a
checkout, a registry and a host of workflows; what interleaves with them is
everybody else.

What makes each correct:

* scopes: a closed subtree accepts nothing, releases everything once, in reverse
  order, after the setups that had started and outside abort notifications; a
  caller that is told *complete* can rely on it; reports are exact; escalation
  reaches what it is meant for; every close is answered;
* kernel: admission follows the phase, counters are exact, a generation retires
  only when nothing retains it, revocation is for good;
* stores: nobody misses the newest value, nobody is called after detaching, a
  load shows only current outcomes, a drain never ends under a running loader;
* graph and diagnostics: exact cycles, the one least topological order, the
  least diagnostics in order, a plan exactly for a selection that can be built;
* documents and batches: a text is decoded exactly if it is JSON and within the
  limits; each fault is told, once, at its place; both entries agree; nothing is
  called absent that was supplied, and the order of registration is immaterial;
* preparation: the program is made of what the caller had passed when it called,
  and both modes make the same one; a refusal tells the whole cause, and no part
  of it that may be secret unless asked;
* runs: every product a factory made is handed to exactly one owner and is
  reported, no factory is called after the abort, the outcome is true;
* texts of failures: they are short enough, and what they show and what they
  count together is all that was reported;
* wiring check: a plan that passes has the providers that the oracle pins, in
  the pinned order; a module built alone gets in each slot what its test supplies;
* conformance harness: what it reports of a run is what happened in it, every
  product it made is released, and it ends; the layout check passes a tree
  exactly if the standard of layouts holds of it;
* publication: `latest` never goes backwards and only ever names bytes of a
  qualified commit, and what main has is released in the end;
* first publication: no write is asked for twice, however often the procedure is
  resumed, and what a run reports is so;
* release candidate: what passes is a release that a commit describes;
* judge: it accepts whatever the compiler says, and nothing it accepts is false
  of the batch;
* workspace checks: a verdict holds of one moment of HEAD, index and tree.

## 2. Plan

Done, in this order: resource scopes; lifecycle kernel with its contract;
observation stores; selected graph with the contract of the order, the collector
and the report; construction runs; the censuses in front of the graph and both
entries of the compiler; the passes over one document; the wiring check and
preparation, both composed with the compiler; publication; the judge of the
qualification suite, on the answers of the compiler; the workspace checks; the
first publication; the release candidate; the harness of the conformance package
over construction runs; the layout check; groups, the causes and the texts of
failures, and the isolation of a module.  Proved since: the invariants of the
stores, of the first publication and of the scopes, with what scopes and the
first publication report and whom the signals of scopes reach, and what is true
of outcomes and of `latest`.

Next modules:

1. `LifecycleHost`: the kernel, scopes and runs composed as a Host uses them
   (the Host is external to the repository's packages), workers that check a
   lease again after an await.
2. cleanups that await `close()` in `ResourceScope`: which waits deadlock.

Next proofs: `EscalationReaches` of `ResourceScope`, and an abstract custody of
release slots that it implements; the heap invariant of `BinaryHeap` and with it
that `SelectedGraph` implements `DependencyOrder`; `VerdictIsTrue` of
`WorkspaceCustody`.

## 3. Modules and the code they model

Each component has a module with its state and actions and, unless they are few,
a module of properties; an `MC` module with instances where a `.cfg` cannot give
them; and, where something is proved, a module of proofs.

```
ResourceScope <- ResourceScopeProperties <- ResourceScopeProofs <- ResourceScopeReleaseProofs
LifecycleKernel --implements--> GenerationRetention
                <- MCLifecycleKernel, LifecycleKernelProofs
FirstRelease <- FirstReleaseProofs;  FirstRelease --INSTANCE--> MCLifecycleKernel
ObservationStore <- ObservationProperties <- MCObservation, ObservationProofs
BinaryHeap --INSTANCE--> SelectedGraph, DiagnosticCollector
SelectedGraph <- SemanticReport <- MCComposition
SelectedGraph --implements--> DependencyOrder
CompositionCensus <- Compilation, FailureDisplay
Compilation <- Preparation <- Wiring
Compilation, FailureDisplay <- CompilationProperties
CompilationProperties, Preparation, Wiring <- ClientProperties <- MCCompilation
QualificationOracle --INSTANCE--> CompilationProperties, MCComposition
JsonText <- DocumentView <- DocumentPasses <- DocumentAdmission
                         <- DocumentProperties <- MCDocument
AssemblyRun <- MCAssembly, AssemblyProofs, ConformanceHarness
ConformanceHarness, Layout --INSTANCE--> MCAssembly
NpmRelease <- MCRelease, ReleaseProofs
WorkspaceCustody, ReleaseCandidate, ReleaseCheckouts --INSTANCE--> MCRelease
```

`A <- B` says that B extends A.  A run whose `MC` module instantiates further
components is a sum: a behaviour is one of the component's or one of the others',
chosen at the start, and what the others check is found beside it.

The JavaScript call stack is a variable in the three modules where user code
runs inside an operation (`stack` in `ResourceScope`, `ObservationStore` and
`AssemblyRun`).  A step is a whole synchronous section of the code, or the part
of one up to the next user callback; while a callback is on top of the stack,
every public operation is enabled again.  Continuations of promises and tasks
run only on an empty stack.

**ResourceScope** (`resources/.../scope.ts`).  A scope or a leaf entry is an
*item*: what holds a release slot.  `home`, `order`, `detached` are the tree;
`requested`, `notified`, `aborted` the three flags of `#request`,
`#abortRequested` and `#setupAbort`; `phase`, `esc` the flight and its escalate
controller; `live`, `tombstones`, `failed`, `where`, `inv` the lists of entries,
the state of each, and its invocation; `starts` the queue of
`#notifications.pending`; `call` the calls of `close()` with their signals.
`Setup`, `Use`, `Child`, `OpenModule` register; `Close` is `close()` up to its
walks, which are frames on the stack (`NotifyVisit`, `EscalateVisit`,
`CancelVisit`, each visiting one scope, with a live iterator over the children);
`StartFlight`, `AwaitSetups`, `TakeBatch`, `Invoke*`, `AwaitBatch`, `Settle` are
`#run` between its awaits; `JoinSettled` is the continuation that reads the
report of a child.  `ledger` is a history variable.  A child entry is identified
with its child scope.  `Among` is `filter()` on a list of entries: the `Nth`
wanted places of it, in order.

**LifecycleKernel** (`lifecycle-kernel/.../kernel.ts`).  One action per
operation; `reply` is its result, so that properties can speak about it.  Every
phase change goes through `Change`, as in the code.  Foreign tokens are those the
kernel has not issued.  **GenerationRetention** is what a Host may rely on: a set
of held leases per generation and no counters; `Retention` maps the one to the
other.

**ObservationStore** (`observation/.../engine.ts, load.ts, watch.ts, access.ts,
contexts.ts`).  A value is named by the revision that wrote it.  `Set`, `Watch`,
`Load`, `CloseScope`, `CloseStore` are the operations; `FlushTask`,
`PublishTask`, `OverdueTask` the delivery tasks, whose loops over a batch are
frames on the stack (`FlushDue`, `FlushNothing`; what is `left` of it is a set,
taken in the order of registration); `OfferStart`, `OfferWait`, `OfferClosed`
what follows `onLoading`; `StartLoader`, `LoaderSettles`, `RunEnds` the run of a
load; `Drain`, `EscalateDrain` its cleanup.  `contexts` are the delivery
contexts that asynchronous user code may still be in, `windows` those that are
open; commits made in one carry its depth.  `CloseScope` raises the signal of a
scope and `Leave` is the listener of the next subscription in it, with whatever
loader it aborts; in between, as in callbacks, loaders and the error port, user
code may do everything that it may do outside (`Acting`).  The error port may
call `set` and be told of the refusal again; `MaxReports` bounds how deep.  Behind
the last of `MaxCommits` commits only contexts at the limit of depth still try.

**SelectedGraph** (`core/.../graph-components.ts`, `selected-graph.ts`,
`ready-queue.ts`).  `Start`, `Visit`, `Leave`, `NextRoot`, `Gather` are the two
depth-first passes with their explicit stacks; the neighbours of a node come in
any order.  `FindCycles`, `TakeReady`, `Relax` and `Analyse` are
`findCycles`, the loop of `analyzeResidual` (one consumer at a time) and the
reachability from the roots.  **BinaryHeap** is the heap both the ready queue
and the collector keep in an array.  **DiagnosticCollector** and
**SemanticReport** are the collector and the sequence of the report in
`semantic-analysis.ts`, from the graph on; what the earlier passes report is a
set `gaps` of nodes with missing rows.  **DependencyOrder** says what the order
is, without indegrees and queues.

**CompositionCensus** (`declaration-census.ts`, `graph-resources.ts`,
`profile-census.ts`, `binding-record.ts`, `selected-bindings.ts`,
`semantic-analysis.ts`).  One operator per pass, from what was admitted (`v`) to
the diagnostics it emits, with the conditions under which a pass stays silent
because another one speaks.  Its graph is by definition (`CyclesOf`, `DepthOf`,
`OrderOf`); the algorithms are in `SelectedGraph`.

**Compilation** (`compiler-facade/factory.ts` and the entries of
`input-admission`).  One call of either entry: `CaptureBytes` or
`CaptureObjects`, `CountTotals`, `Scan` and `ScanStops` document by document
under the budgets they share, `Admit`, and the five passes.  A document is what
it declares, what reading it costs, and the flaw in it.

**Preparation** (`assembly/.../prepare.ts`, `prepare-program.ts`,
`derive-profile.ts`, `snapshot.ts`, `group.ts`, `entry.ts`).  `Implement`,
`Input` and `Group` are what a host makes before: entries and groups of them,
down to a depth; what would be refused there is not made.  `Nodes` walks the
groups and gives every entry the names of the groups around it.  `Prepare` is the call up to its first
await, where `Refusal` is the first fault of the checks in their order; `Change`
is the host at work meanwhile; `Compiled` is all that follows the answer of Core
(`CompositionCensus` again).  It starts from a composition that `Compilation`
has made.  `OwnArguments` is why this is one module with the compiler: what is
read after the await must be what was captured before it.  A failure has its
code, its cause (duplicates with all their places, rows that are missing with
the groups of their consumer and the candidates for them) and the diagnostics of
Core.  The limits come in the order of the code, counts before copies.

**FailureDisplay** (`assembly/.../format-failure.ts`, `failure-text.ts`).  A text
is a sequence of lines with what they show and their length: `Add` stops at
the first line that would leave no room for the notice, `Members` and `Omitted`
count what is not shown.  The wording of hints, the escaping of labels, paths,
and values that the library has not made are left out.

**QualificationOracle** (`v1-qualification.mjs`).  The judge
as operators: its depth-first searches and its ready list, written otherwise
than the compiler's; what the documents must show for a diagnostic of each code
(`staticSemanticDiagnosticHasWitness`), which diagnostics must not be missing,
and the plan of a profile.  It reads every answer that the runs of `Compilation`
give, and every graph of `SelectedGraph`.  What it says of repeated codes is
compared for the object entry with lists in the order of their ids, which is
what the suite feeds it (`docs/architecture/current-contract.md:145`), and not
for batches with repeated coordinates of a binding.

In `CompilationProperties`, `staticInputDocuments` and
`staticRawDecodeDiagnostics` are what it reads of documents and of raw texts,
`JudgedRaw` the comparison with the compiler.  There the two differ in two ways:
if the texts are too long together, the compiler
still names those that are too long alone (`v1-qualification.mjs:1162` wants
the one diagnostic only), and when a budget runs out it stops and says so of one
budget, even if an earlier text was refused.

**Wiring** (`conformance/.../wiring/check.ts`, `harness/isolate.ts`).
`mergeOracles`, `checkDeclarations` and `checkRows` as sets of differences;
messages are left out.  `Isolate` is `isolate` up to its run: the fakes it makes
of what a test supplies, the composition of the module with them, and what the
prepared program injects (`ConformanceHarness` has the run).  Neither has
state; they are checked on every plan that the runs of `Compilation` make.

**JsonText, DocumentView, DocumentPasses, DocumentAdmission**
(`core/.../input-admission`, `raw-scanner`).  The lexemes and their one-pass
readers (identity grammar, surrogates and bytes of strings, digits of integers);
the view of the tokens of a text, shape and snapshot; the replay of duplicates,
the numeric pass and the walk over objects; and the scan as a machine with its
frames, followed by the report.  Tokens are drawn while the text is read, so that
a text that breaks off is a state of the same run.  The object entry is given
what `JSON.parse` makes of a number, a double: `Significand` and `UnitPower` round it
to `Precision` bits, to even, and `ObjectInteger` decides on that, whereas the raw
entry decides on the digits (`raw-integer.ts`).  So a number that rounding makes
an integer is refused by the raw entry and admitted by the other, and what
`EntriesAgree` says of both holds of texts whose numbers are doubles
(`IsDouble`); of all texts it says that what the raw entry admits the object entry
admits, as the same.

**NpmRelease** (`.github/workflows/{ci,npm-release}.yml`,
`architecture/tooling/npm-release`).  `Merge` and `CompleteCi` are main and its
CI; `Enter` is the concurrency group with its one pending run; `CheckSource` and
`Prepare` are `prepare` in `run.ts` before and after the packages are looked at;
`Verify` is `verify`; `Publish` and `Promote` are the publisher, whose workflow
is another repository's and is modelled from how it is called (it skips versions
that exist, and moves `latest`).  `Fault` ends a run anywhere, `Rerun` runs it
again, whole or its failed jobs.  The three requests that `registryVersion`
retries are one read: only the active run changes the registry.

**FirstRelease** (`first-core-release.mjs`, `docs/decisions/0019`).  One run of
the procedure at a time, each resuming the checkpoint of the one before:
`ReadTags`, `ReadVersion` and `Download` observe, `Save` makes a checkpoint
durable, `Mutate` asks for a write, which lands at once, later (`Land`) or
never; `CatchUp` is a replica that answers; `Other` is somebody else who
publishes or tags.  Evidence and notes are left out.

**ReleaseCandidate, ReleaseCheckouts**
(`architecture/tooling/release-candidate`).  A task is a script of steps, as in
`WorkspaceCustody`: `version` lets Changesets version a checkout and checks what
came of it, the check of a pull request does the same in private and compares.
Changesets, the build and the producer of interfaces are external, *genuine* or
with one fault.  **ReleaseCheckouts** is a workspace, commits and tampered heads
of it.  One package has a public baseline instead of two; the index is HEAD's
tree; receipts, the qualification by Node and the bumps of dependents are left
out.

**WorkspaceCustody** (`tracked-file-custody.ts` and its callers).  The scripts of
the governance check, the contract check, the verification of the workspace and
the build of Core (one of its three configurations), one Git command or one
access of a file at a time, while others move HEAD, stage, and write files.  A
listing is one step; reads of immutable objects are folded into the step that
names them.  The history of versions and what is said of the bytes are left out,
and so are listings of ledgers, a HEAD without commits, and `expectedHeadCommit`.
Each location changes once at most, so nothing is changed back between two reads.
`tests/tracked-file-custody.test.ts:83` has an intent to add told from an empty
file; of a path that is an empty file in HEAD the code cannot tell, and the
scenarios have none.

**AssemblyRun** (`assembly/.../run.ts`).  `Start` is everything up to the first
step; `Cancel`, `Borrow`, `CallFactory`, `Finish` are the turns of the loop;
`Throw`, `Return` are what a factory does, `Settle` what its promise does;
`NoProduct`, `BadProduct`, `Commit`, `CommitFails` what the run finds after the
await.  A product is identified with the implementation it was made for.  `made`
and `calls` are history variables.

**ConformanceHarness** (`harness/{smoke,isolate}.ts`, `suites/suite.ts`,
`ports/own-members.ts`).  `smoke` is a loop of attempts, each a run of
`AssemblyRun` under a signal of its own, with one disturbance of one factory;
run k is attempt k. `isolate` builds one module and hands it over with its
scope; a case builds its subject in a scope that it closes.  Scopes are
abstracted to the cleanups they hold.  User code does what it should not at most
`MaxSurprises` times.

**Layout** (`layout/check.ts`).  The rules on the files of a module, on who may
import whom and on exports, over the records of a collector.  A path is its
directories with the stem and the kind that the name of a file says; extensions
are left out.  A run starts with one of three trees that follow the standard and
edits it twice: an import comes, goes or becomes one of types, a file is moved or
is gone, an export changes.  A module of the Host's level that imports a
declaration nobody collected passes the rule on declarations, as in the code.

Definitions marked *Mutant* or *Variant* are no part of the models: each is a
plausible slip in the definition that follows it, kept to show that the
properties notice it.

## 4. Runs and their bounds

Every run is exhaustive within its bounds.

| Run | Instance | What it shows |
| --- | --- | --- |
| `scope_closing` | 2 scopes, 2 leaves, 2 calls of `close` | cleanups wait for abort listeners and setups; strict reverse order, also in a retry; *complete* is true for flights and for abandoning callers; nothing is released twice |
| `scope_nesting` | 3 scopes, 1 leaf, 2 calls, reverse and concurrent order | sealing, exact reports, and escalation in every tree of three, with reentrant closes |
| `scope_liveness` | 3 scopes, 1 leaf, 2 calls, module scopes | pruned walks leave no scope untold; closes are answered; refused setups are released |
| `scope_peers_truth` | 2 scopes, concurrent order | the finding of section 7 |
| `lifecycle_kernel` | 2 generations, 3 leases, symmetric; or 3 runs of the first publication with 2 faults and 1 interference | the kernel, with its counters, implements its contract; no call of a revoked generation passes a check; no write to the registry is asked for twice, and reports are true |
| `obs_chain` | 1 store of two keys, a watch and a load in one scope that each may write the key of the other, depth 1, 2 commits | nothing is missed; the depth of every delivery is exact, in cascades up to the limit; whoever is detached, or whose scope has begun to close, is released and called no more, while callbacks, listeners and the error port write, subscribe and close |
| `obs_load` | 1 store, 1 load, 3 commits | latest-only outcomes, drains that wait, the newest values are shown in the end |
| `core_graph` | 5 nodes, all 1024 sets of ten edges, 3 root sets, 3 gap sets, depth limit 3, 3 diagnostics retained | exact cycles, contract of the order, least diagnostics, a plan iff the selection can be built; the judge finds the same cycles and order |
| `core_compile` | a batch of five documents with two slips of its authors; oracles with one slip in one or two parts; both modes of preparation with one slip, flat or in groups; single modules with what a test may supply | a plan iff the batch can be planned, no failure without a reason, nothing called absent that was supplied, every answer stands before the judge, order of registration immaterial; texts show or count all of a report; an oracle that passes pins the plan; the prepared program is the one asked for, the modes agree, and a refusal tells its cause; isolation injects what was supplied |
| `core_documents` | all texts of up to 6 tokens of ten, a template with changed tokens, values and members, 800 strings, 300 numbers; doubles of 6 bits from 2^-8 to 2^12 | the scan is the JSON grammar, faults are told once where they are, both entries agree, but for numbers that rounding changes |
| `assembly_runs` | 2 runs, 1 signal, 1 input and 3 factories; or one use of the harness with two surprises; or one of three trees with two edits | custody of products, no factory after an abort, true outcomes, every run ends; what the harness reports is true and it ends; the layout check passes exactly what follows the standard |
| `npm_release` | 2 packages, 8 histories of main of up to 3 commits, 1 dispatch, 1 fault, 2 attempts of each run; or one task on a workspace in which two locations change; or one task of the release candidate with one of 12 sources or 12 faults of a tool, and two changes | `latest` never goes backwards and names qualified bytes; what main has is released in the end; a verdict on the workspace holds of one moment; a candidate that passes is a release that a commit describes |

The largest has 2.6 million distinct states (`obs_chain`); the longest takes about
three minutes.

Why these bounds are enough to be interesting:

* Scopes: three scopes give a chain (ancestor, middle, leaf), two siblings, and
  a module scope beside a nested one; the hazards are a close of an ancestor or
  sibling inside a walk, which need two calls and no more.  A third call
  (`scope_peers_truth`) is needed only for a retry after a spoilt counter.  Two
  leaves are what an order between them needs; `CompactAt` is 0 or 1 so that
  compaction happens, where the code has 32.  `Uses` turns off what a run is
  not about; between them the runs use all of it.
* Kernel: two generations for leases that go to the wrong one, three leases
  for both kinds and a foreign token.
* Stores: three commits are one that is shown, one that supersedes it in flight
  and one that comes while the second waits.  In
  `obs_chain` a callback may write the key that it does not follow (its own is
  refused as an echo): a direct commit and one that a callback makes of it are a
  delivery at depth 1 and, if the direct one touched both keys, a delivery that
  coalesces two depths; what a callback of that delivery commits is too deep and
  refused.  Two subscriptions in one scope are what a listener needs to act
  between two that leave.
* Graph: the ten edges allow two disjoint cycles, one cycle of three, a self
  loop, a chain of five (above the depth limit 3, so the depth saturates) and a
  ready queue that is filled out of order.
* Runs: two runs are what sharing a signal, overlapping, and starting one from a
  factory of the other need.  The program has an input, a node with two
  providers and two roots.  The harness has the same program; its surprises are
  composition, factories, cleanups and hooks that fail or hand on what they
  should not, and two are what hides one behind the other. Two edits of a tree
  are one that breaks a rule and one that may hide it.
* Batches: one slip shows each diagnostic, two show those that hide each other.
  Every limit is one or two above what the good batch needs, so that one slip
  passes it; a document may use a budget up exactly or go over it.
* Preparation: groups are two deep (`GroupDepth`), so an entry has none, one or
  two names around it; five handles and two aliases are one more than the good
  call has.  Texts have two items, one member of a list and 40 places
  (`MaximumItems`, `MaximumMembers`, `MaximumText`), so that each of them is
  exceeded by what two slips report.
* Documents: doubles of six bits, the largest safe integer being 63, are rounded
  to an integer, to the next integer, to zero and to infinity by the numbers of
  the run.  Six tokens are a record or array with what may follow in it; what
  needs more (cardinalities, nested unknown fields, arrays at equal indices) is
  in the template and what is spliced into it.
* Publication: three commits are one that is released, one that changes it and
  one that arrives while the second is being released.  The histories are a bump
  with only documentation after it, two bumps, a revert, changed sources of one
  version, the pinned cohort with other tools or sources, and a retained version
  with its tools and with others.  Two attempts and one fault allow a run to fail
  half way, another to succeed, and the first to be run again.
* First publication: three runs are one that is cut off behind its upload, one
  that is cut off behind its promotion, and one that finds both done.
* Workspace: two changes are what a check could take for one state although it
  never was; each path has what the checks tell apart (regular, executable, a
  link, an intent to add, unmerged, absent).
* Release candidate: a head is honest or holds one thing too many, too few or
  other; a tool is genuine or does one thing wrong.

Deadlock is checked in `lifecycle_kernel`, `core_graph` and `core_compile`
(whose ends stutter by `Returned` and `Resolved`, so a stuck analysis shows as a
deadlock).  The other systems may stop: all calls are answered, or the bounded
user code has nothing left to do.

Counters that the code leaves open are bounded in the guards: scopes, leaves and
calls by the constants of the same names, commits by `MaxCommits`, nested reports of refusals by
`MaxReports`, windows by
reuse of the least free number, dispatches, attempts and faults by
`MaxDispatches`, `MaxAttempts` and `MaxFaults`, runs and interferences of the
first publication by `MaxRuns` and `MaxOthers`, edits of a tree by `MaxEdits`,
surprises by `MaxSurprises`.

## 5. Fairness

Liveness is claimed under what a JavaScript engine does and what the packages'
documentation asks of user code:

* synchronous code that has begun goes on, tasks and microtasks that are ready
  run (`Machine`, `Continuation`, `Resume`, `JoinSettled`, `AnswerCall`);
* callbacks return, and promises of cleanups, setups, loaders and factories
  settle.  Nothing bounds how, and a promise that never settles holds its close,
  drain or run: the code waits for it by design.  Nothing forces user code to
  call anything, abort anything or close anything.

It is weak fairness, except in `ObservationStore`: there user code between two
tasks may push a callback again and again, which makes the next task disabled
for a moment, and the event loop still runs it; so `Machine` and the
continuations are strongly fair.  Callbacks return, `Return` is strongly fair for
each number of reports on the stack: the code that a report interrupted may be
refused and reported again and again, but it returns, too.

In `NpmRelease` an active run goes on to its end (GitHub has no run that is
neither working nor ended) and CI ends, both weakly fair.  Merges, dispatches and
re-runs are nobody's duty.  `PendingIsReleased` excludes histories with a fault
or a re-run: a fault ends a run for good unless somebody intervenes, and a re-run
of an old run that enters the group may replace the pending run of main, so both
need somebody who dispatches (`architecture/tooling/npm-release/README.md`).

The harness and the runs it makes go on, each with weak fairness of its own
steps: they are promises that settle.

`CloseSettles`, `LoadsSettle` (with `DrainedIsIdle` in it), `AllEnd` and
`PendingIsReleased` use these.  Invariants and action properties use none.

## 6. Proofs

All theorems are for every value of the constants under the named assumptions of
the modules (`ScopeAssumption`, `KernelAssumption`, `StoreAssumption`,
`ProgramAssumption`, `HistoriesAssumption`, `PinsAssumption`); the contract of
the order and the first publication need none.  That preparation makes programs
that satisfy `ProgramAssumption` is part of `ProgramFits`.  TLC has found every
inductive invariant to hold on the instances of the runs before it was proved.

**LifecycleKernelProofs.**  `TypeCorrect`, `AccountedAlways`,
`RetirementIsIdle`, `RevocationIsForGood`, `KernelImplementsContract`.  The
inductive invariant is `TypeOK /\ Issued /\ Accounted /\ RetiredIsIdle`: a
generation may be found idle by its counters only if the counters are exact
(`Accounted`), and a release changes the right counter only if an issued lease
names a generation of this kernel (`Issued`).  Counts are cardinalities of sets
of unreleased leases, which are finite because `Leases` is.  The refinement
maps a phase to a stage and the unreleased leases to `held`; one lemma per kind
of step shows that it is a step of the contract or a stutter.

**ResourceScopeProofs.**  `AlwaysSealed` (what is attached below a requested
scope is requested) and `RequestedTakesNothing` (a requested scope registers
nothing; only setups it had started take their slot).  `NextIsTreeStep` first
reduces the many actions to the few ways in which a step may touch the tree, and
the invariant is proved for those.  The argument of `RequestSeals` is the one
the code relies on: the pruned walk of `#request` is complete because whatever
hangs below a scope it stops at is sealed already.

`ScopeInvariant` and `CleanupsAlwaysWait`: nothing of a scope is released while a
setup it had started is pending, and nothing is released above an abort
notification.  Both could be undone from anywhere on the stack, by a callback
that closes another scope, so the invariant `WInv` says what every frame stands
for:

* `Owns`: lists hold own entries, and only created scopes registered any.  A
  setup that is pending is found by its home.
* `Flights`, `Queued`: a flight is of a requested scope and waits in the queue
  once.  A requested scope starts no setup, so once a flight has seen none
  pending, there will be none.
* `Framed` (each frame is `Fit`): a step of a flight fits its phase; in a batch
  and in a cleanup the setups of the scope are over.
* `Single`: a flight has one step on the stack, and the beginning of its run is
  not there together with one of its cleanups.  Without it a flight that is
  entered again above itself could be taken for the one below.
* `Silent`: above an abort notification there is nothing that releases, or leads
  to it; the queue of `#notifications.pending` is what the code has for this.
* `Invoked`: whatever is being released belongs to a flight behind its setups.

A step is proved in three parts: `Memory` (what it does to entries and lists),
`Grown` (requests and ownership are never taken back), `Control` (flights and
the stack).  `Flow`, `New` and `Light` reduce the actions to what they put on the
stack, so that `Single` and `Silent` are proved for a few shapes instead of for
every action.  Of `Among` the proofs use `AmongIs`: it lists wanted places, all
of them, in order.  (It has this definition, by counting, because nothing can be
proved of the library's recursive one; ranks are proved from cardinalities, and
least elements from the well-founded order of numbers.)

`LastingInvariant` and `GoneForGood`: what a reverse scope has released is not
released again, nor put back by a retry.  A concurrent scope does not promise
this: a flight starts its whole batch from a list it took before.  So the proof
has to say what a reverse scope has at hand between two callbacks, and `Lasting`
adds three parts to `WInv`:

* `Prompt`: a batch of a reverse scope with something left is on top of the
  stack, holds one entry, and that entry is not gone.  No callback runs between
  the taking of a batch and its invocation, which is what makes the check of
  `where` at the taking (`BatchIs`) good at the invocation (`NextEntry`).
* `Unfinished`: a leaf whose cleanup was called or is awaited is not gone, so a
  late rejection cannot make a released entry a failed one.
* `Departed`: a child is gone only when it is detached, and a detached child of a
  reverse scope is gone, so a child that fails after it has left is no debt.

`Entries` is what a step does to the entries, `Aside` that it leaves every batch
alone; only the steps of a batch (`TakeBatchLasts`, `InvokeLasts`) need more.

`SignalsInvariant` and `SignalsArrive`: when the stack is idle, everybody who had
to be told was told; every attached scope below a requested one is aborted, and
so is every scope under a call whose escalation fired.  Signals go out in walks
over the tree with user code in the middle, so `SignalsReach` speaks only of an
idle stack and `SignalInv` has to say where a signal that is missing still is:

* `Walked`, `Marked`: a walk visits scopes, and a notification requested ones.
* `Heard`, `Warned`: a requested scope that was not notified is ahead of a
  notification on the stack (`Coming`), or its parent is not notified either.
* `Inherited`: an attached child of an aborted scope is aborted, or it is ahead of
  a walk that tells it, also when it was made by a listener in mid-walk.
* `Begun`, `Opening`: a flight starts only after its scope was notified, so a
  scope that leaves its parent was told before it left.
* `Numbered`: children have higher numbers than their parents and are created
  after them, on which the live cursor over the children relies.
* `Armed`: an escalation that fired belongs to a call on a scope.

Most steps raise no signal (`Hushed`, in two parts: `Silently`, `Muted`).  The
three visits are one lemma, `VisitSignals`: after a visit the cursors have ahead
of them what they had, but the scope visited, and its children (`Leads`).
`FlightSignals` is for `close()` and `#join`, `ConstructSignals` for a new child.

**ResourceScopeReleaseProofs.**  What a close releases, and what it says of it.

`OrderInvariant` and `ReleasesInReverse`: a reverse scope releases one entry at a
time, the newest slot first, also when a flight retries.  `ReverseOrder` speaks
of the slots in the order they were taken (`ledger`, which the code does not
keep) and of entries whose `where` may lie between two lists, so it is not
inductive; `Tidying` adds to `Lasting`:

* `Slots`: a slot belongs to one entry, registered for good.
* `Ranked`: of each reverse scope the rest of `#live` is in the order of the
  slots, below what is being released; that is below every failed entry; failed
  entries lie in the opposite order, so `Retried` can push them back in one
  sweep (`OrderlyAgain`) and the list is in order again.  `Orderly` states this
  of any four lists, and its lemmas have no variables in them.
* `Held`: what is live is listed or is the entry at hand (`Hand`), and what is
  active has an invocation.  Without it an entry that is in neither list could be
  passed over.
* `Retrying`: only a scope past its setups has failed entries, so nothing is
  appended to `#live` above them.
* `Solo`: the entry at hand is taken when nothing else of its scope is invoked.
* `Bodies`, `Apart`: a cleanup on the stack is the one invocation of its entry, so
  what the callback returns or throws settles that entry and no other.

The steps are shown as before: what a step does not touch keeps its part
(`TidyKept`, `BodiesKept`, `ApartKept`), one lemma for each way an entry moves
(`TidyAdd`, `TidyThin`, `TidyBatch`, `TidyInvoke`, `TidySettle`, `TidyFail`,
`TidyFlight`), and one per group of actions (`RegisterTidies` to `InvokeTidies`).

`TruthInvariant` and `ReportsExact`: whenever user code runs, a report names
exactly the leaves of the subtree that are not released.  A report walks lists,
and trusts that a scope that left its parent owes nothing; that scope left
because `Len(live)` was the number of its tombstones, a count kept by its
children.  `Truth` adds to `Tidying`:

* `Lodged`: what failed is in `#failed` of its scope, and a child of a scope has
  a slot there, so a report that walks the lists meets every child.
* `Counts`: in a reverse scope no tombstone is counted that is not in `#live`
  (fewer may be).  So `NothingLeft` means that all of `#live` is gone.
* `Cleared`: a scope that left owes nothing in its whole subtree, provided that
  all of it releases in reverse (`Tame`, `Paid`).

`ReportExact` shows what a report names in one state; it needs that nothing of the
subtree is at hand (`Hand`), so it does not speak of the middle of a batch.
`PaidStays` is why a scope may be forgotten: below a requested scope nothing is
registered, attached or not (`BelowRequested`), and what is over stays over
(`Finished`).

`AnswersInvariant` and `CompleteHolds`: whoever is told *complete* finds nothing
unreleased in the subtree that it closed, then or later.  The answer goes from the
flight to the call, and is given after an await, or at the return of `close()`
above which callbacks ran.  `Answers` says of each call that was made that its
scope was requested and, if the call holds *complete*, has left; if it holds a
complete snapshot, the subtree is `Paid`; and that each reply on the stack belongs
to a call on the same scope (`Replies`), which has left if there was no flight.
`Quiet` says that no other step than `close()` puts a reply on the stack.
`CompleteHolds` assumes that `Uses` does not have the concurrent order;
`CompleteWhereReverse` is the same without that assumption, for the subtrees whose
scopes are all in reverse.  In a concurrent scope `Counts` is false, which is the
finding of section 7.

**DependencyOrder.**  `OrderIsTopological`, in the module itself: the order lists
a node after all its providers that are on no cycle, and once, for every graph.
The inductive invariant `Grounded` adds that every provider of a listed node *is*
listed, before it; with `ListedOnce` that gives the order.

**ObservationProofs.**  `ObservationInvariant` is one inductive invariant, and
the safety properties of both runs follow from it: `NothingIsMissed`,
`NewestIsShown`, `DepthAlwaysExact`, `NoneIsLeftBehind`, `DetachedIsSilent`,
`NeverOlder`.  Why each part is needed:

* `Logged`, `Slotted`: `touched` and the slots of the depths are the last commits
  in the log of a key; closing a store clears the slots, so they are exact only
  while it is open.  `DepthIsExact` is about the log, and the code reads slots.
* `Numbers`: nobody is ahead of what was written, offered or shown.
* `Registered`, `Scheduled`: dirty subscriptions are live, registered, and a
  flush is on its way to them.
* `Reached`: a live subscription has the newest revision, or is dirty, or is in
  the batch being flushed; after its store was closed, it is still in the frame
  that detaches.  This is why nothing is missed although callbacks write,
  subscribe and close in the middle of the loop.
* `Leaving`: a live subscription is in an open scope, or in the frame that tells
  the subscriptions of its scope that it closes.  No call begins under such a
  frame (`CallsAreForTheLive`), which is why a scope that closes is silent before
  the last of its subscriptions is detached.
* `Drains`: a load that was detached has begun its cleanup.
* `Nested`: a flush is at the bottom of the stack, and an offer right above it,
  for the revision offered last.  Only so can the job that `OfferStart` starts be
  the newest one.
* `Counted`, `Paired`: the two counters that decide whether a store is quiet are
  the jobs, and the queued ends of publications; a publication is followed by its
  end.
* `Shows`: a live load that was offered the newest revision and has not shown it
  is being offered it, or has it waiting, running un-aborted, or queued.

`NeverOlder` and `DetachedIsSilent` are about steps; they use the invariant of
the state before.  The proofs are by variable: for each a few lemmas say which
actions change it and how, and the parts are proved from those.

**AssemblyProofs.**  `CustodyKept` (from `CustodyAlways` and `ReportsAlways`):
every product that a factory has made for a run is in flight, in the journal or
returned, in one of them only, and the outcome names all of them.  The inductive
invariant adds to them that a run at work has returned nothing and that its
journal lists only earlier steps (`AtWork`); that, with each implementation
occurring once in the program, is why a product that arrives cannot be in the
journal already.  `Pending` says that a promise is pending only for a run that
awaits, so nothing can arrive at a run that is done.  One lemma per action;
`OtherRun` and `OwnStep` frame the runs that a step leaves alone.

`OutcomesTell`: no factory is called under an aborted signal, an outcome says
truly whether the run was cancelled, and it names the products of a prefix of the
program, in its order.  The invariant `OInv` adds that a run at work stands at a
step, and that its journal lists exactly what the steps before made (`Lists`);
`WhySaid` then goes through the ways a run ends.

**ReleaseProofs.**  `PublicationInv` and `NeverGoesBackwards`: no step moves
`latest` of a package to an older version, with any number of commits, runs,
attempts and faults.  A version is compared with `latest` in the first job of a
run and promoted in its last; between the two other runs may have been active, if
this one failed and its failed jobs are run again.  So the inductive invariant
says why that does no harm: the group has one active run (`Grouped`), an artifact
is found only under the number of the attempt that made it (`Named`), so that an
attempt that does not prepare finds none, and what the active attempt has
prepared is not older than `latest`, which nobody else moves meanwhile
(`Current`).  `NewerIsExact` says that the walk over three numbers in
`requiresRelease` decides the order of versions.

`LatestAlwaysQualified`: `latest` names versions that belong to one commit whose
CI passed with every job, and all packages of that commit are on the registry
with the payload of its source.  `QInv` adds to the invariant above that runs are
of commits main had (`Known`), that a run behind its first job has seen CI pass
(`Passed`), that an artifact was made of such a commit (`Faithful`), and that the
attempt that promotes has what it prepared on the registry (`Verified`).  A step
only adds to what has passed and to what is published (`Grows`), so what was true
of an artifact stays true while others publish.  `PinsAssumption` says that the
archives of the policy were packed from the tree they are retained for, which
`policy.ts` fixes by digest.

**FirstReleaseProofs.**  `AskedOnce`: with any number of runs, faults, crashes
and interferences each write is asked for at most once, and never before its
announcement is durable.  A run knows what is durable (`Knows`), and between the
announcement and the call nothing else happened (`Announced`, `CallIsDurable`).
That the version may be absent only before any attempt (`FirstIsFresh`) is what
keeps a resumed run from uploading again when the registry answers late.

`ReportsAreTrue`: a completed run has tried the archive that the registry serves
and then seen the tags, which are still there unless others moved them; a failed
run is the doing of others or of an archive that was refuted, never of a fault, a
delay or a crash.  `RInv` adds to the invariant of `AskedOnce` what ties the
three views of the registry together, its own, the replica that readers see
and what the run has noted: the archive never changes (`ArchiveIsKept`), what is
durable was observed (`ObservedIsSaved`), a selected version is acceptable
(`SelectedIsAcceptable`), and without others tags only advance, in the registry
before the replica and there before the run (`TagsAdvance`).  `FailedForCause`
and `OnCourse` are the two halves of the report: as long as nothing is amiss the
registry is where the run believes it to be, so it never has to read again.

## 7. Findings

It is in the concurrent order of `resources/src/features/scope/scope.ts`: `#run`
takes a whole batch out of `#live` (line 365) before the entries are active (line
385), and the synchronous part of the first cleanup of the batch may call
anything.

* `scope_peers_truth`: a cleanup closes a sibling child of its own batch that
  owes nothing; `#forget` (line 441) counts a tombstone for an entry that is no
  longer in `#live`.  If a cleanup of the scope fails, the next `close()`
  finds nothing left (line 326) and resolves *complete*, although that cleanup
  never returned.  The package's README (lines 10-12) says what `complete: true`
  means.

In the same window a report that such a cleanup asks for lists neither `#live`
nor `#active` entries of the batch that come later, pending children among
them.  So `CompleteIsTrue` is checked with the reverse order, and
`ReportsAreExact` speaks of subtrees in that order only; there both hold.

Two things about publication are by design and no findings.  "Re-run failed jobs"
after the archives were prepared ends without an artifact, since its name carries
the attempt; a fresh dispatch is the way to go on.  And a run that is run again
takes the place of the pending one.

## 8. What is only model-checked, and what is not modelled

Only model-checked: all liveness; that `SelectedGraph` implements
`DependencyOrder` (its proof needs the heap's invariant, by induction over
recursive functions); the report and the collector; the passes over documents
and batches, preparation, the wiring check, the judge and the layout check,
which are computed by folds and recursion over data, of which the provers know
nothing; the conformance harness, the workspace checks and the release
candidate, whose scripts are built by such folds; and of `ResourceScope` the
reach of escalation, whose walk depends on who is listed below a closing scope.

Left out of the modelled components: names, labels, the text of errors thrown; checks of arguments that throw before any state changes; the deadlines
of the observation test waits (`testing/waits.ts`), of which only the counters
they read are modelled; the values of a store; the decoding of UTF-8 and of byte
carriers below the counts; the shape of single records that a host passes to
preparation, with the limits on their identifiers; the wording and escaping of
failure texts; the evidence that a release records, and the installation test of its verification.
Section 3 names what is left out of the tools.  The cleanup of a scope settles
on its own in the model: a cleanup that awaits the `close()` of a scope that
waits for it is a documented deadlock of the package and is left to the plan.

Not modelled: canonicalization, plan output and authoring of Core (writing of
documents without state, and types); the check of namespaces and the guard of
handles of the conformance package, which look once at what they are given; and
the rest of the tooling under `architecture`: what the governance checks say of
the bytes they read, codemods, recorded evidence.  These are scripts that read
files once and compare them with constants.  They have no state and no
interleaving, and a model of them would restate their constants.  They are a
large part of the repository's lines, which is why the models stand for only
about a third of all of them.
