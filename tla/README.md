# A TLA+ model of buildstream-bazel

buildstream-bazel turns a BuildStream (`.bst`) graph into a Bazel project. It
renders two Bazel workspaces: **project A**, which holds converters, and
**project B**, which becomes the deliverable. Elements whose build can only be
understood by watching it (autotools, make, manual, script, ...) are converted
from an execution trace. The trace is produced by a build in B and consumed by a
converter in A, and the two workspaces may not depend on each other, so they
meet in the ActionCache and CAS of a shared REAPI store: the *rendezvous*. A
shell loop, `tools/converge.sh`, alternates builds of A and B until every trace
has been found there.

This directory models those parts of the program whose correctness depends on
what several processes, machines or runs do in some order, checks them with TLC
on small instances, and proves the most important properties with TLAPS for all
instances.

## Inventory

| Component | State it keeps | Operations | Talks to |
|---|---|---|---|
| `cmd/trace-publish` | none of its own; a staged directory while it runs | pack, FindMissing, PutBlob, put the Tree, UpdateActionResult; the same again for the config bundle | REAPI store |
| `cmd/trace-lookup`, rule `trace_load` | the declared outputs: trace.log, make-db.txt, cmake-config-bundle.tar, marker | GetActionResult, FindMissing, GetBlob of the root and of each file, copy out, or write the miss outputs | REAPI store, Bazel |
| `internal/cas` | `LocalStore`: files under cas/ and ac/; `GRPCStore`: a connection | FindMissing, Get/PutBlob, Get/UpdateActionResult, PackDir, UploadDir, MaterializeDirectory; Remote Asset fetch | every tool that stores or reads blobs |
| `internal/tracenorm` | none | the synthetic keys; canonicalisation of traces and make databases | publisher and lookup |
| `tools/converge.sh` | the round number | build A, stage, read the markers, build the frontier in B | Bazel, stage-b |
| `cmd/stage-b` | project B's BUILD files | copy what differs, report what changed | A's bazel-bin, B's tree |
| `cmd/finalize-b` | the stripped copy of B | plan, clean each BUILD, clean MODULE.bazel | B's tree |
| `cmd/write-a` | the two rendered workspaces | load the graph, order it, render each element for A and for B, compute source keys | `internal/element`, handlers per kind |
| `internal/element` | projects, elements, the dependency graph | load, BuildGraph, TopoSort, filter by kind | write-a, translators |
| `internal/sourcecheckout` | the checkout cache on disk | resolve local, git and remote-asset sources, upload to CAS | CAS, Remote Asset service, git |
| `cmd/build-tracer` | the traced process tree | fork, follow ptrace events, write trace lines | the kernel |
| `cmd/convert-element-trace` | none | correlate the trace's events, emit rules or a placeholder | trace_load's outputs |
| `converter/*` | none that outlives a run | cmake, meson and pyproject conversion, folding over platforms and configurations, emission | cmake, meson, the file system |
| `converter/emit/bazel/split.go` | the plan of one split: packages, header libraries, where each target lands, what becomes public | plan, rewrite each target, synthesise header libraries and wrappers, export files | lowering's targets, Bazel |
| `internal/regression`, `cmd/run-manifest`, `orchestrate-*` | run manifests, history | snapshot, compare, report | files |
| `cmd/audit-narrowing`, `internal/readpaths`, `relax-keeps`, `allowlistreg` | read sets, allow lists | match patterns, narrow, audit | traces |
| `internal/harvest`, `cmd/imports-harvest` | the rows of an installed prefix | fold duplicates, resolve references, break cycles, write a manifest | installed packages |
| `internal/wrappergen`, `cmd/imports-wrapper-gen` | none | check names and cycles, route link names, write wrappers and the manifest that goes with them | manifests of harvest or of hand |
| `converter/elementfold`, `cmd/fold-element` | none | pick select keys, fold one element's conversions into select()s | converters' output |

The rest of the repository (fidelity comparison, cc index, embedded files,
lenses, deployment files, gates) is listed in `PROJECT.json`.

## What is hard in this code

- **Interleaving and eviction at the rendezvous.** Publishers on several
  machines, lookups, and a store that drops blobs and entries on its own, with a
  handful of remote calls each and nothing that ties them together.
- **A loop over two builds.** The driver decides by files that earlier rounds
  and earlier invocations also wrote, and by answers Bazel may give from a cache.
- **Asynchronous events of a process tree.** build-tracer learns of forks,
  system calls and deaths in an order the kernel chooses, from stops that look
  alike, and keeps one bit per process to tell them apart.
- **A directory whose presence is the cache.** Several resolvers and runs share
  source checkouts, and any of them may crash, or find that a ref has moved.
- **A conversion with helpers.** Cold cmake configures run beside a lowering
  that recovers what it lacks in up to four rounds, and every early return has
  to join them.
- **Files that outlive their cause.** Packages in bazel-bin and in project B of
  builds, modes and elements that are no more; traces of trees that have changed.
- **Rewriting what Bazel will read.** Tools that drop edges, labels, targets and
  select() arms by local rules, where whether the result loads, and means the
  same, is a property of the whole.

Each is listed with its line under `hazards` in `PROJECT.json`, with the
properties that would catch it going wrong.

## Modules

| Module | What it is | Code |
|---|---|---|
| `TraceDirectories` | the data: directories, blobs, keys, what a consumer reads | `internal/cas/tree.go`, `internal/tracenorm/synthkey.go` |
| `Rendezvous` | the processes and the store, one action per remote call | `cmd/trace-publish`, `cmd/trace-lookup`, `internal/cas/materialize.go` |
| `TraceRegistry` | the abstract specification: an atomic register per keyspace and cell | what `docs/design/rendezvous.md` promises, as far as the code keeps it |
| `RendezvousRefinement` | the refinement mapping from `Rendezvous` to `TraceRegistry` | |
| `MCRendezvous` | builds and cells for TLC | |
| `RendezvousProofs` | theorems about `Rendezvous`, and that it implements `TraceRegistry` | |
| `Converge` | the driver, Bazel's two builds and its action cache, the store as a register | `tools/converge.sh`, `rules/traces.bzl`, `rules/install.bzl`, `cmd/stage-b`, the renderers of both sides |
| `MCConverge`, `ConvergeProofs` | element graphs for TLC; theorems about `Converge` | `testdata/meta-project/cross-kind` |
| `BuildTracer` | the wait loop of build-tracer and the kernel under it | `cmd/build-tracer/native_linux_amd64.go` |
| `MCBuildTracer` | pids for TLC | |
| `BuildTracerProofs` | theorems about `BuildTracer` | |
| `Checkout` | resolvers, their cache directory and store | `internal/sourcecheckout`, `internal/cas/local.go`, `upload.go`, `materialize.go`, `cmd/source-push` |
| `MCCheckout`, `CheckoutProofs` | trees for TLC; theorems about `Checkout` | |
| `Configures` | one conversion's passes and the configures beside them | `converter/cmd/convert-element-cmake` |
| `MCConfigures`, `ConfiguresProofs` | projects for TLC; theorems about `Configures` | |
| `Exports` | imports-harvest and imports-wrapper-gen | `internal/harvest`, `internal/wrappergen` |
| `ExportsProofs` | theorems about `Exports` | |
| `Staging` | stage-b, file by file | `cmd/stage-b` |
| `Finalize` | finalize-b | `cmd/finalize-b` |
| `ElementFold` | fold-element, and what Bazel selects from its output | `converter/elementfold`, `internal/empfold`, `converter/emit/bazel/ast_emit.go` |
| `Narrowing` | source keys, traces and the audit | `cmd/write-a/srckey.go`, `internal/readpaths`, `cmd/audit-narrowing` |
| `TraceRules` | convert-element-trace, and the parallel build it reads the trace of | `cmd/convert-element-trace` |
| `ToolProofs` | theorems about `Staging`, `Finalize`, `Narrowing`, `TraceRules` and `ElementFold` | |
| `PackageSplit` | the split of one lowered element into packages, and what Bazel makes of it | `converter/emit/bazel/split.go` |
| `SplitProofs` | theorems about `PackageSplit`, and about what is reached in a finite graph | |
| `MCTools` | the tools, from `Exports` on, side by side for TLC | |

Definitions whose comment starts with "Fault:" are plausible mistakes in the
code. They are not part of any specification; put in the place of the definition
that follows them they make a property fail, which shows that the property
depends on the code (`mutants` in `PROJECT.json`).

### Rendezvous

A trace_build ends by running `trace-publish`, which packs a directory (trace.log
and perhaps make-db.txt), asks the store what is missing, puts it, puts the REAPI
Tree, and writes an ActionResult under a synthetic key; then it does the same for
the config bundle in a second keyspace. `pub[p]` is where one such process is.
`look[l]` is a `trace-lookup` process: GetActionResult, FindMissing of the root
alone, GetBlob of the root and of each file, outputs; then the bundle. It also
holds what its last run left in the declared outputs. `cas` and `ac` are the
store. `offered` and `evicted` are history variables that only properties read.

A digest is modelled by the value it is the digest of, so equal bodies share a
blob, as they do in a CAS; collisions are not modelled. The store is external:
that it may evict anything, and that it may hide entries whose blobs it lacks
(bb-storage's completeness checking), is taken from how the code and the docs
use it.

`TraceRegistry` says what all this amounts to: a register that is written in one
step and read in one step, where a reading is answered whole, and may be missed
or fail only when nothing was there or part of it was lost. The publisher's step
is its UpdateActionResult and the reader's its GetActionResult; everything else
is a stutter or the announcement of an answer.

### Converge

`pc`, `round` and `todo` are the script and the build it waits for; `loads` and
`converted` are what lies in A's bazel-bin, `staged` what lies in B's source
tree, `loadCache` and `buildCache` are Bazel's action cache and `published` is
the shared store. `RunLoad` reads the store in one step because a lookup is an
atomic read of each keyspace (the refinement above). Converters run in any order
that respects their inputs, and so do the trace_builds of a chain. A build that
fails ends the script (`set -e`), and the next invocation finds everything as it
was left. `tool` is what `--stage-b` names, which each invocation chooses anew (in the
model when it is first called, so that the build before it is not tripled):
`cmd/stage-b`, the same behind a wrapper that gives it the flags it has
("adapted"), or the stub of the gate ("noop"). A traced element is told of those
traced deps only that are of its own kind (`Kind`,
handler_pipeline_round2.go's `depKindAllow`).

`CONVERGE_GENERATION` is in the key of a trace_load and nowhere else; the model
keys `loadCache` by it and shows what follows: in one invocation every answer is
of the present round, while a later invocation, which counts from 1 again, may be
answered from the cache instead of from the store.

### BuildTracer

`proc` is the kernel's view of every pid: where it is, which call it is in and
how that ends. `states` is the map of the Go code and `trace` the lines. One
iteration of the loop (Wait4, the switch, PTRACE_SYSCALL) is one action: the
tracer is a single thread and the stopped process cannot move, except that it may
be killed between Wait4 and the calls that inspect it (`StopVanishes`). The
kernel actions are what ptrace guarantees with the options the code sets: the
stops one process makes come in order, those of different processes in any; a
child's first stop may be reported before its parent's fork event; a zombie
leader is reported after its threads; an execve by another thread takes over the
leader's pid.

`returned` records, as history, each traced call at the moment it returns to the
program, `orphans` the living children that no event will announce because
the parent was killed in its fork, and `takeovers` whether a thread that is not a
leader has made an execve. From then on only the end of the build is modelled,
and only the properties that still hold are claimed.

### Checkout

`res[r]` is a call of Resolve: `FetchDigest` asks the Remote Asset service, `Stat`
looks for the checkout, `Fill` writes one file of a new tree into `tmp` (the
`incoming-*` directory), `Install` renames it; `Pack`, `FindMissing`, `PutDirectory`
and `PutFile` are UploadDir. `checkout`, `store` and `source` are the disk and the outside world.
Every call may fail at every step, every process may die at every step, somebody
edits local sources, refs and bindings move, and the store may lose or damage
what is in `Fragile`.

LocalStore looks at names in FindMissing and at contents in GetBlob, so a damaged
blob is skipped by uploads and refused to readers; the model keeps both. A crash
is that of a process: what a renamed file holds after a crash of the host depends
on the file system, and the code does not fsync.

### Configures

`main` is where `runLowerPasses` is; `facts`, `wr`, `sinks` are its variables, and
`job`, `dir`, `folded` the configures beside it. A project is given by what a
lowering of it demands, which demands it refuses to do without, and what a warm
reconfigure can yield, so that every combination of recoveries happens. Each
reconfigure and each read-back may fail. `Sanitized` names the scratch directory of a
build type; two may have one (`Sharing`), and then both write there. `cancelled`, the joins and the removal
of scratch directories are steps of their own, on the way of success and on that
of every early return.

### The tools around a conversion

They share no state with each other or with the above: each reads files and
writes files. `MCTools` therefore lets a behaviour be one of one of them, in one
run, instead of interleaving them.

`Exports`: `rs` is the harvested rows after folding; `Visit`, `KeepDep`, `DropDep`
and `Leave` are the depth-first search, one edge a step, in any order (the code
fixes one). `manifest` is then what the search left or what somebody wrote by
hand; `BreakRoute` looks at one routed edge a step. Nothing else of a row than its
alias, artifact, references and link names takes part in a decision.

`Staging`: `splitOut`, `singleOut`, `optionsOut` are bazel-bin, which builds of
project A change between runs and where the other mode's output stays; `inB` and
`optionsInB` are project B. A run writes one file a step and may fail at each.

`Finalize`: a rule is what finalize-b looks at, and what Bazel needs of it. `Loads`
is Bazel's side, used before and after.

`ElementFold`: three attributes, one for each way attributes are merged. The second
half of the module is Bazel: which arms hold on a platform with some options on,
and what a select() then gives, so that "folded" and "converted" can be compared.

`Narrowing`: a digest is what it digests, so two trees have one key exactly when
the breakdowns are equal. Sources, patterns and the allowlist change between
builds; a trace and a report are kept per key.

`TraceRules`: the makes of a build interleave, as `make -j` and recursive make do,
and each command is a line of the trace. `disk` is history: which commands compiled
what lies in each product. `LookupCompile` is the converter's side, which has only
names: by directory and path, by path, by file name, and in each the last compile of
the trace. A trace of the native backend has directories, one of strace has none.

`PackageSplit`: `layout` is `splitPlan`, and `split` the rules by label with the files
that are exported. A path is a sequence of names, so that "under" and "relative to" are
what they are for paths. The lower half is Bazel: which labels lead anywhere, from which
package, across which boundary, and whether rules depend on themselves. `GrantsOf` is
what `#include`s worked while the element was one package, `IncludableBy` what works after;
sources are local, and a target's kind only matters where a library keeps a private
include directory to itself.

## What the runs check

| Run | Question | Bounds |
|---|---|---|
| `Rendezvous_publish` | two processes publish differing builds of one cell, and one of another platform, while a lookup reads: nothing dangles, nothing mixes, and it is the registry | 2 publishers that repeat for ever, 1 lookup that repeats, 2 bodies for every file, with and without make-db and bundle, an endpoint that is set or unset, no eviction |
| `Rendezvous_evict` | a store that drops any file or directory blob and any entry at any moment, without completeness checking, and a CAS endpoint that may not answer: refinement, and every lookup ends | 1 build, 1 publisher, 1 lookup |
| `Converge_rounds` | two invocations, each with any of the three staging tools and what the one before it left in B, while the store evicts, others publish, lookups and builds fail | traced and cmake elements in turn, four links deep, the last of which requires a bundle, the traced two of one kind and on each other; 3 rounds, 2 invocations |
| `BuildTracer_follow` | a build with up to three processes and threads at once, any deaths, pids reused | 3 pids, 2 lines of trace; no bound on forks, calls or signals |
| `Checkout_share` | two resolvers share cache and store over sources that change, with crashes, failures and losses anywhere | 2 resolvers that repeat for ever, a source of each kind, 2 trees of 2 files that differ in both, 1 file somebody edits, 1 blob that is lost or damaged |
| `Configures_passes` | every combination of rescues, warm passes and refusals beside two bakes and two flips that end, fail and are cancelled at any time | 2 build types and 2 options, the names of either pair differing in punctuation only, 34 projects |
| `Tools_side_by_side` | what the import tools, stage-b, finalize-b, fold-element, the audit, convert-element-trace and the split leave behind, from every input in the bounds | below |

`Rendezvous_partial_eviction`, `Converge_bootstrap`, `BuildTracer_thread_exec`,
`Configures_build_types` and `Exports_alias_cycle` each end in a counterexample to a sentence of the repository;
see "Disagreements" below.

Why the bounds are enough: a mixed result needs two publications that differ in
every file, and one reader; a dangling entry one publisher and one eviction; a
platform or keyspace confusion two of either. The properties speak of one lookup
at a time and lookups do not affect each other. In `Converge`, two traced
elements give a chain and a consumer beyond it; the third round is the one the
claim "two rounds suffice" excludes, and the second invocation the one that
finds an old bazel-bin and cache, or packages that another staging tool has
overwritten; a cmake element after each traced one gives the alternating chain the
docs speak of, and a store that others publish to lets its requiring end configure while
traces are still missing. In `BuildTracer`, three pids give a parent, a
child and a grandchild or a thread of either, and the reuse of a pid while others
live; two lines are the shortest trace with an order, beside the root's own line.
In `Checkout`, two resolvers are what a race needs, and two trees that share no
body what a mixture would show in. In `Configures`, two jobs of a kind are what
can be confused: the build types share a scratch directory, the flips must not, and the
projects are chosen so that each rescue recovers, fails, and hides what a later one needs. Where a theorem exists the bounds only matter
for the sanity of the model.

In `Tools_side_by_side`: four targets, two of which share a wrapper name and one
of which may be an alias or be folded, with all references among three of them and
manifests with clashing labels (cycles of two and three, declared, routed and
mixed); two elements with a root and a sub-package and three builds (one of each
mode and one more); two packages, the second with references to the first, each
converged, made of either kind of stubs, or not converged; two platforms under
five matrices (told apart by CPU, by system, by nothing, by given keys, by a
clashing key), two sources that are flat or in platform, option or default arms,
one option; four files in three sources (at the root, in a directory, pinned),
two contents, two edits and two traces; twelve builds of one to three makes, with and
without directories in the trace: recursive make, objects in subdirectories and above
(`..`), an archive that is bundled and not the one linked, one linked by path,
libtool's double compile, an object compiled again for a second archive, an archive in
two steps, a program beside its library, configure's tests, an unknown compiler; for the
split, a tool with a library, what it generates (a header, or a source beside it, in one
package or two) and a user of both, public or not, under all combinations of a few include directories,
public, private or the root; a second tool built from what the first one generates; the
root as an include directory over headers of one package; compiled sources among the
headers of a directory; a generated script that a generator runs or a target is built
after, and a program with the name of a file. What these properties relate takes at most two of each kind to
break.

`MaxRounds` and `MaxRuns` are the driver's own `--max-rounds` and a bound on
invocations; `MaxLines` bounds the calls a traced build makes that produce a line.
`MaxBuilds` (Staging) bounds the builds of project A, `MaxEdits` and `MaxTraces`
(Narrowing) what is changed and published. The other modules have no bound of
their own: their states are finite because their constants are.

Deadlock is checked in the runs of `Rendezvous` and `BuildTracer`. For the latter
this is a property in itself: as long as `runNative` has not returned, some
process can move or some stop can be handled, so it never waits for ever for an
event that cannot come; `Returned` marks the only legitimate end. It is checked for `Checkout` too.
`Converge` may stop, when its invocations are over and the store is full, and so
do a conversion that has returned and the tools.

### Fairness

`Rendezvous!FairSpec` asks for weak fairness of each started lookup's own steps:
the code has no lock and no wait other than for the store's answers, and Bazel
runs the action to its end. Publishers and the store get none; lookups end
whatever those do. `Converge!FairSpec` asks for weak fairness of the script and
the builds it waits for, together, as they are one chain of processes; nothing is
assumed of other machines or of eviction. `DriverEnds` says that an invocation ends, and
how: of one in which nothing is lost or fails, by converging, by a cmake element that
requires an unpublished bundle, by the flags of cmd/stage-b if that is the tool, or, if a
tool has overwritten an element's trace_build, by the target it then misses. With the
gate's stub alone only the first two would be left; the run has all three tools.
`Configures!FairSpec` asks for weak
fairness of the main goroutine, of every goroutine that was started, and of
cmake, which ends; all are of one process and none waits for anything else. No
liveness is claimed of the tracer: a build may run for ever.

### Properties worth reading first

- `RegistrySpec`: a lookup is one atomic read of a register.
- `HitIsAuthentic`: what a hit hands to Bazel is one publication, whole, for this
  source key and platform.
- `FixpointIsFine`, `TwoRoundsSuffice`, `QueriesAreFresh`: what "converged" means,
  what it costs, and on what evidence.
- `TraceIsHistory`: the trace is the build's history, each call once, in order.
- `LeavesNothingBehind`: the tracer does not return while a process it was told
  of is alive.
- `ResultIsOneTree`: what a path and a digest returned together have to do with
  each other, and when not.
- `NothingLost`, `Returns`: no recovery is lost to another, and no join waits for
  ever.
- `RecoveredAsBuilt`: a library is recovered with its own sources, however the lines
  of the build interleave, and what it takes for that to be certain.
- `FoldedAsConverted`, `DeliveryLoads`, `LabelsSurvive`, `StagedAsConverted`, `RulesLoad`:
  stated as equivalences where the code keeps its promise only under a condition, so that
  the condition is exact. The next but one section says where it contradicts the
  documentation.
- `SplitLoads`, `IncludesSurvive`: one package or many, the element loads, and nothing that
  could be included is lost, but for what the split takes away on purpose.
- `CleanAuditMakesHitsSafe`: what an audit is worth.

## What is proved

All theorems hold for every value of the constants that satisfies the named
assumptions, which TLC evaluates on every run. Most only say of which kind each
constant is and that marks such as `None` and `Absent` are not confused with data.
These say more, each because the code does:

- `BundlesAssumption`: a tar archive is not empty.
- `ConfiguresAssumption`: a build type is no flip. That two build types have different
  scratch directories is not assumed, as the code does not see to it.
- `RanksAssumption`: names are totally ordered, and any set of targets has a first and a
  last one, which holds of finitely many strings.
- `StagingAssumption`: an absent file is not one with some contents.
- `ProjectsAssumption`: project B loads before it is finalized and has the shapes that
  the templates and converters of write-a give it (`Rendered`): one trace_build per
  package, stubs that refer to their own package's extraction, converted rules that refer
  to no other element's scaffolding.
- `TracedBuildsAssumption`: a path has `..` at most at its beginning, and what the
  classifier takes for a compile has a source, for an archive an object, and for a link
  either.
- `FlagsAssumption`, `FoldInputsAssumption`: the cells are some of the matrix and one sorts
  first; constraints, `select_label`s, labels of options and the default are different
  labels; an arm of a cell has one label and something in it, and a source of a cell is
  flat, or in arms of options, or in arms of platforms. An arm of compile options has an
  option's label or is the default; none has a platform's before the fold.
- `LoweredAssumption`: an element is what lowering makes (`IsLowered`): finitely many
  targets whose names are not those the split gives to header libraries (it looks for free
  ones), no file is a directory, every file has one producer, rules that generate are
  declared at the root and have no headers, deps or include directories, and a target that
  has the root as an include directory is public (lower.go:6023 and the package's default;
  only generated rules are made private). A private include directory that is the root
  gives no library (split.go:1110) and stays a flag of the target's compiles, about which
  nothing is claimed.
- `ProjectsAssumption` also stands for this: the text `@rules_buildstream_bazel//` that
  finalize-b looks for (main.go:192) is in load statements only, so that
  `MentionsRulesPackage` asks what is loaded.

| Theorem | Says | Argument |
|---|---|---|
| `RendezvousProofs!TypeCorrect` | `[]TypeOK` | inductive as it stands |
| `RendezvousProofs!NothingDangles` | `[]NoDanglingEntry` | `UploadInv`: blob by blob, what a publisher has asked about is stored, evicted or still on its list. `NoDanglingEntry` alone says nothing about a publisher halfway |
| `RendezvousProofs!UploadsAreComplete` | `[]UploadInv` | inductive together with the types |
| `RendezvousProofs!OutputsExist` | `[]DeclaredOutputsExist`, where a CAS address is configured | `OutputsInv`: what each step of a lookup has written by the time it is left |
| `RendezvousProofs!HitsAreAuthentic` | `[]HitIsAuthentic` | `OfferInv`: what is in the AC, in a publisher's hands, or being fetched was offered for that keyspace and cell; it needs that the synthetic key is injective |
| `BuildTracerProofs!TypeCorrect` | `[]TypeOK` | inductive with a lemma for each of the two ways a process moves (death, PTRACE_SYSCALL) |
| `BuildTracerProofs!ToggleCorrect`, `!TraceCorrect` | `[]InSync`, `[]TraceIsHistory` | `HistoryInv`: both together, with types and the fact that rax at an enter stop is never a success. `InSync` says that what the tracer takes for an enter stop is one, from which one line per success follows |
| `BuildTracerProofs!NobodyLeftBehind` | `[]LeavesNothingBehind` | `FollowInv`: what runs is registered; a child that has not surfaced is registered, announced by a pending fork event, or an orphan; the leader of a living thread stays registered |
| `BuildTracerProofs!ExitStatusCorrect` | `[]ExitPropagates` | `RootInv`: the root stays registered and its own leader until it is reaped, and its corpse holds its status |
| `CheckoutProofs!TypeCorrect`, `!WholeCheckouts`, `!HonestStore`, `!StoredDigests`, `!OneTree`, `!StableCheckouts` | the five invariants and `[]CheckoutsStay` | one invariant, by what a resolver is doing (looking, filling, uploading, returned), and three facts that any step keeps for all other resolvers: what a source has stood for only grows, a checkout stays, the store loses only what is in `lost` |
| `ConfiguresProofs!TypeCorrect`, `!PackageIsComplete`, `!RefusalsAreReported` | `[]TypeOK`, `[]NothingLost`, `[]NoRefusalSwallowed` | `PassesInv`: what `runLowerPasses` knows at each of its places. The package is the lowering of all that was recovered so far (during the warm passes: of all but what `wr` still holds), or there is none and a refusal is deferred |
| `ConfiguresProofs!ConfiguresAreOwnAndRemoved`, `!ScratchIsRemoved` | `[]FoldReadsOwn`, `[]NothingLeftBehind` | `JobsInv`: what a job and its scratch directory are at each place of main: who has written in a directory is who shares it (`ScratchIsShared`), and when an arm is folded all of them have (`DoneHasWritten`) |
| `RendezvousProofs!RegistryImplemented` | `RegistrySpec` | step by step: an UpdateActionResult is the register's write, a GetActionResult its read, an answer is announced when the outputs are written, and all else stutters. `ReadingInv` (`!ReadingsAreWhole`) is what makes the announcement true: what is being read was uploaded before it was named, and what is gone of it was evicted after |
| `ConvergeProofs!TypeCorrect` | `[]TypeOK` | `RoundInv`: it and, by the place in the script, how many rounds are behind |
| `ConvergeProofs!MarkersAgree`, `!FixpointsAreFine` | `[]MarkersMatchOutputs`, `[]FixpointIsFine` | `OutputsInv` (`!OutputsAgree`): of every action of this round's build that has run, that its outputs belong together and to this round; for the actions still to run nothing is claimed, as their outputs may be an earlier invocation's |
| `ConvergeProofs!QueriesFresh` | `[]QueriesAreFresh` | `FreshInv` (`!HitsAreSeen`): in the first invocation the cache has no answer under the present generation but those of this round |
| `ConvergeProofs!TwoRounds` | `[]TwoRoundsSuffice` | `TwoRoundsInv` (`!CalmRounds`): as long as nothing is lost and nothing fails, the first round's frontier only shrinks by publication, every element outside it is in the store, and so the second round misses nothing |
| `ExportsProofs!CyclesUnseen` | `[]CyclesAreUnseen`, for harvested and hand-written manifests, with labels shared or not | `Routing`: the accepted edges are acyclic, because an edge is added only from where its target cannot reach; the package's edges among wrappers that hold their labels are accepted ones |
| `ExportsProofs!HarvestsAccepted` | `[]HarvestIsAccepted` | `OnAPath`, `LeadsOn`: the stack is a path of deps, what has been left has only kept edges to what was left before it, and what is on the path also one to the next. So among any set of libraries there is one without a kept edge into the set. The generator's edges, computed by label after aliases took labels over, are among the kept ones |
| `ExportsProofs!LabelsHold` | `[]LabelsSurvive` | `GeneratesHarvest`: the generated manifest is the harvest's, so that a label has two holders only if one of them is an alias of the other; of those the one that sorts last takes it |
| `ToolProofs!StagingHolds` | `[]StagedAsConverted` | `StagingInv` (`!StagingKeeps`): of every file, that it is as converted if this run has looked at it and as last reported if not; an output of the other mode that stays in bazel-bin is the part that needs care |
| `ToolProofs!DeliveryHolds` | `[]DeliveryLoads` | packages are cleaned one by one, so that out is `CleanupBuild` of what was there; `SafeLoads` and `LoadsSafely` are the two directions, reference by reference |
| `ToolProofs!RecoveryHolds` | `[]RecoveredAsBuilt` | `TraceRulesInv` (`!DisksKnown`): what lies in a product that was written once. `FoundApart`: each of the three lookups that could answer finds only that compile, because two spellings that agree with their directories are of one file (`SameFile`), and a file has the name it is spelled with (`NameOfFile`) |
| `ToolProofs!LoadingHolds` | `[]RulesLoad` | `ShownHasSources`: a last compile is found if and only if one has the name, by the well-foundedness of the numbers |
| `ToolProofs!FoldingHolds` | `[]FoldedAsConverted` | `FoldInv` (`!FoldsKnown`): the keys are the platforms' own, and what was folded is the fold of the cells. Then, arm by arm, what a select() takes on a platform of the cell (`CellTakes`, `CellOptionTakes`) and of the folded target (`FoldTakes`, `OptionTakes`): the two take the same sources, or, flag by flag, add the same options at the same place |
| `ToolProofs!HitsAreSafe` | `[]CleanAuditMakesHitsSafe` | `TracesInv`, `ReportsInv`: a key determines every content that any patterns giving that key cover, and a clean report says that what was read is covered, expected, pinned, or under one of its two paths only |
| `SplitProofs!SplittingLoads` | `[]SplitLoads` | `SplitInv` (`!SplitsKnown`): the layout is the element's and the rules those of both. Labels: the rule behind a file's label is its producer's or none, and `publicize` and `exports` cover what is named across packages. Cycles: what a generator's rule reaches stays among what it needed and libraries whose headers were all generated for it (`GeneratorsOnNoCycle`); a library on a cycle would lead to one of a deeper directory, and a target to one that needed less, and both end |
| `SplitProofs!IncludesKept` | `[]IncludesSurvive` | the rules of a target's deps are behind its own (`DepsAreBehind`); a header below a granted directory is in that directory's library or in one it forwards (`LibraryHasHeaders`); the root's headers are in the library of the package that owns them, or keep the package's prefix |

What the split's proofs know of graphs is in `ReachedCloses` and `ReachedStays`: as many
steps as there are nodes close the search, because a stage that is not closed has a node
more than the one before. `StagesExist` makes a recursive function usable at all, by
induction over the numbers in the form of a set that has 0 and every successor.

"Acyclic" is, for the import tools: every non-empty set of nodes has one with no edge into the set. For
a finite graph that is what Bazel asks for; the modules assume of their targets
that they are finitely many, in the form that sets of them have a first and a
last element.

TLC checks `UploadInv` as an invariant beside what it implies; the other inductive
invariants are only proved.

Only model-checked:

- liveness (`LookupEnds`, `DriverEnds`, `Returns`) and the tracer's freedom from
  deadlock: fairness and ENABLED are beyond the prover.

Every invariant and every safety property that a run checks is a theorem.

Four properties owe their present form to their proofs, which failed for reasons that
TLC's instances had not shown; models and instances now have these cases.

- `LabelsSurvive` held only because no alias of the instance stood for another alias or
  for a target outside of the prefix.
- `DeliveryLoads` had a condition that is sufficient but not necessary: stubs without a
  reference lose nothing, and a package that is left with nothing but headers is not the
  same as a converted one. `SafeToStrip` is exact.
- `FoldedAsConverted` was false for a matrix in which an operator's `select_label` is a
  constraint of another platform (`KeysTellApart`, see below), and `Disturbed` missed
  that an own arm which moved to a group leaves the default arm to apply beside it.
- `SplitLoads` was false for elements that the instance did not have: a target built after
  one of another package, a generator named by its target's name, a private tool in another
  package, and a file with the name of a rule. The first the code takes care of and the
  model had left out; the others are `NamesStay`, `ToolsAreVisible` and `NamesApart`. Each
  condition of the property has an element in the instance that violates it alone, so that
  none can be left out.

## Disagreements between the code and what is said of it

With a counterexample (`findings` in `PROJECT.json`):

1. A store that lost only a file's blob makes `trace-lookup` fail, where the docs
   promise a miss (`Rendezvous_partial_eviction`).
2. A cmake element that requires a bundle nobody has published yet ends the
   driver in its first round (`Converge_bootstrap`).
3. An execve by a thread that is not its group's leader leaves no line
   (`BuildTracer_thread_exec`).
4. Two build types whose names differ in punctuation only are configured in one scratch
   directory, where each should have a fresh one of its own (`Configures_build_types`).
5. A harvested alias takes the place of its target in the generator's cycle checks, and a
   routed edge that closes a cycle is kept (`Exports_alias_cycle`).

Met while reading, without a run of their own:

- Without a CAS address `trace-lookup` returns before it creates the bundle that
  `trace_load` declares (cmd/trace-lookup/main.go:96-103, where the comment at :192-194
  says of "no CAS endpoint" that a zero-byte file is written); the model has it as
  `LookupOffline`, and `DeclaredOutputsExist` is checked with an address.
- `converge.sh:145` calls `--stage-b` with `--in` and `--out`, and says at :14 and :104 that
  this is cmd/stage-b, which defines `--project-a` and `--project-b` only
  (cmd/stage-b/main.go:72-73): `set -eu` ends the driver in round 1. `DriverEnds` lists
  it ("stage usage"), and no run without a wrapper or the gate's stub gets further.
- An endpoint that is set and does not answer makes `trace-lookup` fail
  (cmd/trace-lookup/main.go:110-137); the model has it as `LookupUnreachable`.
- The comment at cmd/trace-lookup/main.go:74 says trace and bundle are published
  atomically; cmd/trace-publish/main.go:97 publishes one after the other, and a
  lookup can hit the first and miss the second. Because the marker the driver
  reads reports the trace alone, a bundle lost this way, or evicted, is never
  published again by the driver.
- The comment at converter/elementfold/elementfold.go:879-884 says that an operator's
  `select_label` that equals an auto-detected platform's constraint is rejected. The code
  after it compares the picked keys alone, so that a label which is another platform's
  constraint but not its key is accepted, and both arms of a select() hold on that
  platform. `FoldedAsConverted` claims nothing of such a matrix (`KeysTellApart`); one is
  in the instance.
- docs/design/convergence-driver.md:55-57 says that "alternating cmake → trace → cmake →
  trace chains take depth-many rounds", and tools/converge.sh:24-25 bounds the rounds by
  the longest configure-needing chain. The code builds the whole frontier in one build of
  B, and a cmake element configures in A's build of the same round whether or not the
  traced elements below it are published: such a chain takes two rounds however deep it
  is (`TwoRoundsSuffice`, over such a chain), or, with a cmake element that requires a bundle
  not published yet, none, because the first build of A fails (2 above).
- `CONVERGE_GENERATION` starts at 1 in every invocation, so with a persistent
  cache a second invocation may be answered with the first one's misses
  (`QueriesAreFresh` is stated for the first one only).
- A placeholder staged by stage-b replaces the BUILD.bazel that has the
  trace_build target the next step builds (`Endings` has "no such target"). The
  driver does not get there with the real stage-b, whose flags it does not know.
- A child's initial SIGSTOP is injected into the child
  (cmd/build-tracer/native_linux_amd64.go:209), one more stop its parent may see.

Of the tools, met while modelling them. The properties are stated so that they
hold, with these cases in their conditions:

*Sources.* After an asset was bound to another Directory, a resolver returns the
path of the old checkout with the digest of the new one, where
checkout.go:73-77 describes them as one tree. A damaged blob is never repaired by
uploading it again (local.go:52).

*Configures.* For build types that share a scratch directory (4 above) `FoldReadsOwn` says
what an arm may then hold: what any of them wrote, and nothing else. A stamp rescue that recovers set() copies keeps the warm pass from reading
file(WRITE) templates. A refusal of the second pass is final even when a nested
build is pending, unlike one of the first.

*Exports.* (1) An alias that sorts after its target takes the target's label in
`oldLabelToNew`, and consumers get its empty wrapper; harvest.go:21-23 calls
generation label-idempotent. `LabelsSurvive` says when. (2) `foo` folded into
`ns::foo` stays as an alias, and the generator then refuses the manifest because
both have one wrapper name; harvest.go:136-139 folds them so that they do not
collide. (3) Where two exports share a label, cycles through the one that does not hold it
are not seen (5 above). `CyclesAreUnseen` says that there are no other cycles.

*Staging.* A run that fails reports none of the packages it has already changed,
and neither does its retry. A packages directory left by an earlier build with
--split-packages is preferred to a newer BUILD.bazel.out. Sub-packages that are no
longer emitted stay in B.

*Finalize.* (1) The tag that protects kind:cmake stubs, `cmake-codegen-target-fallback`
(main.go:246-257), is emitted by nothing; the stubs carry
`cmake-codegen-execute-process-fallback`
(converter/internal/lower/execute_process_fallback.go:141), so they are taken for
converted rules and lose the targets they refer to. (2) A load of constants
(`COMMON_COPTS`) is pruned as unused, although main.go:232-234 prunes what nothing
references. (3) An unconverged element's `pipeline_install` keeps its references to
the `trace_build` of converged ones, which is gone. `DeliveryLoads` says that
there is no fourth way. (4) A run that fails leaves an --out that no later run
accepts.

*Folding.* (1) A source that only one platform has goes into the same select() as
the agreed `//conditions:default` arm, and on that platform the default arm's
sources are lost; elementfold.go:545-556 rules this out. (2) `PickSelectKeys` takes
the first unique constraint in byte order, `@platforms//cpu:*` before `os:*`: beside
an agreed `os:*` arm two conditions of one select() hold and Bazel refuses it,
which its own comment (:872-883) means to avoid. (3) An arm that only some platforms
have moves to a group of its own, and the default arm then applies on its platform
as well. (4) A source that is flat on one platform and in an arm on another is lost
on the first (the comment at :571-575 intends the claim). (5) The agreed arms of a
target apply on platforms that do not declare it; the comment at :74-80 has them
empty. (6) Attributes that `targetAttrs` does not list (`local_defines`,
`target_compatible_with`, `host_linkopts`) are silently the first cell's.

*Narrowing.* Patterns are matched on the path in the source, the audit matches the
path in the element, so that for a source with a directory the audit may be clean
although the key does not cover a file, or the other way round (the last case of
`CleanAuditMakesHitsSafe`). srckey.go:150-154 says that a symlink counts with its
target's name; os.ReadFile follows it.

*Trace rules.* (1) Rules are not merged by name: an archive made in two steps, a
program named as its library, or configure's conftest programs give two rules of one
name, which Bazel refuses. (2) An archive none of whose objects a known compiler made
gets no rule, but links go on depending on it (main.go:1094-1097). (3) An archive linked by
its path is no dependency. (4) The last compile of an object wins, even for an archive
that was made before it. (5) The key by directory joins two paths and leaves `..` in
them, so that objects named from elsewhere fall back to their path or name. (6) Sources
are spelled as the command spells them, relative to its own directory. `RecoveredAsBuilt`
and `RulesLoad` say which builds are free of (1) to (5).

*Package split.* (1) The wrapper of a package's generated headers has those of all its
consumers (split.go:718-813), so that a tool built from what another tool generates
depends on itself as soon as both outputs lie in one package. (2) A generated file that only
a select() arm names is not made public for another package (split.go:1174-1255 does not
look at arms). (3) A tool is kept from the first component of its output paths only
(split.go:973-1072); an include directory above or below that closes the cycle the
comment there describes. (4) A tool whose output directory also has source headers
loses those. (5) With the root as an include directory over several packages generated
headers are in none of its libraries; over one package the prefix is lost for headers
that lie elsewhere or below an include directory of the target's own. (6) A target's name is labelled with the package it was
declared in (split.go:1969-1971), also where its rule is placed with its first output
(split.go:440-450, :100-128), as for tools and data that name a generator (split.go:1446, :2097): the label
leads nowhere. Only names among a target's sources are looked up where they were placed (:1636). (7) Whoever
runs or links a private target is moved away from it without making it public, as
split.go:1174-1255 looks at files and `:name` references and not at tools and deps. (8) The
split gives free names to header libraries, but not to what a moved target or a file of a
new package may meet there: an output and a target of one name are one label. (1) and (3) are
excluded by `NothingNewForTools`, (2) by `ArmsAreLocal`, (6) to (8) by `NamesStay`,
`ToolsAreVisible` and `NamesApart`; (4) and (5) are `Forgone` and `SurvivesAtRoot`.

## Plan

Done, in this order: Rendezvous with its abstract specification and proofs;
Converge; BuildTracer with its proofs; Checkout with its proofs; Configures;
Exports with its proofs; Staging and Finalize; ElementFold; Narrowing with its
proofs; TraceRules; the proofs of Configures; PackageSplit.
Then the proofs of the refinement, of Converge, Staging, Finalize, TraceRules, ElementFold,
of what was left of Exports, and of PackageSplit.

Candidates for modelling next: the classes of `internal/regression`,
`configfold` (the algebra of `ElementFold` over configurations), the .pc channel of the
harvest.

## What is not modelled, and why

Text and formats (BUILD text, parsers, canonicalisation), pure translation
(lowering, the meson and pyproject converters), probes and reports have no steps
that could interleave and their data is the whole of them; fixtures test them
better. Each component and its reason is in `PROJECT.json`, which names the main file of each package. Of the modelled
components the following is left out: the `strace` fallback of build-tracer and
its attach phase, x86-64 register layout, digest collisions, partial writes by
the file system, and Bazel's own correctness, of which only the action cache and,
for the tools, loading and select() are modelled. Of the import tools: the .pc
channel, archives nobody declares, LINK_GROUP, executables, includes, linkopts and
the `lib` prefix. Of folding: several targets and kinds, visibility and tags, group
names, and cells that disagree on a label's family. Of a conversion: what lowering
does with a fact once it has it. Of stage-b: the two sidecar files. Of
convert-element-trace: the splitting of lines and arguments, flags taken from the make
database, generated headers and the install mapping. Of the split: sources behind a SourceKey,
glob, directory and alias targets, imported libraries, configure_file templates, shared
dependencies, native rules and the search for free names.

By lines, most of the repository is lowering and emission of one cmake project
(`converter/internal/lower`, `converter/emit`, `internal/shadow`), whose only
specification is what it prints; a model of it would be the program again.
