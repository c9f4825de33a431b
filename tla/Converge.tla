------------------------------- MODULE Converge -------------------------------
(***************************************************************************)
(* tools/converge.sh: rounds of "build project A, stage its BUILD files    *)
(* into project B, read the markers, build the frontier's trace_builds in  *)
(* project B", over Bazel's action cache and a store other machines share. *)
(* A trace_load reads the store in one step (module RendezvousRefinement   *)
(* shows that a lookup is an atomic read of each keyspace).                *)
(***************************************************************************)
EXTENDS Naturals, FiniteSets

CONSTANTS
    Traced,       \* trace-driven elements: a trace_load in A, a trace_build in B
    CMake,        \* kind:cmake elements: converted in A from their own configure
    Deps,         \* element -> the elements it depends on
    Kind,         \* traced element -> its kind: autotools, make, meson, ...
    Requires,     \* cmake elements whose find_package of a dep is REQUIRED
    CasAddr,      \* the driver was given --cas-grpc-addr
    StageTools,   \* what --stage-b may be: "cmd" is cmd/stage-b, "adapted" the
                  \* same behind a wrapper that renames the flags, and "noop"
                  \* the stub of scripts/meta-converge.sh
    SharedCache,  \* Bazel's action cache keeps every key (a remote cache), or
                  \* only the last one of each action (the local cache)
    Faults,       \* what else may happen: "build", "evict", "others"
    MaxRounds,    \* --max-rounds
    MaxRuns       \* bound: invocations of the driver

Elements == Traced \cup CMake

ASSUME DriverAssumption ==
    /\ Traced \cap CMake = {}
    /\ Deps \in [Elements -> SUBSET Elements]
    /\ DOMAIN Kind = Traced
    /\ Requires \subseteq CMake
    /\ CasAddr \in BOOLEAN
    /\ StageTools \subseteq {"cmd", "adapted", "noop"}
    /\ SharedCache \in BOOLEAN
    /\ Faults \subseteq {"build", "evict", "others"}
    /\ MaxRounds \in Nat \ {0}
    /\ MaxRuns \in Nat

VARIABLES
    pc,         \* where the driver is
    tool,       \* --stage-b of the last invocation, once it has been called
    round,      \* ROUND, which is also CONVERGE_GENERATION
    todo,       \* the actions left of the `bazel build` under way
    loads,      \* element -> the keyspaces its trace_load outputs hold a hit of
    loadCache,  \* trace_load results in Bazel's action cache
    buildCache, \* trace_builds there, by the generation they ran under
    converted,  \* element -> its BUILD.bazel.out in A
    staged,     \* element -> its BUILD.bazel in B; "coarse" is write-a's
    published,  \* element -> the keyspaces the shared store has it in
    why,        \* what ended the last invocation
    runs,       \* history: invocations so far
    disturbed,  \* history: something was evicted or has failed
    seen        \* history: what `published` has held since A's build was started

bazel == <<loads, loadCache, buildCache, converted>>
vars == <<pc, tool, round, todo, bazel, staged, published, why, runs, disturbed, seen>>

Spaces == {"trace", "config"}
Rounds == 0 .. MaxRounds
Shapes == {"none", "coarse", "placeholder", "fine"}
Endings == {"none", "converged", "rounds", "lookup", "configure", "stage usage",
            "no such target", "trace_build"}

TypeOK ==
    /\ pc \in {"idle", "buildA", "stage", "markers", "buildB", "final"}
    /\ tool \in StageTools \cup {"none"}
    /\ round \in Rounds
    /\ todo \subseteq {"load", "convert", "trace_build"} \X Elements
    /\ loads \in [Traced -> SUBSET Spaces]
    /\ loadCache \subseteq [elem : Traced, gen : Rounds, out : SUBSET Spaces]
    /\ buildCache \subseteq [elem : Traced, gen : Rounds]
    /\ converted \in [Elements -> Shapes]
    /\ staged \in [Elements -> Shapes]
    /\ published \in [Traced -> SUBSET Spaces]
    /\ why \in Endings
    /\ runs \in 0 .. MaxRuns
    /\ disturbed \in BOOLEAN
    /\ seen \in [Traced -> SUBSET Spaces]

Init ==
    /\ pc = "idle"
    /\ tool = "none"
    /\ round = 0
    /\ todo = {}
    /\ loads = [e \in Traced |-> {}]
    /\ loadCache = {}
    /\ buildCache = {}
    /\ converted = [e \in Elements |-> "none"]
    /\ staged = [e \in Elements |-> "coarse"]
    /\ published = [e \in Traced |-> {}]
    /\ why = "none"
    /\ runs = 0
    /\ disturbed = FALSE
    /\ seen = published

-----------------------------------------------------------------------------

\* The driver exits; `set -e` makes any failed command do so.
Exit(reason) ==
    /\ pc' = "idle"
    /\ why' = reason
    /\ todo' = {}

ActionsOfA == ({"load"} \X Traced) \cup ({"convert"} \X Elements)

\* The top of the loop: `bazel build //elements/...:*` in A at the next generation.
BuildA(r) ==
    /\ pc' = "buildA"
    /\ round' = r
    /\ todo' = ActionsOfA
    /\ seen' = published

Start ==
    /\ pc = "idle"
    /\ runs < MaxRuns
    /\ tool' = "none"
    /\ BuildA(1)
    /\ runs' = runs + 1
    /\ why' = "none"
    /\ UNCHANGED <<bazel, staged, published, disturbed>>

\* Recording an action's result under its key; the local cache has room for one.
Cached(cache, result) ==
    {c \in cache : SharedCache \/ c.elem # result.elem} \cup {result}

\* A trace_load whose key Bazel has a result for is not run.
LoadFromCache(e) ==
    /\ pc = "buildA" /\ <<"load", e>> \in todo
    /\ \E c \in loadCache :
          /\ c.elem = e /\ c.gen = round
          /\ loads' = [loads EXCEPT ![e] = c.out]
    /\ todo' = todo \ {<<"load", e>>}
    /\ UNCHANGED <<pc, tool, round, loadCache, buildCache, converted, staged, published, why, runs, disturbed, seen>>

\* Otherwise trace-lookup asks the store for both keyspaces.
RunLoad(e) ==
    /\ pc = "buildA" /\ <<"load", e>> \in todo
    /\ ~\E c \in loadCache : c.elem = e /\ c.gen = round
    /\ CasAddr
    /\ loads' = [loads EXCEPT ![e] = published[e]]
    /\ loadCache' = Cached(loadCache, [elem |-> e, gen |-> round, out |-> published[e]])
    /\ todo' = todo \ {<<"load", e>>}
    /\ UNCHANGED <<pc, tool, round, buildCache, converted, staged, published, why, runs, disturbed, seen>>

\* trace-lookup exits 1 when part of what an entry names was evicted; with no
\* CAS address it leaves the bundle the rule declared uncreated, and Bazel fails
\* the action (Rendezvous!Fail, Rendezvous!LookupOffline).
RunLoadFails(e) ==
    /\ pc = "buildA" /\ <<"load", e>> \in todo
    /\ ~\E c \in loadCache : c.elem = e /\ c.gen = round
    /\ "evict" \in Faults \/ ~CasAddr
    /\ Exit("lookup")
    /\ disturbed' = TRUE
    /\ UNCHANGED <<tool, round, bazel, staged, published, runs, seen>>

\* Fault: fine rules are not taken back when the trace is gone.
ConvertTracedKeeping(e) ==
    /\ pc = "buildA" /\ <<"convert", e>> \in todo /\ <<"load", e>> \notin todo
    /\ converted' = [converted EXCEPT ![e] =
                        IF "trace" \in loads[e] \/ @ = "fine" THEN "fine" ELSE "placeholder"]
    /\ todo' = todo \ {<<"convert", e>>}
    /\ UNCHANGED <<pc, tool, round, loads, loadCache, buildCache, staged, published, why, runs, disturbed, seen>>

\* convert-element-trace writes fine rules from a trace.  A miss left a trace.log
\* of no bytes, of which it recovers no targets: a placeholder.
ConvertTraced(e) ==
    /\ pc = "buildA" /\ <<"convert", e>> \in todo /\ <<"load", e>> \notin todo
    /\ converted' = [converted EXCEPT ![e] =
                        IF "trace" \in loads[e] THEN "fine" ELSE "placeholder"]
    /\ todo' = todo \ {<<"convert", e>>}
    /\ UNCHANGED <<pc, tool, round, loads, loadCache, buildCache, staged, published, why, runs, disturbed, seen>>

\* convert-element-cmake configures against its deps' bundles, the cmake ones
\* made by this build and the traced ones loaded from the store; zero-byte
\* bundles are not unpacked, and then a REQUIRED find_package stops it.
Configurable(e) == e \in Requires => \A d \in Deps[e] \cap Traced : "config" \in loads[d]

ConvertCMake(e) ==
    /\ pc = "buildA" /\ <<"convert", e>> \in todo
    /\ \A d \in Deps[e] :
          <<IF d \in CMake THEN "convert" ELSE "load", d>> \notin todo
    /\ IF Configurable(e)
       THEN /\ converted' = [converted EXCEPT ![e] = "fine"]
            /\ todo' = todo \ {<<"convert", e>>}
            /\ UNCHANGED <<pc, why>>
       ELSE /\ Exit("configure")
            /\ UNCHANGED converted
    /\ UNCHANGED <<tool, round, loads, loadCache, buildCache, staged, published, runs, disturbed, seen>>

BuiltA ==
    /\ pc = "buildA" /\ todo = {}
    /\ pc' = "stage"
    /\ UNCHANGED <<tool, round, todo, bazel, staged, published, why, runs, disturbed, seen>>

\* `$STAGE_B_BIN --in A --out B`: cmd/stage-b knows --project-a and --project-b
\* only.  Past the flags it overwrites B's BUILD.bazel of every element that
\* has a BUILD.bazel.out, placeholder or not.
Stage ==
    /\ pc = "stage"
    /\ tool' \in IF tool = "none" THEN StageTools ELSE {tool}
    /\ IF tool' = "cmd"
       THEN Exit("stage usage") /\ UNCHANGED staged
       ELSE /\ pc' = "markers"
            /\ staged' = IF tool' = "adapted" THEN converted ELSE staged
            /\ UNCHANGED <<todo, why>>
    /\ UNCHANGED <<round, bazel, published, runs, disturbed, seen>>

Frontier == {e \in Traced : "trace" \notin loads[e]}

\* The trace_builds a `bazel build` of es runs: pipeline_install's deps label
\* the trace_builds of the traced deps of e's own kind, which Bazel builds first.
TracedDeps(e) == {d \in Deps[e] \cap Traced : Kind[d] = Kind[e]}

\* Fault: only the frontier elements whose deps have converged are built.
FrontierLeaves(es) == {e \in es : TracedDeps(e) \cap es = {}}

DepClosed(S) == \A e \in S : TracedDeps(e) \subseteq S
Closure(es) ==
    {e \in Traced : \A S \in SUBSET Traced : es \subseteq S /\ DepClosed(S) => e \in S}

\* Only write-a's own BUILD.bazel has the element's trace_build target.
HasTraceBuild(e) == staged[e] = "coarse"

\* `bazel build` in B of the trace_builds of es, or a failed analysis.
BuildB(phase, es) ==
    IF \A e \in Closure(es) : HasTraceBuild(e)
    THEN /\ pc' = phase
         /\ todo' = {"trace_build"} \X Closure(es)
         /\ UNCHANGED why
    ELSE Exit("no such target")

\* Fault: the round cap is not looked at.
ReadMarkersUncapped ==
    /\ pc = "markers"
    /\ IF Frontier = {}
       THEN /\ pc' = "final"
            /\ todo' = {"trace_build"} \X {e \in Traced : HasTraceBuild(e)}
            /\ UNCHANGED why
       ELSE BuildB("buildB", Frontier)
    /\ UNCHANGED <<tool, round, bazel, staged, published, runs, disturbed, seen>>

\* Fault: a marker is read as a hit when either keyspace hit.
ReadMarkersEither ==
    LET frontier == {e \in Traced : loads[e] = {}} IN
    /\ pc = "markers"
    /\ IF frontier = {}
       THEN /\ pc' = "final"
            /\ todo' = {"trace_build"} \X {e \in Traced : HasTraceBuild(e)}
            /\ UNCHANGED why
       ELSE IF round >= MaxRounds THEN Exit("rounds") ELSE BuildB("buildB", frontier)
    /\ UNCHANGED <<tool, round, bazel, staged, published, runs, disturbed, seen>>

\* No "miss" marker: the final `bazel build //...` in B.  Otherwise the frontier's
\* trace_builds, unless this was the last round.
ReadMarkers ==
    /\ pc = "markers"
    /\ IF Frontier = {}
       THEN /\ pc' = "final"
            /\ todo' = {"trace_build"} \X {e \in Traced : HasTraceBuild(e)}
            /\ UNCHANGED why
       ELSE IF round >= MaxRounds THEN Exit("rounds") ELSE BuildB("buildB", Frontier)
    /\ UNCHANGED <<tool, round, bazel, staged, published, runs, disturbed, seen>>

\* The final build passes no CONVERGE_GENERATION.
Generation == IF pc = "final" THEN 0 ELSE round

Ready(e) ==
    /\ pc \in {"buildB", "final"}
    /\ <<"trace_build", e>> \in todo
    /\ \A d \in TracedDeps(e) : <<"trace_build", d>> \notin todo

BuildCached(e) == [elem |-> e, gen |-> Generation] \in buildCache

\* A trace_build Bazel has a result for is not run, so it publishes nothing.
TraceBuildFromCache(e) ==
    /\ Ready(e) /\ BuildCached(e)
    /\ todo' = todo \ {<<"trace_build", e>>}
    /\ UNCHANGED <<pc, tool, round, bazel, staged, published, why, runs, disturbed, seen>>

Publish(e, spaces) ==
    /\ published' = [published EXCEPT ![e] = @ \cup spaces]
    /\ seen' = [seen EXCEPT ![e] = @ \cup spaces]

\* Otherwise it builds, installs and, given a CAS address, publishes both keyspaces.
RunTraceBuild(e) ==
    /\ Ready(e) /\ ~BuildCached(e)
    /\ buildCache' = Cached(buildCache, [elem |-> e, gen |-> Generation])
    /\ todo' = todo \ {<<"trace_build", e>>}
    /\ IF CasAddr THEN Publish(e, Spaces) ELSE UNCHANGED <<published, seen>>
    /\ UNCHANGED <<pc, tool, round, loads, loadCache, converted, staged, why, runs, disturbed>>

\* It fails: before publishing, or with the trace published and the bundle not.
TraceBuildFails(e) ==
    /\ "build" \in Faults
    /\ Ready(e) /\ ~BuildCached(e)
    /\ Exit("trace_build")
    /\ \E spaces \in {{}, {"trace"}} : Publish(e, spaces)
    /\ disturbed' = TRUE
    /\ UNCHANGED <<tool, round, bazel, staged, runs>>

\* Fault: the generation is not bumped.
NextRoundSame ==
    /\ pc = "buildB" /\ todo = {}
    /\ BuildA(round)
    /\ UNCHANGED <<tool, bazel, staged, published, why, runs, disturbed>>

NextRound ==
    /\ pc = "buildB" /\ todo = {}
    /\ BuildA(round + 1)
    /\ UNCHANGED <<tool, bazel, staged, published, why, runs, disturbed>>

Converged ==
    /\ pc = "final" /\ todo = {}
    /\ Exit("converged")
    /\ UNCHANGED <<tool, round, bazel, staged, published, runs, disturbed, seen>>

-----------------------------------------------------------------------------
(* the store and its other users *)

Evict(e, space) ==
    /\ "evict" \in Faults /\ space \in published[e]
    /\ published' = [published EXCEPT ![e] = @ \ {space}]
    /\ disturbed' = TRUE
    /\ UNCHANGED <<pc, tool, round, todo, bazel, staged, why, runs, seen>>

\* One keyspace at a time, so that a lookup may fall between the two.
OthersPublish(e, space) ==
    /\ "others" \in Faults /\ space \notin published[e]
    /\ Publish(e, {space})
    /\ UNCHANGED <<pc, tool, round, todo, bazel, staged, why, runs, disturbed>>

-----------------------------------------------------------------------------

Driver ==
    \/ BuiltA
    \/ Stage
    \/ ReadMarkers
    \/ NextRound
    \/ Converged

Bazel ==
    \/ \E e \in Traced : LoadFromCache(e) \/ RunLoad(e) \/ RunLoadFails(e) \/ ConvertTraced(e)
    \/ \E e \in CMake : ConvertCMake(e)
    \/ \E e \in Traced : TraceBuildFromCache(e) \/ RunTraceBuild(e) \/ TraceBuildFails(e)

Others == \E e \in Traced, space \in Spaces : OthersPublish(e, space) \/ Evict(e, space)

Next == Start \/ Driver \/ Bazel \/ Others

Spec == Init /\ [][Next]_vars

\* The script and the builds it waits for keep running.
FairSpec == Spec /\ WF_vars(Driver \/ Bazel)

-----------------------------------------------------------------------------
(* Safety *)

\* What the driver calls converged is: every traced element has fine rules in
\* A, made from a trace this round's build loaded, whatever was evicted, and
\* whatever earlier rounds and invocations left in bazel-bin.
FixpointIsFine ==
    pc = "final" => \A e \in Traced : "trace" \in loads[e] /\ converted[e] = "fine"

\* After every build of A, BUILD.bazel.out and the marker the driver is about to
\* read tell the same story, and cmake elements saw the bundles they require.
MarkersMatchOutputs ==
    pc \in {"stage", "markers"} =>
        /\ \A e \in Traced : converted[e] = IF "trace" \in loads[e] THEN "fine" ELSE "placeholder"
        /\ \A e \in CMake : converted[e] = "fine" /\ Configurable(e)

\* docs/design/convergence-driver.md: bumping CONVERGE_GENERATION "forces a
\* re-query": a hit the driver reads was in the store at some moment of this
\* round, never only in an earlier one.  This is so in the first invocation only:
\* the next one counts from 1 again, and Bazel may answer for the store.
QueriesAreFresh ==
    runs = 1 /\ pc \in {"stage", "markers"} => \A e \in Traced : loads[e] \subseteq seen[e]

\* Unless the store has lost something or a build failed, the first round's
\* frontier is the only one, however long the chains of traced elements, and
\* whatever earlier invocations left in Bazel's cache: Bazel builds the
\* trace_builds of a chain in one build.
TwoRoundsSuffice == disturbed \/ round <= 2

(* Liveness *)

\* Every invocation ends, whatever is evicted, published or fails meanwhile.
\* Unless something was lost or failed, what can keep it from converging is a
\* cmake element that requires a bundle nobody has published yet, the flags of
\* cmd/stage-b, an element whose trace_build a staging call has overwritten (by
\* this or an earlier invocation), or a --max-rounds of 1.
DriverEnds ==
    pc # "idle" ~>
        /\ pc = "idle"
        /\ \/ disturbed
           \/ why \in {"converged", "configure"}
           \/ why = "stage usage" /\ tool = "cmd"
           \/ why = "no such target" /\ \E e \in Traced : ~HasTraceBuild(e)
           \/ why = "rounds" /\ MaxRounds = 1

(* What the repository says that the code does not do *)

\* docs/design/rendezvous.md, the cross-element bootstrap: a cmake element whose
\* traced dep is not published yet gets its bundle in a later round.
BootstrapConfigures == why # "configure"
=============================================================================
