---------------------------- MODULE ConvergeProofs ----------------------------
(***************************************************************************)
(* Proofs about Converge for every graph of elements (chains of any length, *)
(* cycles included), every --max-rounds and any number of invocations.     *)
(***************************************************************************)
EXTENDS Converge, TLAPS

(***************************************************************************)
(* Type correctness.                                                       *)
(***************************************************************************)

\* The rounds are numbered from 1, and the driver goes on to another only
\* below the cap.
RoundInv ==
    /\ TypeOK
    /\ pc # "idle" => round >= 1
    /\ pc = "buildB" => round < MaxRounds
    /\ pc \in {"stage", "markers"} => todo = {}
    /\ runs = 0 => pc = "idle" /\ loadCache = {} /\ buildCache = {}

\* A build of a set of elements takes in the set and elements it depends on.
LEMMA ClosureHolds ==
    ASSUME NEW es \in SUBSET Traced
    PROVE  es \subseteq Closure(es) /\ Closure(es) \subseteq Traced
BY DEF Closure

\* Exiting leaves a well-formed driver.
LEMMA ExitType ==
    ASSUME RoundInv, NEW reason \in Endings, Exit(reason)
    PROVE  /\ pc' = "idle"
           /\ todo' = {}
           /\ why' \in Endings
BY DEF Exit

\* So does asking for trace_builds.
LEMMA BuildBType ==
    ASSUME NEW phase, NEW es \in SUBSET Traced, why \in Endings, BuildB(phase, es)
    PROVE  /\ why' \in Endings
           /\ \/ pc' = phase /\ todo' \subseteq {"trace_build"} \X Elements
              \/ pc' = "idle" /\ todo' = {}
<1>1. CASE \A e \in Closure(es) : HasTraceBuild(e)
  <2>1. pc' = phase /\ todo' = {"trace_build"} \X Closure(es) /\ why' = why
    BY <1>1 DEF BuildB
  <2>2. Closure(es) \subseteq Elements
    BY ClosureHolds DEF Elements
  <2>3. QED
    BY <2>1, <2>2
<1>2. CASE ~ \A e \in Closure(es) : HasTraceBuild(e)
  BY <1>2 DEF BuildB, Exit, Endings
<1>3. QED
  BY <1>1, <1>2

\* What recording a result leaves in a cache was there, or is that result.
LEMMA CachedHolds ==
    ASSUME NEW cache, NEW result
    PROVE  Cached(cache, result) \subseteq cache \cup {result}
BY DEF Cached

\* A build of A consists of actions.
LEMMA ActionsType == ActionsOfA \subseteq {"load", "convert", "trace_build"} \X Elements
BY DEF ActionsOfA, Elements

\* TypeOK is an invariant: in particular no round passes --max-rounds.
THEOREM RoundsAreCapped == Spec => []RoundInv
<1> USE DEF Rounds
<1>1. Init => RoundInv
  <2>1. 0 \in Rounds /\ 0 \in 0 .. MaxRuns
    BY DriverAssumption
  <2>2. ASSUME Init PROVE TypeOK
    BY <2>1, <2>2 DEF Init, TypeOK, Shapes, Endings
  <2>3. QED
    BY <2>2 DEF Init, RoundInv
<1>2. RoundInv /\ [Next]_vars => RoundInv'
  <2> SUFFICES ASSUME RoundInv, [Next]_vars PROVE RoundInv'
    OBVIOUS
  <2> USE DEF RoundInv, TypeOK, bazel
  <2>1. CASE Start
    <3>1. /\ pc' = "buildA" /\ round' = 1 /\ why' = "none" /\ runs' = runs + 1 /\ runs < MaxRuns
          /\ todo' \subseteq {"load", "convert", "trace_build"} \X Elements
          /\ seen' = published /\ tool' = "none"
          /\ UNCHANGED <<bazel, staged, published, disturbed>>
      BY <2>1, ActionsType DEF Start, BuildA
    <3>2. 1 \in Rounds /\ runs' \in 0 .. MaxRuns /\ runs' # 0
      BY <3>1, DriverAssumption
    <3>3. round' \in Rounds /\ round' >= 1
      BY <3>1, <3>2
    <3>4. why' \in Endings
      BY <3>1 DEF Endings
    <3>5. TypeOK'
      BY <3>1, <3>2, <3>3, <3>4
    <3>6. QED
      BY <3>1, <3>2, <3>3, <3>5 DEF TypeOK
  <2>2. ASSUME NEW e \in Traced, LoadFromCache(e) PROVE RoundInv'
    BY <2>2 DEF LoadFromCache
  <2>3. ASSUME NEW e \in Traced, RunLoad(e) PROVE RoundInv'
    <3>1. [elem |-> e, gen |-> round, out |-> published[e]]
              \in [elem : Traced, gen : Rounds, out : SUBSET Spaces]
      OBVIOUS
    <3>2. loadCache' \subseteq loadCache \cup {[elem |-> e, gen |-> round, out |-> published[e]]}
      BY <2>3, CachedHolds DEF RunLoad
    <3>4. loadCache' \subseteq [elem : Traced, gen : Rounds, out : SUBSET Spaces]
      BY <3>1, <3>2
    <3>3. QED
      BY <2>3, <3>4 DEF RunLoad
  <2>4. ASSUME NEW e \in Traced, RunLoadFails(e) PROVE RoundInv'
    BY <2>4 DEF RunLoadFails, Exit, Endings
  <2>5. ASSUME NEW e \in Traced, ConvertTraced(e) PROVE RoundInv'
    BY <2>5 DEF ConvertTraced, Shapes, Elements
  <2>6. ASSUME NEW e \in CMake, ConvertCMake(e) PROVE RoundInv'
    BY <2>6 DEF ConvertCMake, Exit, Shapes, Endings, Elements
  <2>7. CASE BuiltA
    BY <2>7 DEF BuiltA
  <2>8. CASE Stage
    BY <2>8 DEF Stage, Exit, Endings
  <2>9. CASE ReadMarkers
    <3>1. UNCHANGED <<tool, round, loads, loadCache, buildCache, converted, staged, published, runs,
                      disturbed, seen>>
          /\ pc = "markers"
      BY <2>9 DEF ReadMarkers
    <3>2. CASE Frontier = {}
      BY <2>9, <3>1, <3>2 DEF ReadMarkers, Elements
    <3>3. CASE Frontier # {} /\ round >= MaxRounds
      BY <2>9, <3>1, <3>3 DEF ReadMarkers, Exit, Endings
    <3>4. CASE Frontier # {} /\ ~(round >= MaxRounds)
      <4>1. BuildB("buildB", Frontier)
        BY <2>9, <3>4 DEF ReadMarkers
      <4>2. Frontier \in SUBSET Traced
        BY DEF Frontier
      <4>3. /\ why' \in Endings
            /\ \/ pc' = "buildB" /\ todo' \subseteq {"trace_build"} \X Elements
               \/ pc' = "idle" /\ todo' = {}
        BY <4>1, <4>2, BuildBType
      <4>4. QED
        BY <3>1, <3>4, <4>3, DriverAssumption
    <3>5. QED
      BY <3>2, <3>3, <3>4
  <2>10. ASSUME NEW e \in Traced, TraceBuildFromCache(e) PROVE RoundInv'
    BY <2>10 DEF TraceBuildFromCache, Ready
  <2>11. ASSUME NEW e \in Traced, RunTraceBuild(e) PROVE RoundInv'
    <3>1. Generation \in Rounds
      BY DriverAssumption DEF Generation
    <3>2. [elem |-> e, gen |-> Generation] \in [elem : Traced, gen : Rounds]
      BY <3>1
    <3>6. buildCache' \subseteq buildCache \cup {[elem |-> e, gen |-> Generation]}
      BY <2>11, CachedHolds DEF RunTraceBuild
    <3>3. buildCache' \subseteq [elem : Traced, gen : Rounds]
      BY <3>2, <3>6
    <3>4. /\ published' \in [Traced -> SUBSET Spaces]
          /\ seen' \in [Traced -> SUBSET Spaces]
      BY <2>11 DEF RunTraceBuild, Publish
    <3>5. QED
      BY <2>11, <3>3, <3>4 DEF RunTraceBuild, Ready
  <2>12. ASSUME NEW e \in Traced, TraceBuildFails(e) PROVE RoundInv'
    <3>1. /\ published' \in [Traced -> SUBSET Spaces]
          /\ seen' \in [Traced -> SUBSET Spaces]
      BY <2>12 DEF TraceBuildFails, Publish, Spaces
    <3>2. QED
      BY <2>12, <3>1 DEF TraceBuildFails, Exit, Endings, Ready
  <2>13. CASE NextRound
    <3>1. /\ pc' = "buildA" /\ round' = round + 1 /\ pc = "buildB"
          /\ todo' \subseteq {"load", "convert", "trace_build"} \X Elements
          /\ seen' = published
          /\ UNCHANGED <<tool, bazel, staged, published, why, runs, disturbed>>
      BY <2>13, ActionsType DEF NextRound, BuildA
    <3>2. round + 1 \in Rounds /\ round + 1 >= 1
      BY <3>1, DriverAssumption
    <3>3. round' \in Rounds /\ round' >= 1
      BY <3>1, <3>2
    <3>4. TypeOK'
      BY <3>1, <3>2, <3>3
    <3>5. runs' # 0
      BY <3>1
    <3>6. QED
      BY <3>1, <3>3, <3>4, <3>5
  <2>14. CASE Converged
    BY <2>14 DEF Converged, Exit, Endings
  <2>15. ASSUME NEW e \in Traced, NEW space \in Spaces, OthersPublish(e, space) \/ Evict(e, space)
         PROVE  RoundInv'
    <3>1. /\ published' \in [Traced -> SUBSET Spaces]
          /\ seen' \in [Traced -> SUBSET Spaces]
      BY <2>15 DEF OthersPublish, Evict, Publish
    <3>2. disturbed' \in BOOLEAN /\ UNCHANGED <<pc, tool, round, todo, bazel, staged, why, runs>>
      BY <2>15 DEF OthersPublish, Evict
    <3>3. QED
      BY <3>1, <3>2
  <2>16. CASE UNCHANGED vars
    BY <2>16 DEF vars
  <2>17. QED
    BY <2>1, <2>2, <2>3, <2>4, <2>5, <2>6, <2>7, <2>8, <2>9, <2>10, <2>11, <2>12, <2>13, <2>14,
       <2>15, <2>16 DEF Next, Driver, Bazel, Others
<1>3. QED
  BY <1>1, <1>2, PTL DEF Spec

\* TypeOK alone.
THEOREM TypeCorrect == Spec => []TypeOK
<1>1. RoundInv => TypeOK
  BY DEF RoundInv
<1>2. QED
  BY <1>1, RoundsAreCapped, PTL

(***************************************************************************)
(* What the driver reads is what A's build wrote.                          *)
(***************************************************************************)

\* Of a build of A, what has been done by now: a converter has run after the
\* trace_loads it reads, and nothing it read is loaded again.
Matches(e) ==
    IF e \in Traced
    THEN converted[e] = IF "trace" \in loads[e] THEN "fine" ELSE "placeholder"
    ELSE converted[e] = "fine" /\ Configurable(e)

Reads(e) == IF e \in Traced THEN {e} ELSE Deps[e] \cap Traced

OutputsInv ==
    /\ pc = "buildA" => \A e \in Elements : <<"convert", e>> \notin todo =>
          /\ \A d \in Reads(e) : <<"load", d>> \notin todo
          /\ Matches(e)
    /\ pc \in {"stage", "markers"} => \A e \in Elements : Matches(e)
    /\ FixpointIsFine

\* A trace_load disturbs no output whose converter has run.
LEMMA LoadMatches ==
    ASSUME OutputsInv, pc = "buildA", NEW d \in Traced, <<"load", d>> \in todo,
           loads \in [Traced -> SUBSET Spaces],
           NEW out, loads' = [loads EXCEPT ![d] = out], todo' = todo \ {<<"load", d>>},
           UNCHANGED <<pc, converted>>
    PROVE  OutputsInv'
<1> SUFFICES ASSUME NEW e \in Elements, <<"convert", e>> \notin todo'
             PROVE  /\ \A r \in Reads(e) : <<"load", r>> \notin todo'
                    /\ Matches(e)'
  BY DEF OutputsInv, FixpointIsFine
<1>1. <<"convert", e>> \notin todo
  OBVIOUS
<1>2. (\A r \in Reads(e) : <<"load", r>> \notin todo) /\ Matches(e)
  BY <1>1 DEF OutputsInv
<1>3. \A r \in Reads(e) : r # d /\ r \in Traced => loads'[r] = loads[r]
  BY <1>2
<1>4. d \notin Reads(e)
  BY <1>2
<1>5. Matches(e)'
  <2>1. CASE e \in Traced
    BY <1>2, <1>3, <1>4, <2>1 DEF Matches, Reads
  <2>2. CASE e \notin Traced
    BY <1>2, <1>3, <1>4, <2>2 DEF Matches, Reads, Configurable
  <2>3. QED
    BY <2>1, <2>2
<1>6. QED
  BY <1>2, <1>5

\* A converter that runs writes what it should, and leaves the others' outputs.
LEMMA ConvertMatches ==
    ASSUME OutputsInv, pc = "buildA", NEW e \in Elements,
           \A r \in Reads(e) : <<"load", r>> \notin todo,
           converted \in [Elements -> Shapes],
           NEW shape, converted' = [converted EXCEPT ![e] = shape],
           todo' = todo \ {<<"convert", e>>},
           UNCHANGED <<pc, loads>>, Matches(e)'
    PROVE  OutputsInv'
<1>1. ASSUME NEW f \in Elements, f # e, Matches(f) PROVE Matches(f)'
  BY <1>1 DEF Matches, Configurable
<1>2. QED
  BY <1>1 DEF OutputsInv, FixpointIsFine

\* After every build of A, BUILD.bazel.out and the markers tell the same story
\* (OutputsInv), whatever earlier rounds and invocations left.
THEOREM OutputsAgree == Spec => []OutputsInv
<1>1. Init => OutputsInv
  BY DEF Init, OutputsInv, FixpointIsFine
<1>2. TypeOK /\ OutputsInv /\ [Next]_vars => OutputsInv'
  <2> SUFFICES ASSUME TypeOK, OutputsInv, [Next]_vars PROVE OutputsInv'
    OBVIOUS
  <2> USE DEF bazel
  <2>1. ASSUME pc' = "idle" \/ pc' = "buildB" PROVE OutputsInv'
    BY <2>1 DEF OutputsInv, FixpointIsFine
  <2>2. ASSUME UNCHANGED <<pc, loads, converted>>, pc # "buildA" \/ todo' = todo PROVE OutputsInv'
    BY <2>2 DEF OutputsInv, FixpointIsFine, Matches, Configurable
  <2>3. ASSUME NEW r, BuildA(r) PROVE OutputsInv'
    BY <2>3 DEF BuildA, ActionsOfA, OutputsInv, FixpointIsFine
  <2>4. CASE Start \/ NextRound
    BY <2>3, <2>4 DEF Start, NextRound
  <2>5. ASSUME NEW d \in Traced, LoadFromCache(d) \/ RunLoad(d) PROVE OutputsInv'
    <3>1. PICK out : loads' = [loads EXCEPT ![d] = out]
      BY <2>5 DEF LoadFromCache, RunLoad
    <3>2. /\ pc = "buildA" /\ <<"load", d>> \in todo
          /\ todo' = todo \ {<<"load", d>>}
          /\ UNCHANGED <<pc, converted>>
      BY <2>5 DEF LoadFromCache, RunLoad
    <3>3. QED
      BY <3>1, <3>2, LoadMatches DEF TypeOK
  <2>6. ASSUME NEW e \in Traced, ConvertTraced(e) PROVE OutputsInv'
    <3> DEFINE shape == IF "trace" \in loads[e] THEN "fine" ELSE "placeholder"
    <3>1. /\ pc = "buildA" /\ <<"load", e>> \notin todo
          /\ converted' = [converted EXCEPT ![e] = shape]
          /\ todo' = todo \ {<<"convert", e>>}
          /\ UNCHANGED <<pc, loads>>
      BY <2>6 DEF ConvertTraced
    <3>2. Matches(e)'
      BY <3>1 DEF Matches, TypeOK, Elements
    <3>3. e \in Elements /\ \A r \in Reads(e) : <<"load", r>> \notin todo
      BY <3>1 DEF Reads, Elements
    <3>4. QED
      BY <3>1, <3>2, <3>3, ConvertMatches DEF TypeOK
  <2>7. ASSUME NEW e \in CMake, ConvertCMake(e) PROVE OutputsInv'
    <3>1. CASE ~Configurable(e)
      BY <2>1, <2>7, <3>1 DEF ConvertCMake, Exit
    <3>2. CASE Configurable(e)
      <4>1. /\ pc = "buildA"
            /\ converted' = [converted EXCEPT ![e] = "fine"]
            /\ todo' = todo \ {<<"convert", e>>}
            /\ UNCHANGED <<pc, loads>>
        BY <2>7, <3>2 DEF ConvertCMake
      <4>2. e \in Elements /\ e \notin Traced
        BY DriverAssumption DEF Elements
      <4>3. Matches(e)'
        BY <3>2, <4>1, <4>2 DEF Matches, Configurable, TypeOK
      <4>4. \A r \in Reads(e) : <<"load", r>> \notin todo
        BY <2>7, <4>2, DriverAssumption DEF ConvertCMake, Reads
      <4>5. QED
        BY <4>1, <4>2, <4>3, <4>4, ConvertMatches DEF TypeOK
    <3>3. QED
      BY <3>1, <3>2
  <2>8. CASE BuiltA
    BY <2>8 DEF BuiltA, OutputsInv, FixpointIsFine, Matches, Configurable
  <2>9. CASE Stage
    BY <2>9 DEF Stage, Exit, OutputsInv, FixpointIsFine, Matches, Configurable
  <2>10. CASE ReadMarkers
    <3>1. CASE Frontier = {}
      <4>1. pc = "markers" /\ pc' = "final" /\ UNCHANGED <<loads, converted>>
        BY <2>10, <3>1 DEF ReadMarkers
      <4>2. ASSUME NEW e \in Traced PROVE "trace" \in loads[e] /\ converted[e] = "fine"
        <5>1. "trace" \in loads[e]
          BY <3>1 DEF Frontier
        <5>2. Matches(e)
          BY <4>1 DEF OutputsInv, Elements
        <5>3. QED
          BY <5>1, <5>2 DEF Matches
      <4>3. QED
        BY <4>1, <4>2 DEF OutputsInv, FixpointIsFine
    <3>2. CASE Frontier # {}
      BY <2>1, <2>10, <3>2 DEF ReadMarkers, BuildB, Exit
    <3>3. QED
      BY <3>1, <3>2
  <2>11. ASSUME NEW e \in Traced, TraceBuildFromCache(e) \/ RunTraceBuild(e) PROVE OutputsInv'
    BY <2>2, <2>11 DEF TraceBuildFromCache, RunTraceBuild, Ready
  <2>12. ASSUME NEW e \in Traced, RunLoadFails(e) \/ TraceBuildFails(e) PROVE OutputsInv'
    BY <2>1, <2>12 DEF RunLoadFails, TraceBuildFails, Exit
  <2>13. CASE Converged
    BY <2>1, <2>13 DEF Converged, Exit
  <2>14. ASSUME NEW e \in Traced, NEW space \in Spaces, OthersPublish(e, space) \/ Evict(e, space)
         PROVE  OutputsInv'
    BY <2>2, <2>14 DEF OthersPublish, Evict
  <2>15. CASE UNCHANGED vars
    BY <2>2, <2>15 DEF vars
  <2>16. QED
    BY <2>4, <2>5, <2>6, <2>7, <2>8, <2>9, <2>10, <2>11, <2>12, <2>13, <2>14, <2>15
       DEF Next, Driver, Bazel, Others
<1>3. QED
  BY <1>1, <1>2, TypeCorrect, PTL DEF Spec

\* The marker the driver is about to read and BUILD.bazel.out agree
\* (MarkersMatchOutputs), and cmake elements saw the bundles they require.
THEOREM MarkersAgree == Spec => []MarkersMatchOutputs
<1>1. OutputsInv => MarkersMatchOutputs
  BY DriverAssumption DEF OutputsInv, MarkersMatchOutputs, Matches, Elements
<1>2. QED
  BY <1>1, OutputsAgree, PTL

\* What the driver calls converged is (FixpointIsFine): every traced element
\* has fine rules, made from a trace that this round's build loaded.
THEOREM FixpointsAreFine == Spec => []FixpointIsFine
<1>1. OutputsInv => FixpointIsFine
  BY DEF OutputsInv
<1>2. QED
  BY <1>1, OutputsAgree, PTL

(***************************************************************************)
(* Hits of the first invocation are fresh.                                 *)
(***************************************************************************)

\* In the first invocation Bazel's cache holds no result of a later generation,
\* and one of this generation was in the store during this round.
FreshInv ==
    /\ \A e \in Traced : published[e] \subseteq seen[e]
    /\ runs = 1 => \A c \in loadCache :
          /\ c.gen <= round
          /\ c.gen = round => c.out \subseteq seen[c.elem]
    /\ runs = 1 /\ pc = "buildA" =>
          \A e \in Traced : <<"load", e>> \in todo \/ loads[e] \subseteq seen[e]
    /\ QueriesAreFresh

\* What has been seen in the store this round stays seen until the next round.
LEMMA SeenStays ==
    ASSUME TypeOK, FreshInv, UNCHANGED <<round, loadCache, runs>>,
           \A e \in Traced : seen[e] \subseteq seen'[e] /\ published'[e] \subseteq seen'[e],
           \/ pc' \notin {"buildA", "stage", "markers"}
           \/ UNCHANGED <<pc, loads, todo>>
           \/ pc' = pc /\ pc # "buildA" /\ UNCHANGED loads
    PROVE  FreshInv'
<1>1. ASSUME runs = 1, NEW c \in loadCache, c.gen = round PROVE c.out \subseteq seen'[c.elem]
  BY <1>1 DEF FreshInv, TypeOK
<1>2. QED
  BY <1>1 DEF FreshInv, QueriesAreFresh

\* A hit that the first invocation reads was in the store during the round it
\* is read in (FreshInv), however many generations Bazel's cache holds.
THEOREM HitsAreSeen == Spec => []FreshInv
<1>1. Init => FreshInv
  BY DEF Init, FreshInv, QueriesAreFresh
<1>2. RoundInv /\ FreshInv /\ [Next]_vars => FreshInv'
  <2> SUFFICES ASSUME RoundInv, FreshInv, [Next]_vars PROVE FreshInv'
    OBVIOUS
  <2>t. TypeOK
    BY DEF RoundInv
  <2> USE DEF bazel
  <2>1. CASE Start
    <3>1. loadCache' = loadCache /\ runs' = runs + 1 /\ pc = "idle" /\ todo' = ActionsOfA
          /\ pc' = "buildA" /\ seen' = published /\ published' = published
      BY <2>1 DEF Start, BuildA
    <3>2. runs' = 1 => loadCache' = {}
      BY <2>t, <3>1 DEF RoundInv, TypeOK
    <3>3. \A e \in Traced : <<"load", e>> \in todo'
      BY <3>1 DEF ActionsOfA
    <3>4. QED
      BY <3>1, <3>2, <3>3 DEF FreshInv, QueriesAreFresh
  <2>2. ASSUME NEW e \in Traced, LoadFromCache(e) PROVE FreshInv'
    <3>1. PICK c \in loadCache : c.elem = e /\ c.gen = round /\ loads' = [loads EXCEPT ![e] = c.out]
      BY <2>2 DEF LoadFromCache
    <3>2. /\ pc = "buildA" /\ todo' = todo \ {<<"load", e>>}
          /\ UNCHANGED <<pc, round, loadCache, published, runs, seen>>
      BY <2>2 DEF LoadFromCache
    <3>3. runs = 1 => c.out \subseteq seen[e]
      BY <3>1 DEF FreshInv
    <3>4. runs = 1 => \A d \in Traced : <<"load", d>> \in todo' \/ loads'[d] \subseteq seen[d]
      BY <2>t, <3>1, <3>2, <3>3 DEF FreshInv, TypeOK
    <3>5. QED
      BY <3>2, <3>4 DEF FreshInv, QueriesAreFresh
  <2>3. ASSUME NEW e \in Traced, RunLoad(e) PROVE FreshInv'
    <3> DEFINE r == [elem |-> e, gen |-> round, out |-> published[e]]
    <3>1. /\ pc = "buildA" /\ todo' = todo \ {<<"load", e>>}
          /\ loads' = [loads EXCEPT ![e] = published[e]]
          /\ UNCHANGED <<pc, round, published, runs, seen>>
      BY <2>3 DEF RunLoad
    <3>2. loadCache' \subseteq loadCache \cup {r}
      BY <2>3, CachedHolds DEF RunLoad
    <3>3. r.gen <= round /\ r.out \subseteq seen[r.elem]
      BY <2>t DEF FreshInv, TypeOK, Rounds
    <3>4. runs = 1 => \A d \in Traced : <<"load", d>> \in todo' \/ loads'[d] \subseteq seen[d]
      BY <2>t, <3>1 DEF FreshInv, TypeOK
    <3>5. runs = 1 => \A c \in loadCache' :
             /\ c.gen <= round
             /\ c.gen = round => c.out \subseteq seen[c.elem]
      BY <3>2, <3>3 DEF FreshInv
    <3>6. QED
      BY <3>1, <3>4, <3>5 DEF FreshInv, QueriesAreFresh
  <2>4. ASSUME NEW e \in Traced, ConvertTraced(e) PROVE FreshInv'
    <3>1. /\ \A d \in Traced : <<"load", d>> \in todo' <=> <<"load", d>> \in todo
          /\ UNCHANGED <<pc, round, loads, loadCache, published, runs, seen>>
      BY <2>4 DEF ConvertTraced
    <3>2. QED
      BY <3>1 DEF FreshInv, QueriesAreFresh
  <2>5. ASSUME NEW e \in CMake, ConvertCMake(e) PROVE FreshInv'
    <3>1. /\ \/ pc' = "idle"
             \/ pc' = pc /\ \A d \in Traced : <<"load", d>> \in todo' <=> <<"load", d>> \in todo
          /\ UNCHANGED <<round, loads, loadCache, published, runs, seen>>
      BY <2>5 DEF ConvertCMake, Exit
    <3>2. QED
      BY <3>1 DEF FreshInv, QueriesAreFresh
  <2>6. CASE BuiltA
    BY <2>6 DEF BuiltA, FreshInv, QueriesAreFresh
  <2>7. CASE Stage
    BY <2>7 DEF Stage, Exit, FreshInv, QueriesAreFresh
  <2>8. CASE ReadMarkers
    <3>1. /\ pc' \in {"idle", "buildB", "final"}
          /\ UNCHANGED <<round, loads, loadCache, published, runs, seen>>
      BY <2>8 DEF ReadMarkers, BuildB, Exit
    <3>2. QED
      BY <3>1 DEF FreshInv, QueriesAreFresh
  <2>9. ASSUME NEW e \in Traced, TraceBuildFromCache(e) PROVE FreshInv'
    BY <2>t, <2>9, SeenStays DEF TraceBuildFromCache, Ready, FreshInv
  <2>10. ASSUME NEW e \in Traced, RunTraceBuild(e) PROVE FreshInv'
    <3>1. \A d \in Traced : seen[d] \subseteq seen'[d] /\ published'[d] \subseteq seen'[d]
      BY <2>t, <2>10 DEF RunTraceBuild, Publish, FreshInv, TypeOK
    <3>2. pc' = pc /\ pc # "buildA" /\ UNCHANGED <<round, loads, loadCache, runs>>
      BY <2>10 DEF RunTraceBuild, Ready
    <3>3. QED
      BY <2>t, <3>1, <3>2, SeenStays
  <2>11. ASSUME NEW e \in Traced, TraceBuildFails(e) PROVE FreshInv'
    <3>1. \A d \in Traced : seen[d] \subseteq seen'[d] /\ published'[d] \subseteq seen'[d]
      BY <2>t, <2>11 DEF TraceBuildFails, Publish, FreshInv, TypeOK
    <3>2. pc' = "idle" /\ UNCHANGED <<round, loadCache, runs>>
      BY <2>11 DEF TraceBuildFails, Exit
    <3>3. QED
      BY <2>t, <3>1, <3>2, SeenStays
  <2>12. CASE NextRound
    <3>1. /\ round' = round + 1 /\ pc' = "buildA" /\ todo' = ActionsOfA /\ seen' = published
          /\ UNCHANGED <<loadCache, published, runs>>
      BY <2>12 DEF NextRound, BuildA
    <3>2. runs = 1 => \A c \in loadCache : c.gen <= round' /\ c.gen # round'
      BY <2>t, <3>1 DEF FreshInv, TypeOK, Rounds
    <3>3. \A e \in Traced : <<"load", e>> \in todo'
      BY <3>1 DEF ActionsOfA
    <3>4. QED
      BY <3>1, <3>2, <3>3 DEF FreshInv, QueriesAreFresh
  <2>13. ASSUME NEW e \in Traced, RunLoadFails(e) PROVE FreshInv'
    BY <2>13 DEF RunLoadFails, Exit, FreshInv, QueriesAreFresh
  <2>14. CASE Converged
    BY <2>14 DEF Converged, Exit, FreshInv, QueriesAreFresh
  <2>15. ASSUME NEW e \in Traced, NEW space \in Spaces, OthersPublish(e, space) \/ Evict(e, space)
         PROVE  FreshInv'
    <3>1. \A d \in Traced : seen[d] \subseteq seen'[d] /\ published'[d] \subseteq seen'[d]
      BY <2>t, <2>15 DEF OthersPublish, Evict, Publish, FreshInv, TypeOK
    <3>2. UNCHANGED <<pc, round, todo, loads, loadCache, runs>>
      BY <2>15 DEF OthersPublish, Evict
    <3>3. QED
      BY <2>t, <3>1, <3>2, SeenStays
  <2>16. CASE UNCHANGED vars
    BY <2>16 DEF vars, FreshInv, QueriesAreFresh
  <2>17. QED
    BY <2>1, <2>2, <2>3, <2>4, <2>5, <2>6, <2>7, <2>8, <2>9, <2>10, <2>11, <2>12, <2>13, <2>14,
       <2>15, <2>16 DEF Next, Driver, Bazel, Others
<1>3. QED
  BY <1>1, <1>2, RoundsAreCapped, PTL DEF Spec

\* QueriesAreFresh alone.
THEOREM QueriesFresh == Spec => []QueriesAreFresh
<1>1. FreshInv => QueriesAreFresh
  BY DEF FreshInv
<1>2. QED
  BY <1>1, HitsAreSeen, PTL

(***************************************************************************)
(* Two rounds suffice.                                                     *)
(***************************************************************************)

\* With no CAS address no trace_load ever succeeds, so a driver that gets past
\* A's build has no traced element.
OfflineInv ==
    CasAddr \/
    /\ loadCache = {}
    /\ pc = "buildA" => \A e \in Traced : <<"load", e>> \in todo
    /\ pc \in {"stage", "markers", "buildB", "final"} => Traced = {}

\* What B's build of the frontier is for: each element is published, or its
\* trace_build is still to run.
FrontierCovered ==
    pc = "buildB" => \A e \in Traced : "trace" \in published[e] \/ <<"trace_build", e>> \in todo

\* What Bazel's caches hold is published, by this invocation or an earlier one;
\* a trace_load of the second generation ran when everything was.
CachesPublished ==
    /\ CasAddr => \A c \in buildCache : "trace" \in published[c.elem]
    /\ \A c \in loadCache :
          /\ c.out \subseteq published[c.elem]
          /\ c.gen = 2 => "trace" \in c.out

\* What A's build has loaded so far is published, and in the second round that
\* is every trace.
LoadOK(e) ==
    /\ loads[e] \subseteq published[e]
    /\ round = 2 => "trace" \in loads[e]

LoadsPublished ==
    /\ pc = "buildA" => \A e \in Traced : <<"load", e>> \in todo \/ LoadOK(e)
    /\ pc \in {"stage", "markers"} => \A e \in Traced : LoadOK(e)

\* As long as nothing is lost and nothing fails.
CalmInv ==
    disturbed \/
    /\ round <= 2
    /\ pc = "buildB" => round = 1
    /\ round = 2 => \A e \in Traced : "trace" \in published[e]
    /\ FrontierCovered
    /\ CachesPublished
    /\ LoadsPublished

TwoRoundsInv == OfflineInv /\ CalmInv

\* Without a CAS address nothing is ever loaded (OfflineInv).
LEMMA OfflineStays ==
    ASSUME RoundInv, OfflineInv, [Next]_vars
    PROVE  OfflineInv'
<1> SUFFICES ASSUME ~CasAddr PROVE OfflineInv'
  BY DEF OfflineInv
<1> USE DEF OfflineInv, bazel
<1>1. CASE Start
  BY <1>1 DEF Start, BuildA, ActionsOfA
<1>2. ASSUME NEW e \in Traced,
             \/ LoadFromCache(e) \/ RunLoad(e) \/ RunLoadFails(e) \/ ConvertTraced(e)
             \/ TraceBuildFromCache(e) \/ RunTraceBuild(e) \/ TraceBuildFails(e)
      PROVE  OfflineInv'
  BY <1>2 DEF LoadFromCache, RunLoad, RunLoadFails, ConvertTraced, TraceBuildFromCache,
     RunTraceBuild, TraceBuildFails, Ready, Exit
<1>3. ASSUME NEW e \in CMake, ConvertCMake(e) PROVE OfflineInv'
  BY <1>3 DEF ConvertCMake, Exit
<1>4. CASE BuiltA
  BY <1>4 DEF BuiltA
<1>5. CASE Stage
  BY <1>5 DEF Stage, Exit
<1>6. CASE ReadMarkers
  BY <1>6 DEF ReadMarkers, BuildB, Exit
<1>7. CASE NextRound
  BY <1>7 DEF NextRound, BuildA
<1>8. CASE Converged
  BY <1>8 DEF Converged, Exit
<1>9. CASE Others
  BY <1>9 DEF Others, OthersPublish, Evict
<1>10. CASE UNCHANGED vars
  BY <1>10 DEF vars
<1>11. QED
  BY <1>1, <1>2, <1>3, <1>4, <1>5, <1>6, <1>7, <1>8, <1>9, <1>10 DEF Next, Driver, Bazel

\* A step of the driver's or Bazel's that publishes nothing and ends the
\* invocation, or leaves what A's build did alone, keeps the calm.
LEMMA CalmStays ==
    ASSUME TypeOK, CalmInv, UNCHANGED <<disturbed, round, loadCache, buildCache, published>>,
           \/ pc' \in {"idle", "final"}
           \/ /\ pc' = pc /\ UNCHANGED loads
              /\ \A e \in Traced : /\ <<"load", e>> \in todo' <=> <<"load", e>> \in todo
                                   /\ <<"trace_build", e>> \in todo' <=> <<"trace_build", e>> \in todo
    PROVE  CalmInv'
BY DEF CalmInv, FrontierCovered, CachesPublished, LoadsPublished, LoadOK

\* So does publishing more.
LEMMA MorePublished ==
    ASSUME TypeOK, CalmInv, UNCHANGED <<disturbed, round, loadCache, buildCache, pc, loads, todo>>,
           \A e \in Traced : published[e] \subseteq published'[e]
    PROVE  CalmInv'
<1>1. CASE disturbed
  BY <1>1 DEF CalmInv
<1>2. CASE ~disturbed
  <2>1. CachesPublished'
    BY <1>2 DEF CalmInv, CachesPublished, TypeOK
  <2>2. LoadsPublished' /\ FrontierCovered'
    BY <1>2 DEF CalmInv, LoadsPublished, LoadOK, FrontierCovered
  <2>3. QED
    BY <1>2, <2>1, <2>2 DEF CalmInv
<1>3. QED
  BY <1>1, <1>2

\* A trace_load answers with what is published, from the store or from Bazel's
\* cache.
LEMMA LoadCalm ==
    ASSUME TypeOK, CalmInv, NEW e \in Traced, pc = "buildA",
           NEW out \in SUBSET Spaces, loads' = [loads EXCEPT ![e] = out],
           ~disturbed => out \subseteq published[e] /\ (round = 2 => "trace" \in out),
           loadCache' \subseteq loadCache \cup {[elem |-> e, gen |-> round, out |-> out]},
           todo' = todo \ {<<"load", e>>},
           UNCHANGED <<pc, disturbed, round, buildCache, published>>
    PROVE  CalmInv'
<1>1. CASE disturbed
  BY <1>1 DEF CalmInv
<1>2. CASE ~disturbed
  <2>1. CachesPublished'
    BY <1>2 DEF CalmInv, CachesPublished, TypeOK
  <2>2. \A d \in Traced : <<"load", d>> \in todo' \/ LoadOK(d)'
    <3> SUFFICES ASSUME NEW d \in Traced, <<"load", d>> \notin todo' PROVE LoadOK(d)'
      OBVIOUS
    <3>1. CASE d = e
      BY <1>2, <3>1 DEF LoadOK, TypeOK
    <3>2. CASE d # e
      BY <1>2, <3>2 DEF CalmInv, LoadsPublished, LoadOK, TypeOK
    <3>3. QED
      BY <3>1, <3>2
  <2>3. QED
    BY <1>2, <2>1, <2>2 DEF CalmInv, FrontierCovered, LoadsPublished
<1>3. QED
  BY <1>1, <1>2

\* Unless the store has lost something or a build failed, the traces of the
\* first round's frontier are published by its end and the second round finds
\* no frontier (TwoRoundsInv), for chains of any length and whatever Bazel's
\* caches hold from earlier invocations.
THEOREM CalmRounds == Spec => []TwoRoundsInv
<1>1. Init => TwoRoundsInv
  BY DEF Init, TwoRoundsInv, OfflineInv, CalmInv, FrontierCovered, CachesPublished, LoadsPublished
<1>2. RoundInv /\ TwoRoundsInv /\ [Next]_vars => TwoRoundsInv'
  <2> SUFFICES ASSUME RoundInv, OfflineInv, CalmInv, [Next]_vars PROVE CalmInv'
    BY OfflineStays DEF TwoRoundsInv
  <2>t. TypeOK
    BY DEF RoundInv
  <2> USE DEF bazel
  <2>d. ASSUME disturbed' PROVE CalmInv'
    BY <2>d DEF CalmInv
  <2>1. CASE Start
    <3>1. /\ pc' = "buildA" /\ round' = 1 /\ todo' = ActionsOfA
          /\ UNCHANGED <<loads, loadCache, buildCache, published, disturbed>>
      BY <2>1 DEF Start, BuildA
    <3>2. \A e \in Traced : <<"load", e>> \in todo'
      BY <3>1 DEF ActionsOfA
    <3>3. QED
      BY <3>1, <3>2 DEF CalmInv, FrontierCovered, CachesPublished, LoadsPublished
  <2>2. ASSUME NEW e \in Traced, LoadFromCache(e) PROVE CalmInv'
    <3>1. PICK c \in loadCache : c.elem = e /\ c.gen = round /\ loads' = [loads EXCEPT ![e] = c.out]
      BY <2>2 DEF LoadFromCache
    <3>2. ~disturbed => c.out \subseteq published[e] /\ (round = 2 => "trace" \in c.out)
      BY <3>1 DEF CalmInv, CachesPublished
    <3>3. c.out \in SUBSET Spaces
      BY <2>t DEF TypeOK
    <3>4. /\ pc = "buildA" /\ todo' = todo \ {<<"load", e>>}
          /\ UNCHANGED <<pc, disturbed, round, loadCache, buildCache, published>>
      BY <2>2 DEF LoadFromCache
    <3>5. QED
      BY <2>t, <3>1, <3>2, <3>3, <3>4, LoadCalm
  <2>3. ASSUME NEW e \in Traced, RunLoad(e) PROVE CalmInv'
    <3>1. loadCache' \subseteq loadCache \cup {[elem |-> e, gen |-> round, out |-> published[e]]}
      BY <2>3, CachedHolds DEF RunLoad
    <3>2. published[e] \in SUBSET Spaces
      BY <2>t DEF TypeOK
    <3>3. ~disturbed => (round = 2 => "trace" \in published[e])
      BY DEF CalmInv
    <3>4. /\ pc = "buildA" /\ todo' = todo \ {<<"load", e>>}
          /\ loads' = [loads EXCEPT ![e] = published[e]]
          /\ UNCHANGED <<pc, disturbed, round, buildCache, published>>
      BY <2>3 DEF RunLoad
    <3>5. QED
      BY <2>t, <3>1, <3>2, <3>3, <3>4, LoadCalm
  <2>4. ASSUME NEW e \in Traced, RunLoadFails(e) \/ TraceBuildFails(e) PROVE CalmInv'
    BY <2>4, <2>d DEF RunLoadFails, TraceBuildFails
  <2>5. ASSUME NEW e \in Traced, ConvertTraced(e) PROVE CalmInv'
    BY <2>t, <2>5, CalmStays DEF ConvertTraced
  <2>6. ASSUME NEW e \in CMake, ConvertCMake(e) PROVE CalmInv'
    BY <2>t, <2>6, CalmStays DEF ConvertCMake, Exit
  <2>7. CASE BuiltA
    BY <2>7 DEF BuiltA, CalmInv, FrontierCovered, CachesPublished, LoadsPublished, LoadOK
  <2>8. CASE Stage
    BY <2>8 DEF Stage, Exit, CalmInv, FrontierCovered, CachesPublished, LoadsPublished, LoadOK
  <2>9. CASE ReadMarkers
    <3>1. UNCHANGED <<disturbed, round, loads, loadCache, buildCache, published>> /\ pc = "markers"
      BY <2>9 DEF ReadMarkers
    <3>2. CASE pc' \in {"idle", "final"}
      BY <2>t, <3>1, <3>2, CalmStays
    <3>3. CASE pc' = "buildB" /\ ~disturbed
      <4>1. /\ Frontier # {}
            /\ todo' = {"trace_build"} \X Closure(Frontier)
        BY <2>9, <3>3 DEF ReadMarkers, BuildB, Exit
      <4>2. Frontier \subseteq Closure(Frontier)
        BY ClosureHolds DEF Frontier
      <4>3. \A e \in Traced : LoadOK(e)
        BY <3>1, <3>3 DEF CalmInv, LoadsPublished
      <4>4. round = 1
        <5>1. round # 2
          BY <4>1, <4>3 DEF LoadOK, Frontier
        <5>2. round \in Nat /\ round >= 1 /\ round <= 2
          BY <3>1, <3>3 DEF RoundInv, TypeOK, Rounds, CalmInv
        <5>3. QED
          BY <5>1, <5>2
      <4>5. \A e \in Traced : "trace" \in published[e] \/ <<"trace_build", e>> \in todo'
        BY <4>1, <4>2, <4>3 DEF LoadOK, Frontier
      <4>6. QED
        BY <3>1, <3>3, <4>4, <4>5 DEF CalmInv, FrontierCovered, CachesPublished, LoadsPublished
    <3>4. CASE disturbed
      BY <2>d, <3>1, <3>4
    <3>5. QED
      BY <2>9, <3>2, <3>3, <3>4 DEF ReadMarkers, BuildB, Exit
  <2>10. ASSUME NEW e \in Traced, TraceBuildFromCache(e) PROVE CalmInv'
    <3>1. /\ pc \in {"buildB", "final"} /\ BuildCached(e) /\ todo' = todo \ {<<"trace_build", e>>}
          /\ UNCHANGED <<pc, disturbed, round, loads, loadCache, buildCache, published>>
      BY <2>10 DEF TraceBuildFromCache, Ready
    <3>2. CasAddr
      BY <3>1 DEF OfflineInv
    <3>3. ~disturbed => "trace" \in published[e]
      BY <3>1, <3>2 DEF CalmInv, CachesPublished, BuildCached
    <3>4. QED
      BY <3>1, <3>3 DEF CalmInv, FrontierCovered, CachesPublished, LoadsPublished
  <2>11. ASSUME NEW e \in Traced, RunTraceBuild(e) PROVE CalmInv'
    <3> DEFINE r == [elem |-> e, gen |-> Generation]
    <3>1. /\ pc \in {"buildB", "final"} /\ todo' = todo \ {<<"trace_build", e>>}
          /\ UNCHANGED <<pc, disturbed, round, loads, loadCache>>
      BY <2>11 DEF RunTraceBuild, Ready
    <3>2. CasAddr
      BY <3>1 DEF OfflineInv
    <3>3. /\ \A d \in Traced : published[d] \subseteq published'[d]
          /\ "trace" \in published'[e]
      BY <2>t, <2>11, <3>2 DEF RunTraceBuild, Publish, TypeOK, Spaces
    <3>4. buildCache' \subseteq buildCache \cup {r}
      BY <2>11, CachedHolds DEF RunTraceBuild
    <3>5. CASE ~disturbed
      <4>1. CachesPublished'
        BY <2>t, <3>1, <3>3, <3>4, <3>5 DEF CalmInv, CachesPublished, TypeOK
      <4>2. FrontierCovered' /\ LoadsPublished'
        BY <3>1, <3>3, <3>5 DEF CalmInv, FrontierCovered, LoadsPublished
      <4>3. QED
        BY <3>1, <3>3, <3>5, <4>1, <4>2 DEF CalmInv
    <3>6. QED
      BY <2>d, <3>1, <3>5
  <2>12. CASE NextRound
    <3>1. /\ pc = "buildB" /\ todo = {} /\ pc' = "buildA" /\ round' = round + 1 /\ todo' = ActionsOfA
          /\ UNCHANGED <<loads, loadCache, buildCache, published, disturbed>>
      BY <2>12 DEF NextRound, BuildA
    <3>2. \A e \in Traced : <<"load", e>> \in todo'
      BY <3>1 DEF ActionsOfA
    <3>3. ~disturbed => round' = 2 /\ \A e \in Traced : "trace" \in published[e]
      BY <3>1 DEF CalmInv, FrontierCovered
    <3>4. QED
      BY <3>1, <3>2, <3>3 DEF CalmInv, FrontierCovered, CachesPublished, LoadsPublished
  <2>13. CASE Converged
    BY <2>t, <2>13, CalmStays DEF Converged, Exit
  <2>14. ASSUME NEW e \in Traced, NEW space \in Spaces, OthersPublish(e, space) PROVE CalmInv'
    <3>1. /\ \A d \in Traced : published[d] \subseteq published'[d]
          /\ UNCHANGED <<disturbed, round, loadCache, buildCache, pc, loads, todo>>
      BY <2>t, <2>14 DEF OthersPublish, Publish, TypeOK
    <3>2. QED
      BY <2>t, <3>1, MorePublished
  <2>15. ASSUME NEW e \in Traced, NEW space \in Spaces, Evict(e, space) PROVE CalmInv'
    BY <2>15, <2>d DEF Evict
  <2>16. CASE UNCHANGED vars
    BY <2>t, <2>16, CalmStays DEF vars
  <2>17. QED
    BY <2>1, <2>2, <2>3, <2>4, <2>5, <2>6, <2>7, <2>8, <2>9, <2>10, <2>11, <2>12, <2>13, <2>14,
       <2>15, <2>16 DEF Next, Driver, Bazel, Others
<1>3. QED
  BY <1>1, <1>2, RoundsAreCapped, PTL DEF Spec

\* Nothing but a loss or a failure takes the driver to a third round
\* (TwoRoundsSuffice).
THEOREM TwoRounds == Spec => []TwoRoundsSuffice
<1>1. TwoRoundsInv => TwoRoundsSuffice
  BY DEF TwoRoundsInv, CalmInv, TwoRoundsSuffice
<1>2. QED
  BY <1>1, CalmRounds, PTL
=============================================================================
