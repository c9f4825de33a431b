----------------------------- MODULE Configures -----------------------------
(***************************************************************************)
(* One conversion of a cmake element: runLowerPasses of                    *)
(* convert-element-cmake.  It lowers the configured project, recovers what *)
(* the lowering lacked from reconfigures of the warm build directory and   *)
(* lowers again, while cold configures (one per build type, and one per    *)
(* flipped option value) run beside it, each in a scratch directory of its *)
(* own; they are joined, read, folded into the package and removed.        *)
(*                                                                         *)
(* What lowering makes of a project is abstracted to what it demands,      *)
(* which demands it refuses to do without, and what a reconfigure can tell.*)
(***************************************************************************)
EXTENDS Naturals, FiniteSets

CONSTANTS
    BuildTypes,  \* --build-types: the cold configures of the per-config bake
    Flips,       \* the option values --lift-options configures, ...
    OptionOf,    \* ... the option each of them flips, ...
    Sanitized,   \* ... and sanitizeConfigName of build types and options
    Projects,    \* the projects converted: see Project
    None

\* What a lowering pass may demand of a warm reconfigure.
Demands == {"genex", "stamp", "nested", "capture"}

\* What a reconfigure may yield: resolved genex literals, set() copies,
\* PARENT_SCOPE forwards and file(WRITE) templates of the plain trace, nested
\* builds, and the captures that nothing reads.
Facts == {"genex", "sets", "forwards", "writers", "nested", "dead"}

Project == [demands : SUBSET Demands,
            refuses : SUBSET {"stamp", "nested", "capture", "other"},
            yields  : SUBSET Facts,
            hidden  : BOOLEAN,   \* a capture hides the nested build
            outs    : BOOLEAN]   \* the package has write_file bodies

Jobs == BuildTypes \cup Flips

ASSUME ConfiguresAssumption ==
    /\ Projects \subseteq Project
    /\ BuildTypes \cap Flips = {}
    /\ \A S \in (SUBSET Facts) \cup (SUBSET Jobs) : None # S

VARIABLES
    project,  \* what is converted
    main,     \* where runLowerPasses is
    facts,    \* nestedBuilds, deadCaptureVars, fileWriterTemplates, recovered stamps
    wr,       \* warmRecovery: None, or the facts of a warm pass that recovered
    sinks,    \* the demands lowering has recorded
    pkg,      \* the package, by the facts it was lowered with; None
    deferred, \* deferredNestedAbort # nil
    err,      \* the live error
    job,      \* the cold configures
    cancelled,\* the jobs cancelled: "bakes", "flips"
    dir,      \* scratch directories: who has written to each
    folded,   \* what a job's arm was read from; None
    proved    \* history: what the rescues and warm passes have returned

vars == <<project, main, facts, wr, sinks, pkg, deferred, err, job, cancelled, dir, folded, proved>>
lowered == <<project, facts, wr, sinks, pkg, deferred, err, proved>>
beside  == <<job, cancelled, dir, folded>>

\* The two groups of cold configures, and their scratch directories.  A flip's
\* name has its index in it.
JobsOf(group) == IF group = "bakes" THEN BuildTypes ELSE Flips

\* Fault: no index.
ScratchByOption(j) == IF j \in BuildTypes THEN <<"cfg", Sanitized[j]>> ELSE <<"opt", Sanitized[OptionOf[j]]>>

scratch(j) == IF j \in BuildTypes THEN <<"cfg", Sanitized[j]>> ELSE <<"opt", j, Sanitized[OptionOf[j]]>>
Scratch == {scratch(j) : j \in Jobs}

TypeOK ==
    /\ project \in Projects
    /\ main \in {"pass1", "stamp", "capture", "defer", "warm", "relower", "late",
                 "finish bakes", "clean bakes", "join bakes",
                 "finish flips", "clean flips", "join flips", "returned"}
    /\ facts \subseteq Facts
    /\ wr = None \/ wr \in (SUBSET Facts) \ {{}}
    /\ sinks \subseteq Demands
    /\ pkg = None \/ pkg \subseteq Facts
    /\ deferred \in BOOLEAN /\ err \in BOOLEAN
    /\ job \in [Jobs -> {"off", "spawned", "running", "done", "failed"}]
    /\ cancelled \subseteq {"bakes", "flips"}
    /\ dir \in [Scratch -> SUBSET Jobs]
    /\ folded \in [Jobs -> (SUBSET Jobs) \cup {None}]
    /\ proved \subseteq Facts

\* startPerConfigBakes and startOptionLift: the pre-gates may decline, and the
\* bakes need two build types.
Init ==
    /\ project \in Projects
    /\ main = "pass1" /\ facts = {} /\ wr = None /\ sinks = {}
    /\ pkg = None /\ deferred = FALSE /\ err = FALSE
    /\ \E started \in SUBSET {"bakes", "flips"} :
         /\ "bakes" \in started => Cardinality(BuildTypes) >= 2
         /\ job = [j \in Jobs |-> IF \E g \in started : j \in JobsOf(g) THEN "spawned" ELSE "off"]
    /\ cancelled = {}
    /\ dir = [n \in Scratch |-> {}]
    /\ folded = [j \in Jobs |-> None]
    /\ proved = {}

-----------------------------------------------------------------------------
(* Lowering. *)

\* What a pass over the project records, given the facts it is lowered with: a
\* nested build may only show when the capture around it is cleared.
Recorded(known) ==
    {d \in project.demands : d = "nested" => ~project.hidden \/ "dead" \in known}

\* lower.ToIR refuses what it cannot do without.
Refused(known) ==
    \E d \in project.refuses :
        CASE d = "stamp"   -> known \cap {"sets", "forwards"} = {}
          [] d = "nested"  -> (~project.hidden \/ "dead" \in known) /\ "nested" \notin known
          [] d = "capture" -> "dead" \notin known
          [] OTHER         -> TRUE

\* runToIR.
Lower(known) ==
    /\ sinks' = sinks \cup Recorded(known)
    /\ pkg' = IF Refused(known) THEN pkg ELSE known

\* What reading a reconfigure's output back may yield: nothing, when it fails.
Read(wanted) == {{}, wanted \cap project.yields}

\* An early return runs the deferred cleanups, the flips' first.
Return(e) == err' = e /\ main' = "clean flips"

\* loadOperatorRecognizers fails.
NoRecognizers ==
    /\ main = "pass1" /\ Return(TRUE)
    /\ UNCHANGED <<project, facts, wr, sinks, pkg, deferred, proved, beside>>

\* Pass 1.
Pass1 ==
    /\ main = "pass1"
    /\ Lower({})
    /\ main' = IF Refused({}) THEN "stamp" ELSE "warm"
    /\ UNCHANGED <<project, facts, wr, deferred, err, proved, beside>>

\* recoverPass1StampAbort: what it has read is dropped when lowering refuses
\* again.
StampRescue ==
    /\ main = "stamp"
    /\ IF "stamp" \in sinks
       THEN \E got \in Read({"sets", "forwards"}) :
              LET kept == IF Refused(got) THEN {} ELSE got IN
              /\ proved' = proved \cup kept /\ facts' = facts \cup kept
              /\ IF got # {} THEN Lower(got) ELSE UNCHANGED <<sinks, pkg>>
       ELSE UNCHANGED <<sinks, pkg, facts, proved>>
    /\ main' = IF pkg' # None THEN "warm" ELSE "capture"
    /\ UNCHANGED <<project, wr, deferred, err, beside>>

\* recoverPass1CaptureAbort: deadCaptureVars stays when lowering refuses again.
CaptureRescue ==
    /\ main = "capture"
    /\ IF "capture" \in sinks
       THEN \E got \in Read({"dead"}) :
              /\ proved' = proved \cup got
              /\ facts' = facts \cup got
              /\ IF got # {} THEN Lower(got) ELSE UNCHANGED <<sinks, pkg>>
       ELSE UNCHANGED <<sinks, pkg, facts, proved>>
    /\ main' = IF pkg' # None THEN "warm" ELSE "defer"
    /\ UNCHANGED <<project, wr, deferred, err, beside>>

\* maybeDeferNestedAbort: a pending nested build may bring what was missing.
Defer ==
    /\ main = "defer"
    /\ IF "nested" \in sinks
       THEN deferred' = TRUE /\ main' = "warm" /\ UNCHANGED err
       ELSE Return(TRUE) /\ UNCHANGED deferred
    /\ UNCHANGED <<project, facts, wr, sinks, pkg, proved, beside>>

\* Which demands the coalesced warm pass has hooks for.  Recovered set() copies
\* and a proven dead set are not asked for again.
Needs ==
    {d \in sinks : /\ d = "stamp" => "sets" \notin facts
                  /\ d = "capture" => "dead" \notin facts}

Stamps == {"sets", "forwards"}

\* What each demand's hook yields.
Wanted(d) ==
    CASE d = "stamp"   -> Stamps \cup {"writers"}
      [] d = "capture" -> {"dead"}
      [] OTHER         -> {d}

\* Fault: recovered as soon as the configure has run.
RecoveryEager(got) == got \cup (facts \cap Stamps)

\* warmRecovery: recovered says that something was read back; the stamps default
\* to those a rescue recovered.
Recovery(got) == IF got = {} THEN None ELSE got \cup (facts \cap Stamps)

\* runCoalescedWarmPass: one reconfigure for all demands; it may fail, and so
\* may each read-back.
WarmPass ==
    /\ main = "warm"
    /\ \E answered \in SUBSET Needs :
         LET got == (UNION {Wanted(d) \cap project.yields : d \in answered}) IN
         /\ wr' = IF Needs = {} THEN None ELSE Recovery(got)
         /\ proved' = proved \cup got
    /\ main' = "relower"
    /\ UNCHANGED <<project, facts, sinks, pkg, deferred, err, beside>>

\* The facts the re-lowering closes over or is passed.
Relowered == facts \cup wr

\* Fault: the dead set is whatever the warm pass has read.
RelowerForgetting ==
    /\ main = "relower"
    /\ IF wr = None
       THEN main' = "late" /\ UNCHANGED <<facts, sinks, pkg, err>>
       ELSE LET now == (facts \ {"dead"}) \cup wr IN
            /\ facts' = now /\ Lower(now)
            /\ IF Refused(now) THEN Return(TRUE) ELSE main' = "late" /\ UNCHANGED err
    /\ UNCHANGED <<project, wr, deferred, proved, beside>>

\* The one re-lowering after it.  A refusal is final.
Relower ==
    /\ main = "relower"
    /\ IF wr = None
       THEN main' = "late" /\ UNCHANGED <<facts, sinks, pkg, err>>
       ELSE /\ facts' = Relowered /\ Lower(Relowered)
            /\ IF Refused(Relowered) THEN Return(TRUE) ELSE main' = "late" /\ UNCHANGED err
    /\ UNCHANGED <<project, wr, deferred, proved, beside>>

\* Clearing captures may have brought a nested build to light: one more warm
\* pass, for that alone.
LateNested ==
    /\ wr # None /\ "dead" \in wr
    /\ "nested" \in sinks /\ "nested" \notin facts

\* Fault: a deferred refusal is forgotten.
PassedAnyway(p) == main' = "finish bakes" /\ UNCHANGED err

\* After the last pass: a deferred refusal that nothing has helped is due.
Passed(p) == IF deferred /\ p = None THEN Return(TRUE) ELSE main' = "finish bakes" /\ UNCHANGED err

LateRound ==
    /\ main = "late"
    /\ \E got \in IF LateNested THEN Read({"nested"}) ELSE {{}} :
         IF got = {}
         THEN Passed(pkg) /\ UNCHANGED <<facts, sinks, pkg, proved>>
         ELSE LET now == facts \cup got IN
              /\ facts' = now /\ proved' = proved \cup got /\ Lower(now)
              /\ IF Refused(now) THEN Return(TRUE) ELSE Passed(pkg')
    /\ UNCHANGED <<project, wr, deferred, beside>>

-----------------------------------------------------------------------------
(* The cold configures. *)

GroupOf(j) == IF j \in BuildTypes THEN "bakes" ELSE "flips"
Running(group) == \E j \in JobsOf(group) : job[j] \in {"spawned", "running"}

\* A goroutine comes to run: Configure makes the build directory before it
\* starts cmake, which does not start in a cancelled context.
Started(j) == IF GroupOf(j) \in cancelled THEN "failed" ELSE "running"

\* Fault: a goroutine that finds its context cancelled returns, and is not
\* counted as done.
BeginUnlessCancelled(j) ==
    /\ job[j] = "spawned" /\ GroupOf(j) \notin cancelled
    /\ job' = [job EXCEPT ![j] = "running"]
    /\ dir' = [dir EXCEPT ![scratch(j)] = @ \cup {j}]
    /\ UNCHANGED <<main, cancelled, folded, lowered>>

Begin(j) ==
    /\ job[j] = "spawned"
    /\ job' = [job EXCEPT ![j] = Started(j)]
    /\ dir' = [dir EXCEPT ![scratch(j)] = @ \cup {j}]
    /\ UNCHANGED <<main, cancelled, folded, lowered>>

\* cmake ends, by itself or because the context was cancelled.
End(j, how) ==
    /\ job[j] = "running"
    /\ job' = [job EXCEPT ![j] = how]
    /\ UNCHANGED <<main, cancelled, dir, folded, lowered>>

\* finishPerConfigBakes: without write_file bodies there is nothing to wait for;
\* one failed configure drops the fold.
FinishBakes ==
    /\ main = "finish bakes"
    /\ project.outs => ~Running("bakes")
    /\ folded' = [j \in Jobs |->
                    IF j \in BuildTypes /\ project.outs /\ \A c \in BuildTypes : job[c] = "done"
                    THEN dir[scratch(j)] ELSE folded[j]]
    /\ main' = "clean bakes"
    /\ UNCHANGED <<job, cancelled, dir, lowered>>

\* finishOptionLift: option by option, one failed flip keeps the option baked.
FinishFlips ==
    /\ main = "finish flips" /\ ~Running("flips")
    /\ folded' = [j \in Jobs |->
                    IF j \in Flips /\ \A k \in Flips : OptionOf[k] = OptionOf[j] => job[k] = "done"
                    THEN dir[scratch(j)] ELSE folded[j]]
    /\ main' = "clean flips"
    /\ UNCHANGED <<job, cancelled, dir, lowered>>

\* cleanup: cancel, ...
Cancel(group) ==
    /\ main = IF group = "bakes" THEN "clean bakes" ELSE "clean flips"
    /\ cancelled' = cancelled \cup {group}
    /\ main' = IF group = "bakes" THEN "join bakes" ELSE "join flips"
    /\ UNCHANGED <<job, dir, folded, lowered>>

\* ... join and remove.  After an error the flips' cleanup comes before the
\* bakes', and nothing after.
Joining(group) == main = IF group = "bakes" THEN "join bakes" ELSE "join flips"
AfterCleanup(group) ==
    CASE group = "bakes" /\ ~err -> "finish flips"
      [] group = "flips" /\ err  -> "clean bakes"
      [] OTHER                    -> "returned"
Removed(group) == [n \in Scratch |-> IF \E j \in JobsOf(group) : n = scratch(j) THEN {} ELSE dir[n]]

\* Fault: a cancelled configure is not waited for.
CleanupUnjoined(group) ==
    /\ Joining(group)
    /\ dir' = Removed(group) /\ main' = AfterCleanup(group)
    /\ UNCHANGED <<job, cancelled, folded, lowered>>

Cleanup(group) ==
    /\ Joining(group) /\ ~Running(group)
    /\ dir' = Removed(group) /\ main' = AfterCleanup(group)
    /\ UNCHANGED <<job, cancelled, folded, lowered>>

Main ==
    \/ Pass1 \/ StampRescue \/ CaptureRescue \/ Defer \/ WarmPass \/ Relower \/ LateRound
    \/ FinishBakes \/ FinishFlips
    \/ \E group \in {"bakes", "flips"} : Cancel(group) \/ Cleanup(group)

Next ==
    \/ NoRecognizers \/ Main
    \/ \E j \in Jobs : Begin(j) \/ \E how \in {"done", "failed"} : End(j, how)

Spec == Init /\ [][Next]_vars

\* The converter is one process: its main goroutine runs when it can, so does
\* every other, and cmake ends.
FairSpec ==
    /\ Spec /\ WF_vars(Main)
    /\ \A j \in Jobs : WF_vars(Begin(j)) /\ WF_vars(\E how \in {"done", "failed"} : End(j, how))

-----------------------------------------------------------------------------
(* Properties. *)

\* A package is being finished or was returned.
Succeeded == ~err /\ main \in {"finish bakes", "clean bakes", "join bakes", "finish flips",
                              "clean flips", "join flips", "returned"}

\* Whatever a rescue or a warm pass has recovered is in the lowering the package
\* comes from: a later pass that recovers something else loses none of it.
NothingLost == Succeeded => pkg # None /\ proved \subseteq pkg

\* A conversion never goes on without a package, and never with one that
\* lowering refused: a deferred refusal is resolved or reported.
NoRefusalSwallowed == Succeeded => pkg # None /\ ~Refused(pkg)

\* Whose output a job's arm may hold: its own, and that of the build types whose
\* names have the same sanitizeConfigName.
Sharing(j) == IF j \in Flips THEN {j} ELSE {c \in BuildTypes : Sanitized[c] = Sanitized[j]}

\* An arm is read from its own configure's scratch directory after that has
\* ended well, no other configure having written there but those of Sharing, and
\* it is folded with all of its select or not at all.
FoldReadsOwn ==
    \A j \in Jobs : folded[j] # None =>
        /\ folded[j] = Sharing(j) /\ job[j] = "done"
        /\ j \in BuildTypes => \A c \in BuildTypes : folded[c] # None
        /\ j \in Flips => \A k \in Flips : OptionOf[k] = OptionOf[j] => folded[k] # None

\* On every way out no configure runs on and no scratch directory is left.
NothingLeftBehind ==
    main = "returned" => (\A j \in Jobs : job[j] \notin {"spawned", "running"}) /\ (\A n \in Scratch : dir[n] = {})

\* Joins and cleanups, some of them run twice, never wait for one another for
\* ever.
Returns == <>(main = "returned")

(* What the repository says that the code does not do *)

\* per_config_bake.go: "one fresh single-config configure per build type into a
\* sibling scratch dir": what a build type's arm is folded from is its own.
BakesAreFresh == \A j \in BuildTypes : folded[j] # None => folded[j] = {j}
=============================================================================
