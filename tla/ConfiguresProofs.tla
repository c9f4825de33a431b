-------------------------- MODULE ConfiguresProofs --------------------------
(***************************************************************************)
(* Proofs about Configures for every project, and any build types and      *)
(* options.                                                                *)
(*                                                                         *)
(* Two arguments that do not touch: what runLowerPasses knows at each of   *)
(* its places (PassesInv), and what a cold configure and its scratch       *)
(* directory are at each of them (JobsInv).                                *)
(***************************************************************************)
EXTENDS Configures, TLAPS

\* The places before the package is finished, ...
Passes == {"pass1", "stamp", "capture", "defer", "warm", "relower", "late"}
\* ... and those after it, or after an error.
Finishing == {"finish bakes", "clean bakes", "join bakes", "finish flips", "clean flips", "join flips", "returned"}

-----------------------------------------------------------------------------
(* Types *)

\* A job's group is one of two.
LEMMA GroupType ==
    /\ \A j \in Jobs : GroupOf(j) \in {"bakes", "flips"} /\ j \in JobsOf(GroupOf(j))
    /\ \A g \in {"bakes", "flips"} : JobsOf(g) \subseteq Jobs
  BY DEF GroupOf, JobsOf, Jobs

\* What a lowering leaves has its type.
LEMMA LowerType ==
    ASSUME TypeOK, NEW known \in SUBSET Facts, Lower(known)
    PROVE  sinks' \subseteq Demands /\ (pkg' = None \/ pkg' \subseteq Facts)
<1>1. Recorded(known) \subseteq Demands
  BY ConfiguresAssumption DEF Recorded, TypeOK, Project
<1>2. QED
  BY <1>1 DEF Lower, TypeOK

\* Reading back yields facts.
LEMMA ReadType ==
    ASSUME TypeOK, NEW wanted, NEW got \in Read(wanted) PROVE got \in SUBSET Facts
  BY ConfiguresAssumption DEF Read, TypeOK, Project

\* So does a warm pass.
LEMMA WarmType ==
    ASSUME TypeOK, NEW answered \in SUBSET Needs
    PROVE  (UNION {Wanted(d) \cap project.yields : d \in answered}) \in SUBSET Facts
<1>1. project.yields \subseteq Facts
  BY ConfiguresAssumption DEF TypeOK, Project
<1>2. QED
  BY <1>1, Zenon

\* Every variable keeps its type.
THEOREM TypeCorrect == Spec => []TypeOK
<1>1. Init => TypeOK
  BY DEF Init, TypeOK, Jobs, Scratch
<1>2. TypeOK /\ [Next]_vars => TypeOK'
  <2> SUFFICES ASSUME TypeOK, [Next]_vars PROVE TypeOK'
    OBVIOUS
  <2>1. CASE NoRecognizers
    BY <2>1 DEF NoRecognizers, Return, TypeOK, beside
  <2>2. CASE Pass1
    BY <2>2, LowerType DEF Pass1, TypeOK, beside
  <2>3. CASE StampRescue
    <3>1. ASSUME "stamp" \in sinks PROVE /\ proved' \subseteq Facts /\ facts' \subseteq Facts
                                         /\ sinks' \subseteq Demands /\ (pkg' = None \/ pkg' \subseteq Facts)
      <4>1. PICK got \in Read({"sets", "forwards"}) :
              LET kept == IF Refused(got) THEN {} ELSE got IN
              /\ proved' = proved \cup kept /\ facts' = facts \cup kept
              /\ IF got # {} THEN Lower(got) ELSE UNCHANGED <<sinks, pkg>>
        BY <2>3, <3>1 DEF StampRescue
      <4>2. got \in SUBSET Facts
        BY ReadType
      <4>3. sinks' \subseteq Demands /\ (pkg' = None \/ pkg' \subseteq Facts)
        BY <4>1, <4>2, LowerType DEF TypeOK
      <4>4. QED
        BY <4>1, <4>2, <4>3 DEF TypeOK
    <3>2. QED
      BY <2>3, <3>1 DEF StampRescue, TypeOK, beside
  <2>4. CASE CaptureRescue
    <3>1. ASSUME "capture" \in sinks PROVE /\ proved' \subseteq Facts /\ facts' \subseteq Facts
                                           /\ sinks' \subseteq Demands /\ (pkg' = None \/ pkg' \subseteq Facts)
      <4>1. PICK got \in Read({"dead"}) :
              /\ proved' = proved \cup got /\ facts' = facts \cup got
              /\ IF got # {} THEN Lower(got) ELSE UNCHANGED <<sinks, pkg>>
        BY <2>4, <3>1 DEF CaptureRescue
      <4>2. got \in SUBSET Facts
        BY ReadType
      <4>3. sinks' \subseteq Demands /\ (pkg' = None \/ pkg' \subseteq Facts)
        BY <4>1, <4>2, LowerType DEF TypeOK
      <4>4. QED
        BY <4>1, <4>2, <4>3 DEF TypeOK
    <3>2. QED
      BY <2>4, <3>1 DEF CaptureRescue, TypeOK, beside
  <2>5. CASE Defer
    BY <2>5 DEF Defer, Return, TypeOK, beside
  <2>6. CASE WarmPass
    <3>1. PICK answered \in SUBSET Needs :
            LET got == (UNION {Wanted(d) \cap project.yields : d \in answered}) IN
            /\ wr' = IF Needs = {} THEN None ELSE Recovery(got)
            /\ proved' = proved \cup got
      BY <2>6 DEF WarmPass
    <3> DEFINE got == (UNION {Wanted(d) \cap project.yields : d \in answered})
    <3>2. got \in SUBSET Facts
      BY WarmType
    <3>3. proved' \subseteq Facts /\ (wr' = None \/ wr' \in (SUBSET Facts) \ {{}})
      <4> HIDE DEF got
      <4>1. /\ wr' = IF Needs = {} THEN None ELSE Recovery(got)
            /\ proved' = proved \cup got
        BY <3>1 DEF got
      <4>2. QED
        BY <3>2, <4>1 DEF Recovery, TypeOK
    <3>4. QED
      BY <2>6, <3>3 DEF WarmPass, TypeOK, beside
  <2>7. CASE Relower
    <3>1. CASE wr = None
      BY <2>7, <3>1 DEF Relower, TypeOK, beside
    <3>2. CASE wr # None
      <4>1. Relowered \in SUBSET Facts
        BY <3>2 DEF Relowered, TypeOK
      <4>2. QED
        BY <2>7, <3>2, <4>1, LowerType DEF Relower, Return, TypeOK, beside
    <3>3. QED
      BY <3>1, <3>2
  <2>8. CASE LateRound
    <3>1. PICK got \in IF LateNested THEN Read({"nested"}) ELSE {{}} :
         IF got = {}
         THEN Passed(pkg) /\ UNCHANGED <<facts, sinks, pkg, proved>>
         ELSE LET now == facts \cup got IN
              /\ facts' = now /\ proved' = proved \cup got /\ Lower(now)
              /\ IF Refused(now) THEN Return(TRUE) ELSE Passed(pkg')
      BY <2>8 DEF LateRound
    <3>2. got \in SUBSET Facts
      BY ReadType
    <3>3. CASE got = {}
      BY <2>8, <3>1, <3>3 DEF LateRound, Passed, Return, TypeOK, beside
    <3>4. CASE got # {}
      <4>1. facts \cup got \in SUBSET Facts
        BY <3>2 DEF TypeOK
      <4>2. facts' = facts \cup got /\ proved' = proved \cup got /\ Lower(facts \cup got)
        BY <3>1, <3>4
      <4>3. sinks' \subseteq Demands /\ (pkg' = None \/ pkg' \subseteq Facts)
        BY <4>1, <4>2, LowerType
      <4>4. /\ main' \in {"clean flips", "finish bakes"}
            /\ err' \in BOOLEAN
        BY <3>1, <3>4 DEF Return, Passed, TypeOK
      <4>5. QED
        BY <2>8, <3>2, <4>1, <4>2, <4>3, <4>4 DEF LateRound, TypeOK, beside
    <3>5. QED
      BY <3>3, <3>4
  <2>9. CASE FinishBakes
    BY <2>9 DEF FinishBakes, TypeOK, lowered, Scratch, Jobs
  <2>10. CASE FinishFlips
    BY <2>10 DEF FinishFlips, TypeOK, lowered, Scratch, Jobs
  <2>11. ASSUME NEW g \in {"bakes", "flips"}, Cancel(g) PROVE TypeOK'
    BY <2>11 DEF Cancel, TypeOK, lowered
  <2>12. ASSUME NEW g \in {"bakes", "flips"}, Cleanup(g) PROVE TypeOK'
    BY <2>12 DEF Cleanup, AfterCleanup, Removed, TypeOK, lowered
  <2>13. ASSUME NEW j \in Jobs, Begin(j) PROVE TypeOK'
    BY <2>13 DEF Begin, Started, TypeOK, lowered, Scratch
  <2>14. ASSUME NEW j \in Jobs, NEW how \in {"done", "failed"}, End(j, how) PROVE TypeOK'
    BY <2>14 DEF End, TypeOK, lowered
  <2>15. CASE UNCHANGED vars
    BY <2>15 DEF vars, TypeOK
  <2>16. QED
    BY <2>1, <2>2, <2>3, <2>4, <2>5, <2>6, <2>7, <2>8, <2>9, <2>10, <2>11, <2>12, <2>13, <2>14, <2>15
       DEF Next, Main
<1>3. QED
  BY <1>1, <1>2, PTL DEF Spec

-----------------------------------------------------------------------------
(* The passes *)

\* What runLowerPasses knows at each of its places: the package is the lowering
\* of all it has recovered, or it has none and a refusal is deferred.
PassesInv ==
    /\ pkg # None => ~Refused(pkg)
    /\ main \in {"pass1", "stamp", "capture"} => pkg = None /\ wr = None /\ ~deferred /\ facts = {} /\ proved = {}
    /\ main = "defer" => pkg = None /\ wr = None /\ ~deferred /\ proved = facts
    /\ main = "warm" => wr = None /\ proved = facts
    /\ main = "relower" => IF wr = None THEN proved = facts ELSE proved \subseteq facts \cup wr
    /\ main = "late" => proved \subseteq facts
    /\ main \in {"warm", "relower", "late"} => IF pkg = None THEN deferred ELSE pkg = facts
    /\ main \in Finishing => err \/ (pkg # None /\ proved \subseteq pkg)

\* The package a lowering leaves is not one it refused, and it is the one with
\* the facts it was given unless it refused.
LEMMA LowerKeeps ==
    ASSUME PassesInv, NEW known, Lower(known), project' = project
    PROVE  /\ (pkg # None => ~Refused(pkg))'
           /\ ~Refused(known) => pkg' = known
           /\ Refused(known) => pkg' = pkg
  BY DEF Lower, PassesInv, Refused

\* No set of facts is mistaken for the missing package.
LEMMA FactsAreSome == \A S \in SUBSET Facts : S # None
  BY ConfiguresAssumption

\* The steps after the passes touch nothing the passes have left.
LEMMA FinishingKeeps ==
    ASSUME TypeOK, PassesInv, main \in Finishing, main' \in Finishing, UNCHANGED lowered
    PROVE  PassesInv'
  BY DEF PassesInv, Finishing, lowered, Refused

\* PassesInv is inductive.
LEMMA PassesStep == TypeOK /\ PassesInv /\ [Next]_vars => PassesInv'
<1> SUFFICES ASSUME TypeOK, PassesInv, [Next]_vars PROVE PassesInv'
  OBVIOUS
<1>1. CASE NoRecognizers
  BY <1>1 DEF NoRecognizers, Return, PassesInv, Finishing, Refused
<1>2. CASE Pass1
  <2>1. /\ (pkg # None => ~Refused(pkg))'
        /\ ~Refused({}) => pkg' = {}
        /\ Refused({}) => pkg' = pkg
    BY <1>2, LowerKeeps DEF Pass1
  <2>2. {} # None
    BY FactsAreSome
  <2>3. QED
    BY <1>2, <2>1, <2>2 DEF Pass1, PassesInv, Finishing
<1>3. CASE StampRescue
  <2>1. CASE "stamp" \in sinks
    <3>1. PICK got \in Read({"sets", "forwards"}) :
            LET kept == IF Refused(got) THEN {} ELSE got IN
            /\ proved' = proved \cup kept /\ facts' = facts \cup kept
            /\ IF got # {} THEN Lower(got) ELSE UNCHANGED <<sinks, pkg>>
      BY <1>3, <2>1 DEF StampRescue
    <3>2. facts = {} /\ proved = {} /\ pkg = None
      BY <1>3 DEF StampRescue, PassesInv
    <3>3. CASE got = {}
      BY <1>3, <3>1, <3>2, <3>3 DEF StampRescue, PassesInv, Finishing, Refused
    <3>4. CASE got # {}
      <4>1. Lower(got) /\ project' = project
        BY <1>3, <3>1, <3>4 DEF StampRescue
      <4>2. got # None
        BY ReadType, FactsAreSome
      <4>3. QED
        BY <1>3, <3>1, <3>2, <4>1, <4>2, LowerKeeps DEF StampRescue, PassesInv, Finishing
    <3>5. QED
      BY <3>3, <3>4
  <2>2. CASE "stamp" \notin sinks
    BY <1>3, <2>2 DEF StampRescue, PassesInv, Finishing, Refused
  <2>3. QED
    BY <2>1, <2>2
<1>4. CASE CaptureRescue
  <2>1. CASE "capture" \in sinks
    <3>1. PICK got \in Read({"dead"}) :
            /\ proved' = proved \cup got /\ facts' = facts \cup got
            /\ IF got # {} THEN Lower(got) ELSE UNCHANGED <<sinks, pkg>>
      BY <1>4, <2>1 DEF CaptureRescue
    <3>2. facts = {} /\ proved = {} /\ pkg = None
      BY <1>4 DEF CaptureRescue, PassesInv
    <3>3. CASE got = {}
      BY <1>4, <3>1, <3>2, <3>3 DEF CaptureRescue, PassesInv, Finishing, Refused
    <3>4. CASE got # {}
      <4>1. Lower(got) /\ project' = project
        BY <1>4, <3>1, <3>4 DEF CaptureRescue
      <4>2. got # None
        BY ReadType, FactsAreSome
      <4>3. QED
        BY <1>4, <3>1, <3>2, <4>1, <4>2, LowerKeeps DEF CaptureRescue, PassesInv, Finishing
    <3>5. QED
      BY <3>3, <3>4
  <2>2. CASE "capture" \notin sinks
    BY <1>4, <2>2 DEF CaptureRescue, PassesInv, Finishing, Refused
  <2>3. QED
    BY <2>1, <2>2
<1>5. CASE Defer
  BY <1>5 DEF Defer, Return, PassesInv, Finishing, Refused
<1>6. CASE WarmPass
  <2>1. PICK answered \in SUBSET Needs :
          LET got == (UNION {Wanted(d) \cap project.yields : d \in answered}) IN
          /\ wr' = IF Needs = {} THEN None ELSE Recovery(got)
          /\ proved' = proved \cup got
    BY <1>6 DEF WarmPass
  <2> DEFINE got == (UNION {Wanted(d) \cap project.yields : d \in answered})
  <2>2. Needs = {} => got = {}
    OBVIOUS
  <2>3. /\ wr' = IF Needs = {} THEN None ELSE Recovery(got)
        /\ proved' = proved \cup got
        /\ got \in SUBSET Facts
    BY <2>1, WarmType
  <2>4. IF wr' = None THEN proved' = facts' ELSE proved' \subseteq facts' \cup wr'
    <3> HIDE DEF got
    <3>1. facts' = facts /\ proved = facts
      BY <1>6 DEF WarmPass, PassesInv
    <3>2. CASE got = {}
      BY <2>3, <3>1, <3>2 DEF Recovery
    <3>3. CASE got # {}
      <4>1. got \cup (facts \cap Stamps) # None
        BY <2>3, FactsAreSome DEF TypeOK
      <4>2. QED
        BY <2>2, <2>3, <3>1, <3>3, <4>1 DEF Recovery
    <3>4. QED
      BY <3>2, <3>3
  <2>5. QED
    BY <1>6, <2>4 DEF WarmPass, PassesInv, Finishing, Refused
<1>7. CASE Relower
  <2>1. CASE wr = None
    BY <1>7, <2>1 DEF Relower, PassesInv, Finishing, Refused
  <2>2. CASE wr # None
    <3>1. Relowered \in SUBSET Facts
      BY <2>2 DEF Relowered, TypeOK
    <3>2. Relowered # None
      BY <3>1, FactsAreSome
    <3>3. QED
      BY <1>7, <2>2, <3>2, LowerKeeps DEF Relower, Relowered, Return, PassesInv, Finishing
  <2>3. QED
    BY <2>1, <2>2
<1>8. CASE LateRound
  <2>1. PICK got \in IF LateNested THEN Read({"nested"}) ELSE {{}} :
       IF got = {}
       THEN Passed(pkg) /\ UNCHANGED <<facts, sinks, pkg, proved>>
       ELSE LET now == facts \cup got IN
            /\ facts' = now /\ proved' = proved \cup got /\ Lower(now)
            /\ IF Refused(now) THEN Return(TRUE) ELSE Passed(pkg')
    BY <1>8 DEF LateRound
  <2>2. main = "late" /\ project' = project
    BY <1>8 DEF LateRound
  <2>3. CASE got = {}
    BY <1>8, <2>1, <2>2, <2>3 DEF LateRound, Passed, Return, PassesInv, Finishing, Refused
  <2>4. CASE got # {}
    <3>1. /\ facts' = facts \cup got /\ proved' = proved \cup got /\ Lower(facts \cup got)
          /\ IF Refused(facts \cup got) THEN Return(TRUE) ELSE Passed(pkg')
      BY <2>1, <2>4
    <3>2. facts \cup got # None
      <4>1. facts \cup got \in SUBSET Facts
        BY ReadType DEF TypeOK
      <4>2. QED
        BY <4>1, FactsAreSome
    <3>3. /\ (pkg # None => ~Refused(pkg))'
          /\ ~Refused(facts \cup got) => pkg' = facts'
          /\ Refused(facts \cup got) => pkg' = pkg
      BY <2>2, <3>1, LowerKeeps
    <3>4. facts' # None /\ proved' \subseteq facts' /\ deferred' = deferred
      BY <1>8, <2>2, <3>1, <3>2 DEF LateRound, PassesInv
    <3>5. CASE Refused(facts \cup got)
      BY <3>1, <3>3, <3>5 DEF Return, PassesInv, Finishing
    <3>6. CASE ~Refused(facts \cup got)
      BY <3>1, <3>3, <3>4, <3>6 DEF Passed, PassesInv, Finishing
    <3>7. QED
      BY <3>5, <3>6
  <2>5. QED
    BY <2>3, <2>4
<1>9. CASE FinishBakes
  BY <1>9, FinishingKeeps DEF FinishBakes, Finishing
<1>10. CASE FinishFlips
  BY <1>10, FinishingKeeps DEF FinishFlips, Finishing
<1>11. ASSUME NEW g \in {"bakes", "flips"}, Cancel(g) PROVE PassesInv'
  BY <1>11, FinishingKeeps DEF Cancel, Finishing
<1>12. ASSUME NEW g \in {"bakes", "flips"}, Cleanup(g) PROVE PassesInv'
  BY <1>12, FinishingKeeps DEF Cleanup, Joining, AfterCleanup, Finishing
<1>13. ASSUME UNCHANGED <<lowered, main>> PROVE PassesInv'
  BY <1>13 DEF lowered, PassesInv, Refused
<1>14. ASSUME NEW j \in Jobs, Begin(j) \/ \E how \in {"done", "failed"} : End(j, how) PROVE PassesInv'
  BY <1>13, <1>14 DEF Begin, End
<1>15. CASE UNCHANGED vars
  BY <1>13, <1>15 DEF vars, lowered
<1>16. QED
  BY <1>1, <1>2, <1>3, <1>4, <1>5, <1>6, <1>7, <1>8, <1>9, <1>10, <1>11, <1>12, <1>14, <1>15 DEF Next, Main

\* The package that is finished is one lowering accepted, with everything the
\* rescues and warm passes have recovered.
THEOREM PackageIsComplete == Spec => [](NothingLost /\ NoRefusalSwallowed)
<1>1. Init => PassesInv
  BY DEF Init, PassesInv, Finishing
<1>2. PassesInv => NothingLost /\ NoRefusalSwallowed
  BY DEF PassesInv, NothingLost, NoRefusalSwallowed, Succeeded, Finishing
<1>3. QED
  BY <1>1, <1>2, TypeCorrect, PassesStep, PTL DEF Spec

\* A program that succeeds hands on no package that lowering has refused.
COROLLARY RefusalsAreReported == Spec => []NoRefusalSwallowed
BY PackageIsComplete, PTL

-----------------------------------------------------------------------------
(* The cold configures *)

\* A group's jobs are joined and their directories removed.
Gone(group) ==
    \/ main = "returned"
    \/ IF group = "bakes"
       THEN main = "finish flips" \/ (main \in {"clean flips", "join flips"} /\ ~err)
       ELSE main \in {"clean bakes", "join bakes"} /\ err

\* Before the first cleanup there is no error.
NoErrorYet == main \in Passes \cup {"finish bakes", "finish flips"} => ~err

\* A scratch directory is used by the jobs of its name only, has a job's output
\* once the job runs, and is empty for good once the group is gone.
JobInv(j) ==
    /\ dir[scratch(j)] \subseteq Sharing(j)
    /\ IF Gone(GroupOf(j))
       THEN dir[scratch(j)] = {} /\ job[j] \notin {"spawned", "running"}
       ELSE job[j] \in {"running", "done"} => j \in dir[scratch(j)]

JobsInv == NoErrorYet /\ FoldReadsOwn /\ \A j \in Jobs : JobInv(j)

\* The jobs of one scratch directory are those of Sharing: one group's, and for
\* a flip only itself.
LEMMA ScratchIsShared ==
    ASSUME NEW i \in Jobs, NEW j \in Jobs
    PROVE  /\ scratch(i) = scratch(j) <=> i \in Sharing(j)
           /\ i \in Sharing(j) => GroupOf(i) = GroupOf(j)
<1>1. CASE i \in BuildTypes /\ j \in BuildTypes
  BY <1>1, ConfiguresAssumption DEF scratch, Sharing, GroupOf
<1>2. CASE i \notin BuildTypes /\ j \notin BuildTypes
  BY <1>2 DEF scratch, Sharing, GroupOf, Jobs
<1>3. CASE (i \in BuildTypes) # (j \in BuildTypes)
  <2>1. scratch(i)[1] # scratch(j)[1]
    BY <1>3 DEF scratch
  <2>2. i \notin Sharing(j)
    BY <1>3, ConfiguresAssumption DEF Sharing, Jobs
  <2>3. QED
    BY <2>1, <2>2
<1>4. QED
  BY <1>1, <1>2, <1>3

\* A pass leaves the jobs alone, and ends the conversion only with an error.
LEMMA PassesLeaveJobs ==
    ASSUME TypeOK, NoErrorYet,
           NoRecognizers \/ Pass1 \/ StampRescue \/ CaptureRescue \/ Defer \/ WarmPass \/ Relower \/ LateRound
    PROVE  /\ main \in Passes /\ UNCHANGED beside
           /\ \/ main' \in Passes \cup {"finish bakes"} /\ err' = err
              \/ main' = "clean flips" /\ err' = TRUE
<1>1. CASE NoRecognizers \/ Pass1 \/ StampRescue \/ CaptureRescue \/ Defer \/ WarmPass
  BY <1>1 DEF NoRecognizers, Pass1, StampRescue, CaptureRescue, Defer, WarmPass, Return, Passes
<1>2. CASE Relower
  BY <1>2 DEF Relower, Return, Passes
<1>3. CASE LateRound
  <2>1. PICK got : Passed(pkg) \/ Return(TRUE) \/ Passed(pkg')
    BY <1>3 DEF LateRound
  <2>2. QED
    BY <1>3, <2>1 DEF LateRound, Passed, Return, Passes
<1>4. QED
  BY <1>1, <1>2, <1>3

\* A step that neither touches the jobs nor makes a group come back or go.
LEMMA JobsStay ==
    ASSUME JobsInv, UNCHANGED beside, NoErrorYet',
           \A g \in {"bakes", "flips"} : Gone(g)' <=> Gone(g)
    PROVE  JobsInv'
<1>1. FoldReadsOwn'
  BY DEF JobsInv, FoldReadsOwn, beside
<1>2. ASSUME NEW j \in Jobs PROVE JobInv(j)'
  <2>1. Gone(GroupOf(j))' <=> Gone(GroupOf(j))
    BY GroupType DEF Gone, GroupOf
  <2>2. dir' = dir /\ job' = job
    BY DEF beside
  <2>3. QED
    BY <2>1, <2>2 DEF JobsInv, JobInv, GroupOf
<1>3. QED
  BY <1>1, <1>2 DEF JobsInv

\* What a group's jobs have left in a directory, while the group is not gone.
LEMMA DoneHasWritten ==
    ASSUME JobsInv, NEW j \in Jobs, ~Gone(GroupOf(j)), \A i \in Sharing(j) : job[i] = "done"
    PROVE  dir[scratch(j)] = Sharing(j) /\ Sharing(j) # None
<1>1. Sharing(j) \in SUBSET Jobs
  BY DEF Sharing, Jobs
<1>2. ASSUME NEW i \in Sharing(j) PROVE i \in dir[scratch(j)]
  <2>1. i \in Jobs /\ JobInv(i)
    BY <1>1 DEF JobsInv
  <2>2. scratch(i) = scratch(j) /\ GroupOf(i) = GroupOf(j)
    BY <2>1, ScratchIsShared
  <2>3. QED
    BY <2>1, <2>2 DEF JobInv
<1>3. dir[scratch(j)] \subseteq Sharing(j)
  BY DEF JobsInv, JobInv
<1>4. QED
  BY <1>1, <1>2, <1>3, ConfiguresAssumption

\* JobsInv is inductive.
LEMMA JobsStep == TypeOK /\ JobsInv /\ [Next]_vars => JobsInv'
<1> SUFFICES ASSUME TypeOK, JobsInv, [Next]_vars PROVE JobsInv'
  OBVIOUS
<1>1. CASE NoRecognizers \/ Pass1 \/ StampRescue \/ CaptureRescue \/ Defer \/ WarmPass \/ Relower \/ LateRound
  <2>1. /\ main \in Passes /\ UNCHANGED beside
        /\ \/ main' \in Passes \cup {"finish bakes"} /\ err' = err
           \/ main' = "clean flips" /\ err' = TRUE
    BY <1>1, PassesLeaveJobs DEF JobsInv
  <2>2. NoErrorYet'
    BY <2>1 DEF JobsInv, NoErrorYet, Passes
  <2>3. \A g \in {"bakes", "flips"} : Gone(g)' <=> Gone(g)
    BY <2>1 DEF Gone, Passes
  <2>4. QED
    BY <2>1, <2>2, <2>3, JobsStay
<1>2. CASE FinishBakes
  <2>1. NoErrorYet' /\ \A g \in {"bakes", "flips"} : Gone(g)' <=> Gone(g)
    BY <1>2 DEF FinishBakes, lowered, JobsInv, NoErrorYet, Gone, Passes
  <2>2. ASSUME NEW j \in Jobs PROVE JobInv(j)'
    BY <1>2, <2>1, GroupType DEF FinishBakes, JobsInv, JobInv, GroupOf
  <2>3. FoldReadsOwn'
    <3>1. job' = job
      BY <1>2 DEF FinishBakes
    <3>2. CASE project.outs /\ \A c \in BuildTypes : job[c] = "done"
      <4>1. ASSUME NEW c \in BuildTypes PROVE folded'[c] = Sharing(c) /\ folded'[c] # None
        <5>1. c \in Jobs /\ ~Gone(GroupOf(c))
          BY <1>2, <4>1 DEF FinishBakes, Gone, GroupOf, Jobs, JobsInv, NoErrorYet
        <5>2. folded'[c] = dir[scratch(c)]
          BY <1>2, <3>2, <5>1 DEF FinishBakes
        <5>3. Sharing(c) \subseteq BuildTypes
          BY <4>1, ConfiguresAssumption DEF Sharing
        <5>4. QED
          BY <3>2, <5>1, <5>2, <5>3, DoneHasWritten
      <4>2. \A j \in Flips : j \in Jobs /\ j \notin BuildTypes /\ folded'[j] = folded[j]
        BY <1>2, ConfiguresAssumption DEF FinishBakes, Jobs
      <4>3. QED
        BY <3>1, <3>2, <4>1, <4>2 DEF FoldReadsOwn, JobsInv, Jobs
    <3>3. CASE ~(project.outs /\ \A c \in BuildTypes : job[c] = "done")
      <4>1. \A j \in Jobs : folded'[j] = folded[j]
        BY <1>2, <3>3 DEF FinishBakes
      <4>2. QED
        BY <3>1, <4>1 DEF FoldReadsOwn, JobsInv, Jobs
    <3>4. QED
      BY <3>2, <3>3
  <2>4. QED
    BY <2>1, <2>2, <2>3 DEF JobsInv
<1>3. CASE FinishFlips
  <2>1. NoErrorYet' /\ \A g \in {"bakes", "flips"} : Gone(g)' <=> Gone(g)
    BY <1>3 DEF FinishFlips, lowered, JobsInv, NoErrorYet, Gone, Passes
  <2>2. ASSUME NEW j \in Jobs PROVE JobInv(j)'
    BY <1>3, <2>1, GroupType DEF FinishFlips, JobsInv, JobInv, GroupOf
  <2> DEFINE all(j) == \A k \in Flips : OptionOf[k] = OptionOf[j] => job[k] = "done"
  <2>3. FoldReadsOwn'
    <3>1. job' = job
      BY <1>3 DEF FinishFlips
    <3>2. \A j \in Jobs : folded'[j] = IF j \in Flips /\ all(j) THEN dir[scratch(j)] ELSE folded[j]
      BY <1>3 DEF FinishFlips
    <3>3. ASSUME NEW j \in Flips, all(j) PROVE folded'[j] = Sharing(j) /\ folded'[j] # None /\ job[j] = "done"
      <4>1. j \in Jobs /\ ~Gone(GroupOf(j))
        BY <1>3, <3>3, ConfiguresAssumption DEF FinishFlips, Gone, GroupOf, Jobs, JobsInv, NoErrorYet
      <4>2. Sharing(j) = {j} /\ job[j] = "done"
        BY <3>3 DEF Sharing
      <4>3. QED
        BY <3>2, <3>3, <4>1, <4>2, DoneHasWritten
    <3>4. \A c \in BuildTypes : c \in Jobs /\ c \notin Flips /\ folded'[c] = folded[c]
      BY <3>2, ConfiguresAssumption DEF Jobs
    <3>5. ASSUME NEW j \in Flips, NEW k \in Flips, OptionOf[k] = OptionOf[j] PROVE all(j) <=> all(k)
      BY <3>5
    <3>6. Flips \subseteq Jobs
      BY DEF Jobs
    <3> HIDE DEF all
    <3>7. ASSUME NEW j \in Flips, folded'[j] # None
          PROVE  /\ folded'[j] = Sharing(j) /\ job'[j] = "done"
                 /\ \A k \in Flips : OptionOf[k] = OptionOf[j] => folded'[k] # None
      <4>1. CASE all(j)
        BY <3>1, <3>3, <3>5, <4>1
      <4>2. CASE ~all(j)
        <5>1. \A k \in Flips : OptionOf[k] = OptionOf[j] => folded'[k] = folded[k]
          BY <3>2, <3>5, <3>6, <4>2
        <5>2. folded'[j] = folded[j]
          BY <5>1
        <5>3. QED
          BY <3>1, <3>6, <3>7, <5>1, <5>2 DEF FoldReadsOwn, JobsInv
      <4>3. QED
        BY <4>1, <4>2
    <3>8. ASSUME NEW c \in BuildTypes, folded'[c] # None
          PROVE  folded'[c] = Sharing(c) /\ job'[c] = "done" /\ \A d \in BuildTypes : folded'[d] # None
      BY <3>1, <3>4, <3>8 DEF FoldReadsOwn, JobsInv
    <3>9. QED
      BY <3>7, <3>8, ConfiguresAssumption DEF FoldReadsOwn, Jobs
  <2>4. QED
    BY <2>1, <2>2, <2>3 DEF JobsInv
<1>4. ASSUME NEW g \in {"bakes", "flips"}, Cancel(g) PROVE JobsInv'
  <2>1. NoErrorYet' /\ \A h \in {"bakes", "flips"} : Gone(h)' <=> Gone(h)
    BY <1>4 DEF Cancel, lowered, JobsInv, NoErrorYet, Gone, Passes
  <2>2. FoldReadsOwn'
    BY <1>4 DEF Cancel, JobsInv, FoldReadsOwn
  <2>3. ASSUME NEW j \in Jobs PROVE JobInv(j)'
    BY <1>4, <2>1, GroupType DEF Cancel, JobsInv, JobInv, GroupOf
  <2>4. QED
    BY <2>1, <2>2, <2>3 DEF JobsInv
<1>5. ASSUME NEW g \in {"bakes", "flips"}, Cleanup(g) PROVE JobsInv'
  <2>1. NoErrorYet'
    BY <1>5 DEF Cleanup, Joining, AfterCleanup, lowered, JobsInv, NoErrorYet, Passes
  <2>2. FoldReadsOwn'
    BY <1>5 DEF Cleanup, JobsInv, FoldReadsOwn
  <2>3. Gone(g)' /\ \A h \in {"bakes", "flips"} : h # g => (Gone(h)' <=> Gone(h))
    BY <1>5 DEF Cleanup, Joining, AfterCleanup, lowered, Gone
  <2>4. ASSUME NEW j \in Jobs PROVE JobInv(j)'
    <3>1. scratch(j) \in Scratch /\ job' = job
      BY <1>5 DEF Scratch, Cleanup
    <3>2. CASE GroupOf(j) = g
      <4>1. dir'[scratch(j)] = {}
        BY <1>5, <3>1, <3>2, GroupType DEF Cleanup, Removed
      <4>2. job[j] \notin {"spawned", "running"}
        BY <1>5, <3>2, GroupType DEF Cleanup, Running
      <4>3. QED
        BY <2>3, <3>1, <3>2, <4>1, <4>2, GroupType DEF JobInv, GroupOf
    <3>3. CASE GroupOf(j) # g
      <4>1. ~\E i \in JobsOf(g) : scratch(j) = scratch(i)
        <5> SUFFICES ASSUME NEW i \in JobsOf(g), scratch(j) = scratch(i) PROVE FALSE
          OBVIOUS
        <5>1. i \in Jobs
          BY GroupType
        <5>2. GroupOf(i) = GroupOf(j)
          BY <5>1, ScratchIsShared
        <5>3. QED
          BY <3>3, <5>2, ConfiguresAssumption DEF GroupOf, JobsOf
      <4>2. dir'[scratch(j)] = dir[scratch(j)]
        BY <1>5, <3>1, <4>1 DEF Cleanup, Removed
      <4>3. Gone(GroupOf(j))' <=> Gone(GroupOf(j))
        BY <2>3, <3>3, GroupType DEF Gone, GroupOf
      <4>4. QED
        BY <3>1, <4>2, <4>3 DEF JobInv, JobsInv, GroupOf
    <3>4. QED
      BY <3>2, <3>3
  <2>5. QED
    BY <2>1, <2>2, <2>4 DEF JobsInv
<1>6. ASSUME NEW i \in Jobs, Begin(i) PROVE JobsInv'
  <2>1. NoErrorYet' /\ \A h \in {"bakes", "flips"} : Gone(h)' <=> Gone(h)
    BY <1>6 DEF Begin, lowered, JobsInv, NoErrorYet, Gone, Passes
  <2>2. FoldReadsOwn'
    BY <1>6 DEF Begin, Started, JobsInv, FoldReadsOwn, TypeOK
  <2>3. ~Gone(GroupOf(i))
    BY <1>6 DEF Begin, JobsInv, JobInv
  <2>4. ASSUME NEW j \in Jobs PROVE JobInv(j)'
    <3>1. scratch(j) \in Scratch /\ scratch(i) \in Scratch
      BY DEF Scratch
    <3>2. Gone(GroupOf(j))' <=> Gone(GroupOf(j))
      BY <2>1, GroupType DEF Gone, GroupOf
    <3>3. CASE scratch(j) = scratch(i)
      <4>1. i \in Sharing(j) /\ GroupOf(i) = GroupOf(j)
        BY <3>3, ScratchIsShared
      <4>2. dir'[scratch(j)] = dir[scratch(j)] \cup {i} /\ (j # i => job'[j] = job[j])
        BY <1>6, <3>1, <3>3 DEF Begin, TypeOK
      <4>3. Sharing(j)' = Sharing(j) /\ GroupOf(j)' = GroupOf(j)
        BY DEF Sharing, GroupOf
      <4>4. QED
        BY <2>3, <3>2, <4>1, <4>2, <4>3 DEF JobInv, JobsInv
    <3>4. CASE scratch(j) # scratch(i)
      <4>1. dir'[scratch(j)] = dir[scratch(j)] /\ job'[j] = job[j]
        BY <1>6, <3>1, <3>4 DEF Begin, TypeOK
      <4>2. QED
        BY <3>2, <4>1 DEF JobInv, JobsInv, GroupOf
    <3>5. QED
      BY <3>3, <3>4
  <2>5. QED
    BY <2>1, <2>2, <2>4 DEF JobsInv
<1>7. ASSUME NEW i \in Jobs, NEW how \in {"done", "failed"}, End(i, how) PROVE JobsInv'
  <2>1. NoErrorYet' /\ \A h \in {"bakes", "flips"} : Gone(h)' <=> Gone(h)
    BY <1>7 DEF End, lowered, JobsInv, NoErrorYet, Gone, Passes
  <2>2. FoldReadsOwn'
    BY <1>7 DEF End, JobsInv, FoldReadsOwn, TypeOK
  <2>3. ASSUME NEW j \in Jobs PROVE JobInv(j)'
    <3>1. Gone(GroupOf(j))' <=> Gone(GroupOf(j))
      BY <2>1, GroupType DEF Gone, GroupOf
    <3>2. dir' = dir /\ job'[j] = IF j = i THEN how ELSE job[j]
      BY <1>7 DEF End, TypeOK
    <3>3. job[i] = "running"
      BY <1>7 DEF End
    <3>4. QED
      BY <3>1, <3>2, <3>3 DEF JobInv, JobsInv, GroupOf
  <2>4. QED
    BY <2>1, <2>2, <2>3 DEF JobsInv
<1>8. CASE UNCHANGED vars
  BY <1>8, JobsStay DEF vars, beside, JobsInv, NoErrorYet, Gone
<1>9. QED
  BY <1>1, <1>2, <1>3, <1>4, <1>5, <1>6, <1>7, <1>8 DEF Next, Main

\* An arm is folded from its own scratch directory, where only build types of
\* the same sanitised name have written beside its own configure, whole or not
\* at all (FoldReadsOwn), and on return no configure runs on and no scratch directory is left.
THEOREM ConfiguresAreOwnAndRemoved == Spec => [](FoldReadsOwn /\ NothingLeftBehind)
<1>1. Init => JobsInv
  <2> SUFFICES ASSUME Init PROVE JobsInv
    OBVIOUS
  <2>1. NoErrorYet /\ \A g \in {"bakes", "flips"} : ~Gone(g)
    BY DEF Init, NoErrorYet, Gone
  <2>2. FoldReadsOwn
    BY DEF Init, FoldReadsOwn
  <2>3. ASSUME NEW j \in Jobs PROVE JobInv(j)
    <3>1. dir[scratch(j)] = {} /\ job[j] \notin {"running", "done"}
      BY DEF Init, Scratch
    <3>2. QED
      BY <2>1, <3>1, GroupType DEF JobInv
  <2>4. QED
    BY <2>1, <2>2, <2>3 DEF JobsInv
<1>2. JobsInv => FoldReadsOwn /\ NothingLeftBehind
  <2> SUFFICES ASSUME JobsInv, main = "returned" PROVE NothingLeftBehind
    BY DEF JobsInv, NothingLeftBehind
  <2>1. \A j \in Jobs : job[j] \notin {"spawned", "running"} /\ dir[scratch(j)] = {}
    BY DEF JobsInv, JobInv, Gone
  <2>2. QED
    BY <2>1 DEF NothingLeftBehind, Scratch
<1>3. QED
  BY <1>1, <1>2, TypeCorrect, JobsStep, PTL DEF Spec

\* Whichever way it returns, every configure was joined and every scratch
\* directory removed.
COROLLARY ScratchIsRemoved == Spec => []NothingLeftBehind
BY ConfiguresAreOwnAndRemoved, PTL
=============================================================================
