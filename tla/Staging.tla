------------------------------ MODULE Staging ------------------------------
(***************************************************************************)
(* cmd/stage-b: what project A's build converted is merged into project B, *)
(* file by file, and the packages whose BUILD files changed are reported.  *)
(* A run may fail at any file, and project A is built again between runs,  *)
(* with or without --split-packages: bazel-bin then still holds what the   *)
(* other mode has left there.                                              *)
(***************************************************************************)
EXTENDS Naturals

CONSTANTS
    Elements,     \* directories under project B's elements/
    ElementRank,  \* their order
    Paths,        \* where a BUILD file may be in an element's package tree
    Root,         \* its root
    Contents,     \* what a BUILD file may hold
    Placeholder,  \* what write-a has rendered there
    OptionBodies, \* what an options-BUILD.bazel that declares flags may hold
    Absent,       \* no such file
    MaxBuilds     \* bound: builds of project A

ASSUME StagingAssumption ==
    /\ ElementRank \in [Elements -> Nat]
    /\ \A e, f \in Elements : ElementRank[e] = ElementRank[f] => e = f
    /\ Root \in Paths
    /\ Placeholder \in Contents
    /\ Absent \notin Contents \cup OptionBodies \cup {"options", "split", "single"}
    /\ "options" \notin Elements
    /\ MaxBuilds \in Nat

VARIABLES
    splitOut,   \* element -> <name>_converted/packages in bazel-bin: its files
    singleOut,  \* element -> BUILD.bazel.out in bazel-bin
    optionsOut, \* element -> options-BUILD.bazel there, where it declares flags
    latest,     \* element -> what its last conversion wrote: "split" or "single"
    builds,     \* history: builds of project A
    phase,      \* "idle", "staging", "options" or "staged"
    unstaged,   \* the files this run has still to look at
    changed,    \* the packages this run has changed
    inB,        \* element -> path -> the BUILD file in project B
    optionsInB, \* project B's options/BUILD.bazel
    before,     \* history: project B when changes were last reported
    aborted     \* history: a run has failed since

binVars == <<splitOut, singleOut, optionsOut, latest, builds>>
stagingVars == <<binVars, phase, unstaged, changed, inB, optionsInB, before, aborted>>

Maybe(S) == S \cup {Absent}

NoTree == [p \in Paths |-> Absent]
Trees == {t \in [Paths -> Maybe(Contents)] : t[Root] # Absent}

\* write-a has rendered project B: a placeholder at each element's root.
StagingInit ==
    /\ splitOut = [e \in Elements |-> NoTree]
    /\ singleOut = [e \in Elements |-> Absent]
    /\ optionsOut = [e \in Elements |-> Absent]
    /\ latest = [e \in Elements |-> Absent]
    /\ builds = 0
    /\ phase = "idle"
    /\ unstaged = {}
    /\ changed = {}
    /\ inB = [e \in Elements |-> [NoTree EXCEPT ![Root] = Placeholder]]
    /\ optionsInB = Absent
    /\ before = [files |-> inB, options |-> optionsInB]
    /\ aborted = FALSE

-----------------------------------------------------------------------------
(* bazel build in project A, for one element *)

Build(e) ==
    /\ phase = "idle"
    /\ builds < MaxBuilds
    /\ builds' = builds + 1
    /\ UNCHANGED <<phase, unstaged, changed, inB, optionsInB, before, aborted>>

\* cmake_split_convert: a tree of BUILD files, made anew.
ConvertSplit(e) ==
    /\ Build(e)
    /\ \E t \in Trees : splitOut' = [splitOut EXCEPT ![e] = t]
    /\ latest' = [latest EXCEPT ![e] = "split"]
    /\ UNCHANGED <<singleOut, optionsOut>>

\* The converter genrule: one BUILD file, and the options the element lifted.
ConvertSingle(e) ==
    /\ Build(e)
    /\ \E c \in Contents : singleOut' = [singleOut EXCEPT ![e] = c]
    /\ \E o \in Maybe(OptionBodies) : optionsOut' = [optionsOut EXCEPT ![e] = o]
    /\ latest' = [latest EXCEPT ![e] = "single"]
    /\ UNCHANGED splitOut

-----------------------------------------------------------------------------
(* stage-b *)

\* A packages directory is preferred when present.
HasTree(e) == splitOut[e] # NoTree
HasSingle(e) == ~HasTree(e) /\ singleOut[e] # Absent

\* Fault: the single BUILD file is preferred.
SingleFirst(e) ==
    IF singleOut[e] # Absent THEN {<<Root, singleOut[e]>>}
    ELSE {<<p, splitOut[e][p]>> : p \in {q \in Paths : splitOut[e][q] # Absent}}

\* The files of an element that are staged, with their contents.
StagedFiles(e) ==
    IF HasTree(e) THEN {<<p, splitOut[e][p]>> : p \in {q \in Paths : splitOut[e][q] # Absent}}
    ELSE IF HasSingle(e) THEN {<<Root, singleOut[e]>>}
    ELSE {}

\* run: it needs a bazel-bin.  The code goes by element and path; any order
\* will do.
Start ==
    /\ phase = "idle"
    /\ builds > 0
    /\ phase' = "staging"
    /\ unstaged' = UNION {{e} \X StagedFiles(e) : e \in Elements}
    /\ changed' = {}
    /\ UNCHANGED <<binVars, inB, optionsInB, before, aborted>>

\* One BUILD file: written, and its package reported, if it differs.
StageFile(e, p, c) ==
    /\ phase = "staging"
    /\ <<e, <<p, c>>>> \in unstaged
    /\ unstaged' = unstaged \ {<<e, <<p, c>>>>}
    /\ IF inB[e][p] = c
       THEN UNCHANGED <<inB, changed>>
       ELSE /\ inB' = [inB EXCEPT ![e][p] = c]
            /\ changed' = changed \cup {e}
    /\ UNCHANGED <<binVars, phase, optionsInB, before, aborted>>

\* collectOptionsBuild: only beside a single BUILD file.
Lifted == {e \in Elements : HasSingle(e) /\ optionsOut[e] # Absent}
FirstLifted == CHOOSE e \in Lifted : \A f \in Lifted : ElementRank[e] <= ElementRank[f]

\* stageOptionsPackage: the first element's options are everyone's.
StageOptionsPackage ==
    /\ phase = "staging"
    /\ unstaged = {}
    /\ phase' = "staged"
    /\ IF Lifted = {} \/ optionsInB = optionsOut[FirstLifted]
       THEN UNCHANGED <<optionsInB, changed>>
       ELSE /\ optionsInB' = optionsOut[FirstLifted]
            /\ changed' = changed \cup {"options"}
    /\ UNCHANGED <<binVars, unstaged, inB, before, aborted>>

\* main prints the packages and ends.
Report ==
    /\ phase = "staged"
    /\ phase' = "idle"
    /\ before' = [files |-> inB, options |-> optionsInB]
    /\ aborted' = FALSE
    /\ UNCHANGED <<binVars, unstaged, changed, inB, optionsInB>>

\* A read or write fails: run returns no packages, what it wrote stays.
Fail ==
    /\ phase = "staging"
    /\ phase' = "idle"
    /\ unstaged' = {}
    /\ aborted' = TRUE
    /\ UNCHANGED <<binVars, changed, inB, optionsInB, before>>

StagingNext ==
    \/ \E e \in Elements : ConvertSplit(e) \/ ConvertSingle(e)
    \/ Start
    \/ \E x \in unstaged : StageFile(x[1], x[2][1], x[2][2])
    \/ StageOptionsPackage
    \/ Report
    \/ Fail

StagingSpec == StagingInit /\ [][StagingNext]_stagingVars

-----------------------------------------------------------------------------
(* Properties *)

\* Nothing is left in bazel-bin that an element's last conversion did not write.
NothingStale(e) == latest[e] = "single" => ~HasTree(e)

\* When a run ends, each converted element's package holds what its last
\* conversion wrote, unless bazel-bin still has the packages of an earlier one
\* with --split-packages, and of the files it did not write everything that
\* was there before: sub-packages of an earlier conversion stay.  Exactly the
\* packages that differ from the last report are reported, as long as no run
\* failed in between: what that one wrote nobody reports.  The options package
\* is that of the first element with any.
StagedAsConverted ==
    phase = "staged" =>
      /\ \A e \in Elements : NothingStale(e) =>
           /\ latest[e] = "single" => inB[e][Root] = singleOut[e]
           /\ latest[e] = "split" =>
                \A p \in Paths : splitOut[e][p] # Absent => inB[e][p] = splitOut[e][p]
           /\ \A p \in Paths : ~aborted /\ (latest[e] # "split" \/ splitOut[e][p] = Absent) =>
                inB[e][p] = before.files[e][p] \/ (p = Root /\ latest[e] = "single")
      /\ ~aborted => changed = {e \in Elements : inB[e] # before.files[e]}
                               \cup (IF optionsInB # before.options THEN {"options"} ELSE {})
      /\ Lifted # {} => optionsInB = optionsOut[FirstLifted]
=============================================================================
