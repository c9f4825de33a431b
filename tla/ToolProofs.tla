------------------------------ MODULE ToolProofs ------------------------------
(***************************************************************************)
(* Proofs about stage-b (Staging), source keys (Narrowing), finalize-b     *)
(* (Finalize), convert-element-trace (TraceRules) and fold-element         *)
(* (ElementFold), for every set of elements, package trees, sources and    *)
(* projects, for every traced build, and for every matrix of platforms.    *)
(***************************************************************************)
EXTENDS Staging, Narrowing, Finalize, TraceRules, ElementFold, SequenceTheorems, WellFoundedInduction, TLAPS

(***************************************************************************)
(* stage-b.                                                                *)
(***************************************************************************)

BinType ==
    /\ splitOut \in [Elements -> Trees \cup {NoTree}]
    /\ singleOut \in [Elements -> Maybe(Contents)]
    /\ latest \in [Elements -> {"split", "single", Absent}]
    /\ inB \in [Elements -> [Paths -> Maybe(Contents)]]

\* What bazel-bin holds of an element's last conversion.
BinInv ==
    \A e \in Elements :
      /\ latest[e] = "split" => HasTree(e)
      /\ latest[e] = "single" => singleOut[e] # Absent
      /\ latest[e] = Absent => ~HasTree(e) /\ singleOut[e] = Absent

IsStaged(e, p, c) == <<p, c>> \in StagedFiles(e)
Waiting(e, p, c) == <<e, <<p, c>>>> \in unstaged

\* What this run has still to look at is to be staged; what it has looked at is
\* in project B, and what it has not is as it was last reported.
RunInv ==
    /\ phase # "staging" => unstaged = {}
    /\ \A e, p, c : Waiting(e, p, c) => e \in Elements /\ IsStaged(e, p, c)
    /\ phase \in {"staging", "staged"} =>
          \A e \in Elements : \A p, c : IsStaged(e, p, c) => Waiting(e, p, c) \/ inB[e][p] = c

UnreportedInv ==
    aborted \/
    /\ phase = "idle" => inB = before.files
    /\ phase \in {"idle", "staging"} => optionsInB = before.options
    /\ \A e \in Elements, p \in Paths :
          \/ inB[e][p] = before.files[e][p]
          \/ \E c : IsStaged(e, p, c) /\ ~Waiting(e, p, c)
    /\ before.files \in [Elements -> [Paths -> Maybe(Contents)]]
    /\ phase = "staging" => changed = {e \in Elements : inB[e] # before.files[e]}

StagingInv ==
    /\ BinType
    /\ BinInv
    /\ RunInv
    /\ UnreportedInv
    /\ StagedAsConverted

\* An element's staged files are BUILD files at paths of its package tree, one
\* at each.
LEMMA StagedFilesType ==
    ASSUME BinType, NEW e \in Elements, NEW p, NEW c, IsStaged(e, p, c)
    PROVE  /\ p \in Paths
           /\ c \in Contents
           /\ \A d : IsStaged(e, p, d) => d = c
<1>1. CASE HasTree(e)
  <2>1. splitOut[e] \in [Paths -> Maybe(Contents)]
    BY DEF BinType, Trees, NoTree, Maybe
  <2>2. \A d : IsStaged(e, p, d) => p \in Paths /\ d = splitOut[e][p] /\ d # Absent
    BY <1>1 DEF IsStaged, StagedFiles
  <2>3. QED
    BY <2>1, <2>2 DEF Maybe
<1>2. CASE ~HasTree(e)
  <2>1. \A d : IsStaged(e, p, d) => p = Root /\ d = singleOut[e] /\ d # Absent
    BY <1>2 DEF IsStaged, StagedFiles, HasSingle
  <2>2. QED
    BY <2>1, StagingAssumption DEF BinType, Maybe
<1>3. QED
  BY <1>1, <1>2

\* The files of an element whose last conversion is what bazel-bin offers.
LEMMA StagedFilesOf ==
    ASSUME BinType, BinInv, NEW e \in Elements, NothingStale(e)
    PROVE  /\ latest[e] = "single" => \A p, c : IsStaged(e, p, c) <=> p = Root /\ c = singleOut[e]
           /\ latest[e] = "split" =>
                \A p, c : IsStaged(e, p, c) <=> p \in Paths /\ c = splitOut[e][p] /\ c # Absent
           /\ latest[e] = Absent => \A p, c : ~IsStaged(e, p, c)
           /\ latest[e] \in {"single", "split", Absent}
<1>1. ASSUME latest[e] = "single" PROVE \A p, c : IsStaged(e, p, c) <=> p = Root /\ c = singleOut[e]
  BY <1>1 DEF BinInv, NothingStale, IsStaged, StagedFiles, HasSingle
<1>2. ASSUME latest[e] = "split"
      PROVE  \A p, c : IsStaged(e, p, c) <=> p \in Paths /\ c = splitOut[e][p] /\ c # Absent
  BY <1>2 DEF BinInv, IsStaged, StagedFiles
<1>3. ASSUME latest[e] = Absent PROVE \A p, c : ~IsStaged(e, p, c)
  BY <1>3 DEF BinInv, IsStaged, StagedFiles, HasSingle
<1>4. QED
  BY <1>1, <1>2, <1>3 DEF BinType

\* At the end of a run its invariants give what is promised of the files.
LEMMA StagedHolds ==
    ASSUME BinType, BinInv, RunInv, phase \in {"staging", "staged"}, unstaged = {},
           NEW e \in Elements, NothingStale(e)
    PROVE  /\ latest[e] = "single" => inB[e][Root] = singleOut[e]
           /\ latest[e] = "split" =>
                \A p \in Paths : splitOut[e][p] # Absent => inB[e][p] = splitOut[e][p]
<1>1. \A p, c : IsStaged(e, p, c) => inB[e][p] = c
  BY DEF RunInv, Waiting
<1>2. QED
  BY <1>1, StagedFilesOf

\* ... and what is promised of the files it did not write.
LEMMA UnstagedKept ==
    ASSUME BinType, BinInv, UnreportedInv, ~aborted, NEW e \in Elements, NothingStale(e),
           NEW p \in Paths, latest[e] # "split" \/ splitOut[e][p] = Absent
    PROVE  inB[e][p] = before.files[e][p] \/ (p = Root /\ latest[e] = "single")
<1>1. \/ inB[e][p] = before.files[e][p]
      \/ \E c : IsStaged(e, p, c)
  BY DEF UnreportedInv
<1>2. ASSUME NEW c, IsStaged(e, p, c) PROVE p = Root /\ latest[e] = "single"
  BY <1>2, StagedFilesOf
<1>3. QED
  BY <1>1, <1>2

\* A conversion leaves project B alone: what it changes is not looked at before
\* the next run.
LEMMA ConvertKeeps ==
    ASSUME StagingInv, NEW e \in Elements, Build(e), BinType', BinInv'
    PROVE  StagingInv'
<1>1. /\ phase = "idle" /\ phase' = "idle"
      /\ unstaged = {} /\ unstaged' = {}
      /\ UNCHANGED <<inB, optionsInB, before, aborted>>
  BY DEF Build, StagingInv, RunInv
<1>2. RunInv'
  BY <1>1 DEF RunInv, Waiting
<1>3. UnreportedInv'
  BY <1>1 DEF StagingInv, UnreportedInv
<1>4. StagedAsConverted'
  BY <1>1 DEF StagedAsConverted
<1>5. QED
  BY <1>2, <1>3, <1>4 DEF StagingInv

\* What StageFile does to project B and to the report.
LEMMA StageFileKeeps ==
    ASSUME StagingInv, NEW e, NEW p, NEW c, StageFile(e, p, c)
    PROVE  StagingInv'
<1>1. /\ Waiting(e, p, c) /\ e \in Elements /\ IsStaged(e, p, c)
      /\ phase = "staging" /\ phase' = "staging"
      /\ BinType /\ BinInv
  BY DEF StageFile, StagingInv, RunInv, Waiting
<1>2. p \in Paths /\ c \in Contents /\ \A d : IsStaged(e, p, d) => d = c
  BY <1>1, StagedFilesType
<1>3. /\ UNCHANGED <<splitOut, singleOut, optionsOut, latest, builds, optionsInB, before, aborted>>
      /\ unstaged' = unstaged \ {<<e, <<p, c>>>>}
  BY DEF StageFile, binVars
<1>4. \A f, q, d : IsStaged(f, q, d)' <=> IsStaged(f, q, d)
  BY <1>3 DEF IsStaged, StagedFiles, HasTree, HasSingle
<1>5. \A f, q, d : Waiting(f, q, d)' <=> Waiting(f, q, d) /\ <<f, q, d>> # <<e, p, c>>
  BY <1>3 DEF Waiting
<1>6. /\ inB' \in [Elements -> [Paths -> Maybe(Contents)]]
      /\ inB'[e][p] = c
      /\ \A f \in Elements, q \in Paths : <<f, q>> # <<e, p>> => inB'[f][q] = inB[f][q]
  BY <1>1, <1>2 DEF StageFile, BinType, Maybe
<1>7. BinType' /\ BinInv'
  BY <1>1, <1>3, <1>6 DEF BinType, BinInv, HasTree
<1>8. RunInv'
  <2>1. ASSUME NEW f \in Elements, NEW q, NEW d, IsStaged(f, q, d)
        PROVE  Waiting(f, q, d)' \/ inB'[f][q] = d
    <3>1. Waiting(f, q, d) \/ inB[f][q] = d
      BY <1>1, <2>1 DEF StagingInv, RunInv
    <3>2. q \in Paths
      BY <1>1, <2>1, StagedFilesType
    <3>3. CASE <<f, q>> = <<e, p>>
      BY <3>3, <2>1, <1>2, <1>6
    <3>4. CASE <<f, q>> # <<e, p>>
      BY <3>1, <3>2, <3>4, <1>5, <1>6
    <3>5. QED
      BY <3>3, <3>4
  <2>2. \A f, q, d : Waiting(f, q, d)' => f \in Elements /\ IsStaged(f, q, d)
    BY <1>5 DEF StagingInv, RunInv
  <2>3. QED
    BY <2>1, <2>2, <1>1, <1>4 DEF RunInv
<1>9. UnreportedInv'
  <2>1. SUFFICES ASSUME ~aborted PROVE UnreportedInv'
    BY <1>3 DEF UnreportedInv
  <2>2. /\ optionsInB = before.options
        /\ before.files \in [Elements -> [Paths -> Maybe(Contents)]]
        /\ changed = {f \in Elements : inB[f] # before.files[f]}
        /\ \A f \in Elements, q \in Paths :
              inB[f][q] = before.files[f][q] \/ \E d : IsStaged(f, q, d) /\ ~Waiting(f, q, d)
    BY <2>1, <1>1 DEF StagingInv, UnreportedInv
  <2>3. \A f \in Elements, q \in Paths :
           inB'[f][q] = before.files[f][q] \/ \E d : IsStaged(f, q, d) /\ ~Waiting(f, q, d)'
    <3>1. TAKE f \in Elements, q \in Paths
    <3>2. CASE <<f, q>> = <<e, p>>
      BY <3>2, <1>1, <1>5
    <3>3. CASE <<f, q>> # <<e, p>>
      BY <3>3, <2>2, <1>5, <1>6
    <3>4. QED
      BY <3>2, <3>3
  <2>4. changed' = {f \in Elements : inB'[f] # before.files[f]}
    <3>1. CASE inB[e][p] = c
      BY <3>1, <2>2 DEF StageFile
    <3>2. CASE inB[e][p] # c
      <4>1. inB' = [inB EXCEPT ![e][p] = c] /\ changed' = changed \cup {e}
        BY <3>2 DEF StageFile
      <4>2. before.files[e][p] # c
        BY <3>2, <2>2, <1>1, <1>2
      <4>3. inB'[e] # before.files[e]
        BY <4>2, <1>6
      <4>4. \A f \in Elements : f # e => inB'[f] = inB[f]
        BY <4>1, <1>1 DEF BinType
      <4>5. QED
        BY <4>1, <4>3, <4>4, <2>2, <1>1
    <3>3. QED
      BY <3>1, <3>2
  <2>5. QED
    BY <2>2, <2>3, <2>4, <1>1, <1>3, <1>4 DEF UnreportedInv
<1>10. StagedAsConverted'
  BY <1>1 DEF StagedAsConverted
<1>11. QED
  BY <1>7, <1>8, <1>9, <1>10 DEF StagingInv

\* The last step of a run: everything has been looked at.
LEMMA StageOptionsKeeps ==
    ASSUME StagingInv, StageOptionsPackage
    PROVE  StagingInv'
<1>1. /\ phase = "staging" /\ unstaged = {} /\ phase' = "staged"
      /\ BinType /\ BinInv /\ RunInv /\ UnreportedInv
      /\ UNCHANGED <<splitOut, singleOut, optionsOut, latest, builds, unstaged, inB, before, aborted>>
  BY DEF StageOptionsPackage, StagingInv, binVars
<1>2. \A f, q, d : (IsStaged(f, q, d)' <=> IsStaged(f, q, d)) /\ (Waiting(f, q, d)' <=> Waiting(f, q, d))
  BY <1>1 DEF IsStaged, Waiting, StagedFiles, HasTree, HasSingle
<1>3. /\ Lifted' = Lifted /\ FirstLifted' = FirstLifted
      /\ \A e : NothingStale(e)' <=> NothingStale(e)
  BY <1>1 DEF Lifted, FirstLifted, HasSingle, HasTree, NothingStale
<1>4. BinType' /\ BinInv'
  BY <1>1 DEF BinType, BinInv, HasTree
<1>5. RunInv'
  BY <1>1, <1>2 DEF RunInv
<1>6. UnreportedInv'
  BY <1>1, <1>2 DEF UnreportedInv
<1>7. StagedAsConverted'
  <2>1. ASSUME NEW e \in Elements, NothingStale(e)
        PROVE  /\ latest[e] = "single" => inB[e][Root] = singleOut[e]
               /\ latest[e] = "split" =>
                    \A p \in Paths : splitOut[e][p] # Absent => inB[e][p] = splitOut[e][p]
    BY <1>1, <2>1, StagedHolds
  <2>2. ASSUME NEW e \in Elements, NothingStale(e), NEW p \in Paths, ~aborted,
               latest[e] # "split" \/ splitOut[e][p] = Absent
        PROVE  inB[e][p] = before.files[e][p] \/ (p = Root /\ latest[e] = "single")
    BY <1>1, <2>2, UnstagedKept
  <2>3. ~aborted => changed' = {e \in Elements : inB[e] # before.files[e]}
                               \cup (IF optionsInB' # before.options THEN {"options"} ELSE {})
    BY <1>1 DEF StageOptionsPackage, UnreportedInv
  <2>4. Lifted # {} => optionsInB' = optionsOut[FirstLifted]
    BY DEF StageOptionsPackage
  <2>5. QED
    BY <1>1, <1>3, <2>1, <2>2, <2>3, <2>4 DEF StagedAsConverted
<1>8. QED
  BY <1>4, <1>5, <1>6, <1>7 DEF StagingInv

\* At the end of every run of stage-b project B holds what the last conversions
\* wrote and the packages reported are the ones that differ, whatever conversions,
\* failed runs and modes came before.
THEOREM StagingKeeps == StagingSpec => []StagingInv
<1>1. StagingInit => StagingInv
  <2> SUFFICES ASSUME StagingInit PROVE StagingInv
    OBVIOUS
  <2>1. NoTree \in [Paths -> Maybe(Contents)]
    BY DEF NoTree, Maybe
  <2>2. inB \in [Elements -> [Paths -> Maybe(Contents)]]
    BY <2>1, StagingAssumption DEF StagingInit, Maybe
  <2>3. BinType
    BY <2>2 DEF StagingInit, BinType, Maybe
  <2>4. BinInv
    BY StagingAssumption DEF StagingInit, BinInv, HasTree
  <2>5. RunInv
    BY DEF StagingInit, RunInv, Waiting
  <2>6. UnreportedInv
    BY <2>2 DEF StagingInit, UnreportedInv
  <2>7. QED
    BY <2>3, <2>4, <2>5, <2>6 DEF StagingInit, StagingInv, StagedAsConverted
<1>2. StagingInv /\ [StagingNext]_stagingVars => StagingInv'
  <2> SUFFICES ASSUME StagingInv, [StagingNext]_stagingVars PROVE StagingInv'
    OBVIOUS
  <2>1. ASSUME NEW e \in Elements, ConvertSplit(e) PROVE StagingInv'
    <3>1. PICK t \in Trees : splitOut' = [splitOut EXCEPT ![e] = t]
      BY <2>1 DEF ConvertSplit
    <3>2. /\ latest' = [latest EXCEPT ![e] = "split"]
          /\ UNCHANGED <<singleOut, inB>>
          /\ BinType /\ BinInv
      BY <2>1 DEF ConvertSplit, Build, StagingInv
    <3>3. t # NoTree
      BY StagingAssumption DEF Trees, NoTree
    <3>4. BinType'
      BY <3>1, <3>2 DEF BinType
    <3>5. BinInv'
      BY <3>1, <3>2, <3>3, StagingAssumption DEF BinType, BinInv, HasTree, NoTree
    <3>6. QED
      BY <2>1, <3>4, <3>5, ConvertKeeps DEF ConvertSplit
  <2>2. ASSUME NEW e \in Elements, ConvertSingle(e) PROVE StagingInv'
    <3>1. PICK c \in Contents : singleOut' = [singleOut EXCEPT ![e] = c]
      BY <2>2 DEF ConvertSingle
    <3>2. /\ latest' = [latest EXCEPT ![e] = "single"]
          /\ UNCHANGED <<splitOut, inB>>
          /\ BinType /\ BinInv
      BY <2>2 DEF ConvertSingle, Build, StagingInv
    <3>3. BinType'
      BY <3>1, <3>2 DEF BinType, Maybe
    <3>4. BinInv'
      BY <3>1, <3>2, StagingAssumption DEF BinType, BinInv, HasTree, NoTree
    <3>5. QED
      BY <2>2, <3>3, <3>4, ConvertKeeps DEF ConvertSingle
  <2>3. CASE Start
    <3>1. /\ phase = "idle" /\ phase' = "staging" /\ changed' = {}
          /\ unstaged' = UNION {{e} \X StagedFiles(e) : e \in Elements}
          /\ UNCHANGED <<splitOut, singleOut, optionsOut, latest, builds, inB, optionsInB, before, aborted>>
          /\ BinType /\ BinInv /\ UnreportedInv
      BY <2>3 DEF Start, StagingInv, binVars
    <3>2. \A e, p, c : IsStaged(e, p, c)' <=> IsStaged(e, p, c)
      BY <3>1 DEF IsStaged, StagedFiles, HasTree, HasSingle
    <3>3. \A e, p, c : Waiting(e, p, c)' <=> e \in Elements /\ IsStaged(e, p, c)
      BY <3>1 DEF Waiting, IsStaged
    <3>4. BinType' /\ BinInv'
      BY <3>1 DEF BinType, BinInv, HasTree
    <3>5. RunInv'
      BY <3>1, <3>2, <3>3 DEF RunInv
    <3>6. UnreportedInv'
      BY <3>1 DEF UnreportedInv
    <3>7. StagedAsConverted'
      BY <3>1 DEF StagedAsConverted
    <3>8. QED
      BY <3>4, <3>5, <3>6, <3>7 DEF StagingInv
  <2>4. CASE \E x \in unstaged : StageFile(x[1], x[2][1], x[2][2])
    BY <2>4, StageFileKeeps
  <2>5. CASE StageOptionsPackage
    BY <2>5, StageOptionsKeeps
  <2>6. CASE Report
    <3>1. /\ phase = "staged" /\ phase' = "idle" /\ aborted' = FALSE
          /\ before' = [files |-> inB, options |-> optionsInB]
          /\ UNCHANGED <<splitOut, singleOut, optionsOut, latest, builds, unstaged, inB, optionsInB>>
          /\ BinType /\ BinInv /\ RunInv
      BY <2>6 DEF Report, StagingInv, binVars
    <3>2. BinType' /\ BinInv'
      BY <3>1 DEF BinType, BinInv, HasTree
    <3>3. RunInv'
      BY <3>1 DEF RunInv, Waiting
    <3>4. UnreportedInv'
      BY <3>1 DEF UnreportedInv, BinType
    <3>5. QED
      BY <3>1, <3>2, <3>3, <3>4 DEF StagingInv, StagedAsConverted
  <2>7. CASE Fail
    <3>1. /\ phase' = "idle" /\ aborted' = TRUE /\ unstaged' = {}
          /\ UNCHANGED <<splitOut, singleOut, optionsOut, latest, builds, inB>>
          /\ BinType /\ BinInv
      BY <2>7 DEF Fail, StagingInv, binVars
    <3>2. BinType' /\ BinInv'
      BY <3>1 DEF BinType, BinInv, HasTree
    <3>3. QED
      BY <3>1, <3>2 DEF StagingInv, RunInv, Waiting, UnreportedInv, StagedAsConverted
  <2>8. CASE UNCHANGED stagingVars
    <3>1. /\ UNCHANGED <<splitOut, singleOut, optionsOut, latest, phase, unstaged, changed>>
          /\ UNCHANGED <<inB, optionsInB, before, aborted>>
      BY <2>8 DEF stagingVars, binVars
    <3>2. \A e, p, c : (IsStaged(e, p, c)' <=> IsStaged(e, p, c)) /\ (Waiting(e, p, c)' <=> Waiting(e, p, c))
      BY <3>1 DEF IsStaged, Waiting, StagedFiles, HasTree, HasSingle
    <3>3. BinType' /\ BinInv'
      BY <3>1 DEF StagingInv, BinType, BinInv, HasTree
    <3>4. RunInv' /\ UnreportedInv'
      BY <3>1, <3>2 DEF StagingInv, RunInv, UnreportedInv
    <3>5. StagedAsConverted'
      BY <3>1 DEF StagingInv, StagedAsConverted, Lifted, FirstLifted, HasSingle, HasTree, NothingStale
    <3>6. QED
      BY <3>3, <3>4, <3>5 DEF StagingInv
  <2>9. QED
    BY <2>1, <2>2, <2>3, <2>4, <2>5, <2>6, <2>7, <2>8 DEF StagingNext
<1>3. QED
  BY <1>1, <1>2, PTL DEF StagingSpec

\* StagedAsConverted, the promise of stage-b, for every set of elements, package
\* trees and every number of builds of project A.
THEOREM StagingHolds == StagingSpec => []StagedAsConverted
<1>1. StagingInv => StagedAsConverted
  BY DEF StagingInv
<1>2. QED
  BY <1>1, StagingKeeps, PTL

(***************************************************************************)
(* Source keys.  A clean audit makes hits safe: two trees under one key    *)
(* agree on every file that either covers with its content, and an audit   *)
(* under any patterns of that key covers the same.                         *)
(***************************************************************************)

\* A trace is under the key of the tree it was made from, under the patterns of
\* that time, and its build read files that were there.
TracesInv ==
    \A k \in DOMAIN traces :
      /\ \E r : k = SrcKey(traces[k].tree, r)
      /\ \A f \in traces[k].read : f \in SourceFiles /\ traces[k].tree[f] # Missing

\* What a clean report accounts for is in the key with its content.
Accounted(k, f) ==
    \/ <<"content", Rel(f), traces[k].tree[f]>> \in k
    \/ f[1] \in Pinned
    \/ Rel(f) \in reports[k].allow
    \/ Match(reports[k].rules, f[2]) # Match(reports[k].rules, Rel(f))

ReportsInv ==
    \A k \in DOMAIN reports :
      /\ k \in DOMAIN traces
      /\ reports[k].missed = {} => \A f \in traces[k].read : Accounted(k, f)

NarrowingInv == TracesInv /\ ReportsInv

-----------------------------------------------------------------------------
(* What a key says of a tree *)

\* A file that is in the key with a content has that content.
LEMMA ContentInKey ==
    ASSUME NEW t, NEW r, NEW f \in SourceFiles, NEW c,
           <<"content", Rel(f), c>> \in SrcKey(t, r)
    PROVE  t[f] = c
<1>1. PICK g \in SourceFiles : <<"content", Rel(f), c>> = Contribution(t, r, g)
  BY DEF SrcKey
<1>2. g[1] \notin Pinned /\ Match(r, g[2])
  BY <1>1 DEF Contribution
<1>3. Rel(g) = Rel(f) /\ t[g] = c
  BY <1>1, <1>2 DEF Contribution
<1> QED
  BY <1>3, SourcesAssumption

\* A key determines the contents of a pinned source.
LEMMA PinnedInKey ==
    ASSUME NEW t, NEW u, NEW r, NEW s, NEW f \in SourceFiles, f[1] \in Pinned,
           SrcKey(t, r) = SrcKey(u, s)
    PROVE  t[f] = u[f]
<1>1. Contribution(t, r, f) \in SrcKey(u, s)
  BY DEF SrcKey
<1>2. PICK g \in SourceFiles : Contribution(t, r, f) = Contribution(u, s, g)
  BY <1>1 DEF SrcKey
<1>3. g[1] \in Pinned
  BY <1>2 DEF Contribution
<1> DEFINE Whole(x, v) == [h \in {i \in SourceFiles : i[1] = x[1]} |-> v[h]]
<1>4. Whole(f, t) = Whole(g, u)
  BY <1>2, <1>3 DEF Contribution
<1>5. f \in DOMAIN Whole(g, u)
  BY <1>4
<1> QED
  BY <1>4, <1>5

\* Two trees under one key: what one covers, the other has with that content.
LEMMA CoveredInKey ==
    ASSUME NEW t, NEW u, NEW r, NEW s, NEW f \in SourceFiles, f[1] \notin Pinned,
           SrcKey(t, r) = SrcKey(u, s), u[f] # Missing, Match(r, f[2])
    PROVE  <<"content", Rel(f), u[f]>> \in SrcKey(t, r)
<1>1. Contribution(u, s, f) \in SrcKey(t, r)
  BY DEF SrcKey
<1>2. PICK g \in SourceFiles : Contribution(u, s, f) = Contribution(t, r, g)
  BY <1>1 DEF SrcKey
<1>3. Rel(g) = Rel(f)
  BY <1>2 DEF Contribution
<1>4. g = f
  BY <1>3, SourcesAssumption
<1>5. Contribution(t, r, f) = <<"content", Rel(f), t[f]>>
  BY DEF Contribution
<1>6. Contribution(u, s, f) = <<"content", Rel(f), u[f]>>
  BY <1>2, <1>4, <1>5 DEF Contribution
<1> QED
  BY <1>1, <1>6

-----------------------------------------------------------------------------
(* The invariant *)

\* A new trace is stored under the key of its own tree, and has no report yet.
LEMMA BuildTracedKeeps ==
    ASSUME NarrowingInv, NEW read \in SUBSET SourceFiles, BuildTraced(read)
    PROVE  NarrowingInv'
<1> DEFINE k0 == SrcKey(tree, rules)
<1>1. /\ DOMAIN traces' = DOMAIN traces \cup {k0}
      /\ k0 \notin DOMAIN traces
      /\ traces'[k0] = [tree |-> tree, read |-> read]
      /\ \A k \in DOMAIN traces : traces'[k] = traces[k]
  BY DEF BuildTraced, Extend
<1>2. TracesInv'
  <2> SUFFICES ASSUME NEW k \in DOMAIN traces'
               PROVE  /\ \E r : k = SrcKey(traces'[k].tree, r)
                      /\ \A f \in traces'[k].read : f \in SourceFiles /\ traces'[k].tree[f] # Missing
    BY DEF TracesInv, SrcKey, Contribution, Match, Hits, Rel
  <2>1. CASE k = k0
    BY <1>1, <2>1 DEF BuildTraced
  <2>2. CASE k \in DOMAIN traces
    BY <1>1, <2>2 DEF NarrowingInv, TracesInv
  <2> QED
    BY <1>1, <2>1, <2>2
<1>3. ReportsInv'
  BY <1>1 DEF BuildTraced, NarrowingInv, ReportsInv, Accounted
<1> QED
  BY <1>2, <1>3 DEF NarrowingInv

\* A report is about the trace it is filed under, and its patterns made that key.
LEMMA AuditKeeps ==
    ASSUME NarrowingInv, AuditNarrowing
    PROVE  NarrowingInv'
<1> DEFINE k0 == SrcKey(tree, rules)
           rep == [missed |-> Undercovered(traces[k0].read), rules |-> rules, allow |-> allow]
<1>1. /\ DOMAIN reports' = DOMAIN reports \cup {k0}
      /\ k0 \in DOMAIN traces
      /\ reports'[k0] = rep
      /\ \A k \in DOMAIN reports \ {k0} : reports'[k] = reports[k]
  BY DEF AuditNarrowing, Extend
<1>2. TracesInv'
  BY DEF AuditNarrowing, NarrowingInv, TracesInv
<1>3. ASSUME Undercovered(traces[k0].read) = {}, NEW f \in traces[k0].read,
             f[1] \notin Pinned, Rel(f) \notin allow, Match(rules, f[2]) = Match(rules, Rel(f))
      PROVE  <<"content", Rel(f), traces[k0].tree[f]>> \in k0
  <2>1. f \in SourceFiles /\ traces[k0].tree[f] # Missing
    BY <1>1 DEF NarrowingInv, TracesInv
  <2>2. Match(rules, f[2])
    BY <1>3 DEF Undercovered
  <2>3. PICK r : k0 = SrcKey(traces[k0].tree, r)
    BY <1>1 DEF NarrowingInv, TracesInv
  <2> QED
    BY <1>3, <2>1, <2>2, <2>3, CoveredInKey
<1>4. ReportsInv'
  <2> SUFFICES ASSUME NEW k \in DOMAIN reports'
               PROVE  /\ k \in DOMAIN traces
                      /\ reports'[k].missed = {} => \A f \in traces[k].read : Accounted(k, f)'
    BY DEF ReportsInv, AuditNarrowing
  <2>1. CASE k = k0
    BY <1>1, <1>3, <2>1 DEF Accounted, AuditNarrowing
  <2>2. CASE k # k0
    BY <1>1, <2>2 DEF NarrowingInv, ReportsInv, Accounted, AuditNarrowing
  <2> QED
    BY <2>1, <2>2
<1> QED
  BY <1>2, <1>4 DEF NarrowingInv

\* The invariant of traces and reports.
LEMMA NarrowingInvHolds == NarrowingSpec => []NarrowingInv
<1>1. NarrowingInit => NarrowingInv
  BY DEF NarrowingInit, NarrowingInv, TracesInv, ReportsInv
<1>2. NarrowingInv /\ [NarrowingNext]_narrowingVars => NarrowingInv'
  <2> SUFFICES ASSUME NarrowingInv, [NarrowingNext]_narrowingVars PROVE NarrowingInv'
    OBVIOUS
  <2>1. CASE UNCHANGED <<traces, reports>>
    BY <2>1 DEF NarrowingInv, TracesInv, ReportsInv, Accounted
  <2>2. CASE \E read \in SUBSET SourceFiles : BuildTraced(read)
    BY <2>2, BuildTracedKeeps
  <2>3. CASE AuditNarrowing
    BY <2>3, AuditKeeps
  <2> QED
    BY <2>1, <2>2, <2>3 DEF NarrowingNext, narrowingVars, EditSource, EditPatterns, Expect, Edit
<1> QED
  BY <1>1, <1>2, PTL DEF NarrowingSpec

\* Whatever has been edited since, an element that finds a trace with a clean
\* audit has the bytes its build read, but for the two exceptions.
THEOREM HitsAreSafe == NarrowingSpec => []CleanAuditMakesHitsSafe
<1>1. NarrowingInv => CleanAuditMakesHitsSafe
  <2> SUFFICES ASSUME NarrowingInv, NEW k \in DOMAIN reports, k = SrcKey(tree, rules),
                      reports[k].missed = {}, NEW f \in traces[k].read,
                      ~(Rel(f) \in reports[k].allow),
                      ~(Match(reports[k].rules, f[2]) # Match(reports[k].rules, Rel(f)))
               PROVE  tree[f] = traces[k].tree[f]
    BY DEF CleanAuditMakesHitsSafe
  <2>1. f \in SourceFiles /\ \E r : k = SrcKey(traces[k].tree, r)
    BY DEF NarrowingInv, ReportsInv, TracesInv
  <2>2. CASE f[1] \in Pinned
    BY <2>1, <2>2, PinnedInKey
  <2>3. CASE f[1] \notin Pinned
    BY <2>1, <2>3, ContentInKey DEF NarrowingInv, ReportsInv, Accounted
  <2> QED
    BY <2>2, <2>3
<1> QED
  BY <1>1, NarrowingInvHolds, PTL

(***************************************************************************)
(* finalize-b.                                                             *)
(***************************************************************************)

\* What is planned and written is what the project says.
FinalizeInv ==
    /\ project \in Projects
    /\ DOMAIN out \subseteq DOMAIN project.build
    /\ \A q \in DOMAIN out : out[q] = CleanupBuild(project.build[q])
    /\ finishing \in {"write", "done"} =>
         plan = \E q \in DOMAIN project.build : MentionsRulesPackage(CleanupBuild(project.build[q]))
    /\ finishing = "done" =>
         DOMAIN out = DOMAIN project.build /\ outDep = (plan /\ project.rulesDep)

\* What is left of a BUILD file: the rules that do not only serve a conversion,
\* where there is a converted one, and the loads they call.
LEMMA CleanedBuild ==
    ASSUME NEW b
    PROVE  /\ \A r : r \in CleanupBuild(b).rules <=> r \in b.rules /\ (HasFineCC(b) => ~Scaffolding(r))
           /\ ~HasFineCC(b) => CleanupBuild(b) = b
           /\ HasFineCC(b) => CleanupBuild(b).loads = b.loads \cap {r.kind : r \in CleanupBuild(b).rules}
           /\ CleanupBuild(b).loads \subseteq b.loads
BY DEF CleanupBuild, Strip, PruneUnusedLoads

\* Cleaning a cleaned BUILD file changes nothing.
LEMMA CleanedTwice == ASSUME NEW b PROVE CleanupBuild(CleanupBuild(b)) = CleanupBuild(b)
<1> DEFINE c == CleanupBuild(b)
<1>1. CASE HasFineCC(b) /\ HasFineCC(c)
  <2>1. /\ c = [rules |-> c.rules, loads |-> c.loads]
        /\ \A r \in c.rules : ~Scaffolding(r)
        /\ c.loads \subseteq {r.kind : r \in c.rules}
    BY <1>1 DEF CleanupBuild, Strip, PruneUnusedLoads
  <2>2. {r \in c.rules : ~Scaffolding(r)} = c.rules
    BY <2>1
  <2>3. c.loads \cap {r.kind : r \in c.rules} = c.loads
    BY <2>1
  <2> HIDE DEF c
  <2>4. CleanupBuild(c) = [rules |-> c.rules, loads |-> c.loads]
    BY <1>1, <2>2, <2>3 DEF CleanupBuild, Strip, PruneUnusedLoads
  <2>5. QED
    BY <2>1, <2>4 DEF c
<1>2. CASE ~(HasFineCC(b) /\ HasFineCC(c))
  BY <1>2, CleanedBuild
<1>3. QED
  BY <1>1, <1>2

\* A project stripped as finalize-b strips it.
Stripped(p, d) ==
    /\ DOMAIN d.build = DOMAIN p.build
    /\ \A pkg \in DOMAIN p.build : d.build[pkg] = CleanupBuild(p.build[pkg])
    /\ (\E pkg \in DOMAIN p.build : MentionsRulesPackage(CleanupBuild(p.build[pkg]))) => d.rulesDep

\* What it loses is what a rule that it keeps still needs: where it was safe to
\* strip, nothing.
LEMMA SafeLoads ==
    ASSUME NEW p \in Projects, NEW d, Stripped(p, d), SafeToStrip(p)
    PROVE  Loads(d)
<1> USE DEF Stripped
<1>1. SUFFICES ASSUME NEW pkg \in DOMAIN p.build
               PROVE  /\ \A r \in d.build[pkg].rules :
                           /\ r.kind # "filegroup" => r.kind \in d.build[pkg].loads
                           /\ r.uses \subseteq d.build[pkg].loads
                           /\ \A l \in r.refs :
                                /\ l[1] \in DOMAIN d.build
                                /\ \E t \in d.build[l[1]].rules : t.name = l[2]
                      /\ d.build[pkg].loads \cap FromRules # {} => d.rulesDep
  BY DEF Loads
<1> DEFINE b == p.build[pkg]
           c == CleanupBuild(b)
<1>2. d.build[pkg] = c
  OBVIOUS
<1>3. c.loads \cap FromRules # {} => d.rulesDep
  BY DEF MentionsRulesPackage
<1>4. ASSUME NEW r \in c.rules
      PROVE  /\ r.kind # "filegroup" => r.kind \in c.loads
             /\ r.uses \subseteq c.loads
  <2>1. /\ r \in b.rules
        /\ r.kind # "filegroup" => r.kind \in b.loads
        /\ r.uses \subseteq b.loads
    BY <1>4, CleanedBuild, ProjectsAssumption DEF Loads
  <2>2. CASE HasFineCC(b)
    BY <2>1, <2>2, CleanedBuild DEF SafeToStrip
  <2>3. CASE ~HasFineCC(b)
    BY <2>1, <2>3, CleanedBuild
  <2>4. QED
    BY <2>2, <2>3
<1>5. ASSUME NEW r \in c.rules, NEW l \in r.refs
      PROVE  l[1] \in DOMAIN d.build /\ \E t \in d.build[l[1]].rules : t.name = l[2]
  <2>1. r \in b.rules /\ (HasFineCC(b) => ~Scaffolding(r))
    BY CleanedBuild
  <2>2. l[1] \in DOMAIN p.build /\ \E t \in p.build[l[1]].rules : t.name = l[2]
    BY <2>1, ProjectsAssumption DEF Loads
  <2>3. PICK t \in p.build[l[1]].rules : t.name = l[2]
    BY <2>2
  <2>4. HasFineCC(p.build[l[1]]) => ~Scaffolding(t)
    <3>1. CASE HasFineCC(b)
      <4>1. ~CmakeStub(r) /\ ~Scaffolding(r)
        BY <2>1, <3>1 DEF SafeToStrip
      <4>2. QED
        BY <2>1, <2>3, <3>1, <4>1, ProjectsAssumption DEF Rendered
    <3>2. CASE ~HasFineCC(b)
      BY <2>1, <2>3, <3>2 DEF SafeToStrip
    <3>3. QED
      BY <3>1, <3>2
  <2>5. t \in CleanupBuild(p.build[l[1]]).rules
    BY <2>4, CleanedBuild
  <2>6. QED
    BY <2>2, <2>3, <2>5
<1>6. QED
  BY <1>2, <1>3, <1>4, <1>5

\* ... and where it was not, some rule is left without.
LEMMA LoadsSafely ==
    ASSUME NEW p \in Projects, NEW d, Stripped(p, d), Loads(d)
    PROVE  SafeToStrip(p)
<1> USE DEF Stripped
<1> DEFINE Kept(pkg) == CleanupBuild(p.build[pkg]).rules
\* A name that a kept rule refers to is that of a rule that is kept.
<1>1. ASSUME NEW pkg \in DOMAIN p.build, NEW r \in Kept(pkg), NEW l \in r.refs,
             NEW t \in p.build[l[1]].rules, t.name = l[2], HasFineCC(p.build[l[1]])
      PROVE  ~Scaffolding(t)
  <2>1. l[1] \in DOMAIN p.build /\ \E u \in Kept(l[1]) : u.name = l[2]
    BY DEF Loads
  <2>2. PICK u \in Kept(l[1]) : u.name = l[2]
    BY <2>1
  <2>3. u \in p.build[l[1]].rules /\ ~Scaffolding(u)
    BY <1>1, <2>2, CleanedBuild
  <2>4. t = u
    BY <1>1, <2>1, <2>2, <2>3, ProjectsAssumption DEF Rendered
  <2>5. QED
    BY <2>3, <2>4
<1>2. ASSUME NEW pkg \in DOMAIN p.build, HasFineCC(p.build[pkg]), NEW r \in p.build[pkg].rules
      PROVE  ~CmakeStub(r) /\ (~Scaffolding(r) => r.uses = {})
  <2>1. ~Scaffolding(r) => r \in Kept(pkg)
    BY <1>2, CleanedBuild
  <2>2. ASSUME CmakeStub(r) PROVE FALSE
    <3>1. PICK l \in r.refs, t \in p.build[pkg].rules :
             l = <<pkg, t.name>> /\ "fallback-extract" \in t.tags
      BY <2>2, ProjectsAssumption DEF Rendered
    <3>2. r \in Kept(pkg)
      BY <2>1, <2>2 DEF CmakeStub
    <3>3. l[1] = pkg /\ l[2] = t.name
      BY <3>1
    <3>4. ~Scaffolding(t)
      BY <1>1, <1>2, <3>1, <3>2, <3>3
    <3>5. QED
      BY <3>1, <3>4 DEF Scaffolding
  <2>3. ASSUME ~Scaffolding(r) PROVE r.uses = {}
    <3>1. r.uses \subseteq CleanupBuild(p.build[pkg]).loads
      BY <2>1, <2>3 DEF Loads
    <3>2. \A t \in Kept(pkg) : t \in p.build[pkg].rules
      BY CleanedBuild
    <3>3. \A t \in p.build[pkg].rules : t.kind \notin r.uses
      BY ProjectsAssumption DEF Rendered
    <3>4. QED
      BY <1>2, <3>1, <3>2, <3>3, CleanedBuild
  <2>4. QED
    BY <2>2, <2>3
<1>3. ASSUME NEW pkg \in DOMAIN p.build, ~HasFineCC(p.build[pkg]), NEW r \in p.build[pkg].rules,
             NEW l \in r.refs, HasFineCC(p.build[l[1]]), NEW t \in p.build[l[1]].rules, t.name = l[2]
      PROVE  ~Scaffolding(t)
  BY <1>1, <1>3, CleanedBuild
<1>4. QED
  BY <1>2, <1>3 DEF SafeToStrip

\* DeliveryLoads for every project B: what finalize-b delivers loads exactly when
\* it was safe to strip, keeps the dep it needs and is as it would be finalized
\* again.
THEOREM DeliveryHolds == FinalizeSpec => []DeliveryLoads
<1>1. FinalizeInit => FinalizeInv
  BY DEF FinalizeInit, FinalizeInv
<1>2. FinalizeInv /\ [FinalizeNext]_finalizeVars => FinalizeInv'
  <2> SUFFICES ASSUME FinalizeInv, [FinalizeNext]_finalizeVars PROVE FinalizeInv'
    OBVIOUS
  <2>1. CASE ComputeCleanupPlan
    BY <2>1 DEF ComputeCleanupPlan, FinalizeInv
  <2>2. ASSUME NEW pkg \in DOMAIN project.build, WriteBuild(pkg) PROVE FinalizeInv'
    <3>1. /\ DOMAIN out' = DOMAIN out \cup {pkg}
          /\ \A q \in DOMAIN out' : out'[q] = IF q = pkg THEN CleanupBuild(project.build[pkg]) ELSE out[q]
          /\ UNCHANGED <<project, outDep, plan, finishing>>
          /\ finishing = "write"
      BY <2>2 DEF WriteBuild
    <3>2. QED
      BY <3>1 DEF FinalizeInv
  <2>3. CASE WriteModule
    BY <2>3 DEF WriteModule, FinalizeInv
  <2>4. CASE BreakOff
    BY <2>4 DEF BreakOff, FinalizeInv
  <2>5. CASE UNCHANGED finalizeVars
    BY <2>5 DEF finalizeVars, FinalizeInv
  <2>6. QED
    BY <2>1, <2>2, <2>3, <2>4, <2>5 DEF FinalizeNext
<1>3. FinalizeInv => DeliveryLoads
  <2> SUFFICES ASSUME FinalizeInv, finishing = "done" PROVE DeliveryLoads
    BY DEF DeliveryLoads
  <2>1. /\ project \in Projects
        /\ DOMAIN out = DOMAIN project.build
        /\ \A q \in DOMAIN out : out[q] = CleanupBuild(project.build[q])
        /\ plan = \E q \in DOMAIN out : MentionsRulesPackage(out[q])
        /\ outDep = (plan /\ project.rulesDep)
    BY DEF FinalizeInv
  <2>2. plan => project.rulesDep
    <3>1. SUFFICES ASSUME NEW q \in DOMAIN out, MentionsRulesPackage(out[q]) PROVE project.rulesDep
      BY <2>1
    <3>2. project.build[q].loads \cap FromRules # {}
      BY <2>1, <3>1, CleanedBuild DEF MentionsRulesPackage
    <3>3. QED
      BY <2>1, <3>2, ProjectsAssumption DEF Loads
  <2>3. outDep <=> \E q \in DOMAIN out : MentionsRulesPackage(out[q])
    BY <2>1, <2>2
  <2>4. Stripped(project, Delivered)
    BY <2>1, <2>3 DEF Stripped, Delivered
  <2>5. Loads(Delivered) <=> SafeToStrip(project)
    BY <2>1, <2>4, SafeLoads, LoadsSafely
  <2>6. \A q \in DOMAIN out : CleanupBuild(out[q]) = out[q]
    BY <2>1, CleanedTwice
  <2>7. QED
    BY <2>3, <2>5, <2>6 DEF DeliveryLoads
<1>4. QED
  BY <1>1, <1>2, <1>3, PTL DEF FinalizeSpec

-----------------------------------------------------------------------------
(***************************************************************************)
(* convert-element-trace.                                                  *)
(***************************************************************************)

IsDirectory(c) == c \in Seq(STRING) /\ \A k \in 1..Len(c) : c[k] # ".."

\* Where two spellings with their directories agree, a step up in one is a step
\* up in the other.
LEMMA SameStepUp ==
  ASSUME NEW c, NEW d, NEW o, NEW p, IsDirectory(c), IsDirectory(d), IsPath(o), IsPath(p),
         c \o o = d \o p, o[1] = ".."
  PROVE  c = d /\ o = p
<1>1. /\ c \in Seq(STRING) /\ d \in Seq(STRING) /\ o \in Seq(STRING) /\ p \in Seq(STRING)
      /\ Len(c) \in Nat /\ Len(d) \in Nat /\ Len(o) \in Nat \ {0} /\ Len(p) \in Nat \ {0}
  BY LenProperties DEF IsDirectory, IsPath
<1>2. Len(c) + Len(o) = Len(d) + Len(p)
  BY <1>1, ConcatProperties
<1>3. \A k \in 1..Len(c) + Len(o) :
        (IF k <= Len(c) THEN c[k] ELSE o[k - Len(c)]) = (IF k <= Len(d) THEN d[k] ELSE p[k - Len(d)])
  BY <1>1, <1>2, ConcatProperties
<1>4. ~(Len(c) + 1 <= Len(d))
  <2> SUFFICES ASSUME Len(c) + 1 <= Len(d) PROVE FALSE
    OBVIOUS
  <2>1. Len(c) + 1 \in 1..Len(c) + Len(o) /\ ~(Len(c) + 1 <= Len(c)) /\ Len(c) + 1 - Len(c) = 1
    BY <1>1
  <2>2. o[1] = d[Len(c) + 1]
    BY <1>3, <2>1
  <2>3. Len(c) + 1 \in 1..Len(d)
    BY <1>1
  <2>4. QED
    BY <2>2, <2>3 DEF IsDirectory
<1>5. p[Len(c) + 1 - Len(d)] = ".."
  <2>1. Len(c) + 1 \in 1..Len(c) + Len(o) /\ ~(Len(c) + 1 <= Len(c)) /\ Len(c) + 1 - Len(c) = 1
    BY <1>1
  <2>2. QED
    BY <1>3, <1>4, <2>1
<1>6. Len(c) = Len(d)
  BY <1>1, <1>2, <1>4, <1>5 DEF IsPath
<1>7. \A k \in 1..Len(c) : c[k] = d[k]
  BY <1>1, <1>3, <1>6
<1>8. \A k \in 1..Len(o) : o[k] = p[k]
  <2> SUFFICES ASSUME NEW k \in 1..Len(o) PROVE o[k] = p[k]
    OBVIOUS
  <2>1. k + Len(c) \in 1..Len(c) + Len(o) /\ ~(k + Len(c) <= Len(c)) /\ k + Len(c) - Len(c) = k
    BY <1>1
  <2>2. QED
    BY <1>1, <1>3, <1>6, <2>1
<1>9. c = d
  BY <1>1, <1>6, <1>7, SeqEqual
<1>10. Len(o) = Len(p)
  BY <1>1, <1>2, <1>6
<1>11. o = p
  BY <1>1, <1>8, <1>10, SeqEqual
<1>12. QED
  BY <1>9, <1>11

\* Spelled alike with their directories, two paths are of one file.
LEMMA SameFile ==
  ASSUME NEW c, NEW d, NEW o, NEW p, IsDirectory(c), IsDirectory(d), IsPath(o), IsPath(p), c \o o = d \o p
  PROVE  Resolve(c, o) = Resolve(d, p)
<1>1. CASE o[1] = ".."
  BY <1>1, SameStepUp
<1>2. CASE p[1] = ".."
  BY <1>2, SameStepUp
<1>3. CASE o[1] # ".." /\ p[1] # ".."
  BY <1>3 DEF Resolve
<1>4. QED
  BY <1>1, <1>2, <1>3

\* A file keeps the name it is spelled with.
LEMMA NameOfFile ==
  ASSUME NEW c, NEW p, IsDirectory(c), IsPath(p)
  PROVE  Base(Resolve(c, p)) = Base(p)
<1>1. c \in Seq(STRING) /\ p \in Seq(STRING) /\ Len(c) \in Nat /\ Len(p) \in Nat \ {0}
  BY LenProperties DEF IsDirectory, IsPath
<1>2. CASE p[1] = ".."
  <2>1. Len(p) > 1
    BY <1>1, <1>2 DEF IsPath
  <2> DEFINE up == SubSeq(c, 1, Len(c) - 1)
  <2>2. up \in Seq(STRING)
    <3>1. \A k \in 1..Len(c) - 1 : c[k] \in STRING
      BY <1>1, ElementOfSeq
    <3>2. QED
      BY <1>1, <3>1, SubSeqProperties
  <2>3. /\ Tail(p) \in Seq(STRING) /\ Len(Tail(p)) = Len(p) - 1
        /\ \A k \in 1..Len(Tail(p)) : Tail(p)[k] = p[k + 1]
    <3>1. p # <<>>
      BY <1>1
    <3>2. QED
      BY <1>1, <3>1, HeadTailProperties
  <2>4. Len(up) \in Nat
    BY <2>2, LenProperties
  <2> HIDE DEF up
  <2>5. /\ Len(up \o Tail(p)) = Len(up) + Len(Tail(p))
        /\ \A k \in 1..Len(up) + Len(Tail(p)) :
             (up \o Tail(p))[k] = IF k <= Len(up) THEN up[k] ELSE Tail(p)[k - Len(up)]
    BY <2>2, <2>3, ConcatProperties
  <2>6. (up \o Tail(p))[Len(up \o Tail(p))] = Tail(p)[Len(p) - 1]
    BY <1>1, <2>1, <2>3, <2>4, <2>5
  <2>7. Tail(p)[Len(p) - 1] = p[Len(p)]
    BY <1>1, <2>1, <2>3
  <2>8. Resolve(c, p) = up \o Tail(p)
    BY <1>2 DEF Resolve, up
  <2>9. QED
    BY <2>6, <2>7, <2>8 DEF Base
<1>3. CASE p[1] # ".."
  <2>1. /\ Len(c \o p) = Len(c) + Len(p)
        /\ \A k \in 1..Len(c) + Len(p) : (c \o p)[k] = IF k <= Len(c) THEN c[k] ELSE p[k - Len(c)]
    BY <1>1, ConcatProperties
  <2>2. (c \o p)[Len(c \o p)] = p[Len(p)]
    BY <1>1, <2>1
  <2>3. QED
    BY <1>3, <2>2 DEF Base, Resolve
<1>4. QED
  BY <1>2, <1>3

\* Of some events there is a last one.
LEMMA SomeLatest ==
  ASSUME NEW n \in Nat, NEW S, S \subseteq 1..n, S # {}
  PROVE  Latest(S) # {}
<1> DEFINE back == {n - k : k \in S}
        less == OpToRel(<, Nat)
<1>1. back \subseteq Nat /\ back # {}
  <2>1. PICK k \in S : TRUE
    OBVIOUS
  <2>2. n - k \in back
    OBVIOUS
  <2>3. \A j \in S : n - j \in Nat
    OBVIOUS
  <2>4. QED
    BY <2>2, <2>3
<1>2. PICK x \in back : \A y \in back : ~(<<y, x>> \in less)
  <2>1. IsWellFoundedOn(less, Nat)
    BY NatLessThanWellFounded
  <2> HIDE DEF back, less
  <2>2. QED
    BY <1>1, <2>1, WFMin
<1>3. PICK i \in S : x = n - i
  OBVIOUS
<1>4. \A k \in S : k <= i
  <2> SUFFICES ASSUME NEW k \in S PROVE k <= i
    OBVIOUS
  <2>1. n - k \in back /\ n - k \in Nat /\ n - i \in Nat
    OBVIOUS
  <2>2. \A a, b \in Nat : a < b => <<a, b>> \in less
    BY DEF OpToRel
  <2> HIDE DEF back, less
  <2>3. ~(n - k < n - i)
    BY <1>2, <1>3, <2>1, <2>2
  <2>4. QED
    BY <2>3
<1>5. QED
  BY <1>4 DEF Latest

\* The only command of a set is its latest.
LEMMA OnlyLatest ==
  ASSUME NEW k \in Nat
  PROVE  Latest({k}) = {k}
BY DEF Latest

\* The commands of the builds traced.
Commands ==
    UNION {UNION {{build[m][n] : n \in 1..Len(build[m])} : m \in DOMAIN build} : build \in TracedBuilds}

\* One compile, which the trace shows, has made the object.
MadeOnce(i, o) == \E k \in Compiles : OnlyBy(k, Resolve(ran[i].cwd, o))
Members(i) == {k \in Compiles : \E o \in ran[i].objs : OnlyBy(k, Resolve(ran[i].cwd, o))}

\* The disk holds what the commands made, from what was there; and a product
\* made once from objects made once holds those.
DiskInv ==
    /\ DOMAIN disk = {Product(ran[h]) : h \in DOMAIN ran}
    /\ \A h \in DOMAIN ran : \A o \in ran[h].objs : Resolve(ran[h].cwd, o) \in DOMAIN disk
    /\ \A k \in Compiles : OnlyBy(k, Product(ran[k])) => disk[Product(ran[k])] = {k}
    /\ \A i \in Artifacts :
         OnlyBy(i, Product(ran[i])) /\ (\A o \in ran[i].objs : MadeOnce(i, o)) =>
           disk[Product(ran[i])] = Members(i) \cup IF ran[i].kind = "link" THEN {i} ELSE {}

TraceRulesInv ==
    /\ makes \in TracedBuilds
    /\ DOMAIN at = DOMAIN makes /\ \A m \in DOMAIN at : at[m] \in Nat
    /\ ran \in Seq(Commands)
    /\ DiskInv
    /\ recovered # NotYet => recovered = BuildRules

\* A command of the trace is one that make can run, and so are its files.
LEMMA RanCommands ==
  ASSUME TraceRulesInv
  PROVE  /\ Len(ran) \in Nat /\ DOMAIN ran = 1..Len(ran)
         /\ \A h \in DOMAIN ran :
              /\ IsCommand(ran[h]) /\ IsDirectory(ran[h].cwd) /\ IsPath(ran[h].out)
              /\ \A o \in ran[h].objs : IsPath(o)
<1>1. ran \in Seq(Commands)
  BY DEF TraceRulesInv
<1>2. Len(ran) \in Nat /\ DOMAIN ran = 1..Len(ran) /\ \A h \in 1..Len(ran) : ran[h] \in Commands
  BY <1>1, LenProperties, ElementOfSeq
<1>3. \A c \in Commands : IsCommand(c)
  BY TracedBuildsAssumption DEF Commands
<1>4. QED
  BY <1>2, <1>3 DEF IsCommand, IsDirectory

Sole(s, i, p) ==
    i \in DOMAIN s /\ Product(s[i]) = p /\ \A h \in DOMAIN s : Product(s[h]) = p => h = i

\* Another command leaves the invariant as it was.
LEMMA RunKeeps ==
  ASSUME TraceRulesInv, NEW m \in DOMAIN makes, RunCommand(m)
  PROVE  TraceRulesInv'
<1> DEFINE n == Len(ran)
           new == n + 1
<1>1. PICK c \in Commands : c = makes[m][at[m] + 1]
  <2>1. /\ makes \in TracedBuilds /\ at[m] \in Nat /\ at[m] < Len(makes[m]) /\ Len(makes[m]) \in Nat
    BY TracedBuildsAssumption DEF TraceRulesInv, RunCommand
  <2>2. at[m] + 1 \in 1..Len(makes[m])
    BY <2>1
  <2>3. QED
    BY <2>1, <2>2 DEF Commands
<1>2. /\ recovered = NotYet /\ recovered' = NotYet /\ makes' = makes
      /\ at' = [at EXCEPT ![m] = @ + 1]
      /\ Inputs(c) \subseteq DOMAIN disk
      /\ ran' = Append(ran, c)
      /\ disk' = [p \in DOMAIN disk \cup {Product(c)} |-> IF p = Product(c) THEN Content(c) ELSE disk[p]]
  BY <1>1 DEF RunCommand
<1>3. /\ IsCommand(c)
      /\ n \in Nat /\ DOMAIN ran = 1..n /\ new \notin DOMAIN ran /\ DOMAIN ran' = DOMAIN ran \cup {new}
      /\ ran' \in Seq(Commands)
      /\ \A h \in DOMAIN ran : ran'[h] = ran[h]
      /\ ran'[new] = c
  <2>1. ran \in Seq(Commands)
    BY DEF TraceRulesInv
  <2>2. IsCommand(c)
    BY TracedBuildsAssumption DEF Commands
  <2>3. n \in Nat /\ DOMAIN ran = 1..n
    BY RanCommands
  <2>4. QED
    BY <1>2, <2>1, <2>2, <2>3
<1> HIDE DEF n, new
<1>4. /\ \A h : h \in Compiles' <=> h \in DOMAIN ran' /\ ran'[h].kind = "compile" /\ ran'[h].seen
      /\ \A h : h \in Compiles <=> h \in DOMAIN ran /\ ran[h].kind = "compile" /\ ran[h].seen
      /\ \A h : h \in Artifacts' <=> h \in DOMAIN ran' /\ ran'[h].kind \in {"archive", "link"} /\ ran'[h].seen
      /\ \A h : h \in Artifacts <=> h \in DOMAIN ran /\ ran[h].kind \in {"archive", "link"} /\ ran[h].seen
  BY DEF Compiles, Artifacts, Events
<1>5. /\ \A i, p : OnlyBy(i, p)' <=> Sole(ran', i, p)
      /\ \A i, p : OnlyBy(i, p) <=> Sole(ran, i, p)
  BY DEF OnlyBy, Sole
<1>6. /\ DOMAIN disk' = DOMAIN disk \cup {Product(c)} /\ disk'[Product(c)] = Content(c)
      /\ \A p \in DOMAIN disk : p # Product(c) => disk'[p] = disk[p]
  BY <1>2
<1>7. DOMAIN disk = {Product(ran[h]) : h \in DOMAIN ran}
  BY DEF TraceRulesInv, DiskInv
<1>8. \A i \in DOMAIN ran : \A p : Sole(ran', i, p) => Sole(ran, i, p) /\ p # Product(c)
  BY <1>3 DEF Sole
<1>9. \A p : Sole(ran', new, p) => p = Product(c) /\ p \notin DOMAIN disk
  BY <1>3, <1>7 DEF Sole
<1>10. \A p \in DOMAIN disk : \A k \in Compiles' : Sole(ran', k, p) =>
         /\ k \in DOMAIN ran /\ k \in Compiles /\ ran[k] = ran'[k] /\ p = Product(ran[k])
         /\ Sole(ran, k, p) /\ p # Product(c) /\ disk'[p] = {k} /\ disk[p] = {k}
  <2> SUFFICES ASSUME NEW p \in DOMAIN disk, NEW k \in Compiles', Sole(ran', k, p)
               PROVE  /\ k \in DOMAIN ran /\ k \in Compiles /\ ran[k] = ran'[k] /\ p = Product(ran[k])
                      /\ Sole(ran, k, p) /\ p # Product(c) /\ disk'[p] = {k} /\ disk[p] = {k}
    OBVIOUS
  <2>1. k \in DOMAIN ran
    BY <1>3, <1>9 DEF Sole
  <2>2. k \in Compiles /\ Sole(ran, k, p) /\ p # Product(c) /\ p = Product(ran[k]) /\ ran[k] = ran'[k]
    BY <1>3, <1>4, <1>8, <2>1 DEF Sole
  <2>3. disk[p] = {k}
    BY <1>5, <2>2 DEF TraceRulesInv, DiskInv
  <2>4. QED
    BY <1>6, <2>1, <2>2, <2>3
<1>11. DOMAIN disk' = {Product(ran'[h]) : h \in DOMAIN ran'}
  BY <1>3, <1>6, <1>7
<1>12. \A h \in DOMAIN ran' : \A o \in ran'[h].objs : Resolve(ran'[h].cwd, o) \in DOMAIN disk
  <2>1. \A o \in c.objs : Resolve(c.cwd, o) \in DOMAIN disk
    BY <1>2 DEF Inputs
  <2>2. QED
    BY <1>3, <2>1 DEF TraceRulesInv, DiskInv
<1>13. \A k \in Compiles' : Sole(ran', k, Product(ran'[k])) => disk'[Product(ran'[k])] = {k}
  <2> SUFFICES ASSUME NEW k \in Compiles', Sole(ran', k, Product(ran'[k]))
               PROVE  disk'[Product(ran'[k])] = {k}
    OBVIOUS
  <2>1. CASE k = new
    <3>1. c.kind = "compile" /\ c.seen /\ c.objs = {}
      BY <1>3, <1>4, <2>1 DEF IsCommand, IsEvent
    <3>2. Content(c) = {k}
      BY <1>3, <2>1, <3>1 DEF Content, n, new
    <3>3. QED
      BY <1>3, <1>6, <2>1, <3>2
  <2>2. CASE k # new
    <3>1. k \in DOMAIN ran /\ Product(ran'[k]) \in DOMAIN disk
      BY <1>3, <1>4, <1>7, <2>2
    <3>2. QED
      BY <1>10, <3>1
  <2>3. QED
    BY <2>1, <2>2
<1>14. ASSUME NEW i \in Artifacts', Sole(ran', i, Product(ran'[i])), 
                \A o \in ran'[i].objs : \E k \in Compiles' : Sole(ran', k, Resolve(ran'[i].cwd, o))
       PROVE  disk'[Product(ran'[i])] = Members(i)' \cup IF ran'[i].kind = "link" THEN {i} ELSE {}
  <2> DEFINE File(o) == Resolve(ran'[i].cwd, o)
  <2>1. \A o \in ran'[i].objs : File(o) \in DOMAIN disk
    BY <1>4, <1>12, <1>14
  <2>2. \A o \in ran'[i].objs : \E k \in Compiles' : Sole(ran', k, File(o))
    BY <1>14
  <2>3. \A k : k \in Members(i)' <=> k \in Compiles' /\ \E o \in ran'[i].objs : Sole(ran', k, File(o))
    BY <1>5 DEF Members
  <2> HIDE DEF File
  <2>4. CASE i \in DOMAIN ran
    <3>1. ran'[i] = ran[i] /\ i \in Artifacts /\ Sole(ran, i, Product(ran[i])) /\ Product(ran[i]) # Product(c)
      BY <1>3, <1>4, <1>8, <1>14, <2>4
    <3>2. \A o \in ran[i].objs : MadeOnce(i, o)
      BY <1>5, <1>10, <2>1, <2>2, <3>1 DEF MadeOnce, File
    <3>3. disk[Product(ran[i])] = Members(i) \cup IF ran[i].kind = "link" THEN {i} ELSE {}
      BY <1>5, <3>1, <3>2 DEF TraceRulesInv, DiskInv
    <3>4. Members(i)' \subseteq Members(i)
      <4> SUFFICES ASSUME NEW k \in Members(i)' PROVE k \in Members(i)
        OBVIOUS
      <4>1. PICK o \in ran'[i].objs : k \in Compiles' /\ Sole(ran', k, File(o))
        BY <2>3
      <4>2. k \in Compiles /\ Sole(ran, k, File(o))
        BY <1>10, <2>1, <4>1
      <4>3. QED
        BY <1>5, <3>1, <4>2 DEF Members, File
    <3>5. Members(i) \subseteq Members(i)'
      <4> SUFFICES ASSUME NEW k \in Members(i) PROVE k \in Members(i)'
        OBVIOUS
      <4>1. PICK o \in ran'[i].objs : k \in Compiles /\ Sole(ran, k, File(o))
        BY <1>5, <3>1 DEF Members, File
      <4>2. PICK h \in Compiles' : Sole(ran', h, File(o))
        BY <2>2
      <4>3. Sole(ran, h, File(o))
        BY <1>10, <2>1, <4>2
      <4>4. h = k
        BY <4>1, <4>3 DEF Sole
      <4>5. QED
        BY <2>3, <4>2, <4>4
    <3>6. Product(ran[i]) \in DOMAIN disk
      BY <1>7, <2>4
    <3>7. disk'[Product(ran'[i])] = disk[Product(ran[i])]
      BY <1>6, <3>1, <3>6
    <3>8. QED
      BY <3>1, <3>3, <3>4, <3>5, <3>7
  <2>5. CASE i = new
    <3>1. ran'[i] = c /\ Product(c) \notin DOMAIN disk /\ c.kind \in {"archive", "link"}
      BY <1>3, <1>4, <1>9, <1>14, <2>5
    <3>2. Content(c) = (UNION {disk[File(o)] : o \in c.objs}) \cup IF c.kind = "archive" THEN {} ELSE {i}
      <4>1. {disk[p] : p \in {Resolve(c.cwd, o) : o \in c.objs}} = {disk[File(o)] : o \in c.objs}
        BY <3>1 DEF File
      <4>2. QED
        BY <2>5, <3>1, <4>1 DEF Content, n, new
    <3>3. UNION {disk[File(o)] : o \in c.objs} = Members(i)'
      <4>1. \A o \in c.objs : \A k \in Compiles' : Sole(ran', k, File(o)) => disk[File(o)] = {k}
        BY <1>10, <2>1, <3>1
      <4>2. ASSUME NEW k \in UNION {disk[File(o)] : o \in c.objs} PROVE k \in Members(i)'
        <5>1. PICK o \in c.objs : k \in disk[File(o)]
          BY <4>2
        <5>2. PICK h \in Compiles' : Sole(ran', h, File(o))
          BY <2>2, <3>1
        <5>3. k = h
          BY <4>1, <5>1, <5>2
        <5>4. QED
          BY <2>3, <3>1, <5>2, <5>3
      <4>3. ASSUME NEW k \in Members(i)' PROVE k \in UNION {disk[File(o)] : o \in c.objs}
        <5>1. PICK o \in c.objs : k \in Compiles' /\ Sole(ran', k, File(o))
          BY <2>3, <3>1, <4>3
        <5>2. QED
          BY <4>1, <5>1
      <4>4. QED
        BY <4>2, <4>3
    <3>4. QED
      BY <1>6, <3>1, <3>2, <3>3
  <2>6. QED
    BY <1>3, <1>4, <1>14, <2>4, <2>5
<1>15. DiskInv'
  <2>1. ASSUME NEW i \in Artifacts', OnlyBy(i, Product(ran[i]))', \A o \in ran'[i].objs : MadeOnce(i, o)'
        PROVE  disk'[Product(ran'[i])] = Members(i)' \cup IF ran'[i].kind = "link" THEN {i} ELSE {}
    <3>1. Sole(ran', i, Product(ran'[i]))
      BY <2>1 DEF OnlyBy, Sole
    <3>2. \A o \in ran'[i].objs : \E k \in Compiles' : Sole(ran', k, Resolve(ran'[i].cwd, o))
      BY <1>5, <2>1 DEF MadeOnce
    <3>3. QED
      BY <1>14, <3>1, <3>2
  <2>2. ASSUME NEW k \in Compiles', OnlyBy(k, Product(ran[k]))'
        PROVE  disk'[Product(ran'[k])] = {k}
    <3>1. Sole(ran', k, Product(ran'[k]))
      BY <2>2 DEF OnlyBy, Sole
    <3>2. QED
      BY <1>13, <3>1
  <2>3. \A h \in DOMAIN ran' : \A o \in ran'[h].objs : Resolve(ran'[h].cwd, o) \in DOMAIN disk'
    BY <1>6, <1>12
  <2>4. QED
    BY <1>11, <2>1, <2>2, <2>3 DEF DiskInv
<1>16. /\ makes' \in TracedBuilds
       /\ DOMAIN at' = DOMAIN makes' /\ \A h \in DOMAIN at' : at'[h] \in Nat
  BY <1>2 DEF TraceRulesInv
<1>17. QED
  BY <1>2, <1>3, <1>15, <1>16 DEF TraceRulesInv

\* The rules come from the trace alone.
LEMMA RulesKept ==
  ASSUME UNCHANGED <<ran, cwdKnown>>
  PROVE  BuildRules' = BuildRules
<1>1. ran' = ran /\ cwdKnown' = cwdKnown
  OBVIOUS
<1>2. QED
  BY <1>1 DEF BuildRules, RuleFrom, LookupCompile, NameOf, DepsOfLink, Archived, Latest, Artifacts, Compiles, Events

\* What lies in the products is known as long as nothing runs.
LEMMA DisksKept ==
  ASSUME DiskInv, UNCHANGED <<makes, at, ran, cwdKnown, disk>>
  PROVE  DiskInv'
<1>1. makes' = makes /\ at' = at /\ ran' = ran /\ cwdKnown' = cwdKnown /\ disk' = disk
  OBVIOUS
<1>2. QED
  BY <1>1 DEF DiskInv, OnlyBy, MadeOnce, Members, Compiles, Artifacts, Events

\* While the builds run, whose compiles are in a product that was written once from
\* objects that were, and of which kind each line of the trace is: what main's
\* correlation of names may rely on.
THEOREM DisksKnown == TraceRulesSpec => []TraceRulesInv
<1>1. TraceRulesInit => TraceRulesInv
  <2> SUFFICES ASSUME TraceRulesInit PROVE TraceRulesInv
    OBVIOUS
  <2>1. ran = <<>> /\ disk = <<>> /\ DOMAIN ran = {} /\ DOMAIN disk = {}
    BY DEF TraceRulesInit
  <2>2. Compiles = {} /\ Artifacts = {}
    BY <2>1 DEF Compiles, Artifacts, Events
  <2>3. DiskInv
    BY <2>1, <2>2 DEF DiskInv
  <2>4. ran \in Seq(Commands)
    BY <2>1
  <2>5. QED
    BY <2>3, <2>4 DEF TraceRulesInv, TraceRulesInit
<1>2. TraceRulesInv /\ [TraceRulesNext]_traceRulesVars => TraceRulesInv'
  <2> SUFFICES ASSUME TraceRulesInv, [TraceRulesNext]_traceRulesVars PROVE TraceRulesInv'
    OBVIOUS
  <2>1. CASE ConvertTrace
    <3>1. UNCHANGED <<makes, at, ran, cwdKnown, disk>> /\ recovered' = BuildRules
      BY <2>1 DEF ConvertTrace
    <3>2. BuildRules' = BuildRules
      BY <3>1, RulesKept
    <3>3. DiskInv'
      BY <3>1, DisksKept DEF TraceRulesInv
    <3>4. QED
      BY <3>1, <3>2, <3>3 DEF TraceRulesInv
  <2>2. ASSUME NEW m \in DOMAIN makes, RunCommand(m) PROVE TraceRulesInv'
    BY <2>2, RunKeeps
  <2>3. CASE UNCHANGED traceRulesVars
    <3>1. UNCHANGED <<makes, at, ran, cwdKnown, disk, recovered>>
      BY <2>3 DEF traceRulesVars
    <3>2. BuildRules' = BuildRules
      BY <3>1, RulesKept
    <3>3. DiskInv'
      BY <3>1, DisksKept DEF TraceRulesInv
    <3>4. QED
      BY <3>1, <3>2, <3>3 DEF TraceRulesInv
  <2>4. QED
    BY <2>1, <2>2, <2>3 DEF TraceRulesNext
<1>3. QED
  BY <1>1, <1>2, PTL DEF TraceRulesSpec

\* An object found by its directory and path is of the product it means.
LEMMA SameProduct ==
  ASSUME TraceRulesInv, NEW h \in DOMAIN ran, NEW i \in DOMAIN ran, NEW o \in ran[i].objs,
         ran[h].cwd \o ran[h].out = ran[i].cwd \o o
  PROVE  /\ Product(ran[h]) = Resolve(ran[i].cwd, o)
         /\ Base(ran[h].out) = Base(o)
<1> DEFINE c == ran[h].cwd
           p == ran[h].out
           d == ran[i].cwd
<1>1. IsDirectory(c) /\ IsPath(p) /\ IsDirectory(d) /\ IsPath(o) /\ c \o p = d \o o
  BY RanCommands
<1> HIDE DEF c, p, d
<1>2. Resolve(c, p) = Resolve(d, o)
  BY ONLY <1>1, SameFile
<1>3. Base(p) = Base(o)
  BY <1>1, <1>2, NameOfFile
<1>4. QED
  BY <1>2, <1>3 DEF c, p, d, Product

\* An object that is told apart is found, whichever of its three names finds it.
LEMMA FoundApart ==
  ASSUME TraceRulesInv, NEW i \in DOMAIN ran, NEW o \in ran[i].objs, NEW k \in Compiles,
         OnlyBy(k, Resolve(ran[i].cwd, o)),
         \/ cwdKnown /\ ran[k].cwd \o ran[k].out = ran[i].cwd \o o
         \/ ran[k].out = o /\ \A h \in Compiles \ {k} : ran[h].out # o
         \/ \A h \in Compiles \ {k} : Base(ran[h].out) # Base(o)
  PROVE  LookupCompile(ran[i].cwd, o) = {k}
<1> DEFINE byCwd  == {h \in Compiles : cwdKnown /\ ran[h].cwd \o ran[h].out = ran[i].cwd \o o}
           byPath == {h \in Compiles : ran[h].out = o}
           byBase == {h \in Compiles : Base(ran[h].out) = Base(o)}
<1>1. /\ \A h \in Compiles : h \in DOMAIN ran
      /\ k \in Nat
  BY RanCommands DEF Compiles, Events
<1>2. /\ \A h \in DOMAIN ran : IsDirectory(ran[h].cwd) /\ IsPath(ran[h].out)
      /\ IsDirectory(ran[i].cwd) /\ IsPath(o)
  BY RanCommands
<1>3. byCwd \subseteq {k}
  <2> SUFFICES ASSUME NEW h \in Compiles, ran[h].cwd \o ran[h].out = ran[i].cwd \o o PROVE h = k
    OBVIOUS
  <2>1. QED
    BY <1>1, SameProduct DEF OnlyBy
<1>4. Base(ran[k].out) = Base(o)
  <2>1. Product(ran[k]) = Resolve(ran[i].cwd, o)
    BY DEF OnlyBy
  <2>2. QED
    BY <1>1, <1>2, <2>1, NameOfFile DEF Product
<1>5. LookupCompile(ran[i].cwd, o) = Latest(IF byCwd # {} THEN byCwd ELSE IF byPath # {} THEN byPath ELSE byBase)
  BY DEF LookupCompile
<1>6. Latest({k}) = {k}
  BY <1>1, OnlyLatest
<1>7. CASE cwdKnown /\ ran[k].cwd \o ran[k].out = ran[i].cwd \o o
  <2>1. byCwd = {k}
    BY <1>3, <1>7
  <2> HIDE DEF byCwd, byPath, byBase
  <2>2. QED
    BY <1>5, <1>6, <2>1
<1>8. CASE ran[k].out = o /\ \A h \in Compiles \ {k} : ran[h].out # o
  <2>1. byPath = {k}
    BY <1>8
  <2> HIDE DEF byCwd, byPath, byBase
  <2>2. byCwd = {} \/ byCwd = {k}
    BY <1>3
  <2>3. QED
    BY <1>5, <1>6, <2>1, <2>2
<1>9. CASE \A h \in Compiles \ {k} : Base(ran[h].out) # Base(o)
  <2>1. byBase = {k}
    BY <1>4, <1>9
  <2>2. byPath \subseteq {k}
    BY <1>9
  <2> HIDE DEF byCwd, byPath, byBase
  <2>3. (byCwd = {} \/ byCwd = {k}) /\ (byPath = {} \/ byPath = {k})
    BY <1>3, <2>2
  <2>4. QED
    BY <1>5, <1>6, <2>1, <2>3
<1>10. QED
  BY <1>7, <1>8, <1>9

\* What a rule is made from.
From(i) ==
    (UNION {LookupCompile(ran[i].cwd, o) : o \in ran[i].objs}) \cup IF ran[i].kind = "link" THEN {i} ELSE {}

\* What a recovered rule consists of.
LEMMA RuleSays ==
  ASSUME NEW i
  PROVE  /\ RuleFrom(i).kind = IF ran[i].kind = "archive" THEN "cc_library" ELSE "cc_binary"
         /\ RuleFrom(i).name = NameOf(i)
         /\ RuleFrom(i).srcs = UNION {ran[k].srcs : k \in From(i)}
         /\ RuleFrom(i).defines = UNION {ran[k].defines : k \in From(i)}
         /\ RuleFrom(i).deps = DepsOfLink(ran[i].libs)
BY DEF RuleFrom, From

\* The deps of a link on the element's own libraries: those -l names that some
\* archive of the trace has.
LEMMA LocalDeps ==
  ASSUME NEW libs
  PROVE  /\ {d \in DepsOfLink(libs) : d[1] = "local"} = {<<"local", n>> : n \in {l \in libs : Archived(l)}}
         /\ \A d \in DepsOfLink(libs) : d[1] = "local" => d[2] \in libs /\ Archived(d[2])
         /\ \A n \in libs : Archived(n) => \E d \in DepsOfLink(libs) : d[1] = "local" /\ d[2] = n
<1>1. \A d \in {<<"import", n>> : n \in {l \in libs \cap LinkImports : ~Archived(l)}} : d[1] # "local"
  OBVIOUS
<1>2. \A d \in {<<"local", n>> : n \in {l \in libs : Archived(l)}} :
        d[1] = "local" /\ d[2] \in libs /\ Archived(d[2])
  OBVIOUS
<1>3. \A n \in libs : Archived(n) => <<"local", n>> \in {<<"local", m>> : m \in {l \in libs : Archived(l)}}
  OBVIOUS
<1>4. QED
  BY <1>1, <1>2, <1>3 DEF DepsOfLink

\* RecoveredAsBuilt for every build: whatever makes ran at once and in whatever
\* order their lines came, a product that the trace tells apart becomes the rule
\* with the sources, defines and libraries it was built from.
THEOREM RecoveryHolds == TraceRulesSpec => []RecoveredAsBuilt
<1>1. TraceRulesInv => RecoveredAsBuilt
  <2> SUFFICES ASSUME TraceRulesInv, recovered # NotYet, NEW i \in Artifacts,
                      \A o \in ran[i].objs : ToldApart(i, o),
                      OnlyBy(i, Product(ran[i])), LinkedByName(i)
               PROVE  /\ i \in DOMAIN recovered
                      /\ recovered[i].srcs = UNION {ran[k].srcs : k \in disk[Product(ran[i])]}
                      /\ recovered[i].defines = UNION {ran[k].defines : k \in disk[Product(ran[i])]}
                      /\ {d \in recovered[i].deps : d[1] = "local"} =
                           {<<"local", LibraryName[Base(u)]>> : u \in ran[i].uses}
    BY DEF RecoveredAsBuilt
  <2>1. recovered = BuildRules
    BY DEF TraceRulesInv
  <2>2. i \in DOMAIN ran /\ ran[i].kind \in {"archive", "link"} /\ ran[i].seen
    BY DEF Artifacts, Events
  <2>3. \A o \in ran[i].objs : \E k \in Compiles :
          OnlyBy(k, Resolve(ran[i].cwd, o)) /\ LookupCompile(ran[i].cwd, o) = {k}
    BY <2>2, FoundApart DEF ToldApart
  <2>4. disk[Product(ran[i])] = Members(i) \cup IF ran[i].kind = "link" THEN {i} ELSE {}
    <3>1. \A o \in ran[i].objs : MadeOnce(i, o)
      BY <2>3 DEF MadeOnce
    <3>2. QED
      BY <3>1 DEF TraceRulesInv, DiskInv
  <2>5. (UNION {LookupCompile(ran[i].cwd, o) : o \in ran[i].objs}) = Members(i)
    <3>1. ASSUME NEW o \in ran[i].objs, NEW k \in LookupCompile(ran[i].cwd, o) PROVE k \in Members(i)
      BY <2>3, <3>1 DEF Members
    <3>2. ASSUME NEW k \in Members(i) PROVE \E o \in ran[i].objs : k \in LookupCompile(ran[i].cwd, o)
      <4>1. PICK o \in ran[i].objs : OnlyBy(k, Resolve(ran[i].cwd, o))
        BY <3>2 DEF Members
      <4>2. PICK h \in Compiles : OnlyBy(h, Resolve(ran[i].cwd, o)) /\ LookupCompile(ran[i].cwd, o) = {h}
        BY <2>3
      <4>3. h = k
        BY <4>1, <4>2 DEF OnlyBy
      <4>4. QED
        BY <4>2, <4>3
    <3>3. QED
      BY <3>1, <3>2
  <2>6. From(i) = disk[Product(ran[i])]
    BY <2>4, <2>5 DEF From
  <2>7. RuleFrom(i).srcs # {}
    <3>1. IsEvent(ran[i])
      BY <2>2, RanCommands DEF IsCommand
    <3>2. CASE ran[i].objs # {}
      <4>1. PICK o \in ran[i].objs : TRUE
        BY <3>2
      <4>2. PICK k \in Compiles : LookupCompile(ran[i].cwd, o) = {k}
        BY <2>3
      <4>3. k \in DOMAIN ran /\ ran[k].kind = "compile" /\ ran[k].seen
        BY DEF Compiles, Events
      <4>4. ran[k].srcs # {}
        BY <4>3, RanCommands DEF IsCommand, IsEvent
      <4>5. k \in From(i)
        BY <4>2 DEF From
      <4>6. QED
        BY <4>4, <4>5, RuleSays
    <3>3. CASE ran[i].objs = {}
      <4>1. ran[i].kind = "link" /\ ran[i].srcs # {}
        BY <2>2, <3>1, <3>3 DEF IsEvent
      <4>2. i \in From(i)
        BY <4>1 DEF From
      <4>3. QED
        BY <4>1, <4>2, RuleSays
    <3>4. QED
      BY <3>2, <3>3
  <2>8. i \in DOMAIN recovered /\ recovered[i] = RuleFrom(i)
    BY <2>1, <2>7 DEF BuildRules
  <2>9. {d \in recovered[i].deps : d[1] = "local"} = {<<"local", LibraryName[Base(u)]>> : u \in ran[i].uses}
    <3>1. {d \in recovered[i].deps : d[1] = "local"} = {<<"local", n>> : n \in {l \in ran[i].libs : Archived(l)}}
      BY <2>8, RuleSays, LocalDeps
    <3>2. {l \in ran[i].libs : Archived(l)} = {LibraryName[Base(u)] : u \in ran[i].uses}
      BY DEF LinkedByName
    <3>3. QED
      BY <3>1, <3>2
  <2>10. QED
    BY <2>6, <2>8, <2>9, RuleSays
<1>2. QED
  BY <1>1, DisksKnown, PTL

\* What shows in the trace has sources, and nothing else has.
LEMMA ShownHasSources ==
  ASSUME TraceRulesInv, NEW i \in Artifacts
  PROVE  RuleFrom(i).srcs # {} <=> Shows(i)
<1>1. i \in DOMAIN ran /\ ran[i].kind \in {"archive", "link"} /\ ran[i].seen
  BY DEF Artifacts, Events
<1>2. \A k \in Compiles : k \in DOMAIN ran /\ ran[k].kind = "compile" /\ ran[k].srcs # {}
  BY RanCommands DEF Compiles, Events, IsCommand, IsEvent
<1>3. ASSUME NEW o \in ran[i].objs
      PROVE  /\ LookupCompile(ran[i].cwd, o) \subseteq Compiles
             /\ LookupCompile(ran[i].cwd, o) # {} <=> \E k \in Compiles : Base(ran[k].out) = Base(o)
  <2> DEFINE byCwd  == {h \in Compiles : cwdKnown /\ ran[h].cwd \o ran[h].out = ran[i].cwd \o o}
             byPath == {h \in Compiles : ran[h].out = o}
             byBase == {h \in Compiles : Base(ran[h].out) = Base(o)}
             found  == IF byCwd # {} THEN byCwd ELSE IF byPath # {} THEN byPath ELSE byBase
  <2>1. LookupCompile(ran[i].cwd, o) = Latest(found)
    BY DEF LookupCompile
  <2>2. byCwd \subseteq byBase
    BY <1>1, <1>2, SameProduct
  <2>3. byPath \subseteq byBase
    OBVIOUS
  <2>4. found \subseteq byBase /\ (found # {} <=> byBase # {})
    BY <2>2, <2>3
  <2>5. found \subseteq 1..Len(ran) /\ Len(ran) \in Nat
    BY <1>2, <2>4, RanCommands
  <2>6. byBase # {} <=> \E k \in Compiles : Base(ran[k].out) = Base(o)
    OBVIOUS
  <2>7. byBase \subseteq Compiles
    OBVIOUS
  <2> HIDE DEF found, byBase
  <2>8. Latest(found) # {} <=> found # {}
    <3>1. found = {} => Latest(found) = {}
      BY DEF Latest
    <3>2. QED
      BY <2>5, <3>1, SomeLatest
  <2>9. Latest(found) \subseteq found
    BY DEF Latest
  <2>10. QED
    BY <2>1, <2>4, <2>6, <2>7, <2>8, <2>9
<1>4. ran[i].srcs # {} => ran[i].kind = "link"
  BY <1>1, RanCommands DEF IsCommand, IsEvent
<1>5. ASSUME RuleFrom(i).srcs # {} PROVE Shows(i)
  <2>1. PICK k \in From(i) : ran[k].srcs # {}
    BY <1>5, RuleSays
  <2>2. CASE k = i
    BY <2>1, <2>2 DEF Shows
  <2>3. CASE \E o \in ran[i].objs : k \in LookupCompile(ran[i].cwd, o)
    BY <1>3, <2>3 DEF Shows
  <2>4. QED
    BY <2>2, <2>3 DEF From
<1>6. ASSUME Shows(i) PROVE RuleFrom(i).srcs # {}
  <2>1. CASE ran[i].srcs # {}
    <3>1. i \in From(i)
      BY <1>4, <2>1 DEF From
    <3>2. QED
      BY <2>1, <3>1, RuleSays
  <2>2. CASE \E o \in ran[i].objs, k \in Compiles : Base(ran[k].out) = Base(o)
    <3>1. PICK o \in ran[i].objs : LookupCompile(ran[i].cwd, o) # {}
      BY <1>3, <2>2
    <3>2. PICK k \in LookupCompile(ran[i].cwd, o) : k \in Compiles
      BY <1>3, <3>1
    <3>3. k \in From(i) /\ ran[k].srcs # {}
      BY <1>2, <3>2 DEF From
    <3>4. QED
      BY <3>3, RuleSays
  <2>3. QED
    BY <1>6, <2>1, <2>2 DEF Shows
<1>7. QED
  BY <1>5, <1>6

\* RulesLoad for every build: the rules load in Bazel exactly when no name was
\* built twice and some source of each archive that is linked shows.
THEOREM LoadingHolds == TraceRulesSpec => []RulesLoad
<1>1. TraceRulesInv => RulesLoad
  <2> SUFFICES ASSUME TraceRulesInv, recovered # NotYet
               PROVE  PackageOfRulesLoads <=>
                        /\ \A i, j \in {a \in Artifacts : Shows(a)} : NameOf(i) = NameOf(j) => i = j
                        /\ \A i \in Events({"link"}) : Shows(i) =>
                             \A n \in {l \in ran[i].libs : Archived(l)} :
                               \E a \in Events({"archive"}) : NameOf(a) = n /\ Shows(a)
    BY DEF RulesLoad
  <2> DEFINE shown == {a \in Artifacts : Shows(a)}
  <2>1. DOMAIN recovered = shown
    BY ShownHasSources DEF TraceRulesInv, BuildRules
  <2>2. \A i \in shown : recovered[i] = RuleFrom(i)
    BY ShownHasSources DEF TraceRulesInv, BuildRules
  <2>3. /\ \A i : i \in Events({"archive"}) <=> i \in Artifacts /\ ran[i].kind = "archive"
        /\ \A i : i \in Events({"link"}) <=> i \in Artifacts /\ ran[i].kind = "link"
        /\ \A i \in Artifacts : i \in DOMAIN ran /\ ran[i].kind \in {"archive", "link"} /\ ran[i].seen
    BY DEF Artifacts, Events
  <2>4. \A i \in Artifacts : ran[i].kind = "archive" => ran[i].libs = {}
    BY <2>3, RanCommands DEF IsCommand, IsEvent
  <2> DEFINE Built(n) == \E j \in shown : recovered[j].kind = "cc_library" /\ recovered[j].name = n
  <2>5. \A n : Built(n) <=> \E a \in Events({"archive"}) : NameOf(a) = n /\ Shows(a)
    BY <2>2, <2>3, RuleSays
  <2>6. ASSUME NEW i \in shown
        PROVE  (\A d \in recovered[i].deps : d[1] = "local" => Built(d[2]))
                 <=> \A n \in {l \in ran[i].libs : Archived(l)} : Built(n)
    <3>1. recovered[i].deps = DepsOfLink(ran[i].libs)
      BY <2>2, RuleSays
    <3> HIDE DEF Built
    <3>2. QED
      BY <3>1, LocalDeps
  <2>7. (\A i \in shown : \A n \in {l \in ran[i].libs : Archived(l)} : Built(n)) <=>
          \A i \in Events({"link"}) : Shows(i) => \A n \in {l \in ran[i].libs : Archived(l)} : Built(n)
    <3> HIDE DEF Built
    <3>1. QED
      BY <2>3, <2>4
  <2>8. (\A i, j \in shown : recovered[i].name = recovered[j].name => i = j) <=>
          \A i, j \in shown : NameOf(i) = NameOf(j) => i = j
    BY <2>2, RuleSays
  <2>9. PackageOfRulesLoads <=>
          /\ \A i, j \in shown : recovered[i].name = recovered[j].name => i = j
          /\ \A i \in shown : \A d \in recovered[i].deps : d[1] = "local" => Built(d[2])
    BY <2>1 DEF PackageOfRulesLoads
  <2>10. QED
    <3> HIDE DEF Built
    <3>1. QED
      BY <2>5, <2>6, <2>7, <2>8, <2>9
<1>2. QED
  BY <1>1, DisksKnown, PTL

(***************************************************************************)
(* fold-element.                                                           *)
(***************************************************************************)

\* Each platform has one of its keys, and none has another's.
KeysPicked ==
    /\ \A p \in DOMAIN element.platforms : keys[p] \in SelectKeys(p)
    /\ Distinct

\* What is known of an element that was read, of its keys, and of the target.
FoldInv ==
    /\ folding # "idle" => element \in FoldInputs
    /\ folding \in {"fold", "folded"} => KeysPicked
    /\ folding = "folded" => /\ ~DefaultDiverges
                             /\ merged = [srcs |-> FoldSrcs, copts |-> FoldCopts, path |-> FoldPath]

\* What depends on the element and its keys only.
LEMMA FoldReads ==
    ASSUME UNCHANGED <<element, keys>>
    PROVE  /\ UNCHANGED <<KeysPicked, DefaultDiverges>>
           /\ UNCHANGED <<FoldSrcs, FoldCopts, FoldPath>>
<1>1. element' = element /\ keys' = keys
  OBVIOUS
<1>2. UNCHANGED <<KeysPicked, DefaultDiverges>>
  BY <1>1 DEF KeysPicked, Distinct, SelectKeys, Unique, DefaultDiverges, Present, Own, Agreed, FirstCell,
              Carries, srcs, copts, Srcs, Copts, Arms, SameArm
<1>3. UNCHANGED <<FoldSrcs, FoldCopts, FoldPath>>
  BY <1>1 DEF FoldSrcs, SrcsArm, FoldCopts, SameFlat, OwnArms, CoptsArm, FoldPath, Present, Phantom,
              Own, Agreed, FirstCell, Carries, srcs, copts, Srcs, Copts, Path, Arms, SameArm, Baseline,
              Delta, Claimed, NonEmpty
<1>4. QED
  BY <1>2, <1>3

\* A folded target was folded from the element that was read, under the keys that
\* were picked, and no default arm diverges.
THEOREM FoldsKnown == FoldSpec => []FoldInv
<1>1. FoldInit => FoldInv
  BY DEF FoldInit, FoldInv
<1>2. FoldInv /\ [FoldNext]_foldVars => FoldInv'
  <2> SUFFICES ASSUME FoldInv, [FoldNext]_foldVars
               PROVE  FoldInv'
    OBVIOUS
  <2>1. ASSUME NEW in \in FoldInputs, ReadCells(in)
        PROVE  FoldInv'
    BY <2>1 DEF ReadCells, FoldInv
  <2>2. CASE PickSelectKeys
    <3>1. \A p \in DOMAIN element.platforms : keys'[p] \in SelectKeys(p)
      BY <2>2 DEF PickSelectKeys
    <3>2. KeysPicked'
      BY <2>2, <3>1 DEF PickSelectKeys, KeysPicked, Distinct, SelectKeys, Unique
    <3>3. QED
      BY <2>2, <3>2 DEF PickSelectKeys, FoldInv
  <2>3. CASE RefuseKeys
    BY <2>3 DEF RefuseKeys, FoldInv
  <2>4. CASE RefuseTarget
    BY <2>4 DEF RefuseTarget, FoldInv
  <2>5. CASE FoldTarget
    BY <2>5, FoldReads DEF FoldTarget, FoldInv
  <2>6. CASE UNCHANGED foldVars
    BY <2>6, FoldReads DEF foldVars, FoldInv
  <2>7. QED
    BY <2>1, <2>2, <2>3, <2>4, <2>5, <2>6 DEF FoldNext
<1>3. QED
  BY <1>1, <1>2, PTL DEF FoldSpec

\* A folded element whose keys tell its platforms apart.
Folded ==
    /\ element \in FoldInputs
    /\ KeysPicked
    /\ KeysTellApart
    /\ ~DefaultDiverges

\* The labels that hold on a platform.
Labels(p, on) == element.platforms[p].constraints \cup {keys[p]} \cup on

\* The cell that the others are compared with is one of them.
LEMMA FirstIsPresent ==
    ASSUME element \in FoldInputs
    PROVE  FirstCell \in Present
BY FoldInputsAssumption DEF FirstCell, Present

\* No key is an option's label or the default, and no two platforms have one.
LEMMA KeysAreOwn ==
    ASSUME Folded, NEW p \in DOMAIN element.platforms, NEW q \in DOMAIN element.platforms
    PROVE  /\ keys[p] \notin DOMAIN FlagOf /\ keys[p] # Default
           /\ keys[p] = keys[q] => p = q
<1>1. keys[p] \in SelectKeys(p) /\ keys[q] \in SelectKeys(q)
  BY DEF Folded, KeysPicked
<1>2. keys[p] \in element.platforms[p].constraints \cup {element.platforms[p].select}
  BY <1>1 DEF SelectKeys, Unique
<1>3. (element.platforms[p].constraints \cup {element.platforms[p].select}) \cap (DOMAIN FlagOf \cup {Default}) = {}
  BY FoldInputsAssumption DEF Folded
<1>4. p # q => SelectKeys(p) \cap SelectKeys(q) = {}
  BY DEF Folded, KeysPicked, Distinct
<1>5. QED
  BY <1>1, <1>2, <1>3, <1>4

\* On a platform hold its own key, no other's, the options that are on, at most
\* one of a flag, and never the default.
LEMMA WhatHolds ==
    ASSUME Folded, NEW p \in DOMAIN element.platforms, NEW on \in Settings
    PROVE  /\ \A q \in DOMAIN element.platforms : keys[q] \in Labels(p, on) <=> q = p
           /\ Default \notin Labels(p, on)
           /\ Labels(p, on) \cap DOMAIN FlagOf = on
           /\ \A l, k \in Labels(p, on) :
                l \in DOMAIN FlagOf /\ k \in DOMAIN FlagOf /\ FlagOf[l] = FlagOf[k] => l = k
<1>1. on \subseteq DOMAIN FlagOf /\ \A l, k \in on : FlagOf[l] = FlagOf[k] => l = k
  BY DEF Settings
<1>2. element.platforms[p].constraints \cap (DOMAIN FlagOf \cup {Default}) = {}
  BY FoldInputsAssumption DEF Folded
<1>3. \A q \in DOMAIN element.platforms : q # p => keys[q] \notin element.platforms[p].constraints
  BY DEF Folded, KeysTellApart
<1>4. QED
  BY <1>1, <1>2, <1>3, KeysAreOwn, FlagsAssumption DEF Labels

\* A plain arm holds with its label, a group with its platform's key too.
LEMMA HoldsAtLabels ==
    ASSUME NEW p, NEW on, NEW l, NEW q
    PROVE  /\ Holds(<<l>>, p, on) <=> l \in Labels(p, on)
           /\ Holds(<<l, q>>, p, on) <=> l \in Labels(p, on) /\ keys[q] \in Labels(p, on)
<1>1. <<l>>[1] = l /\ Len(<<l>>) = 1 /\ <<l, q>>[1] = l /\ <<l, q>>[2] = q /\ Len(<<l, q>>) = 2
  OBVIOUS
<1>2. QED
  BY <1>1 DEF Holds, Labels

\* A label's own arm and its groups are in different select()s.
LEMMA Families ==
    ASSUME NEW l, NEW k, NEW p, NEW q
    PROVE  /\ Family(<<l>>) = IF l \in DOMAIN FlagOf THEN <<FlagOf[l]>> ELSE <<>>
           /\ Family(<<l, p>>) = <<IF l \in DOMAIN FlagOf THEN FlagOf[l] ELSE l, "platform">>
           /\ Family(<<l>>) # Family(<<k, q>>)
           /\ <<l>> # <<k, q>>
<1>1. <<l>>[1] = l /\ Len(<<l>>) = 1 /\ <<l, p>>[1] = l /\ Len(<<l, p>>) = 2
  OBVIOUS
<1>2. <<k, q>>[1] = k /\ Len(<<k, q>>) = 2
  OBVIOUS
<1>3. Family(<<l>>) = IF l \in DOMAIN FlagOf THEN <<FlagOf[l]>> ELSE <<>>
  BY <1>1 DEF Family
<1>4. Family(<<l, p>>) = <<IF l \in DOMAIN FlagOf THEN FlagOf[l] ELSE l, "platform">>
  BY <1>1 DEF Family
<1>5. Family(<<k, q>>) = <<IF k \in DOMAIN FlagOf THEN FlagOf[k] ELSE k, "platform">>
  BY <1>2 DEF Family
<1>6. Len(Family(<<l>>)) # 2 /\ Len(Family(<<k, q>>)) = 2
  BY <1>3, <1>5
<1>7. QED
  BY <1>1, <1>2, <1>3, <1>4, <1>6

\* The default arm is in the select() of the labels that are no option's.
LEMMA DefaultFamily ==
    ASSUME NEW l
    PROVE  /\ Family(<<Default>>) = <<>>
           /\ Family(<<l>>) = <<>> <=> l \notin DOMAIN FlagOf
<1>1. \A x : <<x>> # <<>>
  OBVIOUS
<1>2. \A k : Family(<<k>>) = IF k \in DOMAIN FlagOf THEN <<FlagOf[k]>> ELSE <<>>
  BY Families
<1>3. QED
  BY <1>1, <1>2, FlagsAssumption

\* An arm that its select() takes: one that holds, or the default if none does.
Takes(arms, a, p, on) ==
    /\ a \in DOMAIN arms
    /\ IF a = <<Default>> THEN \A b \in DOMAIN arms \ {a} : Family(b) = Family(a) => ~Holds(b, p, on)
       ELSE Holds(a, p, on)

\* What a select() selects is what is taken of its family.
LEMMA SelectedAreTaken ==
    ASSUME NEW arms, NEW p, NEW on, NEW f, NEW a
    PROVE  a \in Selected(arms, f, p, on) <=> Takes(arms, a, p, on) /\ Family(a) = f
BY DEF Selected, Takes

\* What all select()s select together is what is taken, and they are ambiguous
\* when two arms of one family are.
LEMMA AllTaken ==
    ASSUME NEW arms, NEW p, NEW on
    PROVE  /\ \A a : a \in UNION {Selected(arms, f, p, on) : f \in SelectsOf(arms)} <=> Takes(arms, a, p, on)
           /\ Ambiguous(arms, p, on) <=>
                \E a, b : Takes(arms, a, p, on) /\ Takes(arms, b, p, on) /\ Family(a) = Family(b) /\ a # b
<1>1. \A a : Takes(arms, a, p, on) => Family(a) \in SelectsOf(arms)
  BY DEF Takes, SelectsOf
<1>2. QED
  BY <1>1, SelectedAreTaken DEF Ambiguous

\* The arms of the cells: of one label each, and none is empty.
LEMMA CellArms ==
    ASSUME element \in FoldInputs, NEW p \in Present
    PROVE  /\ p \in DOMAIN element.platforms
           /\ \A a : Carries(srcs, p, a) # {} <=> a \in DOMAIN Srcs(p).arms
           /\ \A a \in DOMAIN Srcs(p).arms :
                /\ IsArm(a)
                /\ Carries(srcs, p, a) = Srcs(p).arms[a]
                /\ Srcs(p).arms[a] \cap Srcs(p).flat = {}
           /\ \A a, b \in DOMAIN Srcs(p).arms :
                a[1] \in DOMAIN FlagOf /\ b[1] \notin DOMAIN FlagOf => Srcs(p).arms[a] \cap Srcs(p).arms[b] = {}
<1>1. srcs[p] = Srcs(p) /\ Srcs(p) = element.cells[p].srcs
  BY DEF srcs, Srcs
<1>2. p \in DOMAIN element.cells /\ DOMAIN element.cells \subseteq DOMAIN element.platforms
  BY FoldInputsAssumption DEF Present
<1>3. /\ \A a \in DOMAIN Srcs(p).arms :
           IsArm(a) /\ Srcs(p).arms[a] # {} /\ Srcs(p).arms[a] \cap Srcs(p).flat = {}
      /\ \A a, b \in DOMAIN Srcs(p).arms :
           a[1] \in DOMAIN FlagOf /\ b[1] \notin DOMAIN FlagOf => Srcs(p).arms[a] \cap Srcs(p).arms[b] = {}
  BY <1>1, <1>2, FoldInputsAssumption
<1>4. \A a : Carries(srcs, p, a) = IF a \in DOMAIN Srcs(p).arms THEN Srcs(p).arms[a] ELSE {}
  BY <1>1 DEF Carries
<1>5. QED
  BY <1>2, <1>3, <1>4

\* What a plain arm of the folded target has.
Plain(l) == Agreed(<<l>>) \cup UNION {Delta(q) : q \in {r \in Present : <<keys[r]>> = <<l>>}}

\* The arms of the folded sources, and what each has.
LEMMA FoldedArms ==
    ASSUME element \in FoldInputs
    PROVE  LET arms == FoldSrcs.arms IN
           /\ FoldSrcs.flat = Baseline
           /\ \A a \in DOMAIN arms : (\E l : a = <<l>>) \/ (\E l, q : a = <<l, q>>)
           /\ \A l : <<l>> \in DOMAIN arms <=> Plain(l) # {}
           /\ \A l : Plain(l) # {} => arms[<<l>>] = Plain(l)
           /\ \A l, q : <<l, q>> \in DOMAIN arms <=> q \in Present /\ Own(<<l>>, q) # {}
           /\ \A l, q : q \in Present /\ Own(<<l>>, q) # {} => arms[<<l, q>>] = Own(<<l>>, q)
<1> DEFINE plain == Arms(srcs) \cup {<<keys[p]>> : p \in Present}
           groups == {<<a[1], p>> : a \in Arms(srcs), p \in Present}
           whole == [a \in plain \cup groups |-> SrcsArm(a)]
           arms == FoldSrcs.arms
<1>1. FoldSrcs.flat = Baseline /\ arms = NonEmpty(whole, {})
  <2>1. FoldSrcs = [flat |-> Baseline, arms |-> NonEmpty(whole, {})]
    BY DEF FoldSrcs
  <2> HIDE DEF whole
  <2>2. QED
    BY <2>1
<1>2. /\ DOMAIN arms = {a \in plain \cup groups : SrcsArm(a) # {}}
      /\ \A a \in DOMAIN arms : arms[a] = SrcsArm(a)
  <2> HIDE DEF plain, groups, arms
  <2>1. DOMAIN whole = plain \cup groups /\ \A a \in plain \cup groups : whole[a] = SrcsArm(a)
    OBVIOUS
  <2> HIDE DEF whole
  <2>2. /\ DOMAIN arms = {a \in DOMAIN whole : whole[a] # {}}
        /\ \A a \in DOMAIN arms : arms[a] = whole[a]
    BY <1>1 DEF NonEmpty
  <2>3. QED
    BY <2>1, <2>2
<1>3. \A a : a \in Arms(srcs) <=> \E p \in Present : a \in DOMAIN Srcs(p).arms
  BY DEF Arms, srcs
<1>4. \A a \in Arms(srcs) : a = <<a[1]>>
  BY <1>3, CellArms DEF IsArm
<1>5. \A l : SrcsArm(<<l>>) = Plain(l)
  <2>1. \A l : Len(<<l>>) # 2
    OBVIOUS
  <2>2. QED
    BY <2>1 DEF Plain, SrcsArm
<1>6. \A l, q : SrcsArm(<<l, q>>) = Own(<<l>>, q)
  <2>1. \A l, q : Len(<<l, q>>) = 2 /\ <<l, q>>[1] = l /\ <<l, q>>[2] = q
    OBVIOUS
  <2>2. QED
    BY <2>1 DEF SrcsArm
<1>7. \A l : Plain(l) # {} => <<l>> \in plain
  <2> SUFFICES ASSUME NEW l, NEW i \in Plain(l), <<l>> \notin {<<keys[p]>> : p \in Present}
               PROVE  <<l>> \in Arms(srcs)
    OBVIOUS
  <2>1. i \in Agreed(<<l>>)
    BY DEF Plain
  <2>2. i \in Carries(srcs, FirstCell, <<l>>)
    BY <2>1 DEF Agreed
  <2>3. QED
    BY <2>2, <1>3, CellArms, FirstIsPresent
<1>8. \A l, q : <<l, q>> \in groups <=> <<l>> \in Arms(srcs) /\ q \in Present
  <2>1. \A l, q, a, p : <<l, q>> = <<a[1], p>> <=> l = a[1] /\ q = p
    OBVIOUS
  <2>2. \A l : <<l>>[1] = l
    OBVIOUS
  <2>3. QED
    BY <2>1, <2>2, <1>4
<1>9. \A l, q : q \in Present /\ Own(<<l>>, q) # {} => <<l>> \in Arms(srcs)
  BY <1>3, CellArms DEF Own
<1>10. \A l : <<l>> \notin groups
  BY Families
<1>11. \A l, q : <<l, q>> \notin plain
  BY Families, <1>4
<1>12. \A a \in DOMAIN arms : (\E l : a = <<l>>) \/ (\E l, q : a = <<l, q>>)
  BY <1>2, <1>4
<1> HIDE DEF plain, groups, arms
<1>13. \A l : <<l>> \in DOMAIN arms <=> Plain(l) # {}
  BY <1>2, <1>5, <1>7
<1>14. \A l : Plain(l) # {} => arms[<<l>>] = Plain(l)
  BY <1>2, <1>5, <1>13
<1>15. \A l, q : <<l, q>> \in DOMAIN arms <=> q \in Present /\ Own(<<l>>, q) # {}
  BY <1>2, <1>6, <1>8, <1>9, <1>11
<1>16. \A l, q : q \in Present /\ Own(<<l>>, q) # {} => arms[<<l, q>>] = Own(<<l>>, q)
  BY <1>2, <1>6, <1>15
<1>17. QED
  BY <1>1, <1>12, <1>13, <1>14, <1>15, <1>16 DEF arms

\* On a platform an arm has what the cells agree on, and under its own key what
\* the platform has beside it.
LEMMA PlainHere ==
    ASSUME Folded, NEW p \in DOMAIN element.platforms, NEW on \in Settings
    PROVE  \A l \in Labels(p, on) \cup {Default} :
             Plain(l) = Agreed(<<l>>) \cup IF l = keys[p] /\ p \in Present THEN Delta(p) ELSE {}
<1> SUFFICES ASSUME NEW l \in Labels(p, on) \cup {Default}
             PROVE  Plain(l) = Agreed(<<l>>) \cup IF l = keys[p] /\ p \in Present THEN Delta(p) ELSE {}
  OBVIOUS
<1>1. Present \subseteq DOMAIN element.platforms
  BY CellArms DEF Folded
<1>2. \A r \in Present : keys[r] = l <=> r = p /\ keys[p] = l
  BY <1>1, WhatHolds, KeysAreOwn
<1>3. \A r : <<keys[r]>> = <<l>> <=> keys[r] = l
  OBVIOUS
<1>4. {r \in Present : <<keys[r]>> = <<l>>} = IF l = keys[p] /\ p \in Present THEN {p} ELSE {}
  BY <1>2, <1>3
<1>5. QED
  BY <1>4 DEF Plain

\* The arms that are taken: of the options that are on, one of the labels that
\* hold, or the default.
LEMMA CellTakes ==
    ASSUME Folded, NEW p \in Present, NEW on \in Settings, NEW a
    PROVE  Takes(Srcs(p).arms, a, p, on) <=>
             \E l : /\ a = <<l>> /\ Carries(srcs, p, a) # {}
                    /\ \/ l \in Labels(p, on)
                       \/ l = Default /\ \A m \in Labels(p, on) \ DOMAIN FlagOf : Carries(srcs, p, <<m>>) = {}
<1> DEFINE arms == Srcs(p).arms
<1>1. p \in DOMAIN element.platforms /\ \A b : b \in DOMAIN arms <=> Carries(srcs, p, b) # {}
  BY CellArms DEF Folded
<1>2. \A b \in DOMAIN arms : b = <<b[1]>>
  BY CellArms DEF Folded, IsArm
<1>3. \A l : Holds(<<l>>, p, on) <=> l \in Labels(p, on)
  BY HoldsAtLabels
<1>4. \A l : Family(<<l>>) = Family(<<Default>>) <=> l \notin DOMAIN FlagOf
  BY DefaultFamily
<1>5. \A l, m : <<l>> = <<m>> <=> l = m
  OBVIOUS
<1>6. Default \notin Labels(p, on)
  BY <1>1, WhatHolds
<1> HIDE DEF arms
<1>7. CASE a = <<Default>>
  <2>1. Takes(arms, a, p, on) <=>
          a \in DOMAIN arms /\ \A b \in DOMAIN arms \ {a} : Family(b) = Family(a) => ~Holds(b, p, on)
    BY <1>7 DEF Takes
  <2>2. (\A b \in DOMAIN arms \ {a} : Family(b) = Family(a) => ~Holds(b, p, on)) <=>
          \A m \in Labels(p, on) \ DOMAIN FlagOf : <<m>> \notin DOMAIN arms
    BY <1>2, <1>3, <1>4, <1>5, <1>6, <1>7
  <2>3. QED
    BY <2>1, <2>2, <1>1, <1>5, <1>6, <1>7 DEF arms
<1>8. CASE a # <<Default>>
  <2>1. Takes(arms, a, p, on) <=> a \in DOMAIN arms /\ Holds(a, p, on)
    BY <1>8 DEF Takes
  <2>2. QED
    BY <2>1, <1>1, <1>2, <1>3, <1>5, <1>8 DEF arms
<1>9. QED
  BY <1>7, <1>8

\* The arms of the folded sources that a platform takes: of a label that holds, of
\* the default if no label of that select() holds, and groups of its own.
LEMMA FoldTakes ==
    ASSUME Folded, NEW p \in DOMAIN element.platforms, NEW on \in Settings, NEW a
    PROVE  Takes(FoldSrcs.arms, a, p, on) <=>
             \/ \E l : /\ a = <<l>> /\ Plain(l) # {}
                       /\ \/ l \in Labels(p, on)
                          \/ l = Default /\ \A m \in Labels(p, on) \ DOMAIN FlagOf : Plain(m) = {}
             \/ p \in Present /\ \E l \in Labels(p, on) : a = <<l, p>> /\ Own(<<l>>, p) # {}
<1> DEFINE arms == FoldSrcs.arms
<1>1. /\ \A b \in DOMAIN arms : (\E l : b = <<l>>) \/ (\E l, q : b = <<l, q>>)
      /\ \A l : <<l>> \in DOMAIN arms <=> Plain(l) # {}
      /\ \A l, q : <<l, q>> \in DOMAIN arms <=> q \in Present /\ Own(<<l>>, q) # {}
  BY FoldedArms DEF Folded
<1>2. \A l : Holds(<<l>>, p, on) <=> l \in Labels(p, on)
  BY HoldsAtLabels
<1>3. \A l, q : q \in Present => (Holds(<<l, q>>, p, on) <=> l \in Labels(p, on) /\ q = p)
  <2>1. \A q \in Present : q \in DOMAIN element.platforms
    BY CellArms DEF Folded
  <2>2. \A q \in Present : keys[q] \in Labels(p, on) <=> q = p
    BY <2>1, WhatHolds
  <2>3. QED
    BY <2>2, HoldsAtLabels
<1>4. \A l : Family(<<l>>) = Family(<<Default>>) <=> l \notin DOMAIN FlagOf
  BY DefaultFamily
<1>5. /\ \A l, m : <<l>> = <<m>> <=> l = m
      /\ \A l, m, q, r : <<l, q>> = <<m, r>> <=> l = m /\ q = r
  OBVIOUS
<1>6. \A l, m, q : <<l>> # <<m, q>> /\ Family(<<l>>) # Family(<<m, q>>)
  BY Families
<1>7. Default \notin Labels(p, on)
  BY WhatHolds
<1> HIDE DEF arms
<1>8. CASE a = <<Default>>
  <2>1. Takes(arms, a, p, on) <=>
          a \in DOMAIN arms /\ \A b \in DOMAIN arms \ {a} : Family(b) = Family(a) => ~Holds(b, p, on)
    BY <1>8 DEF Takes
  <2>2. (\A b \in DOMAIN arms \ {a} : Family(b) = Family(a) => ~Holds(b, p, on)) <=>
          \A m \in Labels(p, on) \ DOMAIN FlagOf : <<m>> \notin DOMAIN arms
    BY <1>1, <1>2, <1>4, <1>5, <1>6, <1>7, <1>8
  <2>3. /\ \A l : a = <<l>> <=> l = Default
        /\ \A l : a # <<l, p>>
        /\ a \in DOMAIN arms <=> Plain(Default) # {}
    BY <1>1, <1>5, <1>6, <1>8
  <2>4. \A m : <<m>> \notin DOMAIN arms <=> Plain(m) = {}
    BY <1>1
  <2>5. QED
    BY <2>1, <2>2, <2>3, <2>4, <1>7 DEF arms
<1>9. CASE a # <<Default>>
  <2>1. Takes(arms, a, p, on) <=> a \in DOMAIN arms /\ Holds(a, p, on)
    BY <1>9 DEF Takes
  <2>2. CASE \E l : a = <<l>>
    BY <2>1, <2>2, <1>1, <1>2, <1>5, <1>6, <1>9 DEF arms
  <2>3. CASE \E l, q : a = <<l, q>>
    <3>1. PICK l, q : a = <<l, q>>
      BY <2>3
    <3>2. Takes(arms, a, p, on) <=> q \in Present /\ Own(<<l>>, q) # {} /\ l \in Labels(p, on) /\ q = p
      BY <2>1, <3>1, <1>1, <1>3
    <3>3. \A m : a # <<m>>
      BY <3>1, <1>6
    <3>4. \A m, r : a = <<m, r>> <=> m = l /\ r = q
      BY <3>1, <1>5
    <3>5. (\E m \in Labels(p, on) : a = <<m, p>> /\ Own(<<m>>, p) # {})
            <=> l \in Labels(p, on) /\ q = p /\ Own(<<l>>, q) # {}
      <4>1. CASE q = p
        <5>1. a = <<l, p>> /\ \A m : a = <<m, p>> => m = l
          BY <3>1, <3>4, <4>1
        <5>2. QED
          BY <4>1, <5>1
      <4>2. CASE q # p
        <5>1. \A m : a # <<m, p>>
          BY <3>4, <4>2
        <5>2. QED
          BY <4>2, <5>1
      <4>3. QED
        BY <4>1, <4>2
    <3>6. QED
      BY <3>2, <3>3, <3>5 DEF arms
  <2>4. QED
    BY <2>1, <2>2, <2>3, <1>1 DEF arms
<1>10. QED
  BY <1>8, <1>9

\* The sources on a platform: the flat ones and those of the arms it takes.
LEMMA SrcsTaken ==
    ASSUME NEW attr, NEW p, NEW on, NEW i
    PROVE  i \in SrcsOn(attr, p, on) <=>
             i \in attr.flat \/ \E a : Takes(attr.arms, a, p, on) /\ i \in attr.arms[a]
<1> DEFINE taken == UNION {Selected(attr.arms, f, p, on) : f \in SelectsOf(attr.arms)}
<1>1. SrcsOn(attr, p, on) = attr.flat \cup UNION {attr.arms[a] : a \in taken}
  BY DEF SrcsOn
<1>2. \A a : a \in taken <=> Takes(attr.arms, a, p, on)
  BY AllTaken
<1> HIDE DEF taken
<1>3. QED
  BY <1>1, <1>2

\* What Bazel makes of a cell's sources and of the folded ones.
LEMMA CellSources ==
    ASSUME Folded, NEW p \in Present, NEW on \in Settings, NEW i
    PROVE  i \in SrcsOn(Srcs(p), p, on) <=>
             \/ i \in Srcs(p).flat
             \/ \E l \in Labels(p, on) : i \in Carries(srcs, p, <<l>>)
             \/ /\ i \in Carries(srcs, p, <<Default>>)
                /\ \A m \in Labels(p, on) \ DOMAIN FlagOf : Carries(srcs, p, <<m>>) = {}
<1>1. \A a : Carries(srcs, p, a) # {} => Carries(srcs, p, a) = Srcs(p).arms[a]
  BY CellArms DEF Folded
<1>2. i \in SrcsOn(Srcs(p), p, on) <=>
        i \in Srcs(p).flat \/ \E a : Takes(Srcs(p).arms, a, p, on) /\ i \in Srcs(p).arms[a]
  BY SrcsTaken
<1>3. \A a : Takes(Srcs(p).arms, a, p, on) /\ i \in Srcs(p).arms[a] <=>
             \E l : /\ a = <<l>> /\ i \in Carries(srcs, p, <<l>>)
                    /\ \/ l \in Labels(p, on)
                       \/ l = Default /\ \A m \in Labels(p, on) \ DOMAIN FlagOf : Carries(srcs, p, <<m>>) = {}
  <2> SUFFICES ASSUME NEW a
               PROVE  Takes(Srcs(p).arms, a, p, on) /\ i \in Srcs(p).arms[a] <=>
                        \E l : /\ a = <<l>> /\ i \in Carries(srcs, p, <<l>>)
                               /\ \/ l \in Labels(p, on)
                                  \/ l = Default /\ \A m \in Labels(p, on) \ DOMAIN FlagOf : Carries(srcs, p, <<m>>) = {}
    OBVIOUS
  <2>1. Takes(Srcs(p).arms, a, p, on) <=>
             \E l : /\ a = <<l>> /\ Carries(srcs, p, a) # {}
                    /\ \/ l \in Labels(p, on)
                       \/ l = Default /\ \A m \in Labels(p, on) \ DOMAIN FlagOf : Carries(srcs, p, <<m>>) = {}
    BY CellTakes
  <2>2. QED
    BY <2>1, <1>1
<1>4. QED
  BY <1>2, <1>3

\* The folded sources on a platform: the baseline, its delta, what all agree on in
\* the labels that hold, and its own part of them.
LEMMA FoldSources ==
    ASSUME Folded, NEW p \in DOMAIN element.platforms, NEW on \in Settings, NEW i
    PROVE  i \in SrcsOn(FoldSrcs, p, on) <=>
             \/ i \in Baseline
             \/ \E l \in Labels(p, on) : i \in Plain(l)
             \/ /\ i \in Plain(Default)
                /\ \A m \in Labels(p, on) \ DOMAIN FlagOf : Plain(m) = {}
             \/ p \in Present /\ \E l \in Labels(p, on) : i \in Own(<<l>>, p)
<1>1. /\ FoldSrcs.flat = Baseline
      /\ \A l : Plain(l) # {} => FoldSrcs.arms[<<l>>] = Plain(l)
      /\ \A l : p \in Present /\ Own(<<l>>, p) # {} => FoldSrcs.arms[<<l, p>>] = Own(<<l>>, p)
  BY FoldedArms DEF Folded
<1>2. i \in SrcsOn(FoldSrcs, p, on) <=>
        i \in Baseline \/ \E a : Takes(FoldSrcs.arms, a, p, on) /\ i \in FoldSrcs.arms[a]
  BY <1>1, SrcsTaken
<1>3. \A a : Takes(FoldSrcs.arms, a, p, on) /\ i \in FoldSrcs.arms[a] <=>
             \/ \E l : /\ a = <<l>> /\ i \in Plain(l)
                       /\ \/ l \in Labels(p, on)
                          \/ l = Default /\ \A m \in Labels(p, on) \ DOMAIN FlagOf : Plain(m) = {}
             \/ p \in Present /\ \E l \in Labels(p, on) : a = <<l, p>> /\ i \in Own(<<l>>, p)
  <2> SUFFICES ASSUME NEW a
               PROVE  Takes(FoldSrcs.arms, a, p, on) /\ i \in FoldSrcs.arms[a] <=>
                        \/ \E l : /\ a = <<l>> /\ i \in Plain(l)
                                  /\ \/ l \in Labels(p, on)
                                     \/ l = Default /\ \A m \in Labels(p, on) \ DOMAIN FlagOf : Plain(m) = {}
                        \/ p \in Present /\ \E l \in Labels(p, on) : a = <<l, p>> /\ i \in Own(<<l>>, p)
    OBVIOUS
  <2>1. Takes(FoldSrcs.arms, a, p, on) <=>
             \/ \E l : /\ a = <<l>> /\ Plain(l) # {}
                       /\ \/ l \in Labels(p, on)
                          \/ l = Default /\ \A m \in Labels(p, on) \ DOMAIN FlagOf : Plain(m) = {}
             \/ p \in Present /\ \E l \in Labels(p, on) : a = <<l, p>> /\ Own(<<l>>, p) # {}
    BY FoldTakes
  <2>2. QED
    BY <2>1, <1>1
<1>4. QED
  BY <1>2, <1>3

\* A select() is ambiguous when two labels hold that are no option's.
LEMMA FoldAmbiguous ==
    ASSUME Folded, NEW p \in DOMAIN element.platforms, NEW on \in Settings
    PROVE  Ambiguous(FoldSrcs.arms, p, on) <=>
             \E l, m \in Labels(p, on) \ DOMAIN FlagOf : l # m /\ Plain(l) # {} /\ Plain(m) # {}
<1> DEFINE T(a) == Takes(FoldSrcs.arms, a, p, on)
<1>1. Ambiguous(FoldSrcs.arms, p, on) <=> \E a, b : T(a) /\ T(b) /\ Family(a) = Family(b) /\ a # b
  BY AllTaken
<1>2. \A a : T(a) <=>
             \/ \E l : /\ a = <<l>> /\ Plain(l) # {}
                       /\ \/ l \in Labels(p, on)
                          \/ l = Default /\ \A m \in Labels(p, on) \ DOMAIN FlagOf : Plain(m) = {}
             \/ p \in Present /\ \E l \in Labels(p, on) : a = <<l, p>> /\ Own(<<l>>, p) # {}
  BY FoldTakes
<1> HIDE DEF T
<1>3. \A l, m \in Labels(p, on) :
        l \in DOMAIN FlagOf /\ m \in DOMAIN FlagOf /\ FlagOf[l] = FlagOf[m] => l = m
  BY WhatHolds
<1>4. /\ \A l, m : <<l>> = <<m>> <=> l = m
      /\ \A l : Family(<<l>>) = IF l \in DOMAIN FlagOf THEN <<FlagOf[l]>> ELSE <<>>
      /\ \A l : Family(<<l>>) = <<>> <=> l \notin DOMAIN FlagOf
      /\ \A l, m, q : Family(<<l>>) # Family(<<m, q>>)
  BY Families, DefaultFamily
<1>5. ASSUME NEW l \in Labels(p, on) \ DOMAIN FlagOf, NEW m \in Labels(p, on) \ DOMAIN FlagOf,
             l # m, Plain(l) # {}, Plain(m) # {}
      PROVE  \E a, b : T(a) /\ T(b) /\ Family(a) = Family(b) /\ a # b
  <2>1. T(<<l>>) /\ T(<<m>>)
    BY <1>2, <1>5
  <2>2. Family(<<l>>) = Family(<<m>>) /\ <<l>> # <<m>>
    BY <1>4, <1>5
  <2>3. QED
    BY <2>1, <2>2
<1> DEFINE Here(l) == l \in Labels(p, on) \/ (l = Default /\ \A m \in Labels(p, on) \ DOMAIN FlagOf : Plain(m) = {})
<1>6. \A l : T(<<l>>) => Plain(l) # {} /\ Here(l)
  <2>1. \A l, m : <<l>> # <<m, p>>
    BY Families
  <2> SUFFICES ASSUME NEW l, T(<<l>>)
               PROVE  Plain(l) # {} /\ Here(l)
    OBVIOUS
  <2>2. \/ \E k : <<l>> = <<k>> /\ Plain(k) # {} /\ Here(k)
        \/ p \in Present /\ \E k \in Labels(p, on) : <<l>> = <<k, p>> /\ Own(<<k>>, p) # {}
    BY <1>2
  <2>3. PICK k : <<l>> = <<k>> /\ Plain(k) # {} /\ Here(k)
    BY <2>1, <2>2
  <2>4. l = k
    BY <2>3
  <2>5. QED
    BY <2>3, <2>4
<1>7. \A a : T(a) => \/ \E l : a = <<l>>
                     \/ p \in Present /\ \E l \in Labels(p, on) : a = <<l, p>> /\ Own(<<l>>, p) # {}
  <2> SUFFICES ASSUME NEW a, T(a)
               PROVE  \/ \E l : a = <<l>>
                      \/ p \in Present /\ \E l \in Labels(p, on) : a = <<l, p>> /\ Own(<<l>>, p) # {}
    OBVIOUS
  <2>1. \/ \E l : a = <<l>> /\ Plain(l) # {} /\ Here(l)
        \/ p \in Present /\ \E l \in Labels(p, on) : a = <<l, p>> /\ Own(<<l>>, p) # {}
    BY <1>2
  <2>2. QED
    BY <2>1
<1>8. ASSUME NEW a, NEW b, T(a), T(b), Family(a) = Family(b), a # b
      PROVE  \E l, m \in Labels(p, on) \ DOMAIN FlagOf : l # m /\ Plain(l) # {} /\ Plain(m) # {}
  <2>1. CASE \E l : a = <<l>>
    <3>1. PICK l : a = <<l>>
      BY <2>1
    <3>2. PICK m : b = <<m>>
      <4>1. \A k : b # <<k, p>>
        BY <1>4, <1>8, <3>1
      <4>2. QED
        BY <4>1, <1>8, <1>7
    <3>3. l # m /\ Family(<<l>>) = Family(<<m>>)
      BY <1>8, <3>1, <3>2
    <3>4. Plain(l) # {} /\ Here(l)
      BY <1>8, <1>6, <3>1
    <3>5. Plain(m) # {} /\ Here(m)
      BY <1>8, <1>6, <3>2
    <3>7. CASE l \in DOMAIN FlagOf
      <4>1. m \in DOMAIN FlagOf /\ FlagOf[l] = FlagOf[m]
        <5>1. \A x, y : <<x>> = <<y>> => x = y
          OBVIOUS
        <5>2. m \in DOMAIN FlagOf
          BY <1>4, <3>3, <3>7
        <5>3. <<FlagOf[l]>> = <<FlagOf[m]>>
          BY <1>4, <3>3, <3>7, <5>2
        <5>4. QED
          BY <5>1, <5>2, <5>3
      <4>2. QED
        BY <4>1, <1>3, <3>3, <3>4, <3>5, <3>7, FlagsAssumption
    <3>8. CASE l \notin DOMAIN FlagOf
      <4>1. m \notin DOMAIN FlagOf
        BY <1>4, <3>3, <3>8
      <4>2. QED
        BY <4>1, <3>3, <3>4, <3>5, <3>8
    <3>9. QED
      BY <3>7, <3>8
  <2>2. CASE ~\E l : a = <<l>>
    <3>1. PICK l \in Labels(p, on) : p \in Present /\ a = <<l, p>> /\ Own(<<l>>, p) # {}
      BY <1>8, <1>7, <2>2
    <3>2. PICK m \in Labels(p, on) : b = <<m, p>> /\ Own(<<m>>, p) # {}
      <4>1. \A k : b # <<k>>
        BY <1>4, <1>8, <3>1
      <4>2. QED
        BY <4>1, <1>8, <1>7
    <3>3. l # m
      BY <1>8, <3>1, <3>2
    <3>4. (IF l \in DOMAIN FlagOf THEN FlagOf[l] ELSE l) = IF m \in DOMAIN FlagOf THEN FlagOf[m] ELSE m
      <4>1. \A x, y : <<x, "platform">> = <<y, "platform">> => x = y
        OBVIOUS
      <4>2. Family(<<l, p>>) = Family(<<m, p>>)
        BY <1>8, <3>1, <3>2
      <4>3. \A k : Family(<<k, p>>) = <<IF k \in DOMAIN FlagOf THEN FlagOf[k] ELSE k, "platform">>
        BY Families
      <4>4. QED
        BY <4>1, <4>2, <4>3
    <3>5. IsArm(<<l>>) /\ IsArm(<<m>>)
      BY <3>1, <3>2, CellArms DEF Own, Folded
    <3>6. \A k \in DOMAIN FlagOf : l # FlagOf[k] /\ m # FlagOf[k]
      <4>1. <<l>>[1] = l /\ <<m>>[1] = m
        OBVIOUS
      <4>2. QED
        BY <4>1, <3>5 DEF IsArm
    <3>7. QED
      BY <3>3, <3>4, <3>6, <1>3
  <2>3. QED
    BY <2>1, <2>2
<1>9. QED
  BY <1>1, <1>5, <1>8

\* A cell's select() is ambiguous only when two labels hold that are no option's.
LEMMA CellUnambiguous ==
    ASSUME Folded, NEW p \in Present, NEW on \in Settings, ~Ambiguous(Srcs(p).arms, p, on),
           NEW l \in Labels(p, on) \ DOMAIN FlagOf, NEW m \in Labels(p, on) \ DOMAIN FlagOf,
           Carries(srcs, p, <<l>>) # {}, Carries(srcs, p, <<m>>) # {}
    PROVE  l = m
<1>1. Takes(Srcs(p).arms, <<l>>, p, on) /\ Takes(Srcs(p).arms, <<m>>, p, on)
  BY CellTakes
<1>2. Family(<<l>>) = Family(<<m>>)
  BY DefaultFamily
<1>3. <<l>> = <<m>>
  BY <1>1, <1>2, AllTaken
<1>4. QED
  BY <1>3

\* A cell's flat sources are what all platforms have, what it has beside it, and
\* what some cell has in an arm.
LEMMA CellParts ==
    ASSUME Folded, NEW p \in Present
    PROVE  /\ Srcs(p).flat \subseteq Claimed \cup Baseline \cup Delta(p)
           /\ Baseline \cup Delta(p) \subseteq Srcs(p).flat \ Claimed
           /\ \A l : /\ Carries(srcs, p, <<l>>) \subseteq Claimed \ Srcs(p).flat
                     /\ Agreed(<<l>>) \subseteq Carries(srcs, p, <<l>>)
                     /\ Own(<<l>>, p) = Carries(srcs, p, <<l>>) \ Agreed(<<l>>)
           /\ \A l, m : l \in DOMAIN FlagOf /\ m \notin DOMAIN FlagOf =>
                          Carries(srcs, p, <<l>>) \cap Carries(srcs, p, <<m>>) = {}
           /\ Agreed(<<Default>>) = Carries(srcs, p, <<Default>>)
<1>1. p \in DOMAIN element.platforms
  BY CellArms DEF Folded
<1>2. \A i \in Baseline : i \in Srcs(p).flat /\ i \notin Claimed
  BY <1>1 DEF Baseline
<1>3. Delta(p) = Srcs(p).flat \ (Claimed \cup Baseline)
  BY DEF Delta
<1>4. \A l : /\ Agreed(<<l>>) \subseteq Carries(srcs, p, <<l>>)
             /\ Own(<<l>>, p) = Carries(srcs, p, <<l>>) \ Agreed(<<l>>)
  BY DEF Agreed, Own
<1>5. Agreed(<<Default>>) = Carries(srcs, p, <<Default>>)
  BY <1>4 DEF Folded, DefaultDiverges
<1>6. /\ \A a : Carries(srcs, p, a) # {} => a \in DOMAIN Srcs(p).arms
      /\ \A a \in DOMAIN Srcs(p).arms : Carries(srcs, p, a) \cap Srcs(p).flat = {}
      /\ \A a, b \in DOMAIN Srcs(p).arms :
           a[1] \in DOMAIN FlagOf /\ b[1] \notin DOMAIN FlagOf => Carries(srcs, p, a) \cap Carries(srcs, p, b) = {}
  BY CellArms DEF Folded
<1>7. \A a \in DOMAIN Srcs(p).arms : a \in Arms(srcs)
  BY DEF Arms, srcs
<1>8. \A a \in Arms(srcs) : Carries(srcs, p, a) \subseteq Claimed
  BY DEF Claimed
<1>9. \A a : Carries(srcs, p, a) \subseteq Claimed \ Srcs(p).flat
  BY <1>6, <1>7, <1>8
<1>10. \A l, m : l \in DOMAIN FlagOf /\ m \notin DOMAIN FlagOf =>
                   Carries(srcs, p, <<l>>) \cap Carries(srcs, p, <<m>>) = {}
  <2>1. \A l : <<l>>[1] = l
    OBVIOUS
  <2> SUFFICES ASSUME NEW l \in DOMAIN FlagOf, NEW m, m \notin DOMAIN FlagOf,
                      Carries(srcs, p, <<l>>) # {}, Carries(srcs, p, <<m>>) # {}
               PROVE  Carries(srcs, p, <<l>>) \cap Carries(srcs, p, <<m>>) = {}
    OBVIOUS
  <2>2. QED
    BY <2>1, <1>6
<1>11. QED
  BY <1>2, <1>3, <1>4, <1>5, <1>9, <1>10

\* The folded sources are a cell's own exactly when nothing disturbs them.
LEMMA SrcsFold ==
    ASSUME Folded, NEW p \in Present, NEW on \in Settings, ~Ambiguous(Srcs(p).arms, p, on)
    PROVE  ~Ambiguous(FoldSrcs.arms, p, on) /\ SrcsOn(FoldSrcs, p, on) = SrcsOn(Srcs(p), p, on)
             <=> ~Disturbed(p, on) /\ Srcs(p).flat \cap Claimed = {}
<1> DEFINE L == Labels(p, on)
           N == L \ DOMAIN FlagOf
           k == keys[p]
           flat == Srcs(p).flat
           C(l) == Carries(srcs, p, <<l>>)
           A(l) == Agreed(<<l>>)
           O(l) == Own(<<l>>, p)
           was == SrcsOn(Srcs(p), p, on)
           is == SrcsOn(FoldSrcs, p, on)
           s == Selected(Srcs(p).arms, <<>>, p, on)
<1>1. p \in DOMAIN element.platforms
  BY CellArms DEF Folded
<1>2. k \in N /\ Default \notin L /\ Default \notin DOMAIN FlagOf
  BY <1>1, WhatHolds, KeysAreOwn, FlagsAssumption DEF Labels
<1>3. /\ flat \subseteq Claimed \cup Baseline \cup Delta(p)
      /\ Baseline \cup Delta(p) \subseteq flat \ Claimed
      /\ \A l : C(l) \subseteq Claimed \ flat /\ A(l) \subseteq C(l) /\ O(l) = C(l) \ A(l)
      /\ \A l, m : l \in DOMAIN FlagOf /\ m \notin DOMAIN FlagOf => C(l) \cap C(m) = {}
      /\ A(Default) = C(Default)
  BY CellParts
<1>4. \A l \in L \cup {Default} : Plain(l) = A(l) \cup IF l = k THEN Delta(p) ELSE {}
  BY <1>1, PlainHere
<1>5. \A i : i \in was <=> \/ i \in flat
                           \/ \E l \in L : i \in C(l)
                           \/ i \in C(Default) /\ \A m \in N : C(m) = {}
  BY CellSources
<1>6. \A i : i \in is <=> \/ i \in Baseline
                          \/ \E l \in L : i \in Plain(l)
                          \/ i \in Plain(Default) /\ \A m \in N : Plain(m) = {}
                          \/ \E l \in L : i \in O(l)
  BY <1>1, FoldSources
<1>7. Ambiguous(FoldSrcs.arms, p, on) <=> \E l, m \in N : l # m /\ Plain(l) # {} /\ Plain(m) # {}
  BY <1>1, FoldAmbiguous
<1>8. \A l, m \in N : C(l) # {} /\ C(m) # {} => l = m
  BY CellUnambiguous
<1>9. \A l : <<l>> \in s <=> C(l) # {} /\ (l \in N \/ (l = Default /\ \A m \in N : C(m) = {}))
  <2> SUFFICES ASSUME NEW l
               PROVE  <<l>> \in s <=> C(l) # {} /\ (l \in N \/ (l = Default /\ \A m \in N : C(m) = {}))
    OBVIOUS
  <2>1. <<l>> \in s <=> Takes(Srcs(p).arms, <<l>>, p, on) /\ Family(<<l>>) = <<>>
    BY SelectedAreTaken
  <2>2. Takes(Srcs(p).arms, <<l>>, p, on) <=>
             \E m : /\ <<l>> = <<m>> /\ C(l) # {}
                    /\ \/ m \in L
                       \/ m = Default /\ \A n \in N : C(n) = {}
    BY CellTakes
  <2>3. \A m : <<l>> = <<m>> <=> l = m
    OBVIOUS
  <2>4. Family(<<l>>) = <<>> <=> l \notin DOMAIN FlagOf
    BY DefaultFamily
  <2>5. QED
    BY <2>1, <2>2, <2>3, <2>4, <1>2
<1>10. \A a \in s : \E l : a = <<l>>
  BY SelectedAreTaken, CellTakes
<1>11. Disturbed(p, on) <=>
         IF Delta(p) # {} THEN \E l : <<l>> \in s /\ l # k /\ A(l) # {}
         ELSE /\ \A l : <<l>> \in s => A(l) = {}
              /\ \E i \in A(Default) : \A l : <<l>> \in s => i \notin C(l)
  <2>1. \A l : <<l>> = <<k>> <=> l = k
    OBVIOUS
  <2>2. (\E a \in s : a # <<k>> /\ Agreed(a) # {}) <=> \E l : <<l>> \in s /\ l # k /\ A(l) # {}
    BY <2>1, <1>10
  <2>3. (\A a \in s : Agreed(a) = {}) <=> \A l : <<l>> \in s => A(l) = {}
    BY <1>10
  <2>4. \A i : i \in UNION {Carries(srcs, p, a) : a \in s} <=> \E l : <<l>> \in s /\ i \in C(l)
    BY <1>10
  <2>5. ~(Agreed(<<Default>>) \subseteq UNION {Carries(srcs, p, a) : a \in s})
          <=> \E i \in A(Default) : \A l : <<l>> \in s => i \notin C(l)
    BY <2>4
  <2>6. Disturbed(p, on) <=>
          IF Delta(p) # {} THEN \E a \in s : a # <<k>> /\ Agreed(a) # {}
          ELSE /\ \A a \in s : Agreed(a) = {}
               /\ ~(Agreed(<<Default>>) \subseteq UNION {Carries(srcs, p, a) : a \in s})
    BY DEF Disturbed
  <2>7. QED
    BY <2>2, <2>3, <2>5, <2>6
<1> HIDE DEF L, N, k, flat, C, A, O, was, is, s
<1>12. flat \cap Claimed # {} => is # was
  <2> SUFFICES ASSUME NEW i \in flat \cap Claimed
               PROVE  i \in was /\ i \notin is
    OBVIOUS
  <2>1. \A l \in L \cup {Default} : i \notin Plain(l) /\ i \notin O(l)
    BY <1>3, <1>4
  <2>2. QED
    BY <2>1, <1>3, <1>5, <1>6
<1>13. CASE Delta(p) # {}
  <2>1. Plain(k) # {}
    BY <1>2, <1>4, <1>13 DEF N
  <2>2. ASSUME NEW l, <<l>> \in s, l # k, A(l) # {}
        PROVE  Ambiguous(FoldSrcs.arms, p, on) \/ is # was
    <3>1. CASE l \in N
      <4>1. Plain(l) # {}
        BY <3>1, <2>2, <1>4 DEF N
      <4>2. QED
        BY <4>1, <3>1, <2>1, <2>2, <1>2, <1>7
    <3>2. CASE l = Default /\ \A m \in N : C(m) = {}
      <4>1. PICK i : i \in A(Default)
        BY <3>2, <2>2
      <4>2. i \in was
        BY <4>1, <3>2, <1>3, <1>5
      <4>3. \A m \in L : i \notin C(m)
        BY <4>1, <3>2, <1>2, <1>3 DEF N
      <4>4. \A m \in L : i \notin Plain(m) /\ i \notin O(m)
        BY <4>1, <4>3, <1>3, <1>4
      <4>5. i \notin is
        BY <4>1, <4>4, <2>1, <1>2, <1>3, <1>6
      <4>6. QED
        BY <4>2, <4>5
    <3>3. QED
      BY <3>1, <3>2, <2>2, <1>9
  <2>3. ASSUME \A l : <<l>> \in s /\ l # k => A(l) = {}, flat \cap Claimed = {}
        PROVE  ~Ambiguous(FoldSrcs.arms, p, on) /\ is = was
    <3>1. ASSUME NEW l \in N, l # k
          PROVE  Plain(l) = {}
      <4>1. Plain(l) = A(l)
        BY <3>1, <1>4 DEF N
      <4>2. A(l) # {} => <<l>> \in s
        BY <3>1, <1>3, <1>9
      <4>3. QED
        BY <4>1, <4>2, <3>1, <2>3
    <3>2. ~Ambiguous(FoldSrcs.arms, p, on)
      BY <3>1, <1>7
    <3>3. (\A m \in N : C(m) = {}) => C(Default) = {}
      BY <2>3, <1>2, <1>3, <1>9 DEF N
    <3>4. ASSUME NEW i
          PROVE  i \in is <=> i \in was
      <4>1. i \in is <=> i \in Baseline \/ \E l \in L : i \in Plain(l) \/ i \in O(l)
        BY <2>1, <1>2, <1>6
      <4>2. i \in was <=> i \in flat \/ \E l \in L : i \in C(l)
        BY <3>3, <1>5
      <4>3. i \in flat <=> i \in Baseline \/ i \in Delta(p)
        BY <2>3, <1>3
      <4>4. \A l \in L : i \in Plain(l) \/ i \in O(l) <=> i \in C(l) \/ (l = k /\ i \in Delta(p))
        BY <1>3, <1>4
      <4>5. k \in L
        BY <1>2 DEF N
      <4>6. QED
        BY <4>1, <4>2, <4>3, <4>4, <4>5
    <3>5. QED
      BY <3>2, <3>4
  <2>4. QED
    BY <2>2, <2>3, <1>11, <1>12, <1>13 DEF is, was, flat
<1>14. CASE Delta(p) = {}
  <2>1. \A l \in L \cup {Default} : Plain(l) = A(l)
    BY <1>4, <1>14
  <2>2. ~Ambiguous(FoldSrcs.arms, p, on)
    BY <2>1, <1>3, <1>7, <1>8 DEF N
  <2>3. ASSUME \A l : <<l>> \in s => A(l) = {},
               NEW i \in A(Default), \A l : <<l>> \in s => i \notin C(l)
        PROVE  is # was
    <3>1. \A m \in N : A(m) = {}
      BY <2>3, <1>3, <1>9
    <3>2. i \in is
      BY <3>1, <2>1, <1>6 DEF N
    <3>3. \A l \in L : i \notin C(l)
      BY <2>3, <1>2, <1>3, <1>9 DEF N
    <3>4. ~\A m \in N : C(m) = {}
      BY <2>3, <1>3, <1>9
    <3>5. i \notin was
      BY <3>3, <3>4, <1>3, <1>5
    <3>6. QED
      BY <3>2, <3>5
  <2>4. ASSUME ~(/\ \A l : <<l>> \in s => A(l) = {}
                 /\ \E i \in A(Default) : \A l : <<l>> \in s => i \notin C(l)),
               flat \cap Claimed = {}
        PROVE  is = was
    <3> SUFFICES ASSUME NEW i
                 PROVE  i \in is <=> i \in was
      OBVIOUS
    <3>1. i \in flat <=> i \in Baseline
      BY <2>4, <1>3, <1>14
    <3>2. \A l \in L : i \in Plain(l) \/ i \in O(l) <=> i \in C(l)
      BY <2>1, <1>3
    <3>3. i \in is <=> \/ i \in flat
                       \/ \E l \in L : i \in C(l)
                       \/ i \in C(Default) /\ \A m \in N : A(m) = {}
      BY <3>1, <3>2, <2>1, <1>3, <1>6 DEF N
    <3>4. ASSUME i \in C(Default), \A m \in N : A(m) = {}, NEW n \in N, C(n) # {}
          PROVE  \E l \in L : i \in C(l)
      <4>1. \A l : <<l>> \in s => l \in N
        BY <3>4, <1>9
      <4>2. \A l : <<l>> \in s => A(l) = {}
        BY <4>1, <3>4
      <4>3. PICK l : <<l>> \in s /\ i \in C(l)
        BY <4>2, <3>4, <2>4, <1>3
      <4>4. QED
        BY <4>1, <4>3 DEF N
    <3>5. (\A m \in N : C(m) = {}) => \A m \in N : A(m) = {}
      BY <1>3
    <3>6. QED
      BY <3>3, <3>4, <3>5, <1>5
  <2>5. QED
    BY <2>2, <2>3, <2>4, <1>11, <1>12, <1>14 DEF is, was, flat
<1>15. QED
  BY <1>13, <1>14

\* The folded path is a cell's own, and unset where the target is not declared.
LEMMA PathFold ==
    ASSUME Folded, NEW p \in DOMAIN element.platforms
    PROVE  PathOn(FoldPath, p) = IF p \in Present THEN Path(p) ELSE Unset
<1> DEFINE same == ~Phantom /\ \A q \in Present : Path(q) = Path(FirstCell)
           keyed == {<<keys[q]>> : q \in {r \in Present : Path(r) # Unset}}
           arms == FoldPath.arms
           s == Selected(arms, <<>>, p, {})
<1>1. PathOn(FoldPath, p) = IF s = {} THEN FoldPath.flat ELSE arms[CHOOSE a \in s : TRUE]
  BY DEF PathOn
<1>2. CASE same
  <2>1. FoldPath.flat = Path(FirstCell) /\ arms = <<>>
    BY <1>2 DEF FoldPath
  <2>2. s = {}
    <3>1. DOMAIN arms = {}
      BY <2>1
    <3>2. \A a : a \notin s
      BY <3>1, SelectedAreTaken DEF Takes
    <3>3. QED
      BY <3>2
  <2>3. p \in Present /\ Path(p) = Path(FirstCell)
    BY <1>2 DEF Phantom
  <2>4. QED
    BY <1>1, <2>1, <2>2, <2>3
<1>3. CASE ~same
  <2>1. FoldPath = [flat |-> Unset, arms |-> [a \in keyed |-> Path(CHOOSE q \in Present : <<keys[q]>> = a)]]
    BY <1>3 DEF FoldPath
  <2>2. FoldPath.flat = Unset /\ DOMAIN arms = keyed
    BY <2>1
  <2>3. Present \subseteq DOMAIN element.platforms /\ {} \in Settings
    BY CellArms DEF Folded, Settings
  <2>4. /\ \A q \in Present : keys[q] \in Labels(p, {}) <=> q = p
        /\ \A q \in Present : keys[q] # Default /\ keys[q] \notin DOMAIN FlagOf
    BY <2>3, WhatHolds, KeysAreOwn
  <2>5. \A l, m : <<l>> = <<m>> <=> l = m
    OBVIOUS
  <2>6. \A q \in Present : Family(<<keys[q]>>) = <<>> /\ (Holds(<<keys[q]>>, p, {}) <=> q = p)
    BY <2>4, DefaultFamily, HoldsAtLabels
  <2>7. \A a : a \in s <=> a \in keyed /\ Holds(a, p, {})
    <3> SUFFICES ASSUME NEW a
                 PROVE  a \in s <=> a \in keyed /\ Holds(a, p, {})
      OBVIOUS
    <3>1. a \in s <=> Takes(arms, a, p, {}) /\ Family(a) = <<>>
      BY SelectedAreTaken
    <3>2. a \in keyed => a # <<Default>> /\ Family(a) = <<>>
      BY <2>4, <2>5, <2>6
    <3>3. QED
      BY <3>1, <3>2, <2>2 DEF Takes
  <2>8. s = IF p \in Present /\ Path(p) # Unset THEN {<<keys[p]>>} ELSE {}
    BY <2>6, <2>7
  <2>9. CASE p \in Present /\ Path(p) # Unset
    <3>1. (CHOOSE a \in s : TRUE) = <<keys[p]>> /\ <<keys[p]>> \in keyed /\ s # {}
      BY <2>8, <2>9
    <3>2. \A q \in Present : <<keys[q]>> = <<keys[p]>> <=> q = p
      BY <2>3, <2>5, KeysAreOwn
    <3>3. (CHOOSE q \in Present : <<keys[q]>> = <<keys[p]>>) = p
      BY <3>2, <2>9
    <3>4. arms[<<keys[p]>>] = Path(CHOOSE q \in Present : <<keys[q]>> = <<keys[p]>>)
      BY <3>1, <2>1
    <3>5. QED
      BY <1>1, <2>9, <3>1, <3>3, <3>4
  <2>10. CASE ~(p \in Present /\ Path(p) # Unset)
    BY <1>1, <2>2, <2>8, <2>10
  <2>11. QED
    BY <2>9, <2>10
<1>4. QED
  BY <1>2, <1>3

\* The options of the cells: a sequence for each arm, of an option or the default.
LEMMA CellOptions ==
    ASSUME element \in FoldInputs, NEW p \in Present
    PROVE  /\ \A a \in DOMAIN Copts(p).arms : a = <<a[1]>> /\ a[1] \in DOMAIN FlagOf \cup {Default}
           /\ \A a \in DOMAIN Copts(p).arms :
                Copts(p).arms[a] \o <<>> = Copts(p).arms[a] /\ <<>> \o Copts(p).arms[a] = Copts(p).arms[a]
           /\ Copts(p).flat \o <<>> = Copts(p).flat /\ <<>> \o Copts(p).flat = Copts(p).flat
           /\ \A a \in DOMAIN Copts(p).arms : a \in Arms(copts)
<1>1. copts[p] = Copts(p) /\ Copts(p) = element.cells[p].copts /\ p \in DOMAIN element.cells
  BY DEF copts, Copts, Present
<1>2. /\ \A a \in DOMAIN Copts(p).arms :
           IsArm(a) /\ a[1] \in DOMAIN FlagOf \cup {Default} /\ IsOptions(Copts(p).arms[a])
      /\ IsOptions(Copts(p).flat)
  BY <1>1, FoldInputsAssumption
<1>3. ASSUME NEW x, IsOptions(x)
      PROVE  x \o <<>> = x /\ <<>> \o x = x
  BY <1>3, ConcatEmptySeq DEF IsOptions
<1>4. \A a \in DOMAIN Copts(p).arms : a \in Arms(copts)
  BY <1>1 DEF Arms
<1>5. QED
  BY <1>2, <1>3, <1>4 DEF IsArm

\* The arms of the folded options: a platform's own, those all agree on, groups.
LEMMA FoldedOptions ==
    ASSUME Folded, <<Default>> \notin Arms(copts)
    PROVE  LET arms == FoldCopts.arms IN
           /\ FoldCopts.flat = IF SameFlat THEN Copts(FirstCell).flat ELSE <<>>
           /\ \A a \in DOMAIN arms :
                \/ \E q \in Present : a = <<keys[q]>> /\ ~SameFlat /\ arms[a] = Copts(q).flat
                \/ \E l \in DOMAIN FlagOf : a = <<l>> /\ SameArm(a) /\ arms[a] = Copts(FirstCell).arms[a]
                \/ \E l \in DOMAIN FlagOf, q \in Present :
                     a = <<l, q>> /\ <<l>> \in DOMAIN Copts(q).arms /\ ~SameArm(<<l>>) /\ arms[a] = Copts(q).arms[<<l>>]
           /\ \A q \in Present : ~SameFlat /\ Copts(q).flat # <<>> => <<keys[q]>> \in DOMAIN arms
           /\ \A l \in DOMAIN FlagOf :
                SameArm(<<l>>) /\ Copts(FirstCell).arms[<<l>>] # <<>> => <<l>> \in DOMAIN arms
           /\ \A l \in DOMAIN FlagOf, q \in Present :
                <<l>> \in DOMAIN Copts(q).arms /\ ~SameArm(<<l>>) /\ Copts(q).arms[<<l>>] # <<>> => <<l, q>> \in DOMAIN arms
<1> DEFINE plain == {a \in Arms(copts) : SameArm(a)}
           groups == UNION {{<<a[1], p>> : a \in DOMAIN Copts(p).arms \ plain} : p \in Present}
           whole == [a \in OwnArms \cup {b \in plain \cup groups : CoptsArm(b) # <<>>} |-> CoptsArm(a)]
           arms == FoldCopts.arms
<1>1. /\ FoldCopts.flat = IF SameFlat THEN Copts(FirstCell).flat ELSE <<>>
      /\ arms = whole
  <2>1. FoldCopts = [flat |-> IF SameFlat THEN Copts(FirstCell).flat ELSE <<>>, arms |-> whole]
    BY DEF FoldCopts
  <2> HIDE DEF whole
  <2>2. QED
    BY <2>1
<1>2. /\ DOMAIN arms = OwnArms \cup {a \in plain \cup groups : CoptsArm(a) # <<>>}
      /\ \A a \in DOMAIN arms : arms[a] = CoptsArm(a)
  <2> HIDE DEF plain, groups, arms
  <2>1. /\ DOMAIN whole = OwnArms \cup {a \in plain \cup groups : CoptsArm(a) # <<>>}
        /\ \A a \in DOMAIN whole : whole[a] = CoptsArm(a)
    OBVIOUS
  <2> HIDE DEF whole
  <2>2. QED
    BY <1>1, <2>1
<1>3. \A a \in Arms(copts) : a = <<a[1]>> /\ a[1] \in DOMAIN FlagOf
  <2>1. \A a \in Arms(copts) : \E p \in Present : a \in DOMAIN Copts(p).arms
    BY DEF Arms, copts
  <2>2. QED
    BY <2>1, CellOptions DEF Folded
<1>4. /\ Present \subseteq DOMAIN element.platforms
      /\ \A q \in Present : keys[q] \notin DOMAIN FlagOf
      /\ \A q, r \in Present : <<keys[q]>> = <<keys[r]>> <=> q = r
  <2>1. Present \subseteq DOMAIN element.platforms
    BY CellArms DEF Folded
  <2>2. \A l, m : <<l>> = <<m>> <=> l = m
    OBVIOUS
  <2>3. QED
    BY <2>1, <2>2, KeysAreOwn
<1>5. \A q \in Present :
        /\ ~SameFlat /\ Copts(q).flat # <<>> => <<keys[q]>> \in OwnArms
        /\ <<keys[q]>> \in OwnArms => CoptsArm(<<keys[q]>>) = Copts(q).flat
  <2> SUFFICES ASSUME NEW q \in Present
               PROVE  /\ ~SameFlat /\ Copts(q).flat # <<>> => <<keys[q]>> \in OwnArms
                      /\ <<keys[q]>> \in OwnArms => CoptsArm(<<keys[q]>>) = Copts(q).flat
    OBVIOUS
  <2>1. ~SameFlat /\ Copts(q).flat # <<>> => <<keys[q]>> \in OwnArms
    BY DEF OwnArms
  <2>2. Len(<<keys[q]>>) # 2
    OBVIOUS
  <2>3. (CHOOSE r \in Present : <<keys[r]>> = <<keys[q]>>) = q
    BY <1>4
  <2>4. QED
    BY <2>1, <2>2, <2>3 DEF CoptsArm
<1>6. \A l \in DOMAIN FlagOf : <<l>> \notin OwnArms /\ CoptsArm(<<l>>) = Copts(FirstCell).arms[<<l>>]
  <2>1. \A l, m : <<l>> = <<m>> <=> l = m
    OBVIOUS
  <2>2. \A l : Len(<<l>>) # 2
    OBVIOUS
  <2>3. \A l \in DOMAIN FlagOf : <<l>> \notin OwnArms
    BY <2>1, <1>4 DEF OwnArms
  <2>4. QED
    BY <2>2, <2>3 DEF CoptsArm
<1>7. \A l, q : CoptsArm(<<l, q>>) = Copts(q).arms[<<l>>]
  <2>1. \A l, q : Len(<<l, q>>) = 2 /\ <<l, q>>[1] = l /\ <<l, q>>[2] = q
    OBVIOUS
  <2>2. QED
    BY <2>1 DEF CoptsArm
<1>8. \A l \in DOMAIN FlagOf : SameArm(<<l>>) => <<l>> \in plain
  BY FirstIsPresent, CellOptions DEF SameArm, Folded
<1>9. \A a : a \in groups <=> \E p \in Present : \E b \in DOMAIN Copts(p).arms \ plain : a = <<b[1], p>>
  OBVIOUS
<1>10. \A p \in Present : \A b \in DOMAIN Copts(p).arms : b = <<b[1]>> /\ b[1] \in DOMAIN FlagOf /\ (b \in plain <=> SameArm(b))
  BY <1>3, CellOptions DEF Folded
<1>11. \A l \in DOMAIN FlagOf, q \in Present : <<l>> \in DOMAIN Copts(q).arms /\ ~SameArm(<<l>>) => <<l, q>> \in groups
  <2>1. \A l : <<l>>[1] = l
    OBVIOUS
  <2>2. QED
    BY <2>1, <1>9, <1>10
<1> HIDE DEF plain, groups, whole, arms
<1>12. ASSUME NEW a \in DOMAIN arms
       PROVE  \/ \E q \in Present : a = <<keys[q]>> /\ ~SameFlat /\ arms[a] = Copts(q).flat
              \/ \E l \in DOMAIN FlagOf : a = <<l>> /\ SameArm(a) /\ arms[a] = Copts(FirstCell).arms[a]
              \/ \E l \in DOMAIN FlagOf, q \in Present :
                   a = <<l, q>> /\ <<l>> \in DOMAIN Copts(q).arms /\ ~SameArm(<<l>>) /\ arms[a] = Copts(q).arms[<<l>>]
  <2>1. arms[a] = CoptsArm(a)
    BY <1>2
  <2>2. CASE a \in OwnArms
    <3>1. PICK q \in Present : a = <<keys[q]>> /\ ~SameFlat
      BY <2>2 DEF OwnArms
    <3>2. QED
      BY <3>1, <2>1, <2>2, <1>5
  <2>3. CASE a \in plain
    <3>1. a = <<a[1]>> /\ a[1] \in DOMAIN FlagOf /\ SameArm(a)
      BY <2>3, <1>3 DEF plain
    <3>2. CoptsArm(a) = Copts(FirstCell).arms[a]
      BY <3>1, <1>6
    <3>3. QED
      BY <3>1, <3>2, <2>1
  <2>4. CASE a \in groups
    <3>1. PICK p \in Present : \E b \in DOMAIN Copts(p).arms \ plain : a = <<b[1], p>>
      BY <2>4, <1>9
    <3>2. PICK b \in DOMAIN Copts(p).arms \ plain : a = <<b[1], p>>
      BY <3>1
    <3>3. b = <<b[1]>> /\ b[1] \in DOMAIN FlagOf /\ ~SameArm(b)
      BY <3>2, <1>10
    <3>4. arms[a] = Copts(p).arms[<<b[1]>>]
      BY <3>2, <2>1, <1>7
    <3>5. QED
      BY <3>2, <3>3, <3>4
  <2>5. QED
    BY <2>2, <2>3, <2>4, <1>2
<1>13. \A q \in Present : ~SameFlat /\ Copts(q).flat # <<>> => <<keys[q]>> \in DOMAIN arms
  BY <1>2, <1>5
<1>14. \A l \in DOMAIN FlagOf : SameArm(<<l>>) /\ Copts(FirstCell).arms[<<l>>] # <<>> => <<l>> \in DOMAIN arms
  BY <1>2, <1>6, <1>8
<1>15. \A l \in DOMAIN FlagOf, q \in Present :
         <<l>> \in DOMAIN Copts(q).arms /\ ~SameArm(<<l>>) /\ Copts(q).arms[<<l>>] # <<>> => <<l, q>> \in DOMAIN arms
  BY <1>2, <1>7, <1>11
<1>16. QED
  BY <1>1, <1>12, <1>13, <1>14, <1>15 DEF arms

\* The arms of the folded options that a platform takes: what it has of its own,
\* and one for an option that is on.
LEMMA OptionTakes ==
    ASSUME Folded, <<Default>> \notin Arms(copts),
           NEW p \in DOMAIN element.platforms, NEW on \in Settings, NEW a
    PROVE  Takes(FoldCopts.arms, a, p, on) <=>
             /\ a \in DOMAIN FoldCopts.arms
             /\ \/ p \in Present /\ a = <<keys[p]>> /\ ~SameFlat
                \/ \E l \in on : a = <<l>> /\ SameArm(a)
                \/ p \in Present /\ \E l \in on : a = <<l, p>> /\ <<l>> \in DOMAIN Copts(p).arms /\ ~SameArm(<<l>>)
<1> DEFINE arms == FoldCopts.arms
<1>1. a \in DOMAIN arms =>
        \/ \E q \in Present : a = <<keys[q]>> /\ ~SameFlat
        \/ \E l \in DOMAIN FlagOf : a = <<l>> /\ SameArm(a)
        \/ \E l \in DOMAIN FlagOf, q \in Present : a = <<l, q>> /\ <<l>> \in DOMAIN Copts(q).arms /\ ~SameArm(<<l>>)
  BY FoldedOptions
<1>2. /\ Present \subseteq DOMAIN element.platforms
      /\ on \subseteq DOMAIN FlagOf /\ Labels(p, on) \cap DOMAIN FlagOf = on
      /\ \A q \in DOMAIN element.platforms : keys[q] \in Labels(p, on) <=> q = p
      /\ \A q \in DOMAIN element.platforms : keys[q] # Default /\ keys[q] \notin DOMAIN FlagOf
      /\ Default \notin DOMAIN FlagOf
  <2>1. Present \subseteq DOMAIN element.platforms
    BY CellArms DEF Folded
  <2>2. QED
    BY <2>1, WhatHolds, KeysAreOwn, FlagsAssumption DEF Settings
<1>3. /\ \A l, m : <<l>> = <<m>> <=> l = m
      /\ \A l, m, q, r : <<l, q>> = <<m, r>> <=> l = m /\ q = r
  OBVIOUS
<1>4. \A l, m, q : <<l>> # <<m, q>>
  BY Families
<1>5. /\ \A l : Holds(<<l>>, p, on) <=> l \in Labels(p, on)
      /\ \A l, q : Holds(<<l, q>>, p, on) <=> l \in Labels(p, on) /\ keys[q] \in Labels(p, on)
  BY HoldsAtLabels
<1> HIDE DEF arms
<1>6. a \in DOMAIN arms => a # <<Default>>
  <2> SUFFICES ASSUME a \in DOMAIN arms, a = <<Default>>
               PROVE  FALSE
    OBVIOUS
  <2>1. CASE \E q \in Present : a = <<keys[q]>>
    BY <2>1, <1>2, <1>3
  <2>2. CASE \E l \in DOMAIN FlagOf : a = <<l>>
    BY <2>2, <1>2, <1>3
  <2>3. CASE \E l, q : a = <<l, q>>
    BY <2>3, <1>4
  <2>4. QED
    BY <2>1, <2>2, <2>3, <1>1
<1>7. Takes(arms, a, p, on) <=> a \in DOMAIN arms /\ Holds(a, p, on)
  BY <1>6 DEF Takes
<1>8. ASSUME a \in DOMAIN arms, NEW q \in Present, a = <<keys[q]>>, ~SameFlat
      PROVE  Holds(a, p, on) <=>
               \/ p \in Present /\ a = <<keys[p]>> /\ ~SameFlat
               \/ \E l \in on : a = <<l>> /\ SameArm(a)
               \/ p \in Present /\ \E l \in on : a = <<l, p>> /\ <<l>> \in DOMAIN Copts(p).arms /\ ~SameArm(<<l>>)
  <2>1. Holds(a, p, on) <=> q = p
    BY <1>2, <1>5, <1>8
  <2>2. \A l \in on : a # <<l>>
    BY <1>2, <1>3, <1>8
  <2>3. \A l : a # <<l, p>>
    BY <1>4, <1>8
  <2>4. a = <<keys[p]>> <=> q = p
    <3>1. keys[q] = keys[p] => q = p
      BY <1>2, KeysAreOwn
    <3>2. QED
      BY <3>1, <1>3, <1>8
  <2>5. QED
    BY <2>1, <2>2, <2>3, <2>4, <1>8
<1>9. ASSUME a \in DOMAIN arms, NEW l \in DOMAIN FlagOf, a = <<l>>, SameArm(a)
      PROVE  Holds(a, p, on) <=>
               \/ p \in Present /\ a = <<keys[p]>> /\ ~SameFlat
               \/ \E m \in on : a = <<m>> /\ SameArm(a)
               \/ p \in Present /\ \E m \in on : a = <<m, p>> /\ <<m>> \in DOMAIN Copts(p).arms /\ ~SameArm(<<m>>)
  <2>1. Holds(a, p, on) <=> l \in on
    BY <1>2, <1>5, <1>9
  <2>2. a # <<keys[p]>>
    BY <1>2, <1>3, <1>9
  <2>3. \A m : a # <<m, p>>
    BY <1>4, <1>9
  <2>4. \A m : a = <<m>> <=> m = l
    BY <1>3, <1>9
  <2>5. QED
    BY <2>1, <2>2, <2>3, <2>4, <1>9
<1>10. ASSUME a \in DOMAIN arms, NEW l \in DOMAIN FlagOf, NEW q \in Present,
              a = <<l, q>>, <<l>> \in DOMAIN Copts(q).arms, ~SameArm(<<l>>)
       PROVE  Holds(a, p, on) <=>
                \/ p \in Present /\ a = <<keys[p]>> /\ ~SameFlat
                \/ \E m \in on : a = <<m>> /\ SameArm(a)
                \/ p \in Present /\ \E m \in on : a = <<m, p>> /\ <<m>> \in DOMAIN Copts(p).arms /\ ~SameArm(<<m>>)
  <2>1. Holds(a, p, on) <=> l \in on /\ q = p
    BY <1>2, <1>5, <1>10
  <2>2. \A m : a # <<m>>
    BY <1>4, <1>10
  <2>3. \A m : a = <<m, p>> <=> m = l /\ q = p
    BY <1>3, <1>10
  <2>4. CASE q = p
    <3>1. l \in on => \E m \in on : a = <<m, p>> /\ <<m>> \in DOMAIN Copts(p).arms /\ ~SameArm(<<m>>)
      BY <2>3, <2>4, <1>10
    <3>2. QED
      BY <3>1, <2>1, <2>2, <2>3, <2>4
  <2>5. CASE q # p
    BY <2>1, <2>2, <2>3, <2>5
  <2>6. QED
    BY <2>4, <2>5
<1>11. a \in DOMAIN arms => (Holds(a, p, on) <=>
         \/ p \in Present /\ a = <<keys[p]>> /\ ~SameFlat
         \/ \E l \in on : a = <<l>> /\ SameArm(a)
         \/ p \in Present /\ \E l \in on : a = <<l, p>> /\ <<l>> \in DOMAIN Copts(p).arms /\ ~SameArm(<<l>>))
  BY <1>1, <1>8, <1>9, <1>10
<1>12. QED
  BY <1>7, <1>11 DEF arms

\* One select() of the options: what it takes decides what it adds.
LEMMA ChosenOne ==
    ASSUME NEW arms, NEW f, NEW p, NEW on, NEW a,
           \A b : Takes(arms, b, p, on) /\ Family(b) = f <=> b = a
    PROVE  Chosen(arms, f, p, on) = arms[a]
<1>1. \A b : b \in Selected(arms, f, p, on) <=> b = a
  BY SelectedAreTaken
<1>2. (CHOOSE b \in Selected(arms, f, p, on) : TRUE) = a /\ Selected(arms, f, p, on) # {}
  BY <1>1
<1>3. QED
  BY <1>2 DEF Chosen

\* A select() of which nothing is taken adds nothing.
LEMMA ChosenNone ==
    ASSUME NEW arms, NEW f, NEW p, NEW on, \A b : ~(Takes(arms, b, p, on) /\ Family(b) = f)
    PROVE  Chosen(arms, f, p, on) = <<>>
<1>1. Selected(arms, f, p, on) = {}
  BY SelectedAreTaken
<1>2. QED
  BY <1>1 DEF Chosen

\* Of a cell's options a platform takes those that are on.
LEMMA CellOptionTakes ==
    ASSUME Folded, <<Default>> \notin Arms(copts), NEW p \in Present, NEW on \in Settings, NEW a
    PROVE  Takes(Copts(p).arms, a, p, on) <=> a \in DOMAIN Copts(p).arms /\ \E l \in on : a = <<l>>
<1> DEFINE arms == Copts(p).arms
<1>1. p \in DOMAIN element.platforms
  BY CellArms DEF Folded
<1>2. a \in DOMAIN arms => a = <<a[1]>> /\ a[1] \in DOMAIN FlagOf \cup {Default} /\ a # <<Default>>
  BY CellOptions DEF Folded
<1>3. Labels(p, on) \cap DOMAIN FlagOf = on
  BY <1>1, WhatHolds
<1>4. \A l, m : <<l>> = <<m>> <=> l = m
  OBVIOUS
<1>5. \A l : Holds(<<l>>, p, on) <=> l \in Labels(p, on)
  BY HoldsAtLabels
<1> HIDE DEF arms
<1>6. Takes(arms, a, p, on) <=> a \in DOMAIN arms /\ Holds(a, p, on)
  BY <1>2 DEF Takes
<1>7. a \in DOMAIN arms => (Holds(a, p, on) <=> \E l \in on : a = <<l>>)
  <2> SUFFICES ASSUME a \in DOMAIN arms
               PROVE  Holds(a, p, on) <=> \E l \in on : a = <<l>>
    OBVIOUS
  <2>1. PICK l \in DOMAIN FlagOf : a = <<l>>
    BY <1>2
  <2>2. Holds(a, p, on) <=> l \in on
    BY <2>1, <1>3, <1>5
  <2>3. \A m : a = <<m>> <=> m = l
    BY <2>1, <1>4
  <2>4. QED
    BY <2>2, <2>3
<1>8. QED
  BY <1>6, <1>7 DEF arms

\* Where a platform declares the target, the folded options are its own.
LEMMA CoptsFold ==
    ASSUME Folded, <<Default>> \notin Arms(copts), NEW p \in Present, NEW on \in Settings
    PROVE  /\ ~Ambiguous(FoldCopts.arms, p, on)
           /\ CoptsOn(FoldCopts, p, on) = CoptsOn(Copts(p), p, on)
<1> DEFINE fold == FoldCopts.arms
           cell == Copts(p).arms
           first == Copts(FirstCell).arms
           own == Copts(p).flat
           k == keys[p]
           TF(a) == Takes(fold, a, p, on)
           TC(a) == Takes(cell, a, p, on)
<1>1. /\ p \in DOMAIN element.platforms
      /\ on \subseteq DOMAIN FlagOf
      /\ \A l, m \in on : FlagOf[l] = FlagOf[m] => l = m
      /\ k \notin DOMAIN FlagOf
  <2>1. p \in DOMAIN element.platforms
    BY CellArms DEF Folded
  <2>2. QED
    BY <2>1, KeysAreOwn DEF Settings
<1>2. \A a : TF(a) <=>
        /\ a \in DOMAIN fold
        /\ \/ a = <<k>> /\ ~SameFlat
           \/ \E l \in on : a = <<l>> /\ SameArm(a)
           \/ \E l \in on : a = <<l, p>> /\ <<l>> \in DOMAIN cell /\ ~SameArm(<<l>>)
  <2> SUFFICES ASSUME NEW a
               PROVE  TF(a) <=>
                        /\ a \in DOMAIN fold
                        /\ \/ a = <<k>> /\ ~SameFlat
                           \/ \E l \in on : a = <<l>> /\ SameArm(a)
                           \/ \E l \in on : a = <<l, p>> /\ <<l>> \in DOMAIN cell /\ ~SameArm(<<l>>)
    OBVIOUS
  <2>1. TF(a) <=>
          /\ a \in DOMAIN FoldCopts.arms
          /\ \/ p \in Present /\ a = <<keys[p]>> /\ ~SameFlat
             \/ \E l \in on : a = <<l>> /\ SameArm(a)
             \/ p \in Present /\ \E l \in on : a = <<l, p>> /\ <<l>> \in DOMAIN Copts(p).arms /\ ~SameArm(<<l>>)
    BY <1>1, OptionTakes
  <2>2. QED
    BY <2>1
<1>3. \A a : TC(a) <=> a \in DOMAIN cell /\ \E l \in on : a = <<l>>
  BY CellOptionTakes
<1>4. /\ \A l, m : <<l>> = <<m>> <=> l = m
      /\ \A l, m, q, r : <<l, q>> = <<m, r>> <=> l = m /\ q = r
      /\ \A l, m, q : <<l>> # <<m, q>>
  BY Families
<1>5. /\ Family(<<k>>) = <<>>
      /\ \A l \in on : \A f : Family(<<l>>) = <<f>> <=> FlagOf[l] = f
      /\ \A l \in on : \A f : Family(<<l, p>>) = <<f, "platform">> <=> FlagOf[l] = f
  <2>1. /\ Family(<<k>>) = <<>>
        /\ \A l \in on : Family(<<l>>) = <<FlagOf[l]>>
        /\ \A l \in on : Family(<<l, p>>) = <<FlagOf[l], "platform">>
    BY <1>1, Families, DefaultFamily
  <2>2. /\ \A x, y : <<x>> = <<y>> <=> x = y
        /\ \A x, y : <<x, "platform">> = <<y, "platform">> <=> x = y
    OBVIOUS
  <2>3. QED
    BY <2>1, <2>2
<1>6. \A l \in on :
        /\ Family(<<l>>) # <<>> /\ Family(<<l, p>>) # <<>>
        /\ \A f : Family(<<l>>) # <<f, "platform">> /\ Family(<<l, p>>) # <<f>>
        /\ \A f : Family(<<k>>) # <<f>> /\ Family(<<k>>) # <<f, "platform">>
        /\ \A m \in on : Family(<<l>>) # Family(<<m, p>>)
        /\ \A m \in on : Family(<<l>>) = Family(<<m>>) <=> FlagOf[l] = FlagOf[m]
        /\ \A m \in on : Family(<<l, p>>) = Family(<<m, p>>) <=> FlagOf[l] = FlagOf[m]
  <2>1. \A x, y : Len(<<x>>) = 1 /\ Len(<<y, "platform">>) = 2 /\ Len(<<>>) = 0
    OBVIOUS
  <2>2. \A x, y : <<x>> # <<y, "platform">> /\ <<x>> # <<>> /\ <<y, "platform">> # <<>>
    BY <2>1
  <2>3. /\ Family(<<k>>) = <<>>
        /\ \A l \in on : Family(<<l>>) = <<FlagOf[l]>>
        /\ \A l \in on : Family(<<l, p>>) = <<FlagOf[l], "platform">>
    BY <1>5
  <2>4. /\ \A x, y : <<x>> = <<y>> <=> x = y
        /\ \A x, y : <<x, "platform">> = <<y, "platform">> <=> x = y
    OBVIOUS
  <2> SUFFICES ASSUME NEW l \in on
               PROVE  /\ Family(<<l>>) # <<>> /\ Family(<<l, p>>) # <<>>
                      /\ \A f : Family(<<l>>) # <<f, "platform">> /\ Family(<<l, p>>) # <<f>>
                      /\ \A f : Family(<<k>>) # <<f>> /\ Family(<<k>>) # <<f, "platform">>
                      /\ \A m \in on : Family(<<l>>) # Family(<<m, p>>)
                      /\ \A m \in on : Family(<<l>>) = Family(<<m>>) <=> FlagOf[l] = FlagOf[m]
                      /\ \A m \in on : Family(<<l, p>>) = Family(<<m, p>>) <=> FlagOf[l] = FlagOf[m]
    OBVIOUS
  <2>5. \A m \in on : Family(<<l>>) # Family(<<m, p>>)
    BY <2>2, <2>3
  <2>6. /\ \A m \in on : Family(<<l>>) = Family(<<m>>) <=> FlagOf[l] = FlagOf[m]
        /\ \A m \in on : Family(<<l, p>>) = Family(<<m, p>>) <=> FlagOf[l] = FlagOf[m]
    BY <2>3, <2>4
  <2>7. QED
    BY <2>2, <2>3, <2>5, <2>6
<1>7. /\ FoldCopts.flat = IF SameFlat THEN Copts(FirstCell).flat ELSE <<>>
      /\ ~SameFlat /\ own # <<>> => <<k>> \in DOMAIN fold
      /\ \A l \in DOMAIN FlagOf : SameArm(<<l>>) /\ first[<<l>>] # <<>> => <<l>> \in DOMAIN fold
      /\ \A l \in DOMAIN FlagOf :
           <<l>> \in DOMAIN cell /\ ~SameArm(<<l>>) /\ cell[<<l>>] # <<>> => <<l, p>> \in DOMAIN fold
  BY FoldedOptions
<1>8. \A a \in DOMAIN fold :
        \/ \E q \in Present : a = <<keys[q]>> /\ ~SameFlat /\ fold[a] = Copts(q).flat
        \/ \E l \in DOMAIN FlagOf : a = <<l>> /\ SameArm(a) /\ fold[a] = first[a]
        \/ \E l \in DOMAIN FlagOf, q \in Present :
             a = <<l, q>> /\ <<l>> \in DOMAIN Copts(q).arms /\ ~SameArm(<<l>>) /\ fold[a] = Copts(q).arms[<<l>>]
  BY FoldedOptions
<1>9. /\ \A a \in DOMAIN cell : cell[a] \o <<>> = cell[a] /\ <<>> \o cell[a] = cell[a]
      /\ own \o <<>> = own /\ <<>> \o own = own
  BY CellOptions DEF Folded
<1>10. \A q \in Present : keys[q] \notin DOMAIN FlagOf /\ (keys[q] = k => q = p)
  <2>1. \A q \in Present : q \in DOMAIN element.platforms
    BY CellArms DEF Folded
  <2>2. QED
    BY <2>1, <1>1, KeysAreOwn
<1>11. \A a : SameArm(a) => a \in DOMAIN cell /\ cell[a] = first[a]
  BY DEF SameArm
<1> HIDE DEF fold, cell, first, own, k, TF, TC
<1>12. /\ <<k>> \in DOMAIN fold => fold[<<k>>] = own
       /\ \A l \in DOMAIN FlagOf : <<l>> \in DOMAIN fold => fold[<<l>>] = first[<<l>>] /\ SameArm(<<l>>)
       /\ \A l \in DOMAIN FlagOf : <<l, p>> \in DOMAIN fold => fold[<<l, p>>] = cell[<<l>>]
  <2>1. ASSUME <<k>> \in DOMAIN fold
        PROVE  fold[<<k>>] = own
    <3>1. (\A m, q : <<k>> # <<m, q>>) /\ \A m \in DOMAIN FlagOf : <<k>> # <<m>>
      BY <1>1, <1>4
    <3>2. \E q \in Present : <<k>> = <<keys[q]>> /\ fold[<<k>>] = Copts(q).flat
      BY <2>1, <3>1, <1>8
    <3>3. QED
      BY <3>2, <1>4, <1>10 DEF own
  <2>2. ASSUME NEW l \in DOMAIN FlagOf, <<l>> \in DOMAIN fold
        PROVE  fold[<<l>>] = first[<<l>>] /\ SameArm(<<l>>)
    <3>1. \A q \in Present : <<l>> # <<keys[q]>>
      BY <1>4, <1>10
    <3>2. \E m \in DOMAIN FlagOf : <<l>> = <<m>> /\ SameArm(<<l>>) /\ fold[<<l>>] = first[<<l>>]
      BY <2>2, <3>1, <1>4, <1>8
    <3>3. QED
      BY <3>2
  <2>3. ASSUME NEW l \in DOMAIN FlagOf, <<l, p>> \in DOMAIN fold
        PROVE  fold[<<l, p>>] = cell[<<l>>]
    <3>1. \A m : <<l, p>> # <<m>>
      BY <1>4
    <3>2. \E m \in DOMAIN FlagOf, q \in Present : <<l, p>> = <<m, q>> /\ fold[<<l, p>>] = Copts(q).arms[<<m>>]
      BY <2>3, <3>1, <1>8
    <3>3. QED
      BY <3>2, <1>4 DEF cell
  <2>4. QED
    BY <2>1, <2>2, <2>3
<1>13. ~Ambiguous(fold, p, on)
  <2> SUFFICES ASSUME NEW a, NEW b, TF(a), TF(b), Family(a) = Family(b)
               PROVE  a = b
    BY AllTaken DEF TF
  <2>1. a = <<k>> \/ (\E l \in on : a = <<l>>) \/ (\E l \in on : a = <<l, p>>)
    BY <1>2
  <2>2. b = <<k>> \/ (\E l \in on : b = <<l>>) \/ (\E l \in on : b = <<l, p>>)
    BY <1>2
  <2>3. CASE a = <<k>>
    BY <2>2, <2>3, <1>5, <1>6
  <2>4. ASSUME NEW l \in on, a = <<l>>
        PROVE  a = b
    <3>1. b # <<k>> /\ \A m \in on : b # <<m, p>>
      <4>1. Family(b) = Family(<<l>>)
        BY <2>4
      <4>2. Family(b) # Family(<<k>>)
        BY <4>1, <1>5, <1>6
      <4>3. \A m \in on : Family(b) # Family(<<m, p>>)
        BY <4>1, <1>6
      <4>4. QED
        BY <4>2, <4>3
    <3>2. PICK m \in on : b = <<m>>
      BY <2>2, <3>1
    <3>3. QED
      BY <2>4, <3>2, <1>1, <1>6
  <2>5. ASSUME NEW l \in on, a = <<l, p>>
        PROVE  a = b
    <3>1. b # <<k>> /\ \A m \in on : b # <<m>>
      <4>1. Family(b) = Family(<<l, p>>)
        BY <2>5
      <4>2. Family(b) # Family(<<k>>)
        BY <4>1, <1>5, <1>6
      <4>3. \A m \in on : Family(<<l, p>>) # Family(<<m>>)
        BY <1>6
      <4>4. QED
        BY <4>1, <4>2, <4>3
    <3>2. PICK m \in on : b = <<m, p>>
      BY <2>2, <3>1
    <3>3. QED
      BY <2>5, <3>2, <1>1, <1>6
  <2>6. QED
    BY <2>1, <2>3, <2>4, <2>5
<1>14. FoldCopts.flat \o Chosen(fold, <<>>, p, on) = own \o Chosen(cell, <<>>, p, on)
  <2>1. Chosen(cell, <<>>, p, on) = <<>>
    <3>1. \A b : ~(TC(b) /\ Family(b) = <<>>)
      BY <1>3, <1>5, <1>6
    <3>2. QED
      BY <3>1, ChosenNone DEF TC
  <2>2. \A b : TF(b) /\ Family(b) = <<>> => b = <<k>> /\ ~SameFlat /\ b \in DOMAIN fold
    BY <1>2, <1>5, <1>6
  <2>3. CASE SameFlat
    <3>1. Chosen(fold, <<>>, p, on) = <<>>
      BY <2>2, <2>3, ChosenNone DEF TF
    <3>2. FoldCopts.flat = own
      BY <2>3, <1>7 DEF SameFlat, own
    <3>3. QED
      BY <2>1, <3>1, <3>2
  <2>4. CASE ~SameFlat /\ <<k>> \in DOMAIN fold
    <3>1. \A b : TF(b) /\ Family(b) = <<>> <=> b = <<k>>
      BY <2>2, <2>4, <1>2, <1>5
    <3>2. Chosen(fold, <<>>, p, on) = own
      BY <3>1, <2>4, <1>12, ChosenOne DEF TF
    <3>3. QED
      BY <2>1, <2>4, <3>2, <1>7, <1>9
  <2>5. CASE ~SameFlat /\ <<k>> \notin DOMAIN fold
    <3>1. Chosen(fold, <<>>, p, on) = <<>>
      BY <2>2, <2>5, ChosenNone DEF TF
    <3>2. QED
      BY <2>1, <2>5, <3>1, <1>7, <1>9
  <2>6. QED
    BY <2>3, <2>4, <2>5
<1>15. ASSUME NEW f
       PROVE  Chosen(fold, <<f>>, p, on) \o Chosen(fold, <<f, "platform">>, p, on)
                = Chosen(cell, <<f>>, p, on) \o Chosen(cell, <<f, "platform">>, p, on)
  <2>1. \A b : TF(b) /\ Family(b) = <<f>> =>
               b \in DOMAIN fold /\ \E l \in on : b = <<l>> /\ FlagOf[l] = f /\ SameArm(b)
    <3> SUFFICES ASSUME NEW b, TF(b), Family(b) = <<f>>
                 PROVE  b \in DOMAIN fold /\ \E l \in on : b = <<l>> /\ FlagOf[l] = f /\ SameArm(b)
      OBVIOUS
    <3>1. b # <<k>> /\ \A l \in on : b # <<l, p>>
      <4>1. \A x : <<x>> # <<>>
        OBVIOUS
      <4>2. Family(b) # Family(<<k>>)
        BY <4>1, <1>5
      <4>3. \A l \in on : Family(<<l, p>>) # <<f>>
        BY <1>6
      <4>4. QED
        BY <4>2, <4>3
    <3>2. PICK l \in on : b = <<l>> /\ SameArm(b)
      BY <3>1, <1>2
    <3>3. FlagOf[l] = f
      BY <3>2, <1>5
    <3>4. QED
      BY <3>2, <3>3, <1>2
  <2>2. \A b : TF(b) /\ Family(b) = <<f, "platform">> =>
               b \in DOMAIN fold /\ \E l \in on : b = <<l, p>> /\ FlagOf[l] = f /\ <<l>> \in DOMAIN cell /\ ~SameArm(<<l>>)
    <3> SUFFICES ASSUME NEW b, TF(b), Family(b) = <<f, "platform">>
                 PROVE  b \in DOMAIN fold /\ \E l \in on : b = <<l, p>> /\ FlagOf[l] = f /\ <<l>> \in DOMAIN cell /\ ~SameArm(<<l>>)
      OBVIOUS
    <3>1. b # <<k>> /\ \A l \in on : b # <<l>>
      <4>1. \A x : <<x, "platform">> # <<>>
        OBVIOUS
      <4>2. Family(b) # Family(<<k>>)
        BY <4>1, <1>5
      <4>3. \A l \in on : Family(b) # Family(<<l>>)
        BY <1>6
      <4>4. QED
        BY <4>2, <4>3
    <3>2. PICK l \in on : b = <<l, p>> /\ <<l>> \in DOMAIN cell /\ ~SameArm(<<l>>)
      BY <3>1, <1>2
    <3>3. FlagOf[l] = f
      BY <3>2, <1>5
    <3>4. QED
      BY <3>2, <3>3, <1>2
  <2>3. \A b : TC(b) /\ Family(b) = <<f>> => b \in DOMAIN cell /\ \E l \in on : b = <<l>> /\ FlagOf[l] = f
    BY <1>3, <1>5, <1>6
  <2>4. Chosen(cell, <<f, "platform">>, p, on) = <<>>
    <3>1. \A b : ~(TC(b) /\ Family(b) = <<f, "platform">>)
      <4> SUFFICES ASSUME NEW b, TC(b), Family(b) = <<f, "platform">>
                   PROVE  FALSE
        OBVIOUS
      <4>1. PICK l \in on : b = <<l>>
        BY <1>3
      <4>2. QED
        BY <4>1, <1>6
    <3>2. QED
      BY <3>1, ChosenNone DEF TC
  <2>5. CASE \A l \in on : FlagOf[l] = f => <<l>> \notin DOMAIN cell
    <3>1. Chosen(cell, <<f>>, p, on) = <<>>
      BY <2>3, <2>5, ChosenNone DEF TC
    <3>2. Chosen(fold, <<f>>, p, on) = <<>>
      BY <2>1, <2>5, <1>11, ChosenNone DEF TF
    <3>3. Chosen(fold, <<f, "platform">>, p, on) = <<>>
      BY <2>2, <2>5, ChosenNone DEF TF
    <3>4. QED
      BY <3>1, <3>2, <3>3, <2>4
  <2>6. ASSUME NEW l \in on, FlagOf[l] = f, <<l>> \in DOMAIN cell
        PROVE  Chosen(fold, <<f>>, p, on) \o Chosen(fold, <<f, "platform">>, p, on) = cell[<<l>>]
    <3>1. \A m \in on : FlagOf[m] = f => m = l
      BY <2>6, <1>1
    <3>2. CASE SameArm(<<l>>)
      <4>1. Chosen(fold, <<f, "platform">>, p, on) = <<>>
        BY <2>2, <3>1, <3>2, ChosenNone DEF TF
      <4>2. cell[<<l>>] = first[<<l>>]
        BY <3>2, <1>11
      <4>3. Chosen(fold, <<f>>, p, on) = cell[<<l>>]
        <5>1. CASE <<l>> \in DOMAIN fold
          <6>1. \A b : TF(b) /\ Family(b) = <<f>> <=> b = <<l>>
            BY <5>1, <2>1, <2>6, <3>1, <3>2, <1>2, <1>5
          <6>2. Chosen(fold, <<f>>, p, on) = fold[<<l>>]
            BY <6>1, ChosenOne DEF TF
          <6>3. QED
            BY <6>2, <5>1, <4>2, <1>1, <1>12
        <5>2. CASE <<l>> \notin DOMAIN fold
          <6>1. Chosen(fold, <<f>>, p, on) = <<>>
            BY <5>2, <2>1, <3>1, ChosenNone DEF TF
          <6>2. QED
            BY <6>1, <5>2, <4>2, <3>2, <1>1, <1>7
        <5>3. QED
          BY <5>1, <5>2
      <4>4. QED
        BY <4>1, <4>3, <2>6, <1>9
    <3>3. CASE ~SameArm(<<l>>)
      <4>1. Chosen(fold, <<f>>, p, on) = <<>>
        BY <2>1, <3>1, <3>3, ChosenNone DEF TF
      <4>2. Chosen(fold, <<f, "platform">>, p, on) = cell[<<l>>]
        <5>1. CASE <<l, p>> \in DOMAIN fold
          <6>1. \A b : TF(b) /\ Family(b) = <<f, "platform">> <=> b = <<l, p>>
            BY <5>1, <2>2, <2>6, <3>1, <3>3, <1>2, <1>5
          <6>2. Chosen(fold, <<f, "platform">>, p, on) = fold[<<l, p>>]
            BY <6>1, ChosenOne DEF TF
          <6>3. QED
            BY <6>2, <5>1, <1>1, <1>12
        <5>2. CASE <<l, p>> \notin DOMAIN fold
          <6>1. Chosen(fold, <<f, "platform">>, p, on) = <<>>
            BY <5>2, <2>2, <3>1, ChosenNone DEF TF
          <6>2. QED
            BY <6>1, <5>2, <3>3, <2>6, <1>1, <1>7
        <5>3. QED
          BY <5>1, <5>2
      <4>3. QED
        BY <4>1, <4>2, <2>6, <1>9
    <3>4. QED
      BY <3>2, <3>3
  <2>7. ASSUME NEW l \in on, FlagOf[l] = f, <<l>> \in DOMAIN cell
        PROVE  Chosen(cell, <<f>>, p, on) = cell[<<l>>]
    <3>1. \A b : TC(b) /\ Family(b) = <<f>> <=> b = <<l>>
      BY <2>3, <2>7, <1>1, <1>3, <1>5
    <3>2. QED
      BY <3>1, ChosenOne DEF TC
  <2>8. QED
    BY <2>4, <2>5, <2>6, <2>7, <1>9
<1>16. CoptsOn(FoldCopts, p, on) = CoptsOn(Copts(p), p, on)
  <2>1. FoldCopts.flat \o Chosen(FoldCopts.arms, <<>>, p, on) = Copts(p).flat \o Chosen(Copts(p).arms, <<>>, p, on)
    BY <1>14 DEF fold, cell, own
  <2>2. ASSUME NEW i \in 1..Len(Flags)
        PROVE  Chosen(FoldCopts.arms, <<Flags[i]>>, p, on) \o Chosen(FoldCopts.arms, <<Flags[i], "platform">>, p, on)
                 = Chosen(Copts(p).arms, <<Flags[i]>>, p, on) \o Chosen(Copts(p).arms, <<Flags[i], "platform">>, p, on)
    BY <1>15 DEF fold, cell
  <2>3. [i \in 1..Len(Flags) |->
           Chosen(FoldCopts.arms, <<Flags[i]>>, p, on) \o Chosen(FoldCopts.arms, <<Flags[i], "platform">>, p, on)]
          = [i \in 1..Len(Flags) |->
               Chosen(Copts(p).arms, <<Flags[i]>>, p, on) \o Chosen(Copts(p).arms, <<Flags[i], "platform">>, p, on)]
    BY <2>2
  <2>4. QED
    BY <2>1, <2>3 DEF CoptsOn
<1>17. QED
  BY <1>13, <1>16 DEF fold

\* What no platform that declares the target has in an arm of its own, and all
\* do not agree on, is nothing where the target is not declared.
LEMMA CoptsAbsent ==
    ASSUME Folded, NEW p \in DOMAIN element.platforms, p \notin Present, NEW on \in Settings,
           \A a \in Arms(copts) : ~SameArm(a)
    PROVE  CoptsOn(FoldCopts, p, on) = CoptsOn([flat |-> <<>>, arms |-> <<>>], p, on)
<1> DEFINE none == [flat |-> <<>>, arms |-> <<>>]
<1>1. <<Default>> \notin Arms(copts)
  BY DEF Folded, DefaultDiverges
<1>2. \A a : SameArm(a) => a \in Arms(copts)
  BY FirstIsPresent, CellOptions DEF SameArm, Folded
<1>3. \A a : ~Takes(FoldCopts.arms, a, p, on)
  BY <1>1, <1>2, OptionTakes
<1>4. \A a : ~Takes(none.arms, a, p, on)
  BY DEF Takes
<1>5. \A f : Chosen(FoldCopts.arms, f, p, on) = <<>> /\ Chosen(none.arms, f, p, on) = <<>>
  BY <1>3, <1>4, ChosenNone
<1>6. FoldCopts.flat = <<>> /\ none.flat = <<>>
  <2>1. ~SameFlat
    BY DEF SameFlat, Phantom
  <2>2. QED
    BY <2>1, <1>1, FoldedOptions
<1> HIDE DEF none
<1>7. CoptsOn(FoldCopts, p, on) = CoptsOn(none, p, on)
  <2>1. FoldCopts.flat \o Chosen(FoldCopts.arms, <<>>, p, on) = none.flat \o Chosen(none.arms, <<>>, p, on)
    BY <1>5, <1>6
  <2>2. ASSUME NEW i \in 1..Len(Flags)
        PROVE  Chosen(FoldCopts.arms, <<Flags[i]>>, p, on) \o Chosen(FoldCopts.arms, <<Flags[i], "platform">>, p, on)
                 = Chosen(none.arms, <<Flags[i]>>, p, on) \o Chosen(none.arms, <<Flags[i], "platform">>, p, on)
    BY <1>5
  <2>3. [i \in 1..Len(Flags) |->
           Chosen(FoldCopts.arms, <<Flags[i]>>, p, on) \o Chosen(FoldCopts.arms, <<Flags[i], "platform">>, p, on)]
          = [i \in 1..Len(Flags) |->
               Chosen(none.arms, <<Flags[i]>>, p, on) \o Chosen(none.arms, <<Flags[i], "platform">>, p, on)]
    BY <2>2
  <2>4. QED
    BY <2>1, <2>3 DEF CoptsOn
<1>8. QED
  BY <1>7 DEF none

\* The same for sources: what no cell agrees with the others on is nothing where the
\* target is not declared.
LEMMA SrcsAbsent ==
    ASSUME Folded, NEW p \in DOMAIN element.platforms, p \notin Present, NEW on \in Settings,
           \A a \in Arms(srcs) : Agreed(a) = {}
    PROVE  SrcsOn(FoldSrcs, p, on) = {}
<1>1. \A l : Agreed(<<l>>) = {}
  <2> SUFFICES ASSUME NEW l, NEW i \in Agreed(<<l>>)
               PROVE  <<l>> \in Arms(srcs)
    OBVIOUS
  <2>1. i \in Carries(srcs, FirstCell, <<l>>)
    BY DEF Agreed
  <2>2. <<l>> \in DOMAIN Srcs(FirstCell).arms
    BY <2>1, FirstIsPresent, CellArms DEF Folded
  <2>3. QED
    BY <2>2, FirstIsPresent DEF Arms, srcs, Folded
<1>2. \A l \in Labels(p, on) \cup {Default} : Plain(l) = {}
  BY <1>1, PlainHere
<1>3. Baseline = {}
  BY DEF Baseline
<1>4. \A i : i \notin SrcsOn(FoldSrcs, p, on)
  BY <1>2, <1>3, FoldSources
<1>5. QED
  BY <1>4

\* FoldedAsConverted for every matrix and every element: where no platform
\* satisfies another's key, what Bazel selects from the folded target is what
\* was converted for the platform.
THEOREM FoldingHolds == FoldSpec => []FoldedAsConverted
<1>1. FoldInv => FoldedAsConverted
  <2> SUFFICES ASSUME FoldInv, folding = "folded", KeysTellApart,
                      NEW p \in DOMAIN element.platforms, NEW on \in Settings
               PROVE
        /\ p \in Present /\ ~Ambiguous(Srcs(p).arms, p, on) =>
             (~Ambiguous(merged.srcs.arms, p, on) /\ SrcsOn(merged.srcs, p, on) = SrcsOn(Srcs(p), p, on)
              <=> ~Disturbed(p, on) /\ Srcs(p).flat \cap Claimed = {})
        /\ p \in Present /\ <<Default>> \notin Arms(copts) =>
             /\ ~Ambiguous(merged.copts.arms, p, on)
             /\ CoptsOn(merged.copts, p, on) = CoptsOn(Copts(p), p, on)
        /\ PathOn(merged.path, p) = IF p \in Present THEN Path(p) ELSE Unset
        /\ p \notin Present =>
             /\ (\A a \in Arms(srcs) : Agreed(a) = {}) => SrcsOn(merged.srcs, p, on) = {}
             /\ (\A a \in Arms(copts) : ~SameArm(a)) =>
                  CoptsOn(merged.copts, p, on) = CoptsOn([flat |-> <<>>, arms |-> <<>>], p, on)
    BY DEF FoldedAsConverted
  <2>1. Folded
    BY DEF FoldInv, Folded
  <2>2. merged.srcs = FoldSrcs /\ merged.copts = FoldCopts /\ merged.path = FoldPath
    BY DEF FoldInv
  <2>3. QED
    BY <2>1, <2>2, SrcsFold, CoptsFold, PathFold, SrcsAbsent, CoptsAbsent
<1>2. QED
  BY <1>1, FoldsKnown, PTL
===============================================================================
