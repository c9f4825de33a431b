----------------------------- MODULE Narrowing -----------------------------
(***************************************************************************)
(* What a published trace is good for.  cmd/write-a/srckey.go keys an      *)
(* element by its source tree narrowed by patterns: a file they cover      *)
(* counts with its content, any other with its name only.  A conversion    *)
(* under a key that has a trace takes it instead of building, however the  *)
(* files behind the names have changed.  cmd/audit-narrowing then compares *)
(* what the traced build read with the patterns.                           *)
(*                                                                         *)
(* A digest is what it digests; sources do not overlap; globs are given by *)
(* what they match.                                                        *)
(***************************************************************************)
EXTENDS Naturals, Sequences, FiniteSets

CONSTANTS
    SourceFiles, \* <<source, path in the source>>
    Directory,   \* source -> its directory in the element, a sequence
    Pinned,      \* sources without a local path: known by their canonical key
    Bytes,       \* contents
    Missing,     \* no such file
    Globs,       \* glob -> the paths it matches
    RuleSets,    \* read-paths.txt may be one of these: [include, exclude]
    Checkouts,   \* what the sources may hold at first
    MaxEdits,    \* bound: edits of sources, patterns and allowlist
    MaxTraces    \* bound: traces published

Rel(f) == Directory[f[1]] \o f[2]

ASSUME SourcesAssumption ==
    /\ \A f, g \in SourceFiles : Rel(f) = Rel(g) => f = g
    /\ Missing \notin Bytes
    /\ Checkouts \subseteq [SourceFiles -> Bytes]
    /\ {MaxEdits, MaxTraces} \subseteq Nat

VARIABLES
    tree,    \* file -> its content
    rules,   \* the element's patterns
    allow,   \* its expected drift: paths
    traces,  \* srckey -> the tree its trace was made from, and what it read
    reports, \* srckey -> the last audit's report, with its patterns and allowlist
    edits    \* how many there have been

narrowingVars == <<tree, rules, allow, traces, reports, edits>>

-----------------------------------------------------------------------------
(* computeSrckey *)

Hits(globs, path) == \E g \in globs : path \in Globs[g]

\* Patterns.Match
Match(r, path) ==
    /\ r.include = {} \/ Hits(r.include, path)
    /\ ~Hits(r.exclude, path)

Contribution(t, r, f) ==
    IF f[1] \in Pinned THEN <<"source", Directory[f[1]], [g \in {h \in SourceFiles : h[1] = f[1]} |-> t[g]]>>
    ELSE IF Match(r, f[2]) THEN <<"content", Rel(f), t[f]>>
    ELSE <<"name", Rel(f)>>

\* Fault: a source without a local path is left out.
LocalKey(t, r) ==
    {Contribution(t, r, f) : f \in {g \in SourceFiles : g[1] \notin Pinned /\ t[g] # Missing}}

SrcKey(t, r) ==
    {Contribution(t, r, f) : f \in {g \in SourceFiles : g[1] \in Pinned \/ t[g] # Missing}}

NarrowingInit ==
    /\ tree \in Checkouts
    /\ rules \in RuleSets
    /\ allow = {}
    /\ traces = <<>>
    /\ reports = <<>>
    /\ edits = 0

-----------------------------------------------------------------------------

Edit ==
    /\ edits < MaxEdits
    /\ edits' = edits + 1
    /\ UNCHANGED <<traces, reports>>

\* A file is changed, added or removed (in a pinned source: by a new ref).
EditSource(f, c) ==
    /\ Edit
    /\ tree' = [tree EXCEPT ![f] = c]
    /\ UNCHANGED <<rules, allow>>

EditPatterns(r) ==
    /\ Edit
    /\ rules' = r
    /\ UNCHANGED <<tree, allow>>

\* A reported path is accepted.
Expect(f) ==
    /\ Edit
    /\ allow' = allow \cup {Rel(f)}
    /\ UNCHANGED <<tree, rules>>

Extend(fun, k, v) == [x \in DOMAIN fun \cup {k} |-> IF x = k THEN v ELSE fun[x]]

\* No trace under the key: the element is built, and the build's reads traced.
BuildTraced(read) ==
    /\ Cardinality(DOMAIN traces) < MaxTraces
    /\ SrcKey(tree, rules) \notin DOMAIN traces
    /\ \A f \in read : tree[f] # Missing
    /\ traces' = Extend(traces, SrcKey(tree, rules), [tree |-> tree, read |-> read])
    /\ UNCHANGED <<tree, rules, allow, reports, edits>>

\* audit-narrowing, on the trace that the element has now: the paths it has
\* read are the staged tree's, relative to the element.
Undercovered(read) == {f \in read : ~Match(rules, Rel(f)) /\ Rel(f) \notin allow}

AuditNarrowing ==
    /\ SrcKey(tree, rules) \in DOMAIN traces
    /\ LET k == SrcKey(tree, rules)
       IN reports' = Extend(reports, k, [missed |-> Undercovered(traces[k].read),
                                         rules |-> rules, allow |-> allow])
    /\ UNCHANGED <<tree, rules, allow, traces, edits>>

NarrowingNext ==
    \/ \E f \in SourceFiles, c \in Bytes \cup {Missing} : EditSource(f, c)
    \/ \E r \in RuleSets : EditPatterns(r)
    \/ \E f \in SourceFiles : Expect(f)
    \/ \E read \in SUBSET SourceFiles : BuildTraced(read)
    \/ AuditNarrowing

NarrowingSpec == NarrowingInit /\ [][NarrowingNext]_narrowingVars

-----------------------------------------------------------------------------
(* Properties *)

\* A clean audit is what makes a hit safe: whatever has been edited since, an
\* element that finds a trace whose audit was clean has the very bytes that the
\* trace's build read, but for the expected drift, and but for the files in a
\* source with a directory that the patterns cover under one of its two paths
\* only: computeSrckey matches the path in the source, the audit the path in
\* the element.
CleanAuditMakesHitsSafe ==
    \A k \in DOMAIN reports :
      k = SrcKey(tree, rules) /\ reports[k].missed = {} =>
        \A f \in traces[k].read :
          \/ tree[f] = traces[k].tree[f]
          \/ Rel(f) \in reports[k].allow
          \/ Match(reports[k].rules, f[2]) # Match(reports[k].rules, Rel(f))
=============================================================================
