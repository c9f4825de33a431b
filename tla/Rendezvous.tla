------------------------------ MODULE Rendezvous ------------------------------
(***************************************************************************)
(* The AC/CAS rendezvous between project B's trace_build actions, which    *)
(* run trace-publish, and project A's trace_load actions, which run        *)
(* trace-lookup, over a shared REAPI store whose contents may be evicted   *)
(* at any moment.  Every remote call is a step of its own.                 *)
(***************************************************************************)
EXTENDS TraceDirectories

CONSTANTS
    Builds,               \* the trace_build outcomes there are to publish
    Publishers,           \* trace-publish processes that may run at once
    Lookups,              \* trace-lookup processes that may run at once
    Evictable,            \* kinds of things the store may evict
    CompletenessChecked,  \* the store's AC hides results with missing blobs
    Endpoints             \* what CAS_GRPC_ADDR may be for a lookup

ASSUME BuildsAssumption ==
    Builds \subseteq [cell : Cells, trace : TraceDirectory,
                     bundle : BundleDirectory \cup {Nothing}]

ASSUME StoreAssumption ==
    /\ Evictable \subseteq {"file", "dir", "tree", "entry"}
    /\ CompletenessChecked \in BOOLEAN
    /\ Endpoints \subseteq {"reachable", "unset", "unreachable"}

VARIABLES
    cas,      \* the blobs the store holds
    ac,       \* its ActionCache: key -> the root Directory of the result
    pub,      \* the trace-publish processes
    look,     \* the trace-lookup processes and the outputs of their last run
    offered,  \* history: what publishers were given, and for which cell
    evicted   \* history: every blob the store has dropped

vars == <<cas, ac, pub, look, offered, evicted>>

Idle == [pc |-> "idle"]

\* A publisher works on one keyspace at a time: `root` is the directory it
\* is publishing, `bundle` what is left for the second keyspace.
PubState == [pc : {"idle"}] \cup
    [pc : {"find", "put", "entry"}, space : Spaces, cell : Cells,
     root : Directory, bundle : Directory, missing : SUBSET Blob]

LookState == [pc : {"idle"}] \cup
    [pc : {"get", "check", "fetch", "files", "ok", "failed"},
     space : Spaces, cell : Cells, root : Directory, got : Directory,
     outs : [Names -> Contents \cup {Empty, Absent}],
     marker : {"absent", "hit", "miss"}]

Offer == [space : Spaces, cell : Cells, root : Directory]

TypeOK ==
    /\ cas \subseteq Blob
    /\ ac \in [Keys -> Directory]
    /\ pub \in [Publishers -> PubState]
    /\ look \in [Lookups -> LookState]
    /\ offered \subseteq Offer
    /\ evicted \subseteq Blob

Init ==
    /\ cas = {}
    /\ ac = [k \in Keys |-> Nothing]
    /\ pub = [p \in Publishers |-> Idle]
    /\ look = [l \in Lookups |-> Idle]
    /\ offered = {}
    /\ evicted = {}

-----------------------------------------------------------------------------
(* trace-publish *)

\* A trace_build action reaches its publish step with a trace directory to
\* publish and, when the install tree has any, a config bundle.
StartPublish(p, build) ==
    /\ pub[p].pc = "idle"
    /\ pub' = [pub EXCEPT ![p] =
                  [pc |-> "find", space |-> "trace", cell |-> build.cell,
                   root |-> build.trace, bundle |-> build.bundle, missing |-> {}]]
    /\ offered' = offered
          \cup {[space |-> "trace", cell |-> build.cell, root |-> build.trace]}
          \cup {[space |-> "config", cell |-> build.cell, root |-> d] :
                    d \in {build.bundle} \ {Nothing}}
    /\ UNCHANGED <<cas, ac, look, evicted>>

\* Fault: the directory's files are not asked about, so never uploaded.
FindMissingDirectoryOnly(p) ==
    /\ pub[p].pc = "find"
    /\ pub' = [pub EXCEPT ![p].pc = "put",
                          ![p].missing = {DirBlob(pub[p].root)} \ cas]
    /\ UNCHANGED <<cas, ac, look, offered, evicted>>

\* uploadTree: one FindMissing for the directory and all its files.
FindMissing(p) ==
    /\ pub[p].pc = "find"
    /\ pub' = [pub EXCEPT ![p].pc = "put",
                          ![p].missing = Packed(pub[p].root) \ cas]
    /\ UNCHANGED <<cas, ac, look, offered, evicted>>

\* uploadTree: PutBlob of each missing blob, the directory before the files.
PutMissing(p) ==
    /\ pub[p].pc = "put"
    /\ \E b \in pub[p].missing :
          /\ DirBlob(pub[p].root) \in pub[p].missing => b = DirBlob(pub[p].root)
          /\ cas' = cas \cup {b}
          /\ pub' = [pub EXCEPT ![p].missing = @ \ {b}]
    /\ UNCHANGED <<ac, look, offered, evicted>>

\* Fault: the ActionResult is written while blobs are still to be put.
PutTreeEarly(p) ==
    /\ pub[p].pc = "put"
    /\ cas' = cas \cup {TreeBlob(pub[p].root)}
    /\ pub' = [pub EXCEPT ![p].pc = "entry"]
    /\ UNCHANGED <<ac, look, offered, evicted>>

\* The Tree proto is put without asking whether it is missing.
PutTree(p) ==
    /\ pub[p].pc = "put"
    /\ pub[p].missing = {}
    /\ cas' = cas \cup {TreeBlob(pub[p].root)}
    /\ pub' = [pub EXCEPT ![p].pc = "entry"]
    /\ UNCHANGED <<ac, look, offered, evicted>>

\* UpdateActionResult; after the trace's, main goes on to the bundle, and
\* after the last one the process exits.
UpdateEntry(p) ==
    /\ pub[p].pc = "entry"
    /\ ac' = [ac EXCEPT ![SyntheticKey(pub[p].space, pub[p].cell)] = pub[p].root]
    /\ pub' = [pub EXCEPT ![p] =
                  IF pub[p].bundle = Nothing THEN Idle
                  ELSE [pc |-> "find", space |-> "config", cell |-> pub[p].cell,
                        root |-> pub[p].bundle, bundle |-> Nothing, missing |-> {}]]
    /\ UNCHANGED <<cas, look, offered, evicted>>

\* log.Fatalf on any failed call, or the action is killed.
PublishDies(p) ==
    /\ pub[p].pc # "idle"
    /\ pub' = [pub EXCEPT ![p] = Idle]
    /\ UNCHANGED <<cas, ac, look, offered, evicted>>

-----------------------------------------------------------------------------
(* trace-lookup *)

Resting(l) == look[l].pc \in {"idle", "ok", "failed"}

NoOutputs == [n \in Names |-> Absent]

\* writeMissOutputs: zero-byte trace.log and make-db.txt; the bundle output
\* is not among them.
MissOutputs(outs) == [n \in Names |-> IF n \in NamesOf("trace") THEN Empty ELSE outs[n]]

LookupState(pc, cell, outs, marker) ==
    [pc |-> pc, space |-> "trace", cell |-> cell, root |-> Nothing,
     got |-> Nothing, outs |-> outs, marker |-> marker]

StartLookup(l, cell) ==
    /\ "reachable" \in Endpoints
    /\ Resting(l)
    /\ look' = [look EXCEPT ![l] = LookupState("get", cell, NoOutputs, "absent")]
    /\ UNCHANGED <<cas, ac, pub, offered, evicted>>

\* No CAS_GRPC_ADDR: the miss outputs are written and main returns.
LookupOffline(l, cell) ==
    /\ "unset" \in Endpoints
    /\ Resting(l)
    /\ look' = [look EXCEPT ![l] = LookupState("ok", cell, MissOutputs(NoOutputs), "miss")]
    /\ UNCHANGED <<cas, ac, pub, offered, evicted>>

\* grpc.NewClient does not connect, so an endpoint that nothing answers at is
\* met by the first call, GetActionResult, whose error is not ErrNotFound.
LookupUnreachable(l, cell) ==
    /\ "unreachable" \in Endpoints
    /\ Resting(l)
    /\ look' = [look EXCEPT ![l] = LookupState("failed", cell, NoOutputs, "absent")]
    /\ UNCHANGED <<cas, ac, pub, offered, evicted>>

\* The keyspace at hand is finished: on to the bundle after the trace, and
\* exit 0 after the bundle.
Finish(l, outs, marker) ==
    look' = [look EXCEPT ![l] =
        [pc |-> IF look[l].space = "trace" THEN "get" ELSE "ok", space |-> "config",
         cell |-> look[l].cell, root |-> Nothing, got |-> Nothing,
         outs |-> outs, marker |-> marker]]

\* Fault: no zero-byte bundle is written when the bundle misses.
MissWithoutBundle(l) ==
    IF look[l].space = "trace"
    THEN Finish(l, MissOutputs(look[l].outs), "miss")
    ELSE Finish(l, look[l].outs, look[l].marker)

\* Fault: a missing bundle is waited for.
MissRetried(l) ==
    IF look[l].space = "trace"
    THEN Finish(l, MissOutputs(look[l].outs), "miss")
    ELSE look' = [look EXCEPT ![l].pc = "get"]

\* A miss in the keyspace at hand.
Miss(l) ==
    IF look[l].space = "trace"
    THEN Finish(l, MissOutputs(look[l].outs), "miss")
    ELSE Finish(l, [look[l].outs EXCEPT ![BundleTar] = Empty], look[l].marker)

\* exit 1: Bazel discards what was written.
Fail(l) == look' = [look EXCEPT ![l].pc = "failed", ![l].root = Nothing, ![l].got = Nothing]

\* The store's completeness checker answers NotFound for a result whose Tree,
\* or a file the Tree names, is missing.
Visible(d) ==
    /\ d # Nothing
    /\ CompletenessChecked => {TreeBlob(d)} \cup FileBlobs(d) \subseteq cas

\* lookup and materializeConfigBundle: GetActionResult.
GetEntry(l) ==
    /\ look[l].pc = "get"
    /\ LET d == ac[SyntheticKey(look[l].space, look[l].cell)] IN
         IF Visible(d)
         THEN look' = [look EXCEPT ![l].pc = "check", ![l].root = d]
         ELSE Miss(l)
    /\ UNCHANGED <<cas, ac, pub, offered, evicted>>

\* FindMissing, of the root Directory digest alone.
CheckRoot(l) ==
    /\ look[l].pc = "check"
    /\ IF DirBlob(look[l].root) \in cas
       THEN look' = [look EXCEPT ![l].pc = "fetch"]
       ELSE Miss(l)
    /\ UNCHANGED <<cas, ac, pub, offered, evicted>>

\* MaterializeDirectory: GetBlob of the Directory, ...
FetchDirectory(l) ==
    /\ look[l].pc = "fetch"
    /\ IF DirBlob(look[l].root) \in cas
       THEN look' = [look EXCEPT ![l].pc = "files"]
       ELSE Fail(l)
    /\ UNCHANGED <<cas, ac, pub, offered, evicted>>

\* Fault: a file whose blob is missing is left out of the directory.
FetchFileSkipping(l) ==
    /\ look[l].pc = "files"
    /\ \E f \in look[l].root \ look[l].got :
          IF FileBlob(f.content) \in cas
          THEN look' = [look EXCEPT ![l].got = @ \cup {f}]
          ELSE look' = [look EXCEPT ![l].root = @ \ {f}]
    /\ UNCHANGED <<cas, ac, pub, offered, evicted>>

\* ... then GetBlob of each file it names.
FetchFile(l) ==
    /\ look[l].pc = "files"
    /\ \E f \in look[l].root \ look[l].got :
          IF FileBlob(f.content) \in cas
          THEN look' = [look EXCEPT ![l].got = @ \cup {f}]
          ELSE Fail(l)
    /\ UNCHANGED <<cas, ac, pub, offered, evicted>>

\* materializeHit and materializeConfigBundle copy the scratch directory's
\* files to the declared outputs; only the trace has a marker.
WriteOutputs(l) ==
    /\ look[l].pc = "files"
    /\ look[l].got = look[l].root
    /\ LET view == View(look[l].space, look[l].got) IN
       Finish(l,
              [n \in Names |-> IF n \in NamesOf(look[l].space) THEN view[n]
                               ELSE look[l].outs[n]],
              IF look[l].space = "trace" THEN "hit" ELSE look[l].marker)
    /\ UNCHANGED <<cas, ac, pub, offered, evicted>>

\* The action is killed, or a call fails other than by NotFound.
LookupDies(l) ==
    /\ ~Resting(l)
    /\ look' = [look EXCEPT ![l] = Idle]
    /\ UNCHANGED <<cas, ac, pub, offered, evicted>>

-----------------------------------------------------------------------------
(* the store *)

Evict(b) ==
    /\ b \in cas
    /\ b.type \in Evictable
    /\ cas' = cas \ {b}
    /\ evicted' = evicted \cup {b}
    /\ UNCHANGED <<ac, pub, look, offered>>

EvictEntry(k) ==
    /\ "entry" \in Evictable
    /\ ac[k] # Nothing
    /\ ac' = [ac EXCEPT ![k] = Nothing]
    /\ UNCHANGED <<cas, pub, look, offered, evicted>>

-----------------------------------------------------------------------------

Publish(p) ==
    \/ \E build \in Builds : StartPublish(p, build)
    \/ FindMissing(p)
    \/ PutMissing(p)
    \/ PutTree(p)
    \/ UpdateEntry(p)
    \/ PublishDies(p)

LookupStep(l) ==
    \/ GetEntry(l)
    \/ CheckRoot(l)
    \/ FetchDirectory(l)
    \/ FetchFile(l)
    \/ WriteOutputs(l)

Lookup(l) ==
    \/ \E c \in Cells : StartLookup(l, c)
    \/ \E c \in Cells : LookupOffline(l, c)
    \/ \E c \in Cells : LookupUnreachable(l, c)
    \/ LookupStep(l)
    \/ LookupDies(l)

Store ==
    \/ \E b \in cas : Evict(b)
    \/ \E k \in Keys : EvictEntry(k)

Next ==
    \/ \E p \in Publishers : Publish(p)
    \/ \E l \in Lookups : Lookup(l)
    \/ Store

Spec == Init /\ [][Next]_vars

\* A started process keeps running: nothing in trace-lookup waits for another
\* process, and Bazel runs the action to its end.
FairSpec == Spec /\ \A l \in Lookups : WF_vars(LookupStep(l))

-----------------------------------------------------------------------------
(* Safety *)

\* Every blob an ActionResult refers to is in the store or was evicted from
\* it: no publisher, however its calls interleave with other publishers'
\* or wherever it dies, names a blob in the AC that was never uploaded.
NoDanglingEntry ==
    \A k \in Keys : ac[k] # Nothing => BlobsOf(ac[k]) \subseteq cas \cup evicted

\* Its inductive strengthening: what a publisher has asked about or put by
\* now is, blob by blob, stored, evicted, or still on its list.
UploadInv ==
    /\ NoDanglingEntry
    /\ \A p \in Publishers :
          /\ pub[p].pc = "put" =>
                Packed(pub[p].root) \subseteq cas \cup evicted \cup pub[p].missing
          /\ pub[p].pc = "entry" => BlobsOf(pub[p].root) \subseteq cas \cup evicted

\* What a lookup has taken from a keyspace, judging by its outputs alone.
Taken(k, space) == [n \in NamesOf(space) |-> k.outs[n]]
HitIn(k, space) ==
    IF space = "trace" THEN k.marker = "hit" ELSE k.outs[BundleTar] \notin {Empty, Absent}

Offered(space, cell, root) == [space |-> space, cell |-> cell, root |-> root] \in offered

Authentic(k) ==
    \A space \in Spaces : HitIn(k, space) =>
        \E d \in Directory : Offered(space, k.cell, d) /\ Taken(k, space) = View(space, d)

\* The files of a hit are, together, one directory that one publisher was
\* given for this source key and this platform: trace.log and make-db.txt of
\* two concurrent publishers never mix, nor do platforms or keyspaces.
HitIsAuthentic == \A l \in Lookups : look[l].pc # "idle" => Authentic(look[l])

\* Its inductive strengthening: whatever is in the AC, in a publisher's hands
\* or being fetched was offered for the keyspace and cell it is used for.
EntriesOffered ==
    \A space \in Spaces, cell \in Cells :
        LET d == ac[SyntheticKey(space, cell)] IN d # Nothing => Offered(space, cell, d)
PublishersOffered ==
    \A p \in Publishers : pub[p].pc # "idle" =>
        /\ Offered(pub[p].space, pub[p].cell, pub[p].root)
        /\ pub[p].bundle # Nothing => Offered("config", pub[p].cell, pub[p].bundle)
LookupsOffered ==
    \A l \in Lookups : look[l].pc \in {"check", "fetch", "files"} =>
        Offered(look[l].space, look[l].cell, look[l].root)
OfferInv == EntriesOffered /\ PublishersOffered /\ LookupsOffered /\ HitIsAuthentic

\* Bazel's contract with trace_load (traces.bzl): an action that exits 0 has
\* created every output the rule declares.
DeclaredOutputsExist ==
    \A l \in Lookups : look[l].pc = "ok" =>
        /\ look[l].marker # "absent"
        /\ \A n \in Names : look[l].outs[n] # Absent

(* Liveness *)

\* A started lookup ends, whatever publishers and evictions do meanwhile.
LookupEnds == \A l \in Lookups : ~Resting(l) ~> Resting(l)

(* What the repository says that the code does not do *)

\* docs/design/rendezvous.md, "Eviction resilience", and cas.Store's contract:
\* an evicted blob makes the lookup a miss, never a failure.
EvictionIsMiss == \A l \in Lookups : look[l].pc # "failed"
=============================================================================
