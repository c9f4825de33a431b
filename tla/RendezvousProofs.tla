--------------------------- MODULE RendezvousProofs ---------------------------
(***************************************************************************)
(* Proofs about Rendezvous for every set of source keys, platforms, file   *)
(* bodies and processes, and every store.                                  *)
(***************************************************************************)
EXTENDS RendezvousRefinement, TLAPS

(***************************************************************************)
(* Lemmas about directories, blobs and keys.                               *)
(***************************************************************************)

\* The blobs of a directory are blobs.
LEMMA BlobsType ==
    ASSUME NEW d \in Directory
    PROVE  /\ DirBlob(d) \in Blob
           /\ TreeBlob(d) \in Blob
           /\ Packed(d) \subseteq Blob
           /\ BlobsOf(d) \subseteq Blob
BY DEF Directory, FileNode, DirBlob, TreeBlob, FileBlob, FileBlobs, Packed, BlobsOf, Blob

\* A key is one of the ActionCache's.
LEMMA KeyType ==
    ASSUME NEW space \in Spaces, NEW cell \in Cells
    PROVE  SyntheticKey(space, cell) \in Keys
BY DEF SyntheticKey, Cells, Keys

\* Rendezvous by key is exact: two cells, or the two keyspaces, never share a
\* key.
LEMMA KeyInjective ==
    ASSUME NEW s1 \in Spaces, NEW s2 \in Spaces, NEW c1 \in Cells, NEW c2 \in Cells,
           SyntheticKey(s1, c1) = SyntheticKey(s2, c2)
    PROVE  s1 = s2 /\ c1 = c2
BY DEF SyntheticKey, Cells

\* What a lookup writes out is a body or the zero-byte body.
LEMMA ContentType ==
    ASSUME NEW d \in Directory, NEW n
    PROVE  ContentOf(d, n) \in Contents \cup {Empty}
<1>1. CASE \E f \in d : f.name = n
  <2>1. (CHOOSE f \in d : f.name = n) \in d
    BY <1>1
  <2>2. QED
    BY <1>1, <2>1 DEF ContentOf, Directory, FileNode
<1>2. CASE ~ \E f \in d : f.name = n
  BY <1>2 DEF ContentOf
<1>3. QED
  BY <1>1, <1>2

\* The trace directories and bundles that builds produce are directories.
LEMMA BuildsType ==
    ASSUME NEW build \in Builds
    PROVE  /\ build.cell \in Cells
           /\ build.trace \in Directory
           /\ build.bundle \in Directory
<1>1. TraceDirectory \subseteq Directory
  BY DEF TraceDirectory, Directory, FileNode, Node, Names, Contents, TraceLog, MakeDB
<1>2. BundleDirectory \subseteq Directory
  BY DEF BundleDirectory, Directory, FileNode, Node, Names, Contents, BundleTar
<1>3. Nothing \in Directory
  BY DEF Nothing, Directory
<1>4. QED
  BY <1>1, <1>2, <1>3, BuildsAssumption

(***************************************************************************)
(* Type correctness.                                                       *)
(***************************************************************************)

LookRest == {"idle", "ok", "failed"}
Outs == [Names -> Contents \cup {Empty, Absent}]

\* Filling in the declared outputs of a miss keeps one entry per name.
LEMMA MissOutputsType ==
    ASSUME NEW outs \in Outs
    PROVE  MissOutputs(outs) \in Outs
BY DEF MissOutputs, Outs

\* A lookup that finishes is in a lookup's state.
LEMMA FinishType ==
    ASSUME TypeOK, NEW l \in Lookups, look[l].pc # "idle",
           NEW outs \in Outs, NEW marker \in {"absent", "hit", "miss"},
           Finish(l, outs, marker)
    PROVE  look' \in [Lookups -> LookState]
BY DEF Finish, TypeOK, LookState, Outs, Spaces, Directory, Nothing

\* A lookup that writes its miss outputs is in a lookup's state.
LEMMA MissType ==
    ASSUME TypeOK, NEW l \in Lookups, look[l].pc # "idle", Miss(l)
    PROVE  look' \in [Lookups -> LookState]
<1>1. look[l].outs \in Outs /\ look[l].marker \in {"absent", "hit", "miss"}
  BY DEF TypeOK, LookState, Outs
<1>2. [look[l].outs EXCEPT ![BundleTar] = Empty] \in Outs
  BY <1>1 DEF Outs
<1>3. QED
  BY <1>1, <1>2, MissOutputsType, FinishType DEF Miss

\* A lookup that fails is in a lookup's state.
LEMMA FailType ==
    ASSUME TypeOK, NEW l \in Lookups, look[l].pc # "idle", Fail(l)
    PROVE  look' \in [Lookups -> LookState]
<1> DEFINE k == look[l]
           new == [k EXCEPT !.pc = "failed", !.root = Nothing, !.got = Nothing]
<1>1. k \in [pc : {"get", "check", "fetch", "files", "ok", "failed"},
             space : Spaces, cell : Cells, root : Directory, got : Directory,
             outs : [Names -> Contents \cup {Empty, Absent}],
             marker : {"absent", "hit", "miss"}]
  BY DEF TypeOK, LookState
<1>2. Nothing \in Directory
  BY DEF Nothing, Directory
<1>3. new \in LookState
  BY <1>1, <1>2 DEF LookState
<1>4. look' = [look EXCEPT ![l] = new]
  BY DEF Fail
<1>5. QED
  BY <1>3, <1>4 DEF TypeOK

\* TypeOK is an invariant: in particular a publisher's missing set holds only
\* blobs, and every output of a lookup is a published body or empty.
THEOREM TypeCorrect == Spec => []TypeOK
<1>1. Init => TypeOK
  BY DEF Init, TypeOK, Nothing, Directory, Idle, PubState, LookState
<1>2. TypeOK /\ [Next]_vars => TypeOK'
  <2> SUFFICES ASSUME TypeOK, [Next]_vars PROVE TypeOK'
    OBVIOUS
  <2>1. ASSUME NEW p \in Publishers, NEW build \in Builds, StartPublish(p, build)
        PROVE  TypeOK'
    <3>1. /\ build.cell \in Cells
          /\ build.trace \in Directory
          /\ build.bundle \in Directory
      BY BuildsType
    <3>2. pub' \in [Publishers -> PubState]
      BY <2>1, <3>1 DEF StartPublish, TypeOK, PubState, Spaces
    <3>3. offered' \subseteq Offer
      BY <2>1, <3>1 DEF StartPublish, TypeOK, Offer, Spaces
    <3>4. QED
      BY <2>1, <3>2, <3>3 DEF StartPublish, TypeOK
  <2>2. ASSUME NEW p \in Publishers, FindMissing(p) PROVE TypeOK'
    <3>1. Packed(pub[p].root) \subseteq Blob
      BY <2>2, BlobsType DEF FindMissing, TypeOK, PubState
    <3>2. pub[p].pc = "find" /\ pub[p] \in PubState
      BY <2>2 DEF FindMissing, TypeOK
    <3>3. [pub[p] EXCEPT !.pc = "put", !.missing = Packed(pub[p].root) \ cas] \in PubState
      BY <3>1, <3>2 DEF PubState
    <3>4. pub' = [pub EXCEPT ![p] = [pub[p] EXCEPT !.pc = "put", !.missing = Packed(pub[p].root) \ cas]]
      BY <2>2 DEF FindMissing, TypeOK
    <3>5. QED
      BY <2>2, <3>3, <3>4 DEF FindMissing, TypeOK
  <2>3. ASSUME NEW p \in Publishers, PutMissing(p) PROVE TypeOK'
    BY <2>3 DEF PutMissing, TypeOK, PubState
  <2>4. ASSUME NEW p \in Publishers, PutTree(p) PROVE TypeOK'
    <3>1. TreeBlob(pub[p].root) \in Blob
      BY <2>4, BlobsType DEF PutTree, TypeOK, PubState
    <3>2. QED
      BY <2>4, <3>1 DEF PutTree, TypeOK, PubState
  <2>5. ASSUME NEW p \in Publishers, UpdateEntry(p) PROVE TypeOK'
    <3>1. /\ pub[p].space \in Spaces
          /\ pub[p].cell \in Cells
          /\ pub[p].root \in Directory
          /\ pub[p].bundle \in Directory
      BY <2>5 DEF UpdateEntry, TypeOK, PubState
    <3>2. ac' \in [Keys -> Directory]
      BY <2>5, <3>1, KeyType DEF UpdateEntry, TypeOK
    <3>3. pub' \in [Publishers -> PubState]
      BY <2>5, <3>1 DEF UpdateEntry, TypeOK, PubState, Idle, Spaces, Directory, Nothing
    <3>4. QED
      BY <2>5, <3>2, <3>3 DEF UpdateEntry, TypeOK
  <2>6. ASSUME NEW p \in Publishers, PublishDies(p) PROVE TypeOK'
    BY <2>6 DEF PublishDies, TypeOK, PubState, Idle
  <2>7. ASSUME NEW l \in Lookups, NEW c \in Cells,
               \/ StartLookup(l, c)
               \/ LookupOffline(l, c)
               \/ LookupUnreachable(l, c)
        PROVE  TypeOK'
    <3>1. NoOutputs \in Outs
      BY DEF NoOutputs, Outs
    <3>2. MissOutputs(NoOutputs) \in Outs
      BY <3>1, MissOutputsType
    <3>3. look' \in [Lookups -> LookState]
      BY <2>7, <3>1, <3>2 DEF StartLookup, LookupOffline, LookupUnreachable, LookupState,
         TypeOK, LookState, Outs, Spaces, Directory, Nothing
    <3>4. QED
      BY <2>7, <3>3 DEF StartLookup, LookupOffline, LookupUnreachable, TypeOK
  <2>8. ASSUME NEW l \in Lookups, GetEntry(l) PROVE TypeOK'
    <3>1. look[l].space \in Spaces /\ look[l].cell \in Cells /\ look[l].pc # "idle"
      BY <2>8 DEF GetEntry, TypeOK, LookState
    <3>2. ac[SyntheticKey(look[l].space, look[l].cell)] \in Directory
      BY <3>1, KeyType DEF TypeOK
    <3> DEFINE d == ac[SyntheticKey(look[l].space, look[l].cell)]
    <3>3. CASE Visible(d)
      <4>1. look' = [look EXCEPT ![l].pc = "check", ![l].root = d]
        BY <2>8, <3>3 DEF GetEntry
      <4>2. [look[l] EXCEPT !.pc = "check", !.root = d] \in LookState
        BY <3>1, <3>2 DEF TypeOK, LookState
      <4>3. QED
        BY <2>8, <4>1, <4>2 DEF GetEntry, TypeOK
    <3>4. CASE ~Visible(d)
      <4>1. Miss(l)
        BY <2>8, <3>4 DEF GetEntry
      <4>2. QED
        BY <2>8, <3>1, <4>1, MissType DEF GetEntry, TypeOK
    <3>5. QED
      BY <3>3, <3>4
  <2>9. ASSUME NEW l \in Lookups, CheckRoot(l) PROVE TypeOK'
    <3>1. look' \in [Lookups -> LookState]
      BY <2>9, MissType DEF CheckRoot, TypeOK, LookState
    <3>2. QED
      BY <2>9, <3>1 DEF CheckRoot, TypeOK
  <2>10. ASSUME NEW l \in Lookups, FetchDirectory(l) PROVE TypeOK'
    <3>1. look' \in [Lookups -> LookState]
      BY <2>10, FailType DEF FetchDirectory, TypeOK, LookState
    <3>2. QED
      BY <2>10, <3>1 DEF FetchDirectory, TypeOK
  <2>11. ASSUME NEW l \in Lookups, FetchFile(l) PROVE TypeOK'
    <3>1. PICK f \in look[l].root \ look[l].got :
              IF FileBlob(f.content) \in cas
              THEN look' = [look EXCEPT ![l].got = @ \cup {f}]
              ELSE Fail(l)
      BY <2>11 DEF FetchFile
    <3>2. look[l].pc = "files" /\ look[l].got \cup {f} \in Directory
      BY <2>11 DEF FetchFile, TypeOK, LookState, Directory
    <3>3. CASE FileBlob(f.content) \in cas
      <4>1. [look[l] EXCEPT !.got = @ \cup {f}] \in LookState
        BY <3>2 DEF TypeOK, LookState
      <4>2. QED
        BY <2>11, <3>1, <3>3, <4>1 DEF FetchFile, TypeOK
    <3>4. CASE FileBlob(f.content) \notin cas
      BY <2>11, <3>1, <3>2, <3>4, FailType DEF FetchFile, TypeOK
    <3>5. QED
      BY <3>3, <3>4
  <2>12. ASSUME NEW l \in Lookups, WriteOutputs(l) PROVE TypeOK'
    <3> DEFINE view == View(look[l].space, look[l].got)
               outs == [n \in Names |-> IF n \in NamesOf(look[l].space) THEN view[n]
                                        ELSE look[l].outs[n]]
               marker == IF look[l].space = "trace" THEN "hit" ELSE look[l].marker
    <3>1. /\ look[l].pc # "idle"
          /\ look[l].got \in Directory
          /\ look[l].outs \in Outs
          /\ look[l].marker \in {"absent", "hit", "miss"}
      BY <2>12 DEF WriteOutputs, TypeOK, LookState, Outs
    <3>2. ASSUME NEW n \in NamesOf(look[l].space) PROVE view[n] \in Contents \cup {Empty}
      BY <3>1, ContentType DEF View
    <3>3. outs \in Outs
      BY <3>1, <3>2 DEF Outs
    <3>4. Finish(l, outs, marker)
      BY <2>12 DEF WriteOutputs
    <3>5. look' \in [Lookups -> LookState]
      BY <3>1, <3>3, <3>4, FinishType
    <3>6. QED
      BY <2>12, <3>5 DEF WriteOutputs, TypeOK
  <2>13. ASSUME NEW l \in Lookups, LookupDies(l) PROVE TypeOK'
    BY <2>13 DEF LookupDies, TypeOK, LookState, Idle
  <2>14. ASSUME NEW b \in cas, Evict(b) PROVE TypeOK'
    BY <2>14 DEF Evict, TypeOK
  <2>15. ASSUME NEW k \in Keys, EvictEntry(k) PROVE TypeOK'
    BY <2>15 DEF EvictEntry, TypeOK, Directory, Nothing
  <2>16. CASE UNCHANGED vars
    BY <2>16 DEF vars, TypeOK
  <2>17. QED
    BY <2>1, <2>2, <2>3, <2>4, <2>5, <2>6, <2>7, <2>8, <2>9, <2>10, <2>11, <2>12,
       <2>13, <2>14, <2>15, <2>16 DEF Next, Publish, Lookup, LookupStep, Store
<1>3. QED
  BY <1>1, <1>2, PTL DEF Spec

(***************************************************************************)
(* No dangling entries.                                                    *)
(***************************************************************************)

\* Blob by blob, what a publisher has asked about is stored, evicted or still
\* on its list (UploadInv), however publishers interleave in uploadTree.
THEOREM UploadsAreComplete == Spec => []UploadInv
<1>1. Init => UploadInv
  BY DEF Init, UploadInv, NoDanglingEntry, Idle
<1>2. TypeOK /\ UploadInv /\ [Next]_vars => UploadInv'
  <2> SUFFICES ASSUME TypeOK, UploadInv, [Next]_vars PROVE UploadInv'
    OBVIOUS
  <2> USE DEF UploadInv
  <2>1. ASSUME NEW p \in Publishers, NEW build \in Builds, StartPublish(p, build)
        PROVE  UploadInv'
    BY <2>1 DEF StartPublish, NoDanglingEntry, TypeOK
  <2>2. ASSUME NEW p \in Publishers, FindMissing(p) PROVE UploadInv'
    BY <2>2 DEF FindMissing, NoDanglingEntry, TypeOK, PubState
  <2>3. ASSUME NEW p \in Publishers, PutMissing(p) PROVE UploadInv'
    BY <2>3 DEF PutMissing, NoDanglingEntry, TypeOK, PubState
  <2>4. ASSUME NEW p \in Publishers, PutTree(p) PROVE UploadInv'
    BY <2>4 DEF PutTree, NoDanglingEntry, TypeOK, PubState, BlobsOf
  <2>5. ASSUME NEW p \in Publishers, UpdateEntry(p) PROVE UploadInv'
    <3>1. SyntheticKey(pub[p].space, pub[p].cell) \in Keys
      BY <2>5, KeyType DEF UpdateEntry, TypeOK, PubState
    <3>2. NoDanglingEntry'
      BY <2>5, <3>1 DEF UpdateEntry, NoDanglingEntry, TypeOK
    <3>3. QED
      BY <2>5, <3>2 DEF UpdateEntry, TypeOK, Idle
  <2>6. ASSUME NEW p \in Publishers, PublishDies(p) PROVE UploadInv'
    BY <2>6 DEF PublishDies, NoDanglingEntry, TypeOK, Idle
  <2>7. ASSUME NEW l \in Lookups, Lookup(l) PROVE UploadInv'
    <3>1. UNCHANGED <<cas, ac, pub, evicted>>
      BY <2>7 DEF Lookup, LookupStep, StartLookup, LookupOffline, LookupUnreachable,
         GetEntry, CheckRoot, FetchDirectory, FetchFile, WriteOutputs, LookupDies
    <3>2. QED
      BY <3>1 DEF NoDanglingEntry
  <2>8. ASSUME NEW b \in cas, Evict(b) PROVE UploadInv'
    BY <2>8 DEF Evict, NoDanglingEntry
  <2>9. ASSUME NEW k \in Keys, EvictEntry(k) PROVE UploadInv'
    BY <2>9 DEF EvictEntry, NoDanglingEntry, TypeOK, Nothing
  <2>10. CASE UNCHANGED vars
    BY <2>10 DEF vars, NoDanglingEntry
  <2>11. QED
    BY <2>1, <2>2, <2>3, <2>4, <2>5, <2>6, <2>7, <2>8, <2>9, <2>10
       DEF Next, Publish, Store
<1>3. QED
  BY <1>1, <1>2, TypeCorrect, PTL DEF Spec

\* No publisher names in the ActionCache a blob that was never uploaded.
THEOREM NothingDangles == Spec => []NoDanglingEntry
<1>1. UploadInv => NoDanglingEntry
  BY DEF UploadInv
<1>2. QED
  BY <1>1, UploadsAreComplete, PTL

(***************************************************************************)
(* Hits are authentic.                                                     *)
(***************************************************************************)

\* Offers are never withdrawn, so neither is a lookup's authenticity.
LEMMA AuthenticStable ==
    ASSUME offered \subseteq offered', NEW k, Authentic(k)
    PROVE  Authentic(k)'
BY DEF Authentic, Offered

\* The outputs of a miss are as authentic as they were: a miss is not a hit.
LEMMA MissAuthentic ==
    ASSUME TypeOK, OfferInv, NEW l \in Lookups, look[l].pc # "idle", Miss(l)
    PROVE  Authentic(look'[l]) /\ look'[l].pc \in {"get", "ok"}
<1> DEFINE k == look[l]
<1>1. /\ Authentic(k)
      /\ k.outs \in Outs
      /\ l \in DOMAIN look
  BY DEF TypeOK, LookState, OfferInv, HitIsAuthentic, Outs
<1>2. CASE k.space = "trace"
  <2>1. /\ look'[l].marker = "miss"
        /\ look'[l].outs = MissOutputs(k.outs)
        /\ look'[l].cell = k.cell
        /\ look'[l].pc = "get"
    BY <1>1, <1>2 DEF Miss, Finish, TypeOK
  <2>2. ~HitIn(look'[l], "trace")
    BY <2>1 DEF HitIn
  <2>3. MissOutputs(k.outs)[BundleTar] = k.outs[BundleTar]
    BY DEF MissOutputs, Names, NamesOf, BundleTar, TraceLog, MakeDB
  <2>4. HitIn(look'[l], "config") => HitIn(k, "config")
    BY <2>1, <2>3 DEF HitIn
  <2>5. Taken(look'[l], "config") = Taken(k, "config")
    BY <2>1, <2>3 DEF Taken, NamesOf
  <2>6. QED
    BY <1>1, <2>1, <2>2, <2>4, <2>5 DEF Authentic, Spaces
<1>3. CASE k.space # "trace"
  <2>1. /\ look'[l].marker = k.marker
        /\ look'[l].outs = [k.outs EXCEPT ![BundleTar] = Empty]
        /\ look'[l].cell = k.cell
        /\ look'[l].pc = "ok"
    BY <1>1, <1>3 DEF Miss, Finish, TypeOK
  <2>2. ~HitIn(look'[l], "config")
    BY <1>1, <2>1 DEF HitIn, Outs, Names
  <2>3. HitIn(look'[l], "trace") => HitIn(k, "trace")
    BY <2>1 DEF HitIn
  <2>4. Taken(look'[l], "trace") = Taken(k, "trace")
    BY <1>1, <2>1 DEF Taken, NamesOf, Outs, BundleTar, TraceLog, MakeDB
  <2>5. QED
    BY <1>1, <2>1, <2>2, <2>3, <2>4 DEF Authentic, Spaces
<1>4. QED
  BY <1>2, <1>3

\* The outputs of a hit are those of the directory that was fetched whole.
LEMMA HitAuthentic ==
    ASSUME TypeOK, OfferInv, NEW l \in Lookups, WriteOutputs(l)
    PROVE  Authentic(look'[l]) /\ look'[l].pc \in {"get", "ok"}
<1> DEFINE k == look[l]
           view == View(k.space, k.got)
<1>1. /\ Authentic(k)
      /\ k.outs \in Outs
      /\ k.space \in Spaces
      /\ k.root \in Directory
      /\ k.got = k.root
      /\ Offered(k.space, k.cell, k.root)
  BY DEF WriteOutputs, TypeOK, LookState, OfferInv, LookupsOffered, HitIsAuthentic, Outs
<1>2. /\ look'[l].outs = [n \in Names |-> IF n \in NamesOf(k.space) THEN view[n] ELSE k.outs[n]]
      /\ look'[l].marker = IF k.space = "trace" THEN "hit" ELSE k.marker
      /\ look'[l].cell = k.cell
      /\ look'[l].pc \in {"get", "ok"}
  BY DEF WriteOutputs, Finish, TypeOK
<1>3. Taken(look'[l], k.space) = View(k.space, k.root)
  BY <1>1, <1>2 DEF Taken, View, Names, NamesOf
<1>4. ASSUME NEW other \in Spaces, other # k.space
      PROVE  /\ Taken(look'[l], other) = Taken(k, other)
             /\ HitIn(look'[l], other) => HitIn(k, other)
  BY <1>1, <1>2, <1>4 DEF Taken, HitIn, Spaces, Names, NamesOf, BundleTar, TraceLog, MakeDB
<1>5. QED
  BY <1>1, <1>2, <1>3, <1>4 DEF Authentic

\* What is in the ActionCache, in a publisher's hands or being fetched was
\* offered for the keyspace and cell it is used for (OfferInv).
THEOREM OffersAreKept == Spec => []OfferInv
<1>1. Init => OfferInv
  BY KeyType DEF Init, OfferInv, EntriesOffered, PublishersOffered, LookupsOffered,
     HitIsAuthentic, Idle
<1>2. TypeOK /\ OfferInv /\ [Next]_vars => OfferInv'
  <2> SUFFICES ASSUME TypeOK, OfferInv, [Next]_vars PROVE OfferInv'
    OBVIOUS
  <2>1. ASSUME NEW p \in Publishers, NEW build \in Builds, StartPublish(p, build)
        PROVE  OfferInv'
    <3>1. offered \subseteq offered' /\ UNCHANGED <<ac, look>>
      BY <2>1 DEF StartPublish
    <3>2. EntriesOffered' /\ LookupsOffered'
      BY <3>1 DEF OfferInv, EntriesOffered, LookupsOffered, Offered
    <3>3. PublishersOffered'
      BY <2>1, <3>1 DEF StartPublish, OfferInv, PublishersOffered, Offered, TypeOK
    <3>4. HitIsAuthentic'
      BY <3>1, AuthenticStable DEF OfferInv, HitIsAuthentic
    <3>5. QED
      BY <3>2, <3>3, <3>4 DEF OfferInv
  <2>2. ASSUME NEW p \in Publishers,
               FindMissing(p) \/ PutMissing(p) \/ PutTree(p) \/ PublishDies(p)
        PROVE  OfferInv'
    <3>1. UNCHANGED <<ac, look, offered>>
      BY <2>2 DEF FindMissing, PutMissing, PutTree, PublishDies
    <3>2. \A q \in Publishers : pub'[q].pc # "idle" =>
             /\ pub[q].pc # "idle"
             /\ pub'[q].space = pub[q].space
             /\ pub'[q].cell = pub[q].cell
             /\ pub'[q].root = pub[q].root
             /\ pub'[q].bundle = pub[q].bundle
      BY <2>2 DEF FindMissing, PutMissing, PutTree, PublishDies, TypeOK, PubState, Idle
    <3>3. QED
      BY <3>1, <3>2 DEF OfferInv, EntriesOffered, PublishersOffered, LookupsOffered,
         HitIsAuthentic, Offered, Authentic
  <2>3. ASSUME NEW p \in Publishers, UpdateEntry(p) PROVE OfferInv'
    <3>1. /\ UNCHANGED <<look, offered>>
          /\ pub[p].space \in Spaces
          /\ pub[p].cell \in Cells
          /\ Offered(pub[p].space, pub[p].cell, pub[p].root)
          /\ pub[p].bundle # Nothing => Offered("config", pub[p].cell, pub[p].bundle)
      BY <2>3 DEF UpdateEntry, TypeOK, PubState, OfferInv, PublishersOffered
    <3>2. EntriesOffered'
      <4> SUFFICES ASSUME NEW space \in Spaces, NEW cell \in Cells,
                          ac'[SyntheticKey(space, cell)] # Nothing
                   PROVE  Offered(space, cell, ac[SyntheticKey(space, cell)])'
        BY DEF EntriesOffered
      <4>1. SyntheticKey(space, cell) \in Keys
        BY KeyType
      <4>2. CASE SyntheticKey(space, cell) = SyntheticKey(pub[p].space, pub[p].cell)
        <5>1. space = pub[p].space /\ cell = pub[p].cell
          BY <3>1, <4>2, KeyInjective
        <5>2. QED
          BY <2>3, <3>1, <4>1, <4>2, <5>1 DEF UpdateEntry, TypeOK, Offered
      <4>3. CASE SyntheticKey(space, cell) # SyntheticKey(pub[p].space, pub[p].cell)
        <5>1. ac'[SyntheticKey(space, cell)] = ac[SyntheticKey(space, cell)]
          BY <2>3, <4>1, <4>3 DEF UpdateEntry, TypeOK
        <5>2. QED
          BY <3>1, <5>1 DEF OfferInv, EntriesOffered, Offered
      <4>4. QED
        BY <4>2, <4>3
    <3>3. PublishersOffered'
      BY <2>3, <3>1 DEF UpdateEntry, OfferInv, PublishersOffered, Offered, TypeOK, Idle
    <3>4. LookupsOffered' /\ HitIsAuthentic'
      BY <3>1 DEF OfferInv, LookupsOffered, HitIsAuthentic, Offered, Authentic
    <3>5. QED
      BY <3>2, <3>3, <3>4 DEF OfferInv
  <2>4. ASSUME NEW l \in Lookups, Lookup(l) PROVE OfferInv'
    <3>1. UNCHANGED <<ac, pub, offered>>
      BY <2>4 DEF Lookup, LookupStep, StartLookup, LookupOffline, LookupUnreachable,
         GetEntry, CheckRoot, FetchDirectory, FetchFile, WriteOutputs, LookupDies
    <3>2. EntriesOffered' /\ PublishersOffered'
      BY <3>1 DEF OfferInv, EntriesOffered, PublishersOffered, Offered
    <3>3. \A m \in Lookups : m # l => look'[m] = look[m]
      BY <2>4 DEF Lookup, LookupStep, StartLookup, LookupOffline, LookupUnreachable,
         GetEntry, CheckRoot, FetchDirectory, FetchFile, WriteOutputs, LookupDies,
         Miss, Finish, Fail, TypeOK
    <3>4. /\ look'[l].pc # "idle" => Authentic(look'[l])
          /\ look'[l].pc \in {"check", "fetch", "files"} =>
                Offered(look'[l].space, look'[l].cell, look'[l].root)
      <4>1. ASSUME NEW c \in Cells,
                   \/ StartLookup(l, c)
                   \/ LookupOffline(l, c)
                   \/ LookupUnreachable(l, c)
            PROVE  /\ Authentic(look'[l])
                   /\ look'[l].pc \notin {"check", "fetch", "files"}
        <5>1. /\ look'[l].marker # "hit"
              /\ look'[l].outs[BundleTar] = Absent
              /\ look'[l].pc \notin {"check", "fetch", "files"}
          BY <4>1 DEF StartLookup, LookupOffline, LookupUnreachable, LookupState, TypeOK,
             MissOutputs, NoOutputs, Names, NamesOf, BundleTar, TraceLog, MakeDB
        <5>2. QED
          BY <5>1 DEF Authentic, HitIn, Spaces
      <4>2. CASE GetEntry(l)
        <5> DEFINE d == ac[SyntheticKey(look[l].space, look[l].cell)]
        <5>1. CASE Visible(d)
          <6>1. /\ look'[l] = [look[l] EXCEPT !.pc = "check", !.root = d]
                /\ look[l].pc = "get"
            BY <4>2, <5>1 DEF GetEntry, TypeOK
          <6>2. /\ look[l].space \in Spaces
                /\ look[l].cell \in Cells
                /\ d # Nothing
                /\ Authentic(look[l])
            BY <5>1, <6>1 DEF Visible, TypeOK, LookState, OfferInv, HitIsAuthentic
          <6>3. Offered(look[l].space, look[l].cell, d)
            BY <6>2 DEF OfferInv, EntriesOffered
          <6>4. /\ look'[l].space = look[l].space
                /\ look'[l].cell = look[l].cell
                /\ look'[l].root = d
                /\ look'[l].outs = look[l].outs
                /\ look'[l].marker = look[l].marker
            BY <6>1 DEF TypeOK, LookState
          <6>5. QED
            BY <6>2, <6>3, <6>4 DEF Authentic, Taken, HitIn
        <5>2. CASE ~Visible(d)
          BY <4>2, <5>2, MissAuthentic DEF GetEntry
        <5>3. QED
          BY <5>1, <5>2
      <4>3. CASE CheckRoot(l) /\ DirBlob(look[l].root) \notin cas
        BY <4>3, MissAuthentic DEF CheckRoot
      <4>4. CASE \/ CheckRoot(l) /\ DirBlob(look[l].root) \in cas
                 \/ FetchDirectory(l)
                 \/ FetchFile(l)
        <5>1. /\ look[l].pc \in {"check", "fetch", "files"}
              /\ look'[l].pc \in {"fetch", "files", "failed"}
              /\ look'[l].pc # "failed" => look'[l].root = look[l].root
              /\ look'[l].space = look[l].space
              /\ look'[l].cell = look[l].cell
              /\ look'[l].outs = look[l].outs
              /\ look'[l].marker = look[l].marker
          BY <4>4 DEF CheckRoot, FetchDirectory, FetchFile, Fail, TypeOK, LookState
        <5>2. Authentic(look[l]) /\ Offered(look[l].space, look[l].cell, look[l].root)
          BY <5>1 DEF OfferInv, HitIsAuthentic, LookupsOffered
        <5>3. QED
          BY <5>1, <5>2 DEF Authentic, Taken, HitIn
      <4>5. CASE WriteOutputs(l)
        BY <4>5, HitAuthentic
      <4>6. CASE LookupDies(l)
        BY <4>6 DEF LookupDies, Idle, TypeOK
      <4>7. QED
        BY <2>4, <4>1, <4>2, <4>3, <4>4, <4>5, <4>6 DEF Lookup, LookupStep
    <3>5. HitIsAuthentic' /\ LookupsOffered'
      BY <3>1, <3>3, <3>4 DEF OfferInv, HitIsAuthentic, LookupsOffered, Authentic, Offered
    <3>6. QED
      BY <3>2, <3>5 DEF OfferInv
  <2>5. ASSUME NEW b \in cas, Evict(b) PROVE OfferInv'
    BY <2>5 DEF Evict, OfferInv, EntriesOffered, PublishersOffered, LookupsOffered,
       HitIsAuthentic, Authentic, Offered
  <2>6. ASSUME NEW k \in Keys, EvictEntry(k) PROVE OfferInv'
    <3>1. UNCHANGED <<pub, look, offered>>
      BY <2>6 DEF EvictEntry
    <3>2. EntriesOffered'
      BY <2>6, KeyType DEF EvictEntry, OfferInv, EntriesOffered, Offered, TypeOK
    <3>3. QED
      BY <3>1, <3>2 DEF OfferInv, PublishersOffered, LookupsOffered, HitIsAuthentic,
         Authentic, Offered
  <2>7. CASE UNCHANGED vars
    BY <2>7 DEF vars, OfferInv, EntriesOffered, PublishersOffered, LookupsOffered,
       HitIsAuthentic, Authentic, Offered
  <2>8. QED
    BY <2>1, <2>2, <2>3, <2>4, <2>5, <2>6, <2>7 DEF Next, Publish, Store
<1>3. QED
  BY <1>1, <1>2, TypeCorrect, PTL DEF Spec

\* A hit is one publication for the same source key and platform, whole.
THEOREM HitsAreAuthentic == Spec => []HitIsAuthentic
<1>1. OfferInv => HitIsAuthentic
  BY DEF OfferInv
<1>2. QED
  BY <1>1, OffersAreKept, PTL

(***************************************************************************)
(* Declared outputs.                                                       *)
(***************************************************************************)

\* A lookup that has gone on to the bundle has written the trace's outputs, and
\* one that has ended well the bundle's too.
OutputsInv ==
    \A l \in Lookups : LET k == look[l] IN
        /\ k.pc \in {"get", "check", "fetch", "files"} /\ k.space = "config" =>
              /\ k.marker # "absent"
              /\ k.outs[TraceLog] # Absent /\ k.outs[MakeDB] # Absent
        /\ k.pc = "ok" =>
              /\ k.marker # "absent"
              /\ \A n \in Names : k.outs[n] # Absent

\* A miss writes the keyspace's outputs.
LEMMA MissWrites ==
    ASSUME TypeOK, OutputsInv, NEW l \in Lookups, look[l].pc \in {"get", "check"}, Miss(l)
    PROVE  OutputsInv'
<1> DEFINE k == look[l]
<1>1. k.outs \in Outs /\ k.space \in Spaces
  BY DEF TypeOK, LookState, Outs
<1>2. \A m \in Lookups : m # l => look'[m] = look[m]
  BY DEF Miss, Finish, TypeOK
<1>3. CASE k.space = "trace"
  <2>1. look'[l].pc = "get" /\ look'[l].marker = "miss" /\ look'[l].outs = MissOutputs(k.outs)
    BY <1>3 DEF Miss, Finish, TypeOK
  <2>2. look'[l].outs[TraceLog] = Empty /\ look'[l].outs[MakeDB] = Empty
    BY <2>1 DEF MissOutputs, Names, NamesOf, TraceLog, MakeDB, BundleTar
  <2>3. QED
    BY <1>2, <2>1, <2>2, BundlesAssumption DEF OutputsInv
<1>4. CASE k.space = "config"
  <2>1. look'[l].pc = "ok" /\ look'[l].marker = k.marker /\ look'[l].outs = [k.outs EXCEPT ![BundleTar] = Empty]
    BY <1>4 DEF Miss, Finish, TypeOK
  <2>2. k.marker # "absent" /\ k.outs[TraceLog] # Absent /\ k.outs[MakeDB] # Absent
    BY <1>4 DEF OutputsInv
  <2>3. \A n \in Names : look'[l].outs[n] # Absent
    BY <1>1, <2>1, <2>2, BundlesAssumption DEF Outs, Names, TraceLog, MakeDB, BundleTar
  <2>4. look'[l].pc = "ok" /\ look'[l].marker # "absent"
    BY <2>1, <2>2
  <2> DEFINE Done(j) ==
               /\ j.pc \in {"get", "check", "fetch", "files"} /\ j.space = "config" =>
                     /\ j.marker # "absent"
                     /\ j.outs[TraceLog] # Absent /\ j.outs[MakeDB] # Absent
               /\ j.pc = "ok" =>
                     /\ j.marker # "absent"
                     /\ \A n \in Names : j.outs[n] # Absent
  <2>5. Done(look'[l])
    BY <2>3, <2>4
  <2>6. \A m \in Lookups : Done(look[m])
    BY DEF OutputsInv
  <2> HIDE DEF Done
  <2>7. \A m \in Lookups : Done(look'[m])
    BY <1>2, <2>5, <2>6
  <2>8. QED
    BY <2>7 DEF Done, OutputsInv
<1>5. QED
  BY <1>1, <1>3, <1>4 DEF Spaces

\* A hit does.
LEMMA HitWrites ==
    ASSUME TypeOK, OutputsInv, NEW l \in Lookups, WriteOutputs(l)
    PROVE  OutputsInv'
<1> DEFINE k == look[l]
           view == View(k.space, k.got)
<1>1. k.outs \in Outs /\ k.space \in Spaces /\ k.got \in Directory /\ k.pc = "files"
  BY DEF WriteOutputs, TypeOK, LookState, Outs
<1>2. \A m \in Lookups : m # l => look'[m] = look[m]
  BY DEF WriteOutputs, Finish, TypeOK
<1>3. \A n \in NamesOf(k.space) : view[n] # Absent
  BY <1>1, ContentType, BundlesAssumption DEF View
<1>4. /\ look'[l].outs = [n \in Names |-> IF n \in NamesOf(k.space) THEN view[n] ELSE k.outs[n]]
      /\ look'[l].marker = IF k.space = "trace" THEN "hit" ELSE k.marker
      /\ look'[l].pc = IF k.space = "trace" THEN "get" ELSE "ok"
      /\ look'[l].space = "config"
  BY DEF WriteOutputs, Finish, TypeOK
<1>5. CASE k.space = "trace"
  <2>1. look'[l].outs[TraceLog] # Absent /\ look'[l].outs[MakeDB] # Absent
    BY <1>3, <1>4, <1>5 DEF Names, NamesOf
  <2>2. QED
    BY <1>2, <1>4, <1>5, <2>1 DEF OutputsInv
<1>6. CASE k.space = "config"
  <2>1. k.marker # "absent" /\ k.outs[TraceLog] # Absent /\ k.outs[MakeDB] # Absent
    BY <1>1, <1>6 DEF OutputsInv
  <2>2. \A n \in Names : look'[l].outs[n] # Absent
    BY <1>3, <1>4, <1>6, <2>1 DEF Names, NamesOf, TraceLog, MakeDB, BundleTar
  <2>3. QED
    BY <1>2, <1>4, <1>6, <2>1, <2>2 DEF OutputsInv
<1>7. QED
  BY <1>1, <1>5, <1>6 DEF Spaces

\* With a CAS address configured, an action that exits 0 has created every
\* output that its rule declares (DeclaredOutputsExist), whatever is hit,
\* missed or evicted.  Without one the bundle is not (LookupOffline).
THEOREM OutputsExist ==
    ASSUME "unset" \notin Endpoints PROVE Spec => []DeclaredOutputsExist
<1>1. Init => OutputsInv
  BY DEF Init, OutputsInv, Idle
<1>2. TypeOK /\ OutputsInv /\ [Next]_vars => OutputsInv'
  <2> SUFFICES ASSUME TypeOK, OutputsInv, [Next]_vars PROVE OutputsInv'
    OBVIOUS
  <2>1. ASSUME UNCHANGED look PROVE OutputsInv'
    BY <2>1 DEF OutputsInv
  <2>2. ASSUME NEW p \in Publishers, Publish(p) PROVE OutputsInv'
    BY <2>1, <2>2 DEF Publish, StartPublish, FindMissing, PutMissing, PutTree, UpdateEntry, PublishDies
  <2>3. ASSUME NEW l \in Lookups, Lookup(l) PROVE OutputsInv'
    <3>1. ASSUME NEW c \in Cells, StartLookup(l, c) \/ LookupUnreachable(l, c) PROVE OutputsInv'
      <4>1. \A m \in Lookups : m # l => look'[m] = look[m]
        BY <3>1 DEF StartLookup, LookupUnreachable, TypeOK
      <4>2. look'[l].pc \in {"get", "failed"} /\ look'[l].space = "trace"
        BY <3>1 DEF StartLookup, LookupUnreachable, LookupState, TypeOK
      <4>3. QED
        BY <4>1, <4>2 DEF OutputsInv
    <3>2. ~ \E c \in Cells : LookupOffline(l, c)
      BY DEF LookupOffline
    <3>3. ASSUME UNCHANGED <<cas, ac>>, Miss(l), look[l].pc \in {"get", "check"} PROVE OutputsInv'
      BY <3>3, MissWrites
    <3>4. ASSUME \/ GetEntry(l) /\ Visible(ac[SyntheticKey(look[l].space, look[l].cell)])
                 \/ CheckRoot(l) /\ DirBlob(look[l].root) \in cas
                 \/ FetchDirectory(l)
                 \/ FetchFile(l)
          PROVE OutputsInv'
      <4>1. \A m \in Lookups : m # l => look'[m] = look[m]
        BY <3>4 DEF GetEntry, CheckRoot, FetchDirectory, FetchFile, Fail, TypeOK
      <4>2. /\ look[l].pc \in {"get", "check", "fetch", "files"}
            /\ look'[l].pc \in {"check", "fetch", "files", "failed"}
            /\ look'[l].space = look[l].space
            /\ look'[l].outs = look[l].outs
            /\ look'[l].marker = look[l].marker
        BY <3>4 DEF GetEntry, CheckRoot, FetchDirectory, FetchFile, Fail, TypeOK, LookState
      <4>3. QED
        BY <4>1, <4>2 DEF OutputsInv
    <3>5. CASE GetEntry(l)
      BY <3>3, <3>4, <3>5 DEF GetEntry
    <3>6. CASE CheckRoot(l)
      BY <3>3, <3>4, <3>6 DEF CheckRoot
    <3>7. CASE WriteOutputs(l)
      BY <3>7, HitWrites
    <3>8. CASE LookupDies(l)
      BY <3>8 DEF LookupDies, OutputsInv, TypeOK, Idle
    <3>9. QED
      BY <2>3, <3>1, <3>2, <3>4, <3>5, <3>6, <3>7, <3>8 DEF Lookup, LookupStep
  <2>4. CASE Store
    BY <2>1, <2>4 DEF Store, Evict, EvictEntry
  <2>5. CASE UNCHANGED vars
    BY <2>1, <2>5 DEF vars
  <2>6. QED
    BY <2>2, <2>3, <2>4, <2>5 DEF Next
<1>3. OutputsInv => DeclaredOutputsExist
  BY DEF OutputsInv, DeclaredOutputsExist
<1>4. QED
  BY <1>1, <1>2, <1>3, TypeCorrect, PTL DEF Spec

(***************************************************************************)
(* Rendezvous implements TraceRegistry.                                    *)
(***************************************************************************)

\* What the mapping of a lookup's steps depends on: a bundle's directory is
\* one a bundle was staged in, and what a lookup has read refers to blobs that
\* were uploaded.
ReadingInv ==
    /\ \A o \in offered : o.space = "config" => o.root \in BundleDirectory
    /\ \A l \in Lookups : look[l].pc \in {"check", "fetch", "files"} =>
          BlobsOf(look[l].root) \subseteq cas \cup evicted

\* A blob that was uploaded stays uploaded, or is evicted.
LEMMA UploadedStays ==
    ASSUME TypeOK, [Next]_vars
    PROVE  cas \cup evicted \subseteq cas' \cup evicted'
<1>1. ASSUME NEW p \in Publishers, Publish(p) PROVE cas \subseteq cas' /\ evicted' = evicted
  BY <1>1 DEF Publish, StartPublish, FindMissing, PutMissing, PutTree, UpdateEntry, PublishDies
<1>2. ASSUME NEW l \in Lookups, Lookup(l) PROVE cas' = cas /\ evicted' = evicted
  BY <1>2 DEF Lookup, LookupStep, StartLookup, LookupOffline, LookupUnreachable,
     GetEntry, CheckRoot, FetchDirectory, FetchFile, WriteOutputs, LookupDies
<1>3. CASE Store
  BY <1>3 DEF Store, Evict, EvictEntry
<1>4. CASE UNCHANGED vars
  BY <1>4 DEF vars
<1>5. QED
  BY <1>1, <1>2, <1>3, <1>4 DEF Next

\* A lookup's step leaves every other lookup as it was.
LEMMA OneLookup ==
    ASSUME TypeOK, NEW l \in Lookups, Lookup(l)
    PROVE  /\ \A m \in Lookups : m # l => look'[m] = look[m]
           /\ UNCHANGED <<cas, ac, pub, offered, evicted>>
BY DEF Lookup, LookupStep, StartLookup, LookupOffline, LookupUnreachable,
   GetEntry, CheckRoot, FetchDirectory, FetchFile, WriteOutputs, LookupDies,
   Miss, Finish, Fail, TypeOK

\* A lookup that is reading has kept the root it read, or has just read it from
\* the ActionCache.
LEMMA RootRead ==
    ASSUME TypeOK, NEW l \in Lookups, Lookup(l), look'[l].pc \in {"check", "fetch", "files"}
    PROVE  \/ /\ look[l].pc \in {"check", "fetch", "files"}
              /\ look'[l].root = look[l].root
           \/ /\ look[l].pc = "get"
              /\ look'[l].root = ac[SyntheticKey(look[l].space, look[l].cell)]
              /\ look'[l].root # Nothing
<1>1. ASSUME Miss(l), look[l].pc # "idle" PROVE look'[l].pc \in {"get", "ok"}
  BY <1>1 DEF Miss, Finish, TypeOK
<1>2. ASSUME Fail(l), look[l].pc # "idle" PROVE look'[l].pc = "failed"
  BY <1>2 DEF Fail, TypeOK, LookState
<1>3. ~ \E c \in Cells : StartLookup(l, c) \/ LookupOffline(l, c) \/ LookupUnreachable(l, c)
  BY DEF StartLookup, LookupOffline, LookupUnreachable, LookupState, TypeOK
<1>4. ~ LookupDies(l)
  BY DEF LookupDies, Idle, TypeOK
<1>5. ~ WriteOutputs(l)
  BY DEF WriteOutputs, Finish, TypeOK
<1>6. CASE GetEntry(l)
  BY <1>1, <1>6 DEF GetEntry, Visible, TypeOK, LookState
<1>7. CASE CheckRoot(l)
  BY <1>1, <1>7 DEF CheckRoot, TypeOK, LookState
<1>8. CASE FetchDirectory(l) \/ FetchFile(l)
  BY <1>2, <1>8 DEF FetchDirectory, FetchFile, TypeOK, LookState
<1>9. QED
  BY <1>3, <1>4, <1>5, <1>6, <1>7, <1>8 DEF Lookup, LookupStep

\* Whatever a lookup reads was uploaded, and a bundle is a bundle.
THEOREM ReadingsAreWhole == Spec => []ReadingInv
<1>1. Init => ReadingInv
  BY DEF Init, ReadingInv, Idle
<1>2. TypeOK /\ NoDanglingEntry /\ ReadingInv /\ [Next]_vars => ReadingInv'
  <2> SUFFICES ASSUME TypeOK, NoDanglingEntry, ReadingInv, [Next]_vars PROVE ReadingInv'
    OBVIOUS
  <2>1. cas \cup evicted \subseteq cas' \cup evicted'
    BY UploadedStays
  <2>2. ASSUME UNCHANGED <<look, offered>> PROVE ReadingInv'
    BY <2>1, <2>2 DEF ReadingInv
  <2>3. ASSUME NEW p \in Publishers, NEW build \in Builds, StartPublish(p, build)
        PROVE  ReadingInv'
    <3>1. /\ build.bundle \in BundleDirectory \cup {Nothing}
          /\ UNCHANGED look
      BY <2>3, BuildsAssumption DEF StartPublish
    <3>2. \A o \in offered' : o.space = "config" => o.root \in BundleDirectory
      BY <2>3, <3>1 DEF StartPublish, ReadingInv
    <3>3. QED
      BY <2>1, <3>1, <3>2 DEF ReadingInv
  <2>4. ASSUME NEW p \in Publishers,
               \/ FindMissing(p) \/ PutMissing(p) \/ PutTree(p)
               \/ UpdateEntry(p) \/ PublishDies(p)
        PROVE  ReadingInv'
    BY <2>2, <2>4 DEF FindMissing, PutMissing, PutTree, UpdateEntry, PublishDies
  <2>5. ASSUME NEW l \in Lookups, Lookup(l) PROVE ReadingInv'
    <3>1. /\ \A m \in Lookups : m # l => look'[m] = look[m]
          /\ UNCHANGED <<cas, offered, evicted>>
      BY <2>5, OneLookup
    <3>2. ASSUME look'[l].pc \in {"check", "fetch", "files"}
          PROVE  BlobsOf(look'[l].root) \subseteq cas \cup evicted
      <4>1. CASE look[l].pc \in {"check", "fetch", "files"} /\ look'[l].root = look[l].root
        BY <4>1 DEF ReadingInv
      <4>2. CASE /\ look[l].pc = "get"
                 /\ look'[l].root = ac[SyntheticKey(look[l].space, look[l].cell)]
                 /\ look'[l].root # Nothing
        <5>1. SyntheticKey(look[l].space, look[l].cell) \in Keys
          BY <4>2, KeyType DEF TypeOK, LookState
        <5>2. QED
          BY <4>2, <5>1 DEF NoDanglingEntry
      <4>3. QED
        BY <2>5, <3>2, <4>1, <4>2, RootRead
    <3>3. QED
      BY <3>1, <3>2 DEF ReadingInv
  <2>6. CASE Store
    BY <2>2, <2>6 DEF Store, Evict, EvictEntry
  <2>7. CASE UNCHANGED vars
    BY <2>2, <2>7 DEF vars
  <2>8. QED
    BY <2>3, <2>4, <2>5, <2>6, <2>7 DEF Next, Publish
<1>3. QED
  BY <1>1, <1>2, TypeCorrect, NothingDangles, PTL DEF Spec

\* A lookup's step changes its own call alone.
LEMMA CallChanges ==
    ASSUME NEW l \in Lookups, \A m \in Lookups : m # l => look'[m] = look[m],
           NEW c, c = [s \in Spaces |-> Reading(look'[l], s)]
    PROVE  RegCall' = [RegCall EXCEPT ![l] = c]
BY DEF RegCall

\* A step that changes what one keyspace's reading has come to sets that
\* reading alone.
LEMMA ReadingChanges ==
    ASSUME NEW l \in Lookups, \A m \in Lookups : m # l => look'[m] = look[m],
           NEW space \in Spaces,
           \A s \in Spaces : s # space => Reading(look'[l], s) = Reading(look[l], s)
    PROVE  RegCall' = [RegCall EXCEPT ![l][space] = Reading(look'[l], space)]
<1> DEFINE c == [s \in Spaces |-> Reading(look'[l], s)]
<1>1. RegCall' = [RegCall EXCEPT ![l] = c]
  BY CallChanges
<1>2. RegCall[l] = [s \in Spaces |-> Reading(look[l], s)]
  BY DEF RegCall
<1>3. c = [RegCall[l] EXCEPT ![space] = Reading(look'[l], space)]
  BY <1>2
<1>4. QED
  BY <1>1, <1>3

\* The readings of a process that has just begun one, ...
LEMMA ReadingBegins ==
    ASSUME NEW k, k.pc = "get", k.space = "trace", NEW s \in Spaces
    PROVE  Reading(k, s) = [st |-> "pending", slot |-> <<s, k.cell>>]
BY DEF Reading, Spaces

\* ... of the keyspace it is at, ...
LEMMA ReadingAtHand ==
    ASSUME NEW k
    PROVE  /\ k.pc = "get" =>
                Reading(k, k.space) = [st |-> "pending", slot |-> <<k.space, k.cell>>]
           /\ k.pc \in {"check", "fetch", "files"} =>
                Reading(k, k.space) = [st |-> "read", slot |-> <<k.space, k.cell>>, root |-> k.root]
           /\ k.pc = "failed" => Reading(k, k.space) = [st |-> "failed"]
BY DEF Reading

\* ... of the bundle before it is reached, ...
LEMMA ReadingAhead ==
    ASSUME NEW k, k.space = "trace"
    PROVE  /\ k.pc \in {"get", "check", "fetch", "files"} =>
                Reading(k, "config") = [st |-> "pending", slot |-> <<"config", k.cell>>]
           /\ k.pc \in {"ok", "failed"} => Reading(k, "config") = [st |-> "none"]
BY DEF Reading

\* ... and of what has been read.
LEMMA ReadingDone ==
    ASSUME NEW k, NEW s \in Spaces,
           \/ /\ k.pc = "ok"
              /\ k.space = s
           \/ /\ k.pc \in {"get", "check", "fetch", "files", "ok", "failed"}
              /\ k.space = "config"
              /\ s = "trace"
    PROVE  Reading(k, s) = IF HitIn(k, s)
                           THEN [st |-> "hit", slot |-> <<s, k.cell>>, view |-> Taken(k, s)]
                           ELSE [st |-> "miss", slot |-> <<s, k.cell>>]
BY DEF Reading

\* A lookup's reading is in the register's terms.
LEMMA CallIs ==
    ASSUME NEW l \in Lookups, NEW s \in Spaces
    PROVE  RegCall[l][s] = Reading(look[l], s)
BY DEF RegCall

\* What the register holds is what the ActionCache holds.
LEMMA EntryIs ==
    ASSUME NEW s \in Spaces, NEW c \in Cells
    PROVE  RegEntry[<<s, c>>] = ac[SyntheticKey(s, c)]
BY DEF RegEntry

\* The store has lost part of a directory when one of its blobs was evicted.
LEMMA DamagedIs ==
    ASSUME NEW d
    PROVE  Registry!Damaged(d) <=> BlobsOf(d) \cap evicted # {}
BY DEF Registry!Damaged, Registry!BlobsOf, BlobsOf, Registry!Packed, Packed, Registry!FileBlobs,
   FileBlobs, Registry!FileBlob, FileBlob, Registry!DirBlob, DirBlob, Registry!TreeBlob, TreeBlob

\* A keyspace's miss is a reading that found nothing, given that there was no
\* entry or that part of it had been evicted.
LEMMA MissRefines ==
    ASSUME TypeOK, NEW l \in Lookups, Miss(l), UNCHANGED <<ac, offered, evicted>>,
           \A m \in Lookups : m # l => look'[m] = look[m],
           \/ /\ look[l].pc = "get"
              /\ LET d == ac[SyntheticKey(look[l].space, look[l].cell)]
                 IN  d = Nothing \/ BlobsOf(d) \cap evicted # {}
           \/ /\ look[l].pc = "check"
              /\ BlobsOf(look[l].root) \cap evicted # {}
    PROVE  Registry!FindNothing(l, look[l].space)
<1> DEFINE k == look[l]
           n == look'[l]
           missed == [st |-> "miss", slot |-> <<k.space, k.cell>>]
<1>1. k.space \in Spaces /\ k.cell \in Cells /\ k.outs \in Outs /\ n.cell = k.cell
  BY DEF TypeOK, LookState, Outs, Miss, Finish
<1> DEFINE Maps == /\ Reading(n, k.space) = missed
                   /\ \A s \in Spaces : s # k.space => Reading(n, s) = Reading(k, s)
<1>2. ASSUME k.space = "trace" PROVE Maps
  <2>1. n.pc = "get" /\ n.space = "config" /\ n.marker = "miss"
    BY <1>2 DEF Miss, Finish, TypeOK
  <2>2. Reading(n, "trace") = missed
    BY <1>1, <1>2, <2>1, ReadingDone DEF HitIn, Spaces
  <2>3. Reading(n, "config") = Reading(k, "config")
    BY <1>1, <1>2, <2>1, ReadingAtHand, ReadingAhead
  <2>4. QED
    BY <1>2, <2>2, <2>3 DEF Spaces
<1>3. ASSUME k.space = "config" PROVE Maps
  <2>1. n.pc = "ok" /\ n.space = "config" /\ n.marker = k.marker /\ n.outs = [k.outs EXCEPT ![BundleTar] = Empty]
    BY <1>3 DEF Miss, Finish, TypeOK
  <2>2. n.outs[BundleTar] = Empty
    BY <1>1, <2>1 DEF Outs, Names
  <2>3. ~HitIn(n, "config")
    BY <2>2 DEF HitIn
  <2>7. Reading(n, "config") = missed
    BY <1>1, <1>3, <2>1, <2>3, ReadingDone DEF Spaces
  <2>4. HitIn(n, "trace") = HitIn(k, "trace") /\ Taken(n, "trace") = Taken(k, "trace")
    BY <1>1, <2>1 DEF HitIn, Taken, NamesOf, Outs, Names, TraceLog, MakeDB, BundleTar
  <2>5. Reading(n, "trace") = Reading(k, "trace")
    BY <1>1, <1>3, <2>1, <2>4, ReadingDone DEF Spaces
  <2>6. QED
    BY <1>3, <2>7, <2>5 DEF Spaces
<1>4. Maps
  BY <1>1, <1>2, <1>3 DEF Spaces
<1>5. RegCall' = [RegCall EXCEPT ![l][k.space] = missed]
  BY <1>1, <1>4, ReadingChanges
<1>6. UNCHANGED <<offered, RegEntry, evicted>>
  BY DEF RegEntry
<1>7. CASE k.pc = "get"
  <2>1. RegCall[l][k.space] = [st |-> "pending", slot |-> <<k.space, k.cell>>]
    BY <1>1, <1>7, CallIs, ReadingAtHand
  <2>2. RegEntry[<<k.space, k.cell>>] = ac[SyntheticKey(k.space, k.cell)]
    BY <1>1, EntryIs
  <2>3. QED
    BY <1>5, <1>6, <1>7, <2>1, <2>2, DamagedIs DEF Registry!FindNothing, Registry!Missed,
       Registry!SetSpace, Registry!Nothing, Nothing
<1>8. CASE k.pc = "check"
  <2>1. RegCall[l][k.space] = [st |-> "read", slot |-> <<k.space, k.cell>>, root |-> k.root]
    BY <1>1, <1>8, CallIs, ReadingAtHand
  <2>2. QED
    BY <1>5, <1>6, <1>8, <2>1, DamagedIs DEF Registry!FindNothing, Registry!Missed,
       Registry!SetSpace
<1>9. QED
  BY <1>7, <1>8

\* A GetActionResult that is answered is the point at which the register is
\* read.
LEMMA GetEntryRefines ==
    ASSUME TypeOK, NoDanglingEntry, NEW l \in Lookups, GetEntry(l)
    PROVE  \/ Registry!TakeEffect(l, look[l].space)
           \/ Registry!FindNothing(l, look[l].space)
<1> DEFINE k == look[l]
           n == look'[l]
           d == ac[SyntheticKey(k.space, k.cell)]
<1>1. /\ \A m \in Lookups : m # l => look'[m] = look[m]
      /\ UNCHANGED <<ac, offered, evicted>>
  BY OneLookup DEF Lookup, LookupStep
<1>2. k.pc = "get" /\ k.space \in Spaces /\ k.cell \in Cells
  BY DEF GetEntry, TypeOK, LookState
<1>3. RegCall[l][k.space] = [st |-> "pending", slot |-> <<k.space, k.cell>>]
  BY <1>2, CallIs, ReadingAtHand
<1>4. RegEntry[<<k.space, k.cell>>] = d
  BY <1>2, EntryIs
<1>5. ASSUME Visible(d) PROVE Registry!TakeEffect(l, k.space)
  <2>1. look' = [look EXCEPT ![l].pc = "check", ![l].root = d]
    BY <1>5 DEF GetEntry
  <2>2. n.pc = "check" /\ n.space = k.space /\ n.cell = k.cell /\ n.root = d
        /\ n.outs = k.outs /\ n.marker = k.marker
    BY <1>2, <2>1 DEF TypeOK, LookState
  <2>3. Reading(n, k.space) = [st |-> "read", slot |-> <<k.space, k.cell>>, root |-> d]
    BY <2>2, ReadingAtHand
  <2>4. ASSUME NEW s \in Spaces, s # k.space PROVE Reading(n, s) = Reading(k, s)
    BY <1>2, <2>2, <2>4 DEF Reading, HitIn, Taken
  <2>5. RegCall' = [RegCall EXCEPT ![l][k.space] =
                        [st |-> "read", slot |-> <<k.space, k.cell>>, root |-> d]]
    BY <1>1, <1>2, <2>3, <2>4, ReadingChanges
  <2>6. d # Nothing /\ UNCHANGED <<offered, RegEntry, evicted>>
    BY <1>1, <1>5 DEF Visible, RegEntry
  <2> DEFINE c == RegCall[l][k.space]
  <2>7. c.st = "pending" /\ c.slot = <<k.space, k.cell>> /\ RegEntry[c.slot] = d
    BY <1>3, <1>4
  <2>8. RegCall' = [RegCall EXCEPT ![l][k.space] = [st |-> "read", slot |-> c.slot, root |-> RegEntry[c.slot]]]
    BY <2>5, <2>7
  <2>9. QED
    BY <2>6, <2>7, <2>8 DEF Registry!TakeEffect, Registry!Read, Registry!SetSpace,
       Registry!Nothing, Nothing
<1>6. ASSUME ~Visible(d) PROVE Registry!FindNothing(l, k.space)
  <2>1. Miss(l)
    BY <1>6 DEF GetEntry
  <2>2. SyntheticKey(k.space, k.cell) \in Keys
    BY <1>2, KeyType
  <2>3. d = Nothing \/ BlobsOf(d) \cap evicted # {}
    BY <1>6, <2>2 DEF Visible, NoDanglingEntry, BlobsOf, Packed
  <2>4. QED
    BY <1>1, <1>2, <2>1, <2>3, MissRefines
<1>7. QED
  BY <1>5, <1>6

\* A lookup that goes on with what it has read has not answered yet.
LEMMA ReadingGoesOn ==
    ASSUME TypeOK, NEW l \in Lookups, \A m \in Lookups : m # l => look'[m] = look[m],
           look[l].pc \in {"check", "fetch", "files"},
           look'[l].pc \in {"check", "fetch", "files"},
           look'[l].space = look[l].space, look'[l].cell = look[l].cell,
           look'[l].root = look[l].root, look'[l].outs = look[l].outs,
           look'[l].marker = look[l].marker
    PROVE  RegCall' = RegCall
<1>1. \A s \in Spaces : Reading(look'[l], s) = Reading(look[l], s)
  BY DEF Reading, HitIn, Taken
<1>2. QED
  BY <1>1 DEF RegCall

\* A fetch that finds a blob gone fails the reading.
LEMMA FailRefines ==
    ASSUME TypeOK, NEW l \in Lookups, Fail(l), UNCHANGED <<ac, offered, evicted>>,
           \A m \in Lookups : m # l => look'[m] = look[m],
           look[l].pc \in {"fetch", "files"},
           BlobsOf(look[l].root) \cap evicted # {}
    PROVE  Registry!AnswerFailed(l, look[l].space)
<1> DEFINE k == look[l]
           n == look'[l]
<1>1. k.space \in Spaces /\ k.cell \in Cells
  BY DEF TypeOK, LookState
<1>2. n.pc = "failed" /\ n.space = k.space /\ n.cell = k.cell /\ n.outs = k.outs
      /\ n.marker = k.marker
  BY DEF Fail, TypeOK, LookState
<1>3. RegCall[l][k.space] = [st |-> "read", slot |-> <<k.space, k.cell>>, root |-> k.root]
  BY <1>1, CallIs, ReadingAtHand
<1>4. ASSUME NEW s \in Spaces
      PROVE  Reading(n, s) = IF s = k.space THEN [st |-> "failed"]
                             ELSE IF k.space = "trace" THEN [st |-> "none"] ELSE RegCall[l][s]
  <2>1. CASE s = k.space
    BY <1>2, <2>1, ReadingAtHand
  <2>2. CASE s # k.space /\ k.space = "trace"
    BY <1>2, <2>2, ReadingAhead DEF Spaces
  <2>3. CASE s # k.space /\ k.space = "config"
    <3>1. HitIn(n, "trace") = HitIn(k, "trace") /\ Taken(n, "trace") = Taken(k, "trace")
      BY <1>2 DEF HitIn, Taken
    <3>2. s = "trace"
      BY <2>3 DEF Spaces
    <3>3. Reading(n, s) = Reading(k, s)
      BY <1>2, <2>3, <3>1, <3>2, ReadingDone
    <3>4. QED
      BY <2>3, <3>3, CallIs
  <2>4. QED
    BY <1>1, <2>1, <2>2, <2>3 DEF Spaces
<1>5. RegCall' = [RegCall EXCEPT ![l] =
         [s \in Spaces |-> IF s = k.space THEN [st |-> "failed"]
                           ELSE IF k.space = "trace" THEN [st |-> "none"] ELSE RegCall[l][s]]]
  <2>1. RegCall' = [RegCall EXCEPT ![l] = [s \in Spaces |-> Reading(n, s)]]
    BY CallChanges
  <2>2. QED
    BY <1>4, <2>1
<1>6. UNCHANGED <<offered, RegEntry, evicted>>
  BY DEF RegEntry
<1>7. QED
  BY <1>3, <1>5, <1>6, DamagedIs DEF Registry!AnswerFailed, Registry!SetCall, Registry!Failed,
     Registry!NotCalled, Registry!Spaces, Spaces

\* A lookup that copies what it fetched to its outputs answers with the
\* directory it read.
LEMMA WriteRefines ==
    ASSUME TypeOK, OfferInv, ReadingInv, NEW l \in Lookups, WriteOutputs(l)
    PROVE  Registry!AnswerHit(l, look[l].space)
<1> DEFINE k == look[l]
           n == look'[l]
           view == View(k.space, k.root)
           hit == [st |-> "hit", slot |-> <<k.space, k.cell>>, view |-> view]
           Maps == /\ Reading(n, k.space) = hit
                   /\ \A s \in Spaces : s # k.space => Reading(n, s) = Reading(k, s)
<1>1. /\ \A m \in Lookups : m # l => look'[m] = look[m]
      /\ UNCHANGED <<ac, offered, evicted>>
  BY OneLookup DEF Lookup, LookupStep
<1>2. /\ k.pc = "files"
      /\ k.got = k.root
      /\ k.space \in Spaces
      /\ k.cell \in Cells
      /\ k.root \in Directory
      /\ k.outs \in Outs
  BY DEF WriteOutputs, TypeOK, LookState, Outs
<1>3. /\ n.pc = IF k.space = "trace" THEN "get" ELSE "ok"
      /\ n.space = "config"
      /\ n.cell = k.cell
      /\ n.outs = [m \in Names |-> IF m \in NamesOf(k.space) THEN view[m] ELSE k.outs[m]]
      /\ n.marker = IF k.space = "trace" THEN "hit" ELSE k.marker
  BY <1>2 DEF WriteOutputs, Finish, TypeOK
<1>4. NamesOf(k.space) \subseteq Names
  BY DEF NamesOf, Names
<1>5. Taken(n, k.space) = view
  BY <1>3, <1>4 DEF Taken, View
<1>6. ASSUME k.space = "trace" PROVE Maps
  <2>1. HitIn(n, "trace")
    BY <1>3, <1>6 DEF HitIn
  <2>2. Reading(n, "trace") = hit
    BY <1>3, <1>5, <1>6, <2>1, ReadingDone DEF Spaces
  <2>3. Reading(n, "config") = Reading(k, "config")
    <3>1. n.pc = "get" /\ n.space = "config" /\ n.cell = k.cell
      BY <1>3, <1>6
    <3>2. Reading(n, "config") = [st |-> "pending", slot |-> <<"config", n.cell>>]
      BY <3>1, ReadingAtHand
    <3>3. Reading(k, "config") = [st |-> "pending", slot |-> <<"config", k.cell>>]
      BY <1>2, <1>6, ReadingAhead
    <3>4. QED
      BY <3>1, <3>2, <3>3
  <2>4. QED
    BY <1>6, <2>2, <2>3 DEF Spaces
<1>7. ASSUME k.space = "config" PROVE Maps
  <2>1. k.root \in BundleDirectory
    BY <1>2, <1>7 DEF OfferInv, LookupsOffered, Offered, ReadingInv
  <2>2. PICK b \in Bundles : k.root = {Node(BundleTar, b)}
    BY <2>1 DEF BundleDirectory
  <2>3. (CHOOSE f \in k.root : f.name = BundleTar) = Node(BundleTar, b)
    BY <2>2 DEF Node
  <2>4. ContentOf(k.root, BundleTar) = b
    BY <2>2, <2>3 DEF ContentOf, Node
  <2>5. n.outs[BundleTar] = b
    BY <1>3, <1>4, <1>7, <2>4 DEF View, NamesOf, Names
  <2>6. HitIn(n, "config")
    BY <2>5, BundlesAssumption DEF HitIn, Contents
  <2>7. Reading(n, "config") = hit
    BY <1>3, <1>5, <1>7, <2>6, ReadingDone DEF Spaces
  <2>8. HitIn(n, "trace") = HitIn(k, "trace") /\ Taken(n, "trace") = Taken(k, "trace")
    BY <1>2, <1>3, <1>7 DEF HitIn, Taken, NamesOf, Outs, Names, TraceLog, MakeDB, BundleTar
  <2>9. Reading(n, "trace") = Reading(k, "trace")
    BY <1>2, <1>3, <1>7, <2>8, ReadingDone DEF Spaces
  <2>10. QED
    BY <1>7, <2>7, <2>9 DEF Spaces
<1>8. Maps
  BY <1>2, <1>6, <1>7 DEF Spaces
<1>9. RegCall' = [RegCall EXCEPT ![l][k.space] = hit]
  BY <1>1, <1>2, <1>8, ReadingChanges
<1>10. RegCall[l][k.space] = [st |-> "read", slot |-> <<k.space, k.cell>>, root |-> k.root]
  BY <1>2, CallIs, ReadingAtHand
<1>11. Registry!View(k.space, k.root) = view
  BY DEF Registry!View, View, Registry!NamesOf, NamesOf, Registry!ContentOf, ContentOf,
     Registry!TraceLog, TraceLog, Registry!MakeDB, MakeDB, Registry!BundleTar, BundleTar
<1>12. UNCHANGED <<offered, RegEntry, evicted>>
  BY <1>1 DEF RegEntry
<1> DEFINE c == RegCall[l][k.space]
<1>13. c.st = "read" /\ c.slot = <<k.space, k.cell>> /\ c.root = k.root
  BY <1>10
<1>14. RegCall' = [RegCall EXCEPT ![l][k.space] =
                      [st |-> "hit", slot |-> c.slot, view |-> Registry!View(k.space, c.root)]]
  BY <1>9, <1>11, <1>13
<1>15. QED
  BY <1>12, <1>13, <1>14 DEF Registry!AnswerHit, Registry!Hit, Registry!SetSpace

\* A lookup that is started with an endpoint begins its readings, and one that
\* is started without one declines them.
LEMMA StartRefines ==
    ASSUME TypeOK, NEW l \in Lookups, NEW cell \in Cells,
           StartLookup(l, cell) \/ LookupOffline(l, cell) \/ LookupUnreachable(l, cell)
    PROVE  Registry!Begin(l, cell) \/ Registry!Decline(l, cell)
<1> DEFINE n == look'[l]
<1>1. /\ \A m \in Lookups : m # l => look'[m] = look[m]
      /\ UNCHANGED <<ac, offered, evicted>>
  BY OneLookup DEF Lookup
<1>2. RegCall' = [RegCall EXCEPT ![l] = [s \in Spaces |-> Reading(n, s)]]
  BY <1>1, CallChanges
<1>3. UNCHANGED <<offered, RegEntry, evicted>>
  BY <1>1 DEF RegEntry
<1>4. CASE StartLookup(l, cell)
  <2>1. n.pc = "get" /\ n.space = "trace" /\ n.cell = cell
    BY <1>4 DEF StartLookup, LookupState, TypeOK
  <2>2. [s \in Spaces |-> Reading(n, s)] =
            [s \in Spaces |-> [st |-> "pending", slot |-> <<s, cell>>]]
    BY <2>1, ReadingBegins
  <2>3. Registry!Begin(l, cell)
    BY <1>2, <1>3, <2>2 DEF Registry!Begin, Registry!SetCall, Registry!Pending, Registry!Spaces, Spaces
  <2>4. QED
    BY <2>3
<1>5. CASE LookupOffline(l, cell) \/ LookupUnreachable(l, cell)
  <2>1. Endpoints # {"reachable"}
    BY <1>5 DEF LookupOffline, LookupUnreachable
  <2>2. /\ n.space = "trace" /\ n.cell = cell
        /\ n.pc = "failed" \/ (n.pc = "ok" /\ n.marker = "miss")
    BY <1>5 DEF LookupOffline, LookupUnreachable, LookupState, TypeOK
  <2>3. Reading(n, "config") = [st |-> "none"]
    BY <2>2, ReadingAhead
  <2>4. \/ Reading(n, "trace") = [st |-> "failed"]
        \/ Reading(n, "trace") = [st |-> "miss", slot |-> <<"trace", cell>>]
    BY <2>2, ReadingAtHand, ReadingDone DEF HitIn, Spaces
  <2>5. \/ [s \in Spaces |-> Reading(n, s)] =
              [s \in Spaces |-> IF s = "trace" THEN [st |-> "failed"] ELSE [st |-> "none"]]
        \/ [s \in Spaces |-> Reading(n, s)] =
              [s \in Spaces |-> IF s = "trace" THEN [st |-> "miss", slot |-> <<s, cell>>]
                                ELSE [st |-> "none"]]
    BY <2>3, <2>4 DEF Spaces
  <2>6. Registry!Decline(l, cell)
    <3>1. \/ RegCall' = [RegCall EXCEPT ![l] =
                [s \in Spaces |-> IF s = "trace" THEN [st |-> "failed"] ELSE [st |-> "none"]]]
          \/ RegCall' = [RegCall EXCEPT ![l] =
                [s \in Spaces |-> IF s = "trace" THEN [st |-> "miss", slot |-> <<s, cell>>]
                                  ELSE [st |-> "none"]]]
      BY <1>2, <2>5
    <3>2. QED
      BY <1>3, <2>1, <3>1 DEF Registry!Decline, Registry!SetCall, Registry!Missed,
         Registry!Failed, Registry!NotCalled, Registry!Spaces, Spaces
  <2>7. QED
    BY <2>6
<1>6. QED
  BY <1>4, <1>5

\* A lookup that is killed abandons its readings.
LEMMA DeathRefines ==
    ASSUME TypeOK, NEW l \in Lookups, LookupDies(l)
    PROVE  Registry!Abandon(l)
<1>1. /\ \A m \in Lookups : m # l => look'[m] = look[m]
      /\ UNCHANGED <<ac, offered, evicted>>
  BY OneLookup DEF Lookup
<1>2. look'[l].pc = "idle"
  BY DEF LookupDies, Idle, TypeOK
<1>3. [s \in Spaces |-> Reading(look'[l], s)] = [s \in Spaces |-> [st |-> "none"]]
  BY <1>2 DEF Reading
<1>4. RegCall' = [RegCall EXCEPT ![l] = [s \in Spaces |-> [st |-> "none"]]]
  BY <1>1, <1>3, CallChanges
<1>5. QED
  BY <1>1, <1>4 DEF Registry!Abandon, Registry!SetCall, Registry!NotCalled, Registry!Spaces,
     Spaces, RegEntry

\* Every step of a lookup is a step of the register's or none.
LEMMA LookupRefines ==
    ASSUME TypeOK, NoDanglingEntry, OfferInv, ReadingInv, NEW l \in Lookups, Lookup(l)
    PROVE  Registry!RegNext \/ UNCHANGED Registry!regVars
<1> DEFINE k == look[l]
<1>1. /\ \A m \in Lookups : m # l => look'[m] = look[m]
      /\ UNCHANGED <<ac, offered, evicted>>
  BY OneLookup
<1>2. UNCHANGED <<offered, RegEntry, evicted>>
  BY <1>1 DEF RegEntry
<1>3. Registry!Spaces = Spaces /\ Registry!Cells = Cells
  BY DEF Registry!Spaces, Spaces, Registry!Cells, Cells
<1>4. ASSUME NEW c \in Cells, StartLookup(l, c) \/ LookupOffline(l, c) \/ LookupUnreachable(l, c)
      PROVE  Registry!RegNext
  BY <1>3, <1>4, StartRefines DEF Registry!RegNext
<1>5. CASE GetEntry(l)
  <2>1. k.space \in Spaces
    BY <1>5 DEF GetEntry, TypeOK, LookState
  <2>2. QED
    BY <1>3, <1>5, <2>1, GetEntryRefines DEF Registry!RegNext
<1>6. CASE CheckRoot(l) \/ FetchDirectory(l) \/ FetchFile(l)
  <2>1. /\ k.pc \in {"check", "fetch", "files"}
        /\ k.space \in Spaces
        /\ BlobsOf(k.root) \subseteq cas \cup evicted
    BY <1>6 DEF CheckRoot, FetchDirectory, FetchFile, TypeOK, LookState, ReadingInv
  <2>2. CASE look'[l].pc \in {"check", "fetch", "files"}
    <3>1. /\ look'[l].space = k.space /\ look'[l].cell = k.cell /\ look'[l].root = k.root
          /\ look'[l].outs = k.outs /\ look'[l].marker = k.marker
      BY <1>6, <2>1, <2>2 DEF CheckRoot, FetchDirectory, FetchFile, Miss, Finish, Fail, TypeOK,
         LookState
    <3>2. RegCall' = RegCall
      BY <1>1, <2>1, <2>2, <3>1, ReadingGoesOn
    <3>3. QED
      BY <1>2, <3>2 DEF Registry!regVars
  <2>3. ASSUME CheckRoot(l), DirBlob(k.root) \notin cas PROVE Registry!RegNext
    <3>1. Miss(l) /\ k.pc = "check" /\ BlobsOf(k.root) \cap evicted # {}
      BY <2>1, <2>3 DEF CheckRoot, BlobsOf, Packed
    <3>2. Registry!FindNothing(l, k.space)
      BY <1>1, <3>1, MissRefines
    <3>3. QED
      BY <1>3, <2>1, <3>2 DEF Registry!RegNext
  <2>4. ASSUME Fail(l), k.pc \in {"fetch", "files"}, BlobsOf(k.root) \cap evicted # {}
        PROVE  Registry!RegNext
    <3>1. Registry!AnswerFailed(l, k.space)
      BY <1>1, <2>4, FailRefines
    <3>2. QED
      BY <1>3, <2>1, <3>1 DEF Registry!RegNext
  <2>5. ASSUME FetchDirectory(l), DirBlob(k.root) \notin cas PROVE Registry!RegNext
    BY <2>1, <2>4, <2>5 DEF FetchDirectory, BlobsOf, Packed
  <2>6. ASSUME FetchFile(l), look'[l].pc \notin {"check", "fetch", "files"} PROVE Registry!RegNext
    <3>1. PICK f \in k.root \ k.got :
              IF FileBlob(f.content) \in cas
              THEN look' = [look EXCEPT ![l].got = @ \cup {f}]
              ELSE Fail(l)
      BY <2>6 DEF FetchFile
    <3>2. k.pc = "files"
      BY <2>6 DEF FetchFile
    <3>3. FileBlob(f.content) \notin cas /\ Fail(l)
      BY <2>6, <3>1, <3>2 DEF TypeOK, LookState
    <3>4. FileBlob(f.content) \in BlobsOf(k.root)
      BY DEF BlobsOf, Packed, FileBlobs
    <3>5. QED
      BY <2>1, <2>4, <3>2, <3>3, <3>4
  <2>7. ASSUME \/ CheckRoot(l) /\ DirBlob(k.root) \in cas
               \/ FetchDirectory(l) /\ DirBlob(k.root) \in cas
        PROVE  look'[l].pc \in {"check", "fetch", "files"}
    BY <2>7 DEF CheckRoot, FetchDirectory, TypeOK, LookState
  <2>8. QED
    BY <1>6, <2>2, <2>3, <2>5, <2>6, <2>7
<1>7. CASE WriteOutputs(l)
  <2>1. k.space \in Spaces
    BY <1>7 DEF WriteOutputs, TypeOK, LookState
  <2>2. QED
    BY <1>3, <1>7, <2>1, WriteRefines DEF Registry!RegNext
<1>8. CASE LookupDies(l)
  BY <1>8, DeathRefines DEF Registry!RegNext
<1>9. QED
  BY <1>4, <1>5, <1>6, <1>7, <1>8 DEF Lookup, LookupStep

\* A publisher's UpdateActionResult is a registration.
LEMMA UpdateRefines ==
    ASSUME TypeOK, OfferInv, NEW p \in Publishers, UpdateEntry(p)
    PROVE  Registry!RegNext
<1> DEFINE o == [space |-> pub[p].space, cell |-> pub[p].cell, root |-> pub[p].root]
<1>1. /\ pub[p].space \in Spaces /\ pub[p].cell \in Cells
      /\ o \in offered
  BY DEF UpdateEntry, TypeOK, PubState, OfferInv, PublishersOffered, Offered
<1>2. RegEntry' = [RegEntry EXCEPT ![<<o.space, o.cell>>] = o.root]
  <2>1. ASSUME NEW s \in Spaces \X Cells
        PROVE  ac'[SyntheticKey(s[1], s[2])] =
                   IF s = <<o.space, o.cell>> THEN o.root ELSE ac[SyntheticKey(s[1], s[2])]
    <3>1. s[1] \in Spaces /\ s[2] \in Cells /\ s = <<s[1], s[2]>>
      OBVIOUS
    <3>2. SyntheticKey(s[1], s[2]) \in Keys /\ SyntheticKey(o.space, o.cell) \in Keys
      BY <1>1, <3>1, KeyType
    <3>3. SyntheticKey(s[1], s[2]) = SyntheticKey(o.space, o.cell) <=> s = <<o.space, o.cell>>
      BY <1>1, <3>1, KeyInjective
    <3>4. ac' = [ac EXCEPT ![SyntheticKey(o.space, o.cell)] = o.root]
      BY DEF UpdateEntry
    <3>5. QED
      BY <3>2, <3>3, <3>4 DEF TypeOK
  <2>2. <<o.space, o.cell>> \in Spaces \X Cells
    BY <1>1
  <2>3. QED
    BY <2>1, <2>2 DEF RegEntry
<1>3. UNCHANGED <<offered, evicted, RegCall>>
  BY DEF UpdateEntry, RegCall
<1>4. Registry!Register(o)
  BY <1>1, <1>2, <1>3 DEF Registry!Register
<1>5. QED
  BY <1>1, <1>4 DEF Registry!RegNext

\* An entry the store drops is forgotten.
LEMMA EvictEntryRefines ==
    ASSUME TypeOK, NEW k \in Keys, EvictEntry(k)
    PROVE  Registry!RegNext
<1> DEFINE slot == <<k.argv0, [srckey |-> k.srckey, platform |-> k.platform]>>
<1>1. slot \in Spaces \X Cells
  BY DEF Keys, Cells
<1>2. ASSUME NEW s \in Spaces \X Cells
      PROVE  SyntheticKey(s[1], s[2]) \in Keys /\ (SyntheticKey(s[1], s[2]) = k <=> s = slot)
  BY DEF SyntheticKey, Keys, Cells
<1>3. RegEntry' = [RegEntry EXCEPT ![slot] = Nothing]
  BY <1>1, <1>2 DEF EvictEntry, TypeOK, RegEntry
<1>4. UNCHANGED <<offered, evicted, RegCall>>
  BY DEF EvictEntry, RegCall
<1>5. Registry!Forget(slot)
  BY <1>3, <1>4 DEF Registry!Forget, Registry!Nothing, Nothing
<1>6. QED
  BY <1>1, <1>5 DEF Registry!RegNext, Registry!Slots, Registry!Spaces, Spaces, Registry!Cells, Cells

\* Rendezvous implements the register (RegistrySpec): a publication takes
\* effect at its UpdateActionResult and a lookup's reading of a keyspace at its
\* GetActionResult, so that a lookup answers with what one instant's
\* ActionCache held, whole, and misses or fails only for want of an entry or
\* by eviction, for any number of publishers and lookups and any store.
THEOREM RegistryImplemented == Spec => RegistrySpec
<1>1. Init => Registry!RegInit
  BY KeyType DEF Init, Registry!RegInit, RegEntry, RegCall, Registry!NotCalled, Reading, Idle,
     Registry!Slots, Registry!Spaces, Spaces, Registry!Cells, Cells, Registry!Nothing, Nothing
<1>2. /\ TypeOK /\ TypeOK' /\ NoDanglingEntry /\ OfferInv /\ ReadingInv
      /\ [Next]_vars
      => [Registry!RegNext]_Registry!regVars
  <2> SUFFICES ASSUME TypeOK, TypeOK', NoDanglingEntry, OfferInv, ReadingInv, [Next]_vars
               PROVE  Registry!RegNext \/ UNCHANGED Registry!regVars
    OBVIOUS
  <2>1. ASSUME UNCHANGED <<ac, look, offered, evicted>> PROVE UNCHANGED Registry!regVars
    BY <2>1 DEF Registry!regVars, RegEntry, RegCall
  <2>2. ASSUME NEW p \in Publishers, NEW build \in Builds, StartPublish(p, build)
        PROVE  Registry!RegNext
    <3>1. offered \subseteq offered' /\ UNCHANGED <<RegEntry, evicted, RegCall>>
      BY <2>2 DEF StartPublish, RegEntry, RegCall
    <3>2. offered' \subseteq Registry!Offer
      BY DEF TypeOK, Offer, Registry!Offer, Registry!Spaces, Spaces, Registry!Cells, Cells,
         Registry!Directory, Directory, Registry!FileNode, FileNode, Registry!Names, Names,
         Registry!Contents, Contents, Registry!TraceLog, TraceLog, Registry!MakeDB, MakeDB,
         Registry!BundleTar, BundleTar
    <3>3. Registry!GiveOffer
      BY <3>1, <3>2 DEF Registry!GiveOffer
    <3>4. QED
      BY <3>3 DEF Registry!RegNext
  <2>3. ASSUME NEW p \in Publishers,
               FindMissing(p) \/ PutMissing(p) \/ PutTree(p) \/ PublishDies(p)
        PROVE  UNCHANGED Registry!regVars
    BY <2>1, <2>3 DEF FindMissing, PutMissing, PutTree, PublishDies
  <2>4. ASSUME NEW p \in Publishers, UpdateEntry(p) PROVE Registry!RegNext
    BY <2>4, UpdateRefines
  <2>5. ASSUME NEW l \in Lookups, Lookup(l) PROVE Registry!RegNext \/ UNCHANGED Registry!regVars
    BY <2>5, LookupRefines
  <2>6. ASSUME NEW b \in cas, Evict(b) PROVE Registry!RegNext
    <3>1. evicted \subseteq evicted' /\ UNCHANGED <<offered, RegEntry, RegCall>>
      BY <2>6 DEF Evict, RegEntry, RegCall
    <3>2. Registry!Damage
      BY <3>1 DEF Registry!Damage
    <3>3. QED
      BY <3>2 DEF Registry!RegNext
  <2>7. ASSUME NEW k \in Keys, EvictEntry(k) PROVE Registry!RegNext
    BY <2>7, EvictEntryRefines
  <2>8. CASE UNCHANGED vars
    BY <2>1, <2>8 DEF vars
  <2>9. QED
    BY <2>2, <2>3, <2>4, <2>5, <2>6, <2>7, <2>8 DEF Next, Publish, Store
<1>3. QED
  BY <1>1, <1>2, TypeCorrect, NothingDangles, OffersAreKept, ReadingsAreWhole, PTL
     DEF Spec, RegistrySpec, Registry!RegSpec
=============================================================================
