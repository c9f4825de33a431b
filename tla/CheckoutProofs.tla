--------------------------- MODULE CheckoutProofs ---------------------------
(***************************************************************************)
(* Proofs about Checkout for every set of resolvers, sources, files and    *)
(* bodies.                                                                 *)
(*                                                                         *)
(* The argument: what is in a checkout, in a tree being written, in an     *)
(* upload and in a result is tied to what its source has stood for (had),  *)
(* which only grows, to a checkout, which stays, and to the store, which   *)
(* keeps what it does not lose.  Each step changes one resolver, and what  *)
(* is known of the others only needs those three facts.                    *)
(***************************************************************************)
EXTENDS Checkout, TLAPS

Shared == Git \cup Asset

Kept(b) == store[b] = "good" \/ b \in lost

\* The sources and the checkouts made of them.
SourceInv ==
    \A s \in Shared : source[s] \in had[s] /\ (checkout[s] # Absent => checkout[s] \in had[s])

\* The store: what an asset was bound to is there, and nothing is wrong but by
\* loss.
StoreInv ==
    /\ StoreIsHonest
    /\ \A s \in Asset : \A t \in had[s] : \A b \in BlobsOf(t) : Kept(b)

\* A resolver that looks for a checkout, ...
Looking(q) ==
    /\ q.pc \in {"fetch", "stat", "clone", "root"} => q.tmp = Empty
    /\ q.pc \in {"fetch", "stat", "clone", "root", "fill"} =>
           q.packed = Empty /\ (q.src \notin Asset => q.digest = Absent)
    /\ q.pc \in {"fetch", "root"} => q.src \in Asset
    /\ q.pc = "clone" => q.src \in Git
    /\ q.pc = "stat" => q.src \in Shared
    /\ q.pc \in {"stat", "root", "fill"} /\ q.src \in Asset => q.digest \in had[q.src]

\* ... makes one, ...
Filling(q) ==
    q.pc = "fill" =>
        /\ q.src \in Shared /\ q.tree \in had[q.src]
        /\ \A f \in Files : q.tmp[f] \in {Absent, q.tree[f]}

\* ... uploads what it has found ...
Uploading(q) ==
    q.pc \in {"pack", "find", "put"} =>
        /\ q.src \in Local \cup Git
        /\ q.src \in Git =>
            /\ checkout[q.src] # Absent
            /\ \A f \in Files : q.packed[f] \in {Absent, checkout[q.src][f]}
        /\ q.pc # "pack" => q.packed \in Tree
        /\ q.pc = "put" =>
            /\ q.missing \subseteq BlobsOf(q.packed)
            /\ \A b \in BlobsOf(q.packed) \ q.missing : Kept(b)

\* ... and returns.
Returned(q, offline) ==
    q.pc = "done" =>
        /\ q.src \in Sources
        /\ q.digest # Absent => \A b \in BlobsOf(q.digest) : Kept(b)
        /\ q.src \in Shared => checkout[q.src] # Absent
        /\ q.src \in Git /\ ~offline => q.digest = checkout[q.src]
        /\ q.src \in Asset => q.digest \in had[q.src]

Fits(q, offline) == Looking(q) /\ Filling(q) /\ Uploading(q) /\ Returned(q, offline)

ProcInv(r) == Fits(res[r], r \in Offline)

Inv == TypeOK /\ SourceInv /\ StoreInv /\ \A r \in Resolvers : ProcInv(r)

(***************************************************************************)
(* Lemmas.                                                                 *)
(***************************************************************************)

\* The blobs of a tree are blobs.
LEMMA BlobsType == ASSUME NEW t \in Tree PROVE BlobsOf(t) \subseteq Blob
BY DEF BlobsOf, FileBlobs, DirBlob, FileBlob, Blob, Tree

\* A directory read to the end is a tree.
LEMMA WholeIsTree ==
    ASSUME NEW t \in Partial, \A f \in Files : t[f] # Absent
    PROVE  t \in Tree
BY CheckoutAssumption DEF Partial, Tree

\* A tree read to the end from another is that tree.
LEMMA CopyIsSame ==
    ASSUME NEW t \in Partial, NEW u \in Tree,
           \A f \in Files : t[f] # Absent /\ t[f] \in {Absent, u[f]}
    PROVE  t = u
BY CheckoutAssumption DEF Partial, Tree

\* What other resolvers rely on only grows.
Grows ==
    /\ \A s \in Shared : had[s] \subseteq had'[s] /\ (checkout[s] # Absent => checkout'[s] = checkout[s])
    /\ \A b \in Blob : Kept(b) => Kept(b)'

\* A resolver a step leaves alone keeps what is known of it.
LEMMA OthersKeep ==
    ASSUME Inv, Grows, NEW r \in Resolvers, res'[r] = res[r]
    PROVE  ProcInv(r)'
<1> DEFINE q == res[r]
<1>0. q \in Resolver /\ ProcInv(r) /\ Absent \notin Tree
  BY CheckoutAssumption DEF Inv, TypeOK
<1>1. Looking(q)'
  BY <1>0 DEF Grows, ProcInv, Fits, Looking, Shared
<1>2. Filling(q)'
  BY <1>0 DEF Grows, ProcInv, Fits, Filling
<1>3. Uploading(q)'
  <2>1. ASSUME q.pc = "put", NEW b \in BlobsOf(q.packed) \ q.missing PROVE Kept(b)'
    <3>1. q.packed \in Tree /\ Kept(b)
      BY <1>0, <2>1 DEF ProcInv, Fits, Uploading
    <3>2. QED
      BY <3>1, BlobsType DEF Grows
  <2>2. QED
    BY <1>0, <2>1 DEF Grows, ProcInv, Fits, Uploading, Shared
<1>4. Returned(q, r \in Offline)'
  <2>1. ASSUME q.pc = "done", q.digest # Absent, NEW b \in BlobsOf(q.digest) PROVE Kept(b)'
    <3>1. q.digest \in Tree /\ Kept(b)
      BY <1>0, <2>1 DEF ProcInv, Fits, Returned, Resolver
    <3>2. QED
      BY <3>1, BlobsType DEF Grows
  <2>2. QED
    BY <1>0, <2>1 DEF Grows, ProcInv, Fits, Returned, Shared
<1>5. QED
  BY <1>1, <1>2, <1>3, <1>4 DEF ProcInv, Fits

\* A step of one resolver that touches nothing shared.
LEMMA PrivateStep ==
    ASSUME Inv, UNCHANGED <<checkout, world>>,
           NEW r \in Resolvers, NEW q \in Resolver, res' = [res EXCEPT ![r] = q],
           Fits(q, r \in Offline)
    PROVE  Inv'
<1>1. TypeOK' /\ SourceInv' /\ StoreInv' /\ Grows
  BY DEF Inv, TypeOK, SourceInv, StoreInv, StoreIsHonest, Kept, Grows, world, Shared
<1>2. res \in [Resolvers -> Resolver]
  BY DEF Inv, TypeOK
<1>3. ProcInv(r)'
  <2>1. res'[r] = q
    BY <1>2
  <2>2. Fits(q, r \in Offline)'
    BY DEF Fits, Looking, Filling, Uploading, Returned, Kept, world
  <2>3. QED
    BY <2>1, <2>2 DEF ProcInv
<1>4. ASSUME NEW o \in Resolvers, o # r PROVE ProcInv(o)'
  BY <1>1, <1>2, <1>4, OthersKeep
<1>5. QED
  BY <1>1, <1>3, <1>4 DEF Inv

\* A call that starts, or ends without a result, knows nothing.
LEMMA FreshFits ==
    ASSUME TypeOK, NEW r \in Resolvers, NEW s \in Sources \cup {Absent}, NEW pc,
           \/ pc = "idle"
           \/ pc = "pack" /\ s \in Local
           \/ pc = "done" /\ s \in Local
           \/ pc = "stat" /\ s \in Git
           \/ pc = "fetch" /\ s \in Asset
    PROVE  Fresh(pc, s) \in Resolver /\ Fits(Fresh(pc, s), r \in Offline)
<1>1. Fresh(pc, s) \in Resolver
  BY DEF Fresh, Resolver, Ended, Partial, Empty
<1>2. Fits(Fresh(pc, s), r \in Offline)
  BY CheckoutAssumption DEF Fresh, Fits, Looking, Filling, Uploading, Returned, Shared, Sources
<1>3. QED
  BY <1>1, <1>2

(***************************************************************************)
(* Resolve preserves the invariant, step by step.                          *)
(***************************************************************************)

\* resolveAndUpload's switch.
LEMMA StartInv == ASSUME Inv, NEW r \in Resolvers, NEW s \in Sources, Start(r, s) PROVE Inv'
<1> DEFINE pc == IF s \in Local THEN Found(r) ELSE IF s \in Git THEN "stat" ELSE "fetch"
<1>1. Fresh(pc, s) \in Resolver /\ Fits(Fresh(pc, s), r \in Offline)
  BY FreshFits DEF Inv, Found, Sources
<1>2. QED
  BY <1>1, PrivateStep DEF Start

\* An error return.
LEMMA FailInv ==
    ASSUME Inv, NEW r \in Resolvers, Fail(r), UNCHANGED <<checkout, world>>
    PROVE  Inv'
<1>1. Idle \in Resolver /\ Fits(Idle, r \in Offline)
  BY FreshFits DEF Inv, Idle
<1>2. QED
  BY <1>1, PrivateStep DEF Fail

\* The facts of a resolver's state that its next step starts from.
LEMMA Now ==
    ASSUME Inv, NEW r \in Resolvers
    PROVE  res[r] \in Resolver /\ Fits(res[r], r \in Offline)
BY DEF Inv, TypeOK, ProcInv

\* FetchDirectory.
LEMMA FetchDigestInv == ASSUME Inv, NEW r \in Resolvers, FetchDigest(r) PROVE Inv'
<1> DEFINE q == [res[r] EXCEPT !.pc = "stat", !.digest = source[res[r].src]]
<1>1. /\ res[r] \in Resolver /\ res[r].pc = "fetch" /\ res[r].src \in Asset
      /\ res[r].tmp = Empty /\ res[r].packed = Empty
  BY Now DEF FetchDigest, Fits, Looking
<1>2. source[res[r].src] \in Tree /\ source[res[r].src] \in had[res[r].src]
  BY <1>1 DEF Inv, TypeOK, SourceInv, Shared, Sources
<1>3. q \in Resolver
  BY <1>1, <1>2 DEF Resolver
<1>4. Fits(q, r \in Offline)
  BY <1>1, <1>2 DEF Fits, Looking, Filling, Uploading, Returned, Shared, Resolver
<1>5. QED
  BY <1>3, <1>4, PrivateStep DEF FetchDigest

\* os.Stat(dst).
LEMMA StatInv == ASSUME Inv, NEW r \in Resolvers, Stat(r) PROVE Inv'
<1> DEFINE s == res[r].src
           pc == IF checkout[s] = Absent THEN IF s \in Git THEN "clone" ELSE "root"
                 ELSE IF s \in Git THEN Found(r) ELSE "done"
           q == [res[r] EXCEPT !.pc = pc]
<1>1. res[r] \in Resolver /\ res[r].pc = "stat" /\ s \in Shared /\ (s \in Asset => res[r].digest \in had[s])
  BY Now DEF Stat, Fits, Looking
<1>2. q \in Resolver
  BY <1>1 DEF Resolver, Found, Ended
<1>3. /\ q.pc = pc /\ q.src = s /\ q.digest = res[r].digest
      /\ q.tmp = Empty /\ q.packed = Empty /\ (s \notin Asset => q.digest = Absent)
  BY <1>1, Now DEF Resolver, Fits, Looking
<1>4. pc \in {"clone", "root", "pack", "done"} /\ (s \notin Git => s \in Asset)
  BY <1>1 DEF Found, Shared
<1>5. Looking(q) /\ Filling(q)
  BY <1>1, <1>3, <1>4 DEF Looking, Filling, Shared, Found
<1>6. Uploading(q)
  BY <1>1, <1>3, <1>4 DEF Uploading, Found, Empty, Shared
<1>7. Returned(q, r \in Offline)
  <2>1. ASSUME q.pc = "done", q.digest # Absent, NEW b \in BlobsOf(q.digest) PROVE Kept(b)
    BY <1>1, <1>3, <2>1 DEF Inv, StoreInv
  <2>2. q.pc = "done" => checkout[s] # Absent /\ s \in Sources /\ (s \in Git => r \in Offline)
    BY <1>1, <1>3, <1>4 DEF Found, Shared, Sources
  <2>3. QED
    BY <1>1, <1>3, <2>1, <2>2 DEF Returned
<1>8. QED
  BY <1>2, <1>5, <1>6, <1>7, PrivateStep DEF Stat, To, Fits

\* git clone.
LEMMA CloneInv == ASSUME Inv, NEW r \in Resolvers, Clone(r) PROVE Inv'
<1> DEFINE q == [res[r] EXCEPT !.pc = "fill", !.tree = source[res[r].src]]
<1>1. res[r] \in Resolver /\ res[r].src \in Git /\ res[r].tmp = Empty /\ res[r].packed = Empty
  BY Now DEF Clone, Fits, Looking
<1>2. source[res[r].src] \in Tree /\ source[res[r].src] \in had[res[r].src]
  BY <1>1 DEF Inv, TypeOK, SourceInv, Shared, Sources
<1>3. q \in Resolver
  BY <1>1, <1>2 DEF Resolver
<1>4. Looking(q)
  BY <1>1, Now, CheckoutAssumption DEF Clone, Fits, Looking, Resolver
<1>5. Filling(q) /\ Uploading(q) /\ Returned(q, r \in Offline)
  BY <1>1, <1>2 DEF Filling, Uploading, Returned, Shared, Empty, Resolver
<1>6. QED
  BY <1>3, <1>4, <1>5, PrivateStep DEF Clone, Fits

\* MaterializeDirectory's Directory.
LEMMA FetchRootInv == ASSUME Inv, NEW r \in Resolvers, FetchRoot(r) PROVE Inv'
<1> DEFINE q == [res[r] EXCEPT !.pc = "fill", !.tree = res[r].digest]
<1>1. CASE Readable(DirBlob(res[r].digest))
  <2>1. /\ res[r] \in Resolver /\ res[r].src \in Asset /\ res[r].digest \in had[res[r].src]
        /\ res[r].tmp = Empty /\ res[r].packed = Empty
    BY Now DEF FetchRoot, Fits, Looking
  <2>2. q \in Resolver
    BY <2>1 DEF Resolver
  <2>3. Looking(q)
    BY <2>1 DEF Looking, Resolver
  <2>4. Filling(q) /\ Uploading(q) /\ Returned(q, r \in Offline)
    BY <2>1 DEF Filling, Uploading, Returned, Shared, Empty, Resolver
  <2>5. QED
    BY <1>1, <2>2, <2>3, <2>4, PrivateStep DEF FetchRoot, Fits
<1>2. CASE ~Readable(DirBlob(res[r].digest))
  BY <1>2, FailInv DEF FetchRoot
<1>3. QED
  BY <1>1, <1>2

\* One file of the incoming directory.
LEMMA FillInv == ASSUME Inv, NEW r \in Resolvers, NEW f \in Files, Fill(r, f) PROVE Inv'
<1> DEFINE tmp == [res[r].tmp EXCEPT ![f] = res[r].tree[f]]
           q == [res[r] EXCEPT !.tmp = tmp]
<1>1. CASE res[r].src \in Git \/ Readable(FileBlob(res[r].tree[f]))
  <2>1. res[r] \in Resolver /\ Filling(res[r]) /\ res[r].pc = "fill" /\ res[r].tree \in Tree
    BY Now, CheckoutAssumption DEF Fill, NextFile, Fits, Filling, Inv, TypeOK, Shared
  <2>2. tmp \in Partial /\ \A g \in Files : tmp[g] \in {Absent, res[r].tree[g]}
    BY <2>1 DEF Filling, Resolver, Partial, Tree
  <2>3. q \in Resolver
    BY <2>1, <2>2 DEF Resolver
  <2>4. Looking(q)
    BY <2>1, Now DEF Fits, Looking, Resolver
  <2>5. Filling(q) /\ Uploading(q) /\ Returned(q, r \in Offline)
    BY <2>1, <2>2 DEF Filling, Uploading, Returned, Resolver
  <2>6. res' = [res EXCEPT ![r] = q]
    BY <1>1, <2>1 DEF Fill, Resolver
  <2>7. QED
    BY <1>1, <2>3, <2>4, <2>5, <2>6, PrivateStep DEF Fill, Fits
<1>2. CASE ~(res[r].src \in Git \/ Readable(FileBlob(res[r].tree[f])))
  BY <1>2, FailInv DEF Fill
<1>3. QED
  BY <1>1, <1>2

\* os.Rename(tmp, dst), which keeps what is there.
LEMMA InstallInv == ASSUME Inv, NEW r \in Resolvers, Install(r) PROVE Inv'
<1> DEFINE s == res[r].src
           pc == IF s \in Git THEN Found(r) ELSE "done"
           q == [res[r] EXCEPT !.pc = pc, !.tree = Absent, !.tmp = Empty]
<1>0. /\ res[r] \in Resolver /\ Fits(res[r], r \in Offline) /\ res[r].pc = "fill"
      /\ s \in Shared /\ res[r].tree \in had[s] /\ res[r].tree \in Tree
  BY Now, CheckoutAssumption DEF Install, Fits, Filling, Inv, TypeOK, Shared
<1>1. res[r].tmp = res[r].tree
  BY <1>0, CopyIsSame DEF Install, Fits, Filling, Resolver
<1>2. checkout' = [checkout EXCEPT ![s] = IF @ = Absent THEN res[r].tree ELSE @]
  BY <1>1 DEF Install
<1>3. q \in Resolver /\ res' = [res EXCEPT ![r] = q]
  BY <1>0 DEF Install, Resolver, Found, Ended, Partial, Empty
<1>4. TypeOK'
  BY <1>0, <1>2, <1>3 DEF Inv, TypeOK, Install, world, Shared
<1>5. SourceInv' /\ StoreInv' /\ Grows
  BY <1>0, <1>2 DEF Inv, TypeOK, SourceInv, StoreInv, StoreIsHonest, Kept, Grows, Install, world, Shared
<1>6. ProcInv(r)'
  <2>1. res'[r] = q
    BY <1>3 DEF Inv, TypeOK
  <2>2. /\ q.pc = pc /\ q.src = s /\ q.digest = res[r].digest /\ q.packed = Empty
        /\ (s \notin Asset => q.digest = Absent) /\ (s \in Asset => q.digest \in had[s])
    BY <1>0 DEF Resolver, Fits, Looking
  <2>3. checkout'[s] # Absent
    BY <1>0, <1>2, CheckoutAssumption DEF Inv, TypeOK, Shared
  <2>4. had' = had /\ store' = store /\ lost' = lost
    BY DEF Install, world
  <2>5. pc \in {"pack", "done"} /\ (pc = "pack" => s \in Git) /\ (pc = "done" => s \in Asset \/ r \in Offline)
    BY <1>0 DEF Found, Shared
  <2>6. Looking(res[r])' /\ Filling(res[r])'
    BY <2>1, <2>2, <2>5 DEF Looking, Filling
  <2>7. Uploading(res[r])'
    BY <2>1, <2>2, <2>3, <2>5 DEF Uploading, Empty
  <2>8. Returned(res[r], r \in Offline)'
    <3>1. ASSUME pc = "done", q.digest # Absent, NEW b \in BlobsOf(q.digest) PROVE Kept(b)
      BY <2>2, <2>5, <3>1 DEF Inv, StoreInv
    <3>2. pc = "done" /\ s \in Git => r \in Offline
      BY <2>5, CheckoutAssumption
    <3>3. \A b : Kept(b)' <=> Kept(b)
      BY <2>4 DEF Kept
    <3>4. s \in Sources
      BY <1>0 DEF Shared, Sources
    <3>5. QED
      BY <2>1, <2>2, <2>3, <2>4, <3>1, <3>2, <3>3, <3>4 DEF Returned
  <2>9. QED
    BY <2>6, <2>7, <2>8 DEF ProcInv, Fits
<1>7. ASSUME NEW o \in Resolvers, o # r PROVE ProcInv(o)'
  BY <1>3, <1>5, <1>7, OthersKeep DEF Inv, TypeOK
<1>8. QED
  BY <1>4, <1>5, <1>6, <1>7 DEF Inv

(***************************************************************************)
(* UploadDir preserves the invariant.                                      *)
(***************************************************************************)

\* What is read at a path is a body; at a checkout's it is the checkout's.
LEMMA AtPathType ==
    ASSUME Inv, NEW r \in Resolvers, res[r].pc \in {"pack", "find", "put"}, NEW f \in Files
    PROVE  /\ AtPath(res[r].src)[f] \in Bodies
           /\ res[r].src \in Git => AtPath(res[r].src) = checkout[res[r].src]
<1>1. /\ res[r].src \in Local \cup Git
      /\ res[r].src \in Git => checkout[res[r].src] # Absent
  BY Now DEF Fits, Uploading
<1>2. AtPath(res[r].src) \in Tree
  BY <1>1, CheckoutAssumption DEF AtPath, Inv, TypeOK, Sources
<1>3. QED
  BY <1>1, <1>2, CheckoutAssumption DEF AtPath, Tree

\* PackDir reads one file.
LEMMA PackInv == ASSUME Inv, NEW r \in Resolvers, NEW f \in Files, Pack(r, f) PROVE Inv'
<1> DEFINE s == res[r].src
           packed == [res[r].packed EXCEPT ![f] = AtPath(s)[f]]
           q == [res[r] EXCEPT !.packed = packed,
                               !.pc = IF \A g \in Files : packed[g] # Absent THEN "find" ELSE @]
<1>1. res[r] \in Resolver /\ Fits(res[r], r \in Offline) /\ res[r].pc = "pack"
  BY Now DEF Pack
<1>2. packed \in Partial
  BY <1>1, AtPathType DEF Resolver, Partial
<1>3. q \in Resolver
  BY <1>1, <1>2 DEF Resolver
<1>4. q.pc \in {"pack", "find"} /\ q.src = s /\ q.packed = packed
  BY <1>1 DEF Resolver
<1>5. q.pc = "find" => packed \in Tree
  BY <1>1, <1>2, WholeIsTree DEF Resolver
<1>6. s \in Git => \A g \in Files : packed[g] \in {Absent, checkout[s][g]}
  BY <1>1, AtPathType DEF Fits, Uploading, Resolver, Partial
<1>7. Looking(q) /\ Filling(q) /\ Returned(q, r \in Offline)
  BY <1>4 DEF Looking, Filling, Returned
<1>8. Uploading(q)
  BY <1>1, <1>4, <1>5, <1>6 DEF Fits, Uploading
<1>9. res' = [res EXCEPT ![r] = q]
  BY <1>1 DEF Pack, Resolver
<1>10. QED
  BY <1>3, <1>7, <1>8, <1>9, PrivateStep DEF Pack, Fits

\* FindMissing: what is not missing holds its blob or is lost.
LEMMA FindMissingInv == ASSUME Inv, NEW r \in Resolvers, FindMissing(r) PROVE Inv'
<1> DEFINE missing == {b \in BlobsOf(res[r].packed) : store[b] = "absent"}
           q == [res[r] EXCEPT !.pc = "put", !.missing = missing]
<1>1. /\ res[r] \in Resolver /\ Fits(res[r], r \in Offline) /\ res[r].pc = "find"
      /\ res[r].packed \in Tree
  BY Now DEF FindMissing, Fits, Uploading
<1>2. BlobsOf(res[r].packed) \subseteq Blob
  BY <1>1, BlobsType
<1>3. q \in Resolver
  BY <1>1, <1>2 DEF Resolver
<1>4. \A b \in BlobsOf(res[r].packed) \ missing : Kept(b)
  BY <1>2 DEF Inv, TypeOK, StoreInv, StoreIsHonest, Kept
<1>5. q.pc = "put" /\ q.src = res[r].src /\ q.packed = res[r].packed /\ q.missing = missing
  BY <1>1 DEF Resolver
<1>6. Looking(q) /\ Filling(q) /\ Returned(q, r \in Offline)
  BY <1>5 DEF Looking, Filling, Returned
<1>7. Uploading(q)
  BY <1>1, <1>4, <1>5 DEF Fits, Uploading
<1>8. QED
  BY <1>3, <1>6, <1>7, PrivateStep DEF FindMissing, Fits

\* A blob is put: all that others rely on is still there.
LEMMA PutInv ==
    ASSUME Inv, NEW r \in Resolvers, NEW b \in Blob, res[r].pc = "put",
           store' = [store EXCEPT ![b] = "good"], lost' = lost \ {b},
           res' = [res EXCEPT ![r].missing = @ \ {b}],
           UNCHANGED <<source, checkout, had>>
    PROVE  Inv'
<1> DEFINE q == [res[r] EXCEPT !.missing = @ \ {b}]
<1>1. /\ res[r] \in Resolver /\ Fits(res[r], r \in Offline)
      /\ res[r].packed \in Tree /\ BlobsOf(res[r].packed) \subseteq Blob
  BY Now, BlobsType DEF Fits, Uploading
<1>2. q \in Resolver /\ res' = [res EXCEPT ![r] = q]
  BY <1>1 DEF Resolver
<1>3. TypeOK'
  BY <1>2 DEF Inv, TypeOK
<1>4. \A c \in Blob : c # b => store'[c] = store[c]
  BY DEF Inv, TypeOK
<1>5. store'[b] = "good"
  BY DEF Inv, TypeOK
<1>6. Grows /\ Kept(b)'
  BY <1>4, <1>5 DEF Grows, Kept
<1>7. SourceInv'
  BY DEF Inv, SourceInv
<1>8. StoreInv'
  <2>1. StoreIsHonest'
    BY <1>4, <1>5 DEF Inv, StoreInv, StoreIsHonest
  <2>2. ASSUME NEW s \in Asset, NEW t \in had'[s], NEW c \in BlobsOf(t) PROVE Kept(c)'
    <3>1. t \in had[s] /\ t \in Tree /\ Kept(c)
      BY CheckoutAssumption, <2>2 DEF Inv, TypeOK, StoreInv
    <3>2. QED
      BY <3>1, <1>6, BlobsType DEF Grows
  <2>3. QED
    BY <2>1, <2>2 DEF StoreInv
<1>9. ProcInv(r)'
  <2>1. res'[r] = q
    BY <1>2 DEF Inv, TypeOK
  <2>2. /\ q.pc = "put" /\ q.src = res[r].src /\ q.packed = res[r].packed
        /\ q.missing = res[r].missing \ {b}
    BY <1>1 DEF Resolver
  <2>3. Looking(res[r])' /\ Filling(res[r])' /\ Returned(res[r], r \in Offline)'
    BY <2>1, <2>2 DEF Looking, Filling, Returned
  <2>4. ASSUME NEW c \in BlobsOf(q.packed) \ q.missing PROVE Kept(c)'
    BY <1>1, <1>6, <2>2, <2>4 DEF Grows, Fits, Uploading
  <2>5. Uploading(res[r])'
    BY <1>1, <2>1, <2>2, <2>4 DEF Fits, Uploading
  <2>6. QED
    BY <2>3, <2>5 DEF ProcInv, Fits
<1>10. ASSUME NEW o \in Resolvers, o # r PROVE ProcInv(o)'
  BY <1>2, <1>6, <1>10, OthersKeep DEF Inv, TypeOK
<1>11. QED
  BY <1>3, <1>7, <1>8, <1>9, <1>10 DEF Inv

\* A Directory is put.
LEMMA PutDirectoryInv == ASSUME Inv, NEW r \in Resolvers, PutDirectory(r) PROVE Inv'
<1>1. DirBlob(res[r].packed) \in Blob
  <2>1. res[r].packed \in Tree
    BY Now DEF PutDirectory, Fits, Uploading
  <2>2. QED
    BY <2>1, BlobsType DEF BlobsOf
<1>2. QED
  BY <1>1, PutInv DEF PutDirectory

\* A file is put, or its body is not what it was.
LEMMA PutFileInv ==
    ASSUME Inv, NEW r \in Resolvers, NEW c \in Bodies, PutFile(r, c)
    PROVE  Inv'
<1>1. FileBlob(c) \in Blob
  BY DEF FileBlob, Blob
<1>2. CASE AtPath(res[r].src)[PathOf(res[r].packed, c)] = c
  BY <1>1, <1>2, PutInv DEF PutFile
<1>3. CASE AtPath(res[r].src)[PathOf(res[r].packed, c)] # c
  BY <1>3, FailInv DEF PutFile, world
<1>4. QED
  BY <1>2, <1>3

\* UploadDir returns: everything is there.
LEMMA UploadedInv == ASSUME Inv, NEW r \in Resolvers, Uploaded(r) PROVE Inv'
<1> DEFINE k == res[r]
           q == [k EXCEPT !.pc = "done", !.digest = k.packed, !.packed = Empty]
<1>1. /\ k \in Resolver /\ Fits(k, r \in Offline) /\ k.pc = "put" /\ k.missing = {}
      /\ k.packed \in Tree /\ k.src \in Local \cup Git
  BY Now DEF Uploaded, Fits, Uploading
<1>2. q \in Resolver
  BY <1>1 DEF Resolver, Ended, Partial, Empty
<1>3. q.pc = "done" /\ q.src = k.src /\ q.digest = k.packed
  BY <1>1 DEF Resolver
<1>4. k.src \in Git => k.packed = checkout[k.src]
  <2>1. SUFFICES ASSUME k.src \in Git PROVE k.packed = checkout[k.src]
    OBVIOUS
  <2>2. /\ checkout[k.src] # Absent
        /\ \A f \in Files : k.packed[f] \in {Absent, checkout[k.src][f]}
    BY <1>1, <2>1 DEF Fits, Uploading
  <2>3. k.packed \in Partial /\ (\A f \in Files : k.packed[f] # Absent)
    BY <1>1, CheckoutAssumption DEF Resolver, Tree
  <2>4. checkout[k.src] \in Tree
    BY <2>1, <2>2 DEF Inv, TypeOK
  <2>5. QED
    BY <2>2, <2>3, <2>4, CopyIsSame
<1>5. \A b \in BlobsOf(k.packed) : Kept(b)
  BY <1>1 DEF Fits, Uploading
<1>6. Looking(q) /\ Filling(q) /\ Uploading(q)
  BY <1>3 DEF Looking, Filling, Uploading
<1>7. Returned(q, r \in Offline)
  <2>1. k.src \in Git => checkout[k.src] # Absent
    BY <1>1 DEF Fits, Uploading
  <2>2. k.src \in Sources /\ (k.src \in Shared => k.src \in Git) /\ k.src \notin Asset
    BY <1>1, CheckoutAssumption DEF Sources, Shared
  <2>3. QED
    BY <1>3, <1>4, <1>5, <2>1, <2>2 DEF Returned
<1>8. QED
  BY <1>2, <1>6, <1>7, PrivateStep DEF Uploaded, Fits

(***************************************************************************)
(* The world preserves the invariant.                                      *)
(***************************************************************************)

\* A step of the world that others can rely on.
LEMMA WorldStep ==
    ASSUME Inv, TypeOK', Grows, SourceInv', StoreInv', res' = res
    PROVE  Inv'
BY OthersKeep DEF Inv

\* A local source is edited.
LEMMA EditInv ==
    ASSUME Inv, NEW s \in Local, NEW f \in Edited, NEW c \in Bodies, Edit(s, f, c)
    PROVE  Inv'
<1>1. TypeOK'
  BY CheckoutAssumption DEF Inv, TypeOK, Edit, Sources, Tree
<1>2. \A t \in Shared : source'[t] = source[t]
  BY CheckoutAssumption DEF Inv, TypeOK, Edit, Sources, Shared
<1>3. SourceInv' /\ StoreInv' /\ Grows
  BY <1>2 DEF Inv, SourceInv, StoreInv, StoreIsHonest, Kept, Grows, Edit
<1>4. QED
  BY <1>1, <1>3, WorldStep DEF Edit

\* A ref moves, or an asset is bound anew: whatever it is bound to is stored.
LEMMA MoveInv ==
    ASSUME Inv, NEW s \in Moving, NEW t \in Published, Move(s, t)
    PROVE  Inv'
<1> DEFINE new == IF s \in Asset THEN {b \in BlobsOf(t) : store[b] = "absent"} ELSE {}
<1>1. s \in Shared /\ t \in Tree /\ BlobsOf(t) \subseteq Blob
  BY CheckoutAssumption, BlobsType DEF Shared
<1>2. /\ store' = [b \in Blob |-> IF b \in new THEN "good" ELSE store[b]]
      /\ lost' = lost \ new
      /\ had' = [had EXCEPT ![s] = @ \cup {t}]
      /\ source' = [source EXCEPT ![s] = t]
      /\ checkout' = checkout /\ res' = res
  BY DEF Move
<1>3. TypeOK'
  BY <1>1, <1>2 DEF Inv, TypeOK, Shared, Sources
<1>4. SourceInv'
  BY <1>1, <1>2 DEF Inv, TypeOK, SourceInv, Shared, Sources
<1>5. \A b \in Blob : Kept(b) => Kept(b)'
  BY <1>2 DEF Kept
<1>6. Grows
  BY <1>2, <1>5 DEF Grows, Inv, TypeOK, Shared
<1>7. StoreIsHonest'
  BY <1>2 DEF Inv, StoreInv, StoreIsHonest
<1>8. ASSUME NEW a \in Asset, NEW u \in had'[a], NEW b \in BlobsOf(u) PROVE Kept(b)'
  <2>1. CASE u \in had[a]
    <3>1. u \in Tree /\ Kept(b)
      BY <1>8, <2>1, CheckoutAssumption DEF Inv, TypeOK, StoreInv
    <3>2. QED
      BY <1>5, <1>8, <3>1, BlobsType
  <2>2. CASE u \notin had[a]
    <3>1. a = s /\ u = t
      BY <1>2, <1>8, <2>2 DEF Inv, TypeOK
    <3>2. b \in new \/ Kept(b)
      BY <1>1, <1>8, <3>1 DEF Inv, TypeOK, StoreInv, StoreIsHonest, Kept
    <3>3. QED
      BY <1>1, <1>2, <1>5, <1>8, <3>1, <3>2 DEF Kept
  <2>3. QED
    BY <2>1, <2>2
<1>9. StoreInv'
  BY <1>7, <1>8 DEF StoreInv
<1>10. QED
  BY <1>2, <1>3, <1>4, <1>6, <1>9, WorldStep

\* The store loses a blob.
LEMMA LoseInv ==
    ASSUME Inv, NEW b \in Fragile, NEW left \in {"absent", "bad"}, Lose(b, left)
    PROVE  Inv'
<1>1. b \in Blob
  BY FragileAssumption
<1>2. TypeOK'
  BY <1>1 DEF Inv, TypeOK, Lose
<1>3. SourceInv'
  BY DEF Inv, SourceInv, Lose
<1>4. \A c \in Blob : Kept(c) => Kept(c)'
  BY DEF Inv, TypeOK, Lose, Kept
<1>5. StoreIsHonest'
  BY DEF Inv, TypeOK, StoreInv, StoreIsHonest, Lose
<1>6. ASSUME NEW s \in Asset, NEW t \in had'[s], NEW c \in BlobsOf(t) PROVE Kept(c)'
  <2>1. t \in Tree /\ Kept(c)
    BY <1>6, CheckoutAssumption DEF Inv, TypeOK, StoreInv, Lose
  <2>2. QED
    BY <1>4, <1>6, <2>1, BlobsType
<1>7. StoreInv' /\ Grows
  BY <1>4, <1>5, <1>6 DEF StoreInv, Grows, Lose
<1>8. QED
  BY <1>2, <1>3, <1>7, WorldStep DEF Lose

(***************************************************************************)
(* Theorems.                                                               *)
(***************************************************************************)

\* The invariant holds at the start.
LEMMA InitInv == Init => Inv
<1> SUFFICES ASSUME Init PROVE Inv
  OBVIOUS
<1>1. TypeOK
  <2>1. Idle \in Resolver
    BY DEF Idle, Fresh, Resolver, Ended, Partial, Empty
  <2>2. had \in [Git \cup Asset -> SUBSET Published]
    BY DEF Init, Sources
  <2>3. QED
    BY <2>1, <2>2, CheckoutAssumption DEF Init, TypeOK
<1>2. SourceInv
  BY DEF Init, SourceInv, Shared
<1>3. StoreInv
  <2>1. ASSUME NEW s \in Asset, NEW t \in had[s], NEW b \in BlobsOf(t) PROVE Kept(b)
    <3>1. t = source[s] /\ t \in Tree
      BY <2>1, CheckoutAssumption DEF Init, Sources
    <3>2. b \in Blob
      BY <2>1, <3>1, BlobsType
    <3>3. QED
      BY <2>1, <3>1, <3>2 DEF Init, Kept
  <2>2. QED
    BY <2>1 DEF Init, StoreInv, StoreIsHonest
<1>4. ASSUME NEW r \in Resolvers PROVE ProcInv(r)
  BY <1>1, FreshFits DEF Init, Idle, ProcInv
<1>5. QED
  BY <1>1, <1>2, <1>3, <1>4 DEF Inv

\* Every step preserves the invariant.
LEMMA NextInv == Inv /\ [Next]_vars => Inv'
<1> SUFFICES ASSUME Inv, [Next]_vars PROVE Inv'
  OBVIOUS
<1>1. ASSUME NEW r \in Resolvers, Step(r) PROVE Inv'
  BY <1>1, FetchDigestInv, StatInv, CloneInv, FetchRootInv, InstallInv, FindMissingInv,
     PutDirectoryInv, UploadedInv, FillInv, PackInv, PutFileInv DEF Step
<1>2. ASSUME NEW r \in Resolvers, Stops(r) PROVE Inv'
  BY <1>2, FailInv DEF Stops
<1>3. ASSUME NEW r \in Resolvers, NEW s \in Sources, Start(r, s) PROVE Inv'
  BY <1>3, StartInv
<1>4. CASE World
  BY <1>4, EditInv, MoveInv, LoseInv DEF World
<1>5. CASE UNCHANGED vars
  <2>1. Grows /\ TypeOK' /\ SourceInv' /\ StoreInv' /\ res' = res
    BY <1>5 DEF vars, Grows, Kept, Inv, TypeOK, SourceInv, StoreInv, StoreIsHonest, Shared
  <2>2. QED
    BY <2>1, WorldStep
<1>6. QED
  BY <1>1, <1>2, <1>3, <1>4, <1>5 DEF Next

\* The invariant is one.
THEOREM Invariance == Spec => []Inv
BY InitInv, NextInv, PTL DEF Spec

\* Every state is well typed; in particular a checkout is absent or a whole
\* tree, never a part of one.
THEOREM TypeCorrect == Spec => []TypeOK
<1>1. Inv => TypeOK
  BY DEF Inv
<1>2. QED
  BY <1>1, Invariance, PTL

\* Whatever crashes, races and failing downloads leave in a checkout's place is
\* a tree its source has stood for (resolveGit, resolveRemoteAssetWithDigest).
THEOREM WholeCheckouts == Spec => []CheckoutsAreWhole
<1>1. Inv => CheckoutsAreWhole
  BY DEF Inv, SourceInv, Shared, CheckoutsAreWhole
<1>2. QED
  BY <1>1, Invariance, PTL

\* No upload puts a body under another's name (PutBlob).
THEOREM HonestStore == Spec => []StoreIsHonest
<1>1. Inv => StoreIsHonest
  BY DEF Inv, StoreInv
<1>2. QED
  BY <1>1, Invariance, PTL

\* A digest Resolve has returned can be materialized, but for what the store
\* has lost (UploadDir, FindMissing).
THEOREM StoredDigests == Spec => []DigestIsStored
<1>1. Inv => DigestIsStored
  BY DEF Inv, ProcInv, Fits, Returned, Kept, DigestIsStored
<1>2. QED
  BY <1>1, Invariance, PTL

\* Path and digest of a result name one tree, as long as an asset has stood for
\* one only.
THEOREM OneTree == Spec => []ResultIsOneTree
<1>1. Inv => ResultIsOneTree
  <2> SUFFICES ASSUME Inv, NEW r \in Resolvers, res[r].pc = "done", res[r].src \notin Local
               PROVE  LET s == res[r].src IN
                        /\ checkout[s] # Absent
                        /\ s \in Git /\ r \notin Offline => res[r].digest = checkout[s]
                        /\ s \in Asset => res[r].digest \in had[s]
                        /\ had[s] = {res[r].digest} => checkout[s] = res[r].digest
    BY DEF ResultIsOneTree
  <2>1. Returned(res[r], r \in Offline)
    BY Now DEF Fits
  <2>2. res[r].src \in Shared
    BY <2>1 DEF Returned, Sources, Shared
  <2>3. checkout[res[r].src] \in had[res[r].src]
    BY <2>1, <2>2 DEF Returned, Inv, SourceInv
  <2>4. QED
    BY <2>1, <2>2, <2>3 DEF Returned
<1>2. QED
  BY <1>1, Invariance, PTL

\* A checkout, once there, is never written again.
THEOREM StableCheckouts == Spec => CheckoutsStay
<1>1. Inv /\ [Next]_vars =>
        [\A s \in Git \cup Asset : checkout[s] # Absent => checkout'[s] = checkout[s]]_vars
  <2>1. ASSUME NEW r \in Resolvers, Install(r), NEW s \in Shared, checkout[s] # Absent, Inv
        PROVE  checkout'[s] = checkout[s]
    BY <2>1 DEF Install, Inv, TypeOK, Shared
  <2>2. QED
    BY <2>1 DEF Next, Step, World, Start, FetchDigest, Stat, Clone, FetchRoot, Fill, Pack,
                FindMissing, PutDirectory, PutFile, Uploaded, Stops, Edit, Move, Lose, Shared, vars
<1>2. QED
  BY <1>1, Invariance, PTL DEF Spec, CheckoutsStay
=============================================================================
