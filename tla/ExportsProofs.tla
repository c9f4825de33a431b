--------------------------- MODULE ExportsProofs ---------------------------
(***************************************************************************)
(* What holds of Exports for every prefix and every manifest: cycles of    *)
(* packages are unseen ones, and harvested manifests are accepted.         *)
(***************************************************************************)
EXTENDS Exports, SequenceTheorems, TLAPS

\* A graph with fewer edges than an acyclic one is acyclic.
LEMMA FewerEdges ==
    ASSUME NEW E, NEW F, DOMAIN F = DOMAIN E,
           \A n \in DOMAIN E : F[n] \subseteq E[n], Acyclic(E)
    PROVE  Acyclic(F)
  BY DEF Acyclic

\* Edges from t to where t cannot be reached from close no cycle.
LEMMA EdgesAdded ==
    ASSUME NEW E, NEW t \in DOMAIN E, NEW T, NEW F, DOMAIN F = DOMAIN E,
           F[t] = E[t] \cup T, \A n \in DOMAIN E : n # t => F[n] = E[n],
           \A u \in T : ~Reaches(E, u, t), Acyclic(E)
    PROVE  Acyclic(F)
<1>1. SUFFICES ASSUME NEW S \in (SUBSET DOMAIN E) \ {{}},
                      \A n \in S : F[n] \cap S # {}
               PROVE  FALSE
  BY DEF Acyclic
<1>2. PICK n \in S : E[n] \cap S = {}
  BY DEF Acyclic
<1>3. n = t
  BY <1>1, <1>2
<1>4. PICK u \in T \cap S : TRUE
  BY <1>1, <1>2, <1>3
<1>5. PICK R \in SUBSET DOMAIN E : u \in R /\ (\A m \in R : E[m] \subseteq R) /\ t \notin R
  BY <1>4 DEF Reaches
<1>6. S \cap R \in (SUBSET DOMAIN E) \ {{}}
  BY <1>4, <1>5
<1>7. PICK m \in S \cap R : E[m] \cap (S \cap R) = {}
  BY <1>6 DEF Acyclic
<1>8. m # t /\ m \in DOMAIN E /\ F[m] = E[m]
  BY <1>5, <1>7
<1>9. E[m] \subseteq R
  BY <1>5, <1>7
<1>. QED
  BY <1>1, <1>7, <1>8, <1>9

\* The same of an update of the graph.
LEMMA EdgesUpdated ==
    ASSUME NEW E, NEW D, E \in [D -> SUBSET D], NEW t \in D, NEW T,
           \A u \in T : ~Reaches(E, u, t), Acyclic(E)
    PROVE  Acyclic([E EXCEPT ![t] = @ \cup T])
<1>. DEFINE F == [E EXCEPT ![t] = @ \cup T]
<1>1. DOMAIN F = DOMAIN E /\ t \in DOMAIN E /\ F[t] = E[t] \cup T
  OBVIOUS
<1>2. \A n \in DOMAIN E : n # t => F[n] = E[n]
  OBVIOUS
<1>. HIDE DEF F
<1>3. Acyclic(F)
  BY <1>1, <1>2, EdgesAdded
<1>. QED
  BY <1>3 DEF F

-----------------------------------------------------------------------------
(* The generator *)

\* While link names are routed the edges accepted so far have no cycle, and
\* they are those of the wrappers.
Routing ==
    step \in {"routing", "generated"} =>
        /\ ~Colliding(manifest)
        /\ adj \in [DOMAIN manifest -> SUBSET DOMAIN manifest]
        /\ routes = [t \in DOMAIN manifest |-> routes[t]]
        /\ Acyclic(adj)
        /\ \A e \in unrouted : e[1] \in DOMAIN manifest
        /\ \A t \in DOMAIN manifest :
             /\ DeclaredEdges(manifest)[t] \subseteq adj[t]
             /\ \A d \in routes[t] : Exported(manifest, d) \ {t} \subseteq adj[t]

\* The generated package is made of what the manifest declares and the routes.
Packaged ==
    step = "generated" =>
        package = [t \in DOMAIN manifest |->
          ({Remap(manifest, d) : d \in manifest[t].deps} \cup routes[t])
          \ {Remap(manifest, manifest[t].label)}]

\* Every export is a target the wrapper names are known of.
ManifestInv == DOMAIN manifest \subseteq Targets

\* Exports under a label are exports.
LEMMA ExportedIsSubset == ASSUME NEW m, NEW l PROVE Exported(m, l) \subseteq DOMAIN m
  BY DEF Exported, LastBy

\* Routing starts from the declared edges, which are acyclic.
LEMMA RoutingStart ==
    ASSUME Route PROVE Routing'
<1>. DEFINE m == manifest
<1>1. /\ ~Colliding(m) /\ adj' = DeclaredEdges(m) /\ manifest' = m /\ Acyclic(DeclaredEdges(m))
      /\ routes' = [t \in DOMAIN m |-> {}]
      /\ unrouted' = UNION {{t} \X RoutedLabels(m, t) : t \in DOMAIN m}
  BY DEF Route, harvestVars
<1>2. DeclaredEdges(m) \in [DOMAIN m -> SUBSET DOMAIN m]
  BY ExportedIsSubset DEF DeclaredEdges
<1>. QED
  BY <1>1, <1>2 DEF Routing

\* Whatever edge is looked at next, the accepted ones stay acyclic.
LEMMA RoutingStep ==
    ASSUME Routing, NEW t, NEW d, BreakRoute(t, d) PROVE Routing'
<1>. DEFINE m == manifest
            to == Exported(m, d) \ {t}
            closes == \E u \in to : Reaches(adj, u, t)
<1>1. /\ step = "routing" /\ manifest' = m /\ <<t, d>> \in unrouted
      /\ unrouted' = unrouted \ {<<t, d>>}
      /\ adj' = IF closes THEN adj ELSE [adj EXCEPT ![t] = @ \cup to]
      /\ routes' = IF closes THEN routes ELSE [routes EXCEPT ![t] = @ \cup {d}]
      /\ step' = "routing"
  BY DEF BreakRoute, harvestVars
<1>2. t \in DOMAIN m
  BY <1>1 DEF Routing
<1>3. CASE closes
  BY <1>1, <1>3 DEF Routing
<1>4. CASE ~closes
  <2>1. adj' = [adj EXCEPT ![t] = @ \cup to] /\ routes' = [routes EXCEPT ![t] = @ \cup {d}]
    BY <1>1, <1>4
  <2>2. /\ ~Colliding(m) /\ adj \in [DOMAIN m -> SUBSET DOMAIN m] /\ Acyclic(adj)
        /\ routes = [s \in DOMAIN m |-> routes[s]]
    BY <1>1 DEF Routing
  <2>3. to \subseteq DOMAIN m
    BY ExportedIsSubset
  <2>4. adj' \in [DOMAIN m -> SUBSET DOMAIN m] /\ DOMAIN adj' = DOMAIN m
    BY <2>1, <2>2, <2>3
  <2>5. Acyclic(adj')
    <3>1. \A u \in to : ~Reaches(adj, u, t)
      BY <1>4
    <3>2. Acyclic([adj EXCEPT ![t] = @ \cup to])
      BY <3>1, <1>2, <2>2, EdgesUpdated
    <3>. QED
      BY <3>2, <2>1
  <2>6. routes' = [s \in DOMAIN m |-> routes'[s]]
    BY <2>1, <2>2
  <2>7. ASSUME NEW s \in DOMAIN m
        PROVE  /\ DeclaredEdges(m)[s] \subseteq adj'[s]
               /\ \A l \in routes'[s] : Exported(m, l) \ {s} \subseteq adj'[s]
    <3>1. /\ DeclaredEdges(m)[s] \subseteq adj[s]
          /\ \A l \in routes[s] : Exported(m, l) \ {s} \subseteq adj[s]
      BY <1>1 DEF Routing
    <3>2. CASE s = t
      BY <3>1, <3>2, <2>1, <2>2
    <3>3. CASE s # t
      BY <3>1, <3>3, <2>1, <2>2
    <3>. QED
      BY <3>2, <3>3
  <2>8. \A e \in unrouted' : e[1] \in DOMAIN m
    BY <1>1 DEF Routing
  <2>. QED
    BY <1>1, <2>2, <2>4, <2>5, <2>6, <2>7, <2>8 DEF Routing
<1>. QED
  BY <1>3, <1>4

\* The package's edges between the wrappers that the checks see are among those
\* whose cycles were looked for.
LEMMA EdgesAreAccepted ==
    ASSUME Routing, Packaged, step = "generated"
    PROVE  Acyclic([t \in Seen |-> PackageEdges[t] \cap Seen])
<1>. DEFINE m == manifest
            E == [t \in Seen |-> PackageEdges[t] \cap Seen]
<1>1. adj \in [DOMAIN m -> SUBSET DOMAIN m] /\ Acyclic(adj)
  BY DEF Routing
<1>2. Seen \subseteq DOMAIN m /\ DOMAIN PackageEdges = DOMAIN m
  BY DEF Seen, PackageEdges, Packaged
<1>3. ASSUME NEW t \in Seen, NEW u \in PackageEdges[t] \cap Seen, u # t PROVE u \in adj[t]
  <2>1. Label(u) \in {Remap(m, d) : d \in m[t].deps} \cup routes[t]
    BY <1>2, <1>3 DEF PackageEdges, Packaged
  <2>2. u \in Exported(m, Label(u))
    BY <1>3 DEF Seen
  <2>3. /\ DeclaredEdges(m)[t] \subseteq adj[t]
        /\ \A d \in routes[t] : Exported(m, d) \ {t} \subseteq adj[t]
    BY <1>2 DEF Routing
  <2>4. CASE Label(u) \in routes[t]
    BY <2>2, <2>3, <2>4, <1>3
  <2>5. CASE \E d \in m[t].deps : Label(u) = Remap(m, d)
    <3>1. PICK d \in m[t].deps : u \in Exported(m, Remap(m, d))
      BY <2>2, <2>5
    <3>2. u \in DeclaredEdges(m)[t]
      BY <1>2, <1>3, <3>1 DEF DeclaredEdges
    <3>. QED
      BY <2>3, <3>2
  <2>. QED
    BY <2>1, <2>4, <2>5
<1>4. ASSUME NEW t \in Seen PROVE t \notin PackageEdges[t]
  <2>1. t \in Exported(m, Label(t)) /\ t \in DOMAIN m
    BY <1>2 DEF Seen
  <2>2. Remap(m, m[t].label) = Label(t)
    BY <2>1 DEF Exported, LastBy
  <2>. QED
    BY <2>1, <2>2 DEF PackageEdges, Packaged
<1>5. ASSUME NEW S \in (SUBSET Seen) \ {{}} PROVE \E n \in S : E[n] \cap S = {}
  <2>1. S \in (SUBSET DOMAIN adj) \ {{}}
    BY <1>1, <1>2
  <2>2. PICK n \in S : adj[n] \cap S = {}
    BY <1>1, <2>1 DEF Acyclic
  <2>3. n \in Seen /\ E[n] = PackageEdges[n] \cap Seen
    OBVIOUS
  <2>4. \A u \in E[n] : u \in adj[n]
    BY <1>3, <1>4, <2>3
  <2>. QED
    BY <2>2, <2>4
<1>6. DOMAIN E = Seen
  OBVIOUS
<1>. QED
  BY <1>5, <1>6 DEF Acyclic

\* Generate makes the package of what is declared and routed.
LEMMA PackagedStep ==
    ASSUME Generate PROVE Packaged'
  BY DEF Generate, Packaged, harvestVars, Remap, Owner

-----------------------------------------------------------------------------
(* The harvest's rows *)

\* What folding keeps: rows of known targets, in the order they were declared,
\* and under every folded name a row.
WellFormed(r) ==
    /\ r = [row |-> r.row, pos |-> r.pos, folded |-> r.folded]
    /\ DOMAIN r.row \subseteq Targets
    /\ \A n \in DOMAIN r.row : r.pos[n] \in Nat
    /\ \A n \in DOMAIN r.folded : r.folded[n] \in DOMAIN r.row

\* Folding removes no row and lets no alias stand for what is not there.
LEMMA FoldKeeps ==
    ASSUME NEW r, WellFormed(r), NEW c, \A n \in DOMAIN c : c[n] \in DOMAIN r.row
    PROVE  WellFormed(Fold(r, c))
<1>. DEFINE f == Fold(r, c)
            F == [n \in DOMAIN c \cup DOMAIN r.folded |->
                    IF n \in DOMAIN c THEN c[n] ELSE r.folded[n]]
<1>0. \E R : DOMAIN R = DOMAIN r.row /\ f = [r EXCEPT !.row = R, !.folded = F]
  BY Zenon DEF Fold
<1>1. /\ f = [row |-> f.row, pos |-> f.pos, folded |-> f.folded]
      /\ DOMAIN f.row = DOMAIN r.row /\ f.pos = r.pos
      /\ f.folded = F
  <2>1. PICK R : DOMAIN R = DOMAIN r.row /\ f = [r EXCEPT !.row = R, !.folded = F]
    BY <1>0
  <2>. HIDE DEF F, f
  <2>. QED
    BY <2>1 DEF WellFormed
<1>2. \A n \in DOMAIN f.folded : f.folded[n] \in DOMAIN r.row
  BY <1>1 DEF WellFormed
<1>. HIDE DEF f
<1>3. WellFormed(f)
  BY <1>1, <1>2 DEF WellFormed
<1>. QED
  BY <1>3 DEF f

\* Nor do its two passes, one after the other.
LEMMA DedupKeeps ==
    ASSUME NEW r, WellFormed(r) PROVE WellFormed(DedupBundleRows(r))
<1>1. ASSUME NEW q, WellFormed(q) PROVE WellFormed(ByArtifact(q))
  <2>. DEFINE dup == {n \in Libraries(q) : SameArtifact(q, n) # {}}
              c == [n \in dup |-> CHOOSE m \in SameArtifact(q, n) : TRUE]
  <2>1. \A n : SameArtifact(q, n) \subseteq DOMAIN q.row
    BY DEF SameArtifact, First, Libraries
  <2>2. \A n \in DOMAIN c : c[n] \in DOMAIN q.row
    BY <2>1
  <2>. HIDE DEF c
  <2>3. WellFormed(Fold(q, c))
    BY <1>1, <2>2, FoldKeeps
  <2>. QED
    BY <2>3 DEF ByArtifact, c
<1>2. ASSUME NEW q, WellFormed(q) PROVE WellFormed(ByName(q))
  <2>. DEFINE bare == {n \in Libraries(q) : OldStyle(q, n) # {}}
              prev(n) == CHOOSE m \in OldStyle(q, n) : TRUE
              dup == {n \in bare : q.row[n].art = None}
                     \cup {prev(n) : n \in {b \in bare : q.row[b].art # None}}
              c == [d \in dup |-> IF d \in bare THEN prev(d) ELSE CHOOSE n \in bare : prev(n) = d]
  <2>1. /\ bare \subseteq DOMAIN q.row
        /\ \A n \in bare : prev(n) \in DOMAIN q.row
    BY DEF OldStyle, First, Libraries
  <2>2. ASSUME NEW d \in dup, d \notin bare PROVE \E n \in bare : prev(n) = d
    BY <2>2
  <2>3. ASSUME NEW d \in dup, d \notin bare
        PROVE  (CHOOSE n \in bare : prev(n) = d) \in bare
    BY <2>2, <2>3
  <2>. HIDE DEF bare, prev, dup
  <2>4. \A d \in DOMAIN c : c[d] \in DOMAIN q.row
    BY <2>1, <2>3
  <2>. HIDE DEF c
  <2>5. WellFormed(Fold(q, c))
    BY <1>2, <2>4, FoldKeeps
  <2>. QED
    BY <2>5 DEF ByName, c, dup, bare, prev
<1>. QED
  BY <1>1, <1>2 DEF DedupBundleRows

\* A label is that of at most one library for the search.
LEMMA OneRow ==
    ASSUME NEW r, WellFormed(r), NEW d, NEW t \in RowOf(r, d), NEW u \in RowOf(r, d)
    PROVE  t = u
<1>1. r.pos[t] \in Nat /\ r.pos[u] \in Nat
  BY DEF WellFormed, RowOf, Last, Libraries
<1>. QED
  BY <1>1 DEF RowOf, Last, Before

-----------------------------------------------------------------------------
(* The search *)

\* The edges kept so far, and all of those there are.
KeptEdges == [n \in Libraries(rs) |-> UNION {RowOf(rs, d) : d \in kept[n]}]
DepRows(r, n) == UNION {RowOf(r, d) : d \in DepsOf(r, n)}

Black == {n \in Libraries(rs) : colour[n] = "black"}

\* The deps the search works with are the rows'.
SearchesDeps ==
    /\ todo \in [Libraries(rs) -> SUBSET UNION {DepsOf(rs, n) : n \in Libraries(rs)}]
    /\ kept \in [Libraries(rs) -> SUBSET UNION {DepsOf(rs, n) : n \in Libraries(rs)}]
    /\ \A n \in Libraries(rs) : todo[n] \cup kept[n] \subseteq DepsOf(rs, n)

\* The stack is a path of deps, and what is on it is gray.
OnAPath ==
    /\ stack \in Seq(Libraries(rs))
    /\ colour \in [Libraries(rs) -> {"white", "gray", "black"}]
    /\ \A i, j \in 1..Len(stack) : stack[i] = stack[j] => i = j
    /\ \A n \in Libraries(rs) : colour[n] = "gray" <=> \E i \in 1..Len(stack) : stack[i] = n
    /\ \A i \in 1..Len(stack) : i + 1 \in 1..Len(stack) => stack[i + 1] \in DepRows(rs, stack[i])

\* Kept edges lead to what is finished, or one step along the path.
LeadsOn ==
    /\ \A n \in Libraries(rs) : colour[n] = "white" => kept[n] = {}
    /\ \A n \in Black : KeptEdges[n] \subseteq Black
    /\ \A i \in 1..Len(stack) : \A u \in KeptEdges[stack[i]] :
         u \in Black \/ (i + 1 \in 1..Len(stack) /\ u = stack[i + 1])

\* What is warned of is a cycle of deps.
Warned ==
    \A w \in warnings :
       /\ Len(w) > 1 /\ w[1] = w[Len(w)]
       /\ \A i \in 1..(Len(w) - 1) : w[i + 1] \in DepRows(rs, w[i])

Searching ==
    step = "breaking" => SearchesDeps /\ OnAPath /\ LeadsOn /\ Acyclic(KeptEdges)

\* The search starts with nothing kept and an empty path.
LEMMA SearchStart ==
    ASSUME NEW p \in Prefixes, Harvest(p)
    PROVE  WellFormed(rs)' /\ Searching' /\ Warned'
<1>. DEFINE r == DedupBundleRows(p)
<1>1. /\ step' = "breaking" /\ rs' = r
      /\ todo' = [n \in Libraries(r) |-> DepsOf(r, n)]
      /\ kept' = [n \in Libraries(r) |-> {}]
      /\ colour' = [n \in Libraries(r) |-> "white"]
      /\ stack' = <<>> /\ warnings' = {}
  BY DEF Harvest
<1>2. WellFormed(r)
  <2>1. WellFormed(p)
    BY PrefixesAssumption DEF WellFormed
  <2>. QED
    BY <2>1, DedupKeeps
<1>. HIDE DEF r
<1>3. SearchesDeps'
  BY <1>1 DEF SearchesDeps
<1>4. OnAPath'
  BY <1>1 DEF OnAPath
<1>5. KeptEdges' = [n \in Libraries(r) |-> {}]
  BY <1>1 DEF KeptEdges
<1>6. LeadsOn'
  BY <1>1, <1>5 DEF LeadsOn, Black
<1>7. Acyclic(KeptEdges')
  BY <1>5 DEF Acyclic
<1>8. Warned'
  BY <1>1 DEF Warned
<1>. QED
  BY <1>1, <1>2, <1>3, <1>4, <1>6, <1>7, <1>8 DEF Searching

\* A library goes on top of the stack.
LEMMA Pushed ==
    ASSUME OnAPath, NEW n \in Libraries(rs), colour[n] = "white", Visit(n), rs' = rs,
           stack = <<>> \/ n \in DepRows(rs, Top)
    PROVE  OnAPath'
<1>1. /\ colour' = [colour EXCEPT ![n] = "gray"] /\ stack' = Append(stack, n)
      /\ stack \in Seq(Libraries(rs)) /\ colour \in [Libraries(rs) -> {"white", "gray", "black"}]
  BY DEF Visit, OnAPath
<1>2. /\ Len(stack') = Len(stack) + 1 /\ stack'[Len(stack) + 1] = n /\ Len(stack) \in Nat
      /\ \A i \in 1..Len(stack) : stack'[i] = stack[i] /\ stack[i] \in Libraries(rs)
      /\ stack' \in Seq(Libraries(rs))
  BY <1>1
<1>3. \A i \in 1..Len(stack) : stack[i] # n
  BY <1>2 DEF OnAPath
<1>4. \A i, j \in 1..Len(stack') : stack'[i] = stack'[j] => i = j
  BY <1>2, <1>3 DEF OnAPath
<1>5. \A m \in Libraries(rs) : colour'[m] = "gray" <=> \E i \in 1..Len(stack') : stack'[i] = m
  <2>. TAKE m \in Libraries(rs)
  <2>1. CASE m = n
    BY <2>1, <1>1, <1>2
  <2>2. CASE m # n
    <3>1. colour'[m] = colour[m]
      BY <2>2, <1>1
    <3>2. (\E i \in 1..Len(stack') : stack'[i] = m) <=> (\E i \in 1..Len(stack) : stack[i] = m)
      BY <2>2, <1>2
    <3>. QED
      BY <3>1, <3>2 DEF OnAPath
  <2>. QED
    BY <2>1, <2>2
<1>6. \A i \in 1..Len(stack') : i + 1 \in 1..Len(stack') => stack'[i + 1] \in DepRows(rs, stack'[i])
  <2>. SUFFICES ASSUME NEW i \in 1..Len(stack'), i + 1 \in 1..Len(stack')
                PROVE  stack'[i + 1] \in DepRows(rs, stack'[i])
    OBVIOUS
  <2>1. CASE i + 1 \in 1..Len(stack)
    BY <2>1, <1>2 DEF OnAPath
  <2>2. CASE i = Len(stack)
    <3>1. stack # <<>>
      BY <2>2
    <3>. QED
      BY <2>2, <3>1, <1>2 DEF Top
  <2>. QED
    BY <2>1, <2>2, <1>2
<1>9. colour' \in [Libraries(rs) -> {"white", "gray", "black"}]
  BY <1>1
<1>. QED
  BY <1>2, <1>4, <1>5, <1>6, <1>9 DEF OnAPath

\* The library on top of the stack is one of the rows, and gray.
LEMMA TopIsGray ==
    ASSUME OnAPath, stack # <<>>
    PROVE  /\ Len(stack) \in 1..Len(stack) /\ Len(stack) \in Nat
           /\ Top \in Libraries(rs) /\ colour[Top] = "gray"
  BY DEF OnAPath, Top

\* It may start again from any library it has not seen.
LEMMA RootStep ==
    ASSUME step = "breaking", WellFormed(rs), Searching, NEW n \in DOMAIN colour, VisitRoot(n)
    PROVE  Searching'
<1>1. /\ SearchesDeps /\ OnAPath /\ LeadsOn /\ Acyclic(KeptEdges)
      /\ stack = <<>> /\ colour[n] = "white" /\ Visit(n)
      /\ rs' = rs /\ todo' = todo /\ kept' = kept
      /\ colour' = [colour EXCEPT ![n] = "gray"] /\ stack' = <<n>>
  BY DEF Searching, VisitRoot, Visit
<1>2. n \in Libraries(rs) /\ colour \in [Libraries(rs) -> {"white", "gray", "black"}]
  BY <1>1 DEF OnAPath
<1>3. SearchesDeps'
  BY <1>1 DEF SearchesDeps
<1>4. OnAPath'
  BY <1>1, <1>2, Pushed
<1>5. KeptEdges' = KeptEdges
  BY <1>1 DEF KeptEdges
<1>6. Black' = Black
  BY <1>1, <1>2 DEF Black
<1>7. KeptEdges[n] = {}
  BY <1>1, <1>2 DEF LeadsOn, KeptEdges
<1>8. LeadsOn'
  BY <1>1, <1>2, <1>5, <1>6, <1>7 DEF LeadsOn
<1>. QED
  BY <1>1, <1>3, <1>4, <1>5, <1>8 DEF Searching

\* A dropped edge leads back into the path, and the warning names that path.
LEMMA DropStep ==
    ASSUME step = "breaking", WellFormed(rs), Searching, Warned,
           NEW d \in todo[Top], DropDep(d)
    PROVE  Searching' /\ Warned'
<1>1. /\ SearchesDeps /\ OnAPath /\ LeadsOn /\ Acyclic(KeptEdges) /\ stack # <<>>
      /\ rs' = rs /\ todo' = [todo EXCEPT ![Top] = @ \ {d}]
      /\ kept' = kept /\ colour' = colour /\ stack' = stack
  BY DEF Searching, DropDep, Looking
<1>2. Top \in Libraries(rs) /\ Len(stack) \in 1..Len(stack)
  BY <1>1, TopIsGray
<1>3. SearchesDeps'
  BY <1>1, <1>2 DEF SearchesDeps
<1>4. KeptEdges' = KeptEdges /\ Black' = Black
  BY <1>1 DEF KeptEdges, Black
<1>5. OnAPath' /\ LeadsOn'
  BY <1>1, <1>4 DEF OnAPath, LeadsOn
<1>6. Searching'
  BY <1>1, <1>3, <1>4, <1>5 DEF Searching
<1>7. PICK t \in RowOf(rs, d) : colour[t] = "gray" /\ warnings' = warnings \cup {CycleTo(t)}
  BY DEF DropDep
<1>8. t \in DepRows(rs, Top)
  BY <1>1, <1>2, <1>7 DEF DepRows, SearchesDeps
<1>9. t \in Libraries(rs)
  BY <1>7 DEF RowOf, Last
<1>. DEFINE i == CHOOSE k \in 1..Len(stack) : stack[k] = t
            w == CycleTo(t)
<1>10. i \in 1..Len(stack) /\ stack[i] = t
  BY <1>1, <1>7, <1>9 DEF OnAPath
<1>11. /\ stack \in Seq(Libraries(rs)) /\ Len(stack) \in Nat
       /\ w = Append(SubSeq(stack, i, Len(stack)), t)
  BY <1>1 DEF OnAPath, CycleTo
<1>. HIDE DEF i, w
<1>. DEFINE k == Len(stack) - i + 1
<1>12. k \in Nat /\ k > 0 /\ i + k - 1 = Len(stack)
  BY <1>10, <1>11
<1>13. /\ Len(w) = k + 1 /\ w[k + 1] = t
       /\ \A j \in 1..k : w[j] = stack[i + j - 1]
  BY <1>10, <1>11
<1>14. w[1] = t
  BY <1>10, <1>12, <1>13
<1>15. ASSUME NEW j \in 1..k PROVE w[j + 1] \in DepRows(rs, w[j])
  <2>1. CASE j = k
    BY <2>1, <1>8, <1>12, <1>13 DEF Top
  <2>2. CASE j # k
    <3>1. j + 1 \in 1..k /\ i + j - 1 \in 1..Len(stack) /\ (i + j - 1) + 1 \in 1..Len(stack)
      BY <2>2, <1>10, <1>11, <1>12
    <3>2. w[j] = stack[i + j - 1] /\ w[j + 1] = stack[(i + j - 1) + 1]
      BY <3>1, <1>10, <1>11, <1>13
    <3>. QED
      BY <3>1, <3>2, <1>1 DEF OnAPath
  <2>. QED
    BY <2>1, <2>2
<1>16. Warned'
  <2>. HIDE DEF k
  <2>1. /\ Len(w) > 1 /\ w[1] = w[Len(w)]
        /\ \A j \in 1..(Len(w) - 1) : w[j + 1] \in DepRows(rs, w[j])
    BY <1>12, <1>13, <1>14, <1>15
  <2>. QED
    BY <2>1, <1>1, <1>7 DEF Warned, w
<1>. QED
  BY <1>6, <1>16

\* A library that is left has no kept edge into the path: every set of left ones has a sink.
LEMMA LeaveStep ==
    ASSUME step = "breaking", WellFormed(rs), Searching, Leave
    PROVE  Searching'
<1>. DEFINE L == Len(stack)
<1>1. /\ SearchesDeps /\ OnAPath /\ LeadsOn /\ Acyclic(KeptEdges) /\ stack # <<>>
      /\ rs' = rs /\ todo' = todo /\ kept' = kept
      /\ colour' = [colour EXCEPT ![Top] = "black"] /\ stack' = SubSeq(stack, 1, L - 1)
  BY DEF Searching, Leave
<1>2. Top \in Libraries(rs) /\ L \in 1..L /\ L \in Nat /\ Top = stack[L]
  BY <1>1, TopIsGray DEF Top
<1>3. /\ stack \in Seq(Libraries(rs)) /\ colour \in [Libraries(rs) -> {"white", "gray", "black"}]
      /\ \A i, j \in 1..L : stack[i] = stack[j] => i = j
  BY <1>1 DEF OnAPath
<1>4. /\ stack' \in Seq(Libraries(rs)) /\ Len(stack') = L - 1
      /\ \A i \in 1..(L - 1) : stack'[i] = stack[i]
  <2>1. \A i \in 1..(L - 1) : stack[i] \in Libraries(rs)
    BY <1>2, <1>3
  <2>2. /\ SubSeq(stack, 1, L - 1) \in Seq(Libraries(rs))
        /\ Len(SubSeq(stack, 1, L - 1)) = IF 1 <= L - 1 THEN (L - 1) - 1 + 1 ELSE 0
        /\ \A i \in 1..((L - 1) - 1 + 1) : SubSeq(stack, 1, L - 1)[i] = stack[1 + i - 1]
    BY ONLY <2>1, <1>2, SubSeqProperties
  <2>3. (L - 1) - 1 + 1 = L - 1 /\ \A i \in 1..(L - 1) : 1 + i - 1 = i
    BY <1>2
  <2>4. Len(SubSeq(stack, 1, L - 1)) = L - 1
    <3>1. L \in Nat /\ L >= 1
      BY <1>2
    <3>. DEFINE len == Len(SubSeq(stack, 1, L - 1))
    <3>2. len = IF 1 <= L - 1 THEN (L - 1) - 1 + 1 ELSE 0
      BY <2>2
    <3>. HIDE DEF L, len
    <3>3. len = L - 1
      BY <3>1, <3>2
    <3>. QED
      BY <3>3 DEF len
  <2>. QED
    BY <2>2, <2>3, <2>4, <1>1
<1>5. SearchesDeps'
  BY <1>1 DEF SearchesDeps
<1>6. KeptEdges' = KeptEdges
  BY <1>1 DEF KeptEdges
<1>7. Black' = Black \cup {Top}
  BY <1>1, <1>2, <1>3 DEF Black
<1>8. \A m \in Libraries(rs) : colour'[m] = "gray" <=> \E i \in 1..Len(stack') : stack'[i] = m
  <2>. TAKE m \in Libraries(rs)
  <2>1. CASE m = Top
    BY <2>1, <1>1, <1>2, <1>3, <1>4
  <2>2. CASE m # Top
    <3>1. colour'[m] = colour[m]
      BY <2>2, <1>1
    <3>2. (\E i \in 1..Len(stack') : stack'[i] = m) <=> (\E i \in 1..L : stack[i] = m)
      BY <2>2, <1>2, <1>4
    <3>. QED
      BY <3>1, <3>2, <1>1 DEF OnAPath
  <2>. QED
    BY <2>1, <2>2
<1>9. OnAPath'
  <2>1. colour' \in [Libraries(rs) -> {"white", "gray", "black"}]
    BY <1>1, <1>3
  <2>2. \A i \in 1..Len(stack') : i + 1 \in 1..Len(stack') => stack'[i + 1] \in DepRows(rs, stack'[i])
    BY <1>1, <1>2, <1>4 DEF OnAPath
  <2>3. \A i, j \in 1..Len(stack') : stack'[i] = stack'[j] => i = j
    BY <1>2, <1>3, <1>4
  <2>. QED
    BY <2>1, <2>2, <2>3, <1>1, <1>4, <1>8 DEF OnAPath
<1>10. LeadsOn'
  <2>1. \A n \in Libraries(rs) : colour'[n] = "white" => kept[n] = {}
    BY <1>1, <1>2, <1>3 DEF LeadsOn
  <2>2. KeptEdges[Top] \subseteq Black
    BY <1>1, <1>2 DEF LeadsOn
  <2>3. \A n \in Black' : KeptEdges[n] \subseteq Black'
    BY <1>1, <1>7, <2>2 DEF LeadsOn
  <2>4. \A i \in 1..Len(stack') : \A u \in KeptEdges[stack'[i]] :
          u \in Black' \/ (i + 1 \in 1..Len(stack') /\ u = stack'[i + 1])
    BY <1>1, <1>2, <1>4, <1>7 DEF LeadsOn
  <2>. QED
    BY <2>1, <2>3, <2>4, <1>1, <1>6 DEF LeadsOn
<1>. QED
  BY <1>1, <1>5, <1>6, <1>9, <1>10 DEF Searching

\* A kept edge leads to a library that has been left or is visited next.
LEMMA KeepStep ==
    ASSUME step = "breaking", WellFormed(rs), Searching, NEW d \in todo[Top], KeepDep(d)
    PROVE  Searching'
<1>. DEFINE L == Len(stack)
            T == RowOf(rs, d)
<1>1. /\ SearchesDeps /\ OnAPath /\ LeadsOn /\ Acyclic(KeptEdges) /\ stack # <<>>
      /\ rs' = rs /\ todo' = [todo EXCEPT ![Top] = @ \ {d}]
      /\ kept' = [kept EXCEPT ![Top] = @ \cup {d}]
      /\ \A t \in T : colour[t] # "gray"
      /\ IF \E t \in T : colour[t] = "white"
         THEN \E t \in T : Visit(t) ELSE colour' = colour /\ stack' = stack
  BY DEF Searching, KeepDep, Looking
<1>2. Top \in Libraries(rs) /\ L \in 1..L /\ L \in Nat /\ Top = stack[L] /\ colour[Top] = "gray"
  BY <1>1, TopIsGray DEF Top
<1>3. /\ T \subseteq Libraries(rs) /\ T \subseteq DepRows(rs, Top)
      /\ \A t, u \in T : t = u
  <2>1. T \subseteq DepRows(rs, Top)
    BY <1>1, <1>2 DEF SearchesDeps, DepRows
  <2>. QED
    BY <2>1, OneRow DEF RowOf, Last
<1>4. SearchesDeps'
  <2>1. d \in DepsOf(rs, Top)
    BY <1>1, <1>2 DEF SearchesDeps
  <2>. QED
    BY <2>1, <1>1, <1>2 DEF SearchesDeps
<1>5. KeptEdges' = [KeptEdges EXCEPT ![Top] = @ \cup T]
  <2>1. \A n \in Libraries(rs) : n # Top => kept'[n] = kept[n]
    BY <1>1 DEF SearchesDeps
  <2>2. kept'[Top] = kept[Top] \cup {d}
    BY <1>1, <1>2 DEF SearchesDeps
  <2>3. UNION {RowOf(rs, e) : e \in kept'[Top]} = (UNION {RowOf(rs, e) : e \in kept[Top]}) \cup T
    BY <2>2
  <2>4. \A n \in Libraries(rs) :
          UNION {RowOf(rs, e) : e \in kept'[n]}
          = IF n = Top THEN KeptEdges[Top] \cup T ELSE KeptEdges[n]
    BY <2>1, <2>3, <1>2 DEF KeptEdges
  <2>5. KeptEdges' = [n \in Libraries(rs) |-> UNION {RowOf(rs, e) : e \in kept'[n]}]
    BY <1>1 DEF KeptEdges
  <2>6. DOMAIN KeptEdges = Libraries(rs)
    BY DEF KeptEdges
  <2>. HIDE DEF T
  <2>. QED
    BY <2>4, <2>5, <2>6, <1>2
<1>6. KeptEdges \in [Libraries(rs) -> SUBSET Libraries(rs)]
  BY DEF KeptEdges, RowOf, Last
<1>7. \A u \in T : u \in Black \/ (colour[u] = "white" /\ KeptEdges[u] = {})
  <2>1. \A u \in T : colour[u] = "white" => KeptEdges[u] = {}
    BY <1>1, <1>3 DEF LeadsOn, KeptEdges
  <2>. QED
    BY <2>1, <1>1, <1>3 DEF OnAPath, Black
<1>8. \A u \in T : ~Reaches(KeptEdges, u, Top)
  <2>. TAKE u \in T
  <2>1. CASE u \in Black
    <3>1. Black \in SUBSET DOMAIN KeptEdges /\ Top \notin Black
      BY <1>2, <1>6 DEF Black
    <3>2. \A n \in Black : KeptEdges[n] \subseteq Black
      BY <1>1 DEF LeadsOn
    <3>. QED
      BY <2>1, <3>1, <3>2 DEF Reaches
  <2>2. CASE colour[u] = "white" /\ KeptEdges[u] = {}
    <3>1. {u} \in SUBSET DOMAIN KeptEdges /\ Top \notin {u}
      BY <2>2, <1>2, <1>3, <1>6
    <3>. QED
      BY <2>2, <3>1 DEF Reaches
  <2>. QED
    BY <2>1, <2>2, <1>7
<1>9. Acyclic(KeptEdges')
  <2>1. Acyclic([KeptEdges EXCEPT ![Top] = @ \cup T])
    BY <1>1, <1>2, <1>6, <1>8, EdgesUpdated
  <2>. QED
    BY <2>1, <1>5
<1>10. /\ \A n \in Libraries(rs) : n # Top => KeptEdges'[n] = KeptEdges[n] /\ kept'[n] = kept[n]
       /\ KeptEdges'[Top] = KeptEdges[Top] \cup T
  BY <1>1, <1>2, <1>5, <1>6 DEF SearchesDeps
<1>11. CASE \E t \in T : colour[t] = "white"
  <2>1. PICK t \in T : Visit(t)
    BY <1>1, <1>11
  <2>2. T = {t} /\ colour[t] = "white"
    BY <1>3, <1>11
  <2>3. OnAPath'
    BY <2>1, <2>2, <1>1, <1>3, Pushed
  <2>4. colour' = [colour EXCEPT ![t] = "gray"] /\ stack' = Append(stack, t)
    BY <2>1 DEF Visit
  <2>5. /\ Len(stack') = L + 1 /\ stack'[L + 1] = t
        /\ \A i \in 1..L : stack'[i] = stack[i] /\ stack[i] \in Libraries(rs)
    BY <2>4, <1>1 DEF OnAPath
  <2>6. Black' = Black
    BY <2>2, <2>4, <1>1 DEF Black, OnAPath
  <2>7. LeadsOn'
    <3>1. \A n \in Libraries(rs) : colour'[n] = "white" => kept'[n] = {}
      BY <2>4, <1>1, <1>2, <1>10 DEF LeadsOn, OnAPath
    <3>2. \A n \in Black' : KeptEdges'[n] \subseteq Black'
      BY <2>6, <1>1, <1>2, <1>10 DEF LeadsOn, Black
    <3>3. ASSUME NEW i \in 1..Len(stack'), NEW u \in KeptEdges'[stack'[i]]
          PROVE  u \in Black' \/ (i + 1 \in 1..Len(stack') /\ u = stack'[i + 1])
      <4>1. CASE i = L + 1
        <5>1. KeptEdges'[t] = {}
          BY <2>2, <1>2, <1>3, <1>7, <1>10 DEF Black
        <5>. QED
          BY <4>1, <5>1, <2>5, <3>3
      <4>2. CASE i = L
        <5>1. u \in KeptEdges[Top] \cup {t}
          BY <4>2, <2>2, <2>5, <1>2, <1>10, <3>3
        <5>2. CASE u \in KeptEdges[Top]
          BY <5>2, <4>2, <2>6, <1>1, <1>2 DEF LeadsOn
        <5>. QED
          BY <5>1, <5>2, <4>2, <2>5, <1>2
      <4>3. CASE i \in 1..L /\ i # L
        <5>1. stack'[i] = stack[i] /\ stack[i] # Top /\ stack[i] \in Libraries(rs)
          BY <4>3, <2>5, <1>1, <1>2 DEF OnAPath
        <5>2. u \in KeptEdges[stack[i]]
          BY <5>1, <1>10, <3>3
        <5>3. u \in Black \/ (i + 1 \in 1..L /\ u = stack[i + 1])
          BY <5>2, <4>3, <1>1 DEF LeadsOn
        <5>. QED
          BY <5>3, <2>5, <2>6, <1>2
      <4>. QED
        BY <4>1, <4>2, <4>3, <2>5, <1>2
    <3>. QED
      BY <3>1, <3>2, <3>3, <1>1 DEF LeadsOn
  <2>. QED
    BY <2>3, <2>7, <1>4, <1>9 DEF Searching
<1>12. CASE ~\E t \in T : colour[t] = "white"
  <2>1. colour' = colour /\ stack' = stack /\ T \subseteq Black
    BY <1>1, <1>7, <1>12
  <2>2. OnAPath'
    BY <2>1, <1>1 DEF OnAPath
  <2>3. Black' = Black
    BY <2>1, <1>1 DEF Black
  <2>4. LeadsOn'
    <3>1. \A n \in Libraries(rs) : colour'[n] = "white" => kept'[n] = {}
      BY <2>1, <1>1, <1>2, <1>10 DEF LeadsOn
    <3>2. \A n \in Black' : KeptEdges'[n] \subseteq Black'
      BY <2>3, <1>1, <1>2, <1>10 DEF LeadsOn, Black
    <3>3. ASSUME NEW i \in 1..Len(stack), NEW u \in KeptEdges'[stack[i]]
          PROVE  u \in Black \/ (i + 1 \in 1..Len(stack) /\ u = stack[i + 1])
      <4>1. stack[i] \in Libraries(rs)
        BY <1>1 DEF OnAPath
      <4>2. u \in KeptEdges[stack[i]] \cup T
        BY <4>1, <1>10, <3>3
      <4>. QED
        BY <4>2, <2>1, <1>1 DEF LeadsOn
    <3>. QED
      BY <3>1, <3>2, <3>3, <2>1, <2>3, <1>1 DEF LeadsOn
  <2>. QED
    BY <2>2, <2>4, <1>4, <1>9 DEF Searching
<1>. QED
  BY <1>11, <1>12

-----------------------------------------------------------------------------
(* The harvested manifest *)

\* What the harvest hands over: its manifest, whose kept deps have no cycle.
Accepted ==
    step = "harvested" =>
      /\ manifest = HarvestedManifest
      /\ kept \in [Libraries(rs) -> SUBSET UNION {DepsOf(rs, n) : n \in Libraries(rs)}]
      /\ \A n \in Libraries(rs) : kept[n] \subseteq DepsOf(rs, n)
      /\ Acyclic(KeptEdges)

\* A label some export carries has an owner, whose label it is.
LEMMA Owned ==
    ASSUME NEW m, DOMAIN m \subseteq Targets, NEW t \in DOMAIN m
    PROVE  \E o \in DOMAIN m : m[o].label = m[t].label /\ Remap(m, m[t].label) = Label(o)
<1>. DEFINE S == {u \in DOMAIN m : m[u].label = m[t].label}
            o == CHOOSE u \in Owner(m, m[t].label) : TRUE
<1>1. S \in (SUBSET Targets) \ {{}}
  OBVIOUS
<1>2. LastBy(NameRank, S) # {}
  BY ONLY <1>1, RanksAssumption
<1>3. Owner(m, m[t].label) = LastBy(NameRank, S)
  BY DEF Owner
<1>4. o \in Owner(m, m[t].label)
  BY <1>2, <1>3
<1>5. o \in S
  BY <1>3, <1>4 DEF LastBy
<1>6. Remap(m, m[t].label) = Label(o)
  BY <1>2, <1>3 DEF Remap
<1>. QED
  BY <1>5, <1>6

\* A dep of the harvest's is the label of an export, or another element's.
LEMMA DepIsLabel ==
    ASSUME NEW n, NEW d \in DepsOf(rs, n), WellFormed(rs)
    PROVE  \/ \E t \in DOMAIN rs.row : HarvestedManifest[t].label = d
           \/ \A t \in Targets : d # Label(t)
<1>1. CASE \E ref \in DOMAIN rs.row : d = Label(Named(rs, ref))
  <2>1. PICK ref \in DOMAIN rs.row : d = Label(Named(rs, ref))
    BY <1>1
  <2>. DEFINE t == IF ref \in DOMAIN rs.folded THEN rs.folded[ref] ELSE ref
  <2>2. t \in DOMAIN rs.row
    BY <2>1 DEF WellFormed
  <2>3. d = Label(IF rs.row[t].alias # None THEN rs.row[t].alias ELSE t)
    BY <2>1 DEF Named
  <2>. HIDE DEF t
  <2>4. HarvestedManifest[t].label = d
    BY <2>2, <2>3 DEF HarvestedManifest
  <2>. QED
    BY <2>2, <2>4
<1>2. CASE \E ref \in DOMAIN Registry : d = Registry[ref]
  BY <1>2, RegistryAssumption
<1>. QED
  BY <1>1, <1>2 DEF DepsOf

\* An edge of the generator's is one that the search kept, or leads to an alias,
\* which has none.
LEMMA DeclaredIsKept ==
    ASSUME WellFormed(rs), Accepted, step = "harvested", ~Colliding(manifest),
           NEW n \in Libraries(rs), NEW u \in Libraries(rs), u \in DeclaredEdges(manifest)[n]
    PROVE  u \in KeptEdges[n]
<1>. DEFINE m == manifest
<1>1. /\ m = HarvestedManifest /\ DOMAIN m = DOMAIN rs.row /\ DOMAIN m \subseteq Targets
      /\ n \in DOMAIN m /\ u \in DOMAIN m /\ rs.row[n].alias = None /\ rs.row[u].alias = None
  BY DEF Accepted, HarvestedManifest, Libraries, WellFormed
<1>2. m[n].deps = kept[n] /\ m[u].label = Label(u)
  BY <1>1 DEF HarvestedManifest
<1>3. PICK d \in kept[n] : u \in Exported(m, Remap(m, d))
  BY <1>1, <1>2 DEF DeclaredEdges
<1>4. Remap(m, m[u].label) = Remap(m, d)
  BY <1>3 DEF Exported, LastBy
<1>5. PICK o \in DOMAIN m : m[o].label = m[u].label /\ Remap(m, m[u].label) = Label(o)
  BY <1>1, Owned
<1>6. \A a, b \in DOMAIN m : Label(a) = Label(b) => a = b
  BY DEF Colliding, Label
<1>7. d \in DepsOf(rs, n)
  BY <1>3 DEF Accepted
<1>8. d = Label(u)
  <2>1. CASE \E t \in DOMAIN m : m[t].label = d
    <3>1. PICK t \in DOMAIN m : m[t].label = d
      BY <2>1
    <3>2. PICK p \in DOMAIN m : m[p].label = d /\ Remap(m, d) = Label(p)
      BY <3>1, <1>1, Owned
    <3>. QED
      BY <3>2, <1>2, <1>4, <1>5, <1>6
  <2>2. CASE ~\E t \in DOMAIN m : m[t].label = d
    <3>1. Remap(m, d) = d
      BY <2>2 DEF Remap, Owner, LastBy
    <3>2. \A t \in Targets : d # Label(t)
      BY <2>2, <1>1, <1>7, DepIsLabel
    <3>. QED
      BY <3>1, <3>2, <1>1, <1>4, <1>5
  <2>. QED
    BY <2>1, <2>2
<1>9. u \in RowOf(rs, d)
  <2>1. \A v \in Libraries(rs) : Label(v) = d => v = u
    BY <1>1, <1>6, <1>8 DEF Libraries
  <2>. QED
    BY <2>1, <1>8 DEF RowOf, Last
<1>. QED
  BY <1>3, <1>9 DEF KeptEdges

\* Once every library has been left, the kept edges are acyclic.
LEMMA HarvestIsAcyclic ==
    ASSUME WellFormed(rs), Accepted, step = "harvested", ~Colliding(manifest)
    PROVE  Acyclic(DeclaredEdges(manifest))
<1>1. SUFFICES ASSUME NEW S \in (SUBSET DOMAIN manifest) \ {{}},
                      \A n \in S : DeclaredEdges(manifest)[n] \cap S # {}
               PROVE  FALSE
  BY DEF Acyclic, DeclaredEdges
<1>2. /\ manifest = HarvestedManifest /\ DOMAIN manifest = DOMAIN rs.row
      /\ Acyclic(KeptEdges) /\ DOMAIN KeptEdges = Libraries(rs)
  BY DEF Accepted, HarvestedManifest, KeptEdges
<1>3. ASSUME NEW n \in S PROVE n \in Libraries(rs)
  <2>1. SUFFICES ASSUME rs.row[n].alias # None PROVE FALSE
    BY <1>2 DEF Libraries
  <2>2. manifest[n].deps = {}
    BY <2>1, <1>2 DEF HarvestedManifest
  <2>3. DeclaredEdges(manifest)[n] = {}
    BY <2>2 DEF DeclaredEdges
  <2>. QED
    BY <2>3, <1>1
<1>4. PICK n \in S : KeptEdges[n] \cap S = {}
  BY <1>2, <1>3 DEF Acyclic
<1>5. PICK u \in S : u \in DeclaredEdges(manifest)[n]
  BY <1>1
<1>. QED
  BY <1>3, <1>4, <1>5, DeclaredIsKept

\* A written manifest holds the rows and the kept edges, under their labels.
LEMMA WriteManifestStep ==
    ASSUME Searching, WriteManifest PROVE Accepted'
<1>1. /\ manifest' = HarvestedManifest /\ rs' = rs /\ kept' = kept /\ step = "breaking"
      /\ step' = "harvested"
  BY DEF WriteManifest, harvestVars
<1>2. HarvestedManifest' = HarvestedManifest /\ KeptEdges' = KeptEdges
  BY <1>1 DEF HarvestedManifest, KeptEdges
<1>. QED
  BY <1>1, <1>2 DEF Searching, SearchesDeps, Accepted

-----------------------------------------------------------------------------
(* The invariant of both tools *)

\* Nothing was harvested where the generator works on a manifest by hand.
NotHarvested == step \in {"idle", "handmade", "cycle"} => ~Harvested

HarvestInv == WellFormed(rs) /\ Searching /\ Warned /\ NotHarvested
GenerateInv == ManifestInv /\ Accepted /\ Routing /\ Packaged
ExportsInv == HarvestInv /\ GenerateInv

\* What the harvest has found stays as it is while the generator works.
LEMMA HarvestStays ==
    ASSUME HarvestInv, UNCHANGED harvestVars, step' # "breaking",
           step' \in {"idle", "handmade", "cycle"} => ~Harvested
    PROVE  HarvestInv'
<1>1. rs' = rs /\ warnings' = warnings
  BY DEF harvestVars
<1>2. Searching'
  BY DEF Searching
<1>3. Warned'
  BY <1>1 DEF HarvestInv, Warned
<1>. QED
  BY <1>1, <1>2, <1>3 DEF HarvestInv, NotHarvested, Harvested

\* And the generator has nothing while the harvest works.
LEMMA GenerateWaits ==
    ASSUME step' \notin {"harvested", "routing", "generated"}, manifest' = manifest, ManifestInv
    PROVE  GenerateInv'
  BY DEF GenerateInv, ManifestInv, Accepted, Routing, Packaged

\* The invariant of both tools.
LEMMA InvHolds == ExportsSpec => []ExportsInv
<1>1. ExportsInit => ExportsInv
  <2>. SUFFICES ASSUME ExportsInit PROVE ExportsInv
    OBVIOUS
  <2>1. rs = [row |-> <<>>, pos |-> <<>>, folded |-> <<>>] /\ step = "idle" /\ manifest = <<>> /\ warnings = {}
    BY DEF ExportsInit
  <2>2. WellFormed(rs) /\ ~Harvested
    BY <2>1 DEF WellFormed, Harvested
  <2>. QED
    BY <2>1, <2>2 DEF ExportsInv, HarvestInv, GenerateInv, Searching, Warned, NotHarvested,
                      ManifestInv, Accepted, Routing, Packaged
<1>2. ExportsInv /\ [ExportsNext]_exportVars => ExportsInv'
  <2>. SUFFICES ASSUME ExportsInv, [ExportsNext]_exportVars PROVE ExportsInv'
    OBVIOUS
  <2>0. HarvestInv /\ GenerateInv /\ ManifestInv /\ WellFormed(rs) /\ Warned /\ NotHarvested
    BY DEF ExportsInv, HarvestInv, GenerateInv
  <2>1. ASSUME NEW p \in Prefixes, Harvest(p) PROVE ExportsInv'
    <3>1. step' = "breaking" /\ manifest' = manifest
      BY <2>1 DEF Harvest
    <3>. QED
      BY <2>0, <2>1, <3>1, SearchStart, GenerateWaits DEF ExportsInv, HarvestInv, NotHarvested
  <2>2. ASSUME step = "breaking" /\ step' = "breaking" /\ rs' = rs /\ manifest' = manifest
               /\ Searching' /\ Warned'
        PROVE  ExportsInv'
    BY <2>0, <2>2, GenerateWaits DEF ExportsInv, HarvestInv, NotHarvested
  <2>3. ASSUME warnings' = warnings, rs' = rs PROVE Warned'
    BY <2>0, <2>3 DEF Warned
  <2>4. ASSUME NEW n \in DOMAIN colour, VisitRoot(n) PROVE ExportsInv'
    <3>1. /\ step = "breaking" /\ step' = "breaking" /\ rs' = rs /\ manifest' = manifest
          /\ warnings' = warnings
      BY <2>4 DEF VisitRoot
    <3>2. Searching'
      BY <2>4, <3>1, <2>0, RootStep DEF HarvestInv
    <3>. QED
      BY <3>1, <3>2, <2>2, <2>3
  <2>5. ASSUME NEW d \in todo[Top], DropDep(d) PROVE ExportsInv'
    <3>1. step = "breaking" /\ step' = "breaking" /\ rs' = rs /\ manifest' = manifest
      BY <2>5 DEF DropDep, Looking
    <3>2. Searching' /\ Warned'
      BY <2>5, <3>1, <2>0, DropStep DEF HarvestInv
    <3>. QED
      BY <3>1, <3>2, <2>2
  <2>6. ASSUME NEW d \in todo[Top], KeepDep(d) PROVE ExportsInv'
    <3>1. /\ step = "breaking" /\ step' = "breaking" /\ rs' = rs /\ manifest' = manifest
          /\ warnings' = warnings
      BY <2>6 DEF KeepDep, Looking
    <3>2. Searching'
      BY <2>6, <3>1, <2>0, KeepStep DEF HarvestInv
    <3>. QED
      BY <3>1, <3>2, <2>2, <2>3
  <2>7. CASE Leave
    <3>1. /\ step = "breaking" /\ step' = "breaking" /\ rs' = rs /\ manifest' = manifest
          /\ warnings' = warnings
      BY <2>7 DEF Leave
    <3>2. Searching'
      BY <2>7, <3>1, <2>0, LeaveStep DEF HarvestInv
    <3>. QED
      BY <3>1, <3>2, <2>2, <2>3
  <2>8. CASE WriteManifest
    <3>1. UNCHANGED harvestVars /\ step' = "harvested" /\ manifest' = HarvestedManifest
      BY <2>8 DEF WriteManifest
    <3>2. HarvestInv'
      BY <3>1, <2>0, HarvestStays
    <3>3. Accepted'
      BY <2>8, <2>0, WriteManifestStep DEF HarvestInv
    <3>4. ManifestInv'
      BY <3>1, <2>0 DEF ManifestInv, HarvestedManifest, WellFormed
    <3>. QED
      BY <3>1, <3>2, <3>3, <3>4 DEF ExportsInv, GenerateInv, Routing, Packaged
  <2>9. ASSUME NEW m \in HandMade, Write(m) PROVE ExportsInv'
    <3>1. UNCHANGED harvestVars /\ step = "idle" /\ step' = "handmade" /\ manifest' = m
      BY <2>9 DEF Write
    <3>2. HarvestInv'
      BY <3>1, <2>0, HarvestStays DEF NotHarvested
    <3>3. ManifestInv'
      BY <3>1, HandMadeAssumption DEF ManifestInv
    <3>. QED
      BY <3>1, <3>2, <3>3 DEF ExportsInv, GenerateInv, Accepted, Routing, Packaged
  <2>10. CASE RefuseCollision
    <3>1. UNCHANGED harvestVars /\ step' = "collision" /\ manifest' = manifest
      BY <2>10 DEF RefuseCollision, Refuse
    <3>. QED
      BY <3>1, <2>0, HarvestStays, GenerateWaits DEF ExportsInv
  <2>11. CASE RefuseCycle
    <3>1. /\ UNCHANGED harvestVars /\ step' = "cycle" /\ manifest' = manifest
          /\ step \in {"harvested", "handmade"}
          /\ ~Colliding(manifest) /\ ~Acyclic(DeclaredEdges(manifest))
      BY <2>11 DEF RefuseCycle, Refuse
    <3>2. step # "harvested"
      BY <3>1, <2>0, HarvestIsAcyclic DEF GenerateInv
    <3>3. ~Harvested
      BY <3>1, <3>2, <2>0 DEF NotHarvested
    <3>. QED
      BY <3>1, <3>3, <2>0, HarvestStays, GenerateWaits DEF ExportsInv
  <2>12. CASE Route
    <3>1. UNCHANGED harvestVars /\ step' = "routing" /\ manifest' = manifest
      BY <2>12 DEF Route
    <3>2. Routing'
      BY <2>12, RoutingStart
    <3>. QED
      BY <3>1, <3>2, <2>0, HarvestStays DEF ExportsInv, GenerateInv, ManifestInv, Accepted, Packaged
  <2>13. ASSUME NEW e \in unrouted, BreakRoute(e[1], e[2]) PROVE ExportsInv'
    <3>1. UNCHANGED harvestVars /\ step = "routing" /\ step' = "routing" /\ manifest' = manifest
      BY <2>13 DEF BreakRoute
    <3>2. Routing'
      BY <2>13, <2>0, RoutingStep DEF GenerateInv
    <3>. QED
      BY <3>1, <3>2, <2>0, HarvestStays DEF ExportsInv, GenerateInv, ManifestInv, Accepted, Packaged
  <2>14. CASE Generate
    <3>1. /\ UNCHANGED harvestVars /\ step = "routing" /\ step' = "generated"
          /\ manifest' = manifest /\ adj' = adj /\ routes' = routes /\ unrouted' = unrouted
      BY <2>14 DEF Generate
    <3>2. Routing'
      BY <3>1, <2>0 DEF GenerateInv, Routing
    <3>3. Packaged'
      BY <2>14, PackagedStep
    <3>. QED
      BY <3>1, <3>2, <3>3, <2>0, HarvestStays DEF ExportsInv, GenerateInv, ManifestInv, Accepted
  <2>15. CASE UNCHANGED exportVars
    <3>1. /\ step' = step /\ rs' = rs /\ todo' = todo /\ kept' = kept /\ colour' = colour
          /\ stack' = stack /\ warnings' = warnings /\ manifest' = manifest
          /\ adj' = adj /\ unrouted' = unrouted /\ routes' = routes /\ package' = package
      BY <2>15 DEF exportVars, harvestVars, generateVars
    <3>2. KeptEdges' = KeptEdges /\ Black' = Black /\ HarvestedManifest' = HarvestedManifest
      BY <3>1 DEF KeptEdges, Black, HarvestedManifest
    <3>3. Searching'
      BY <3>1, <3>2, <2>0 DEF HarvestInv, Searching, SearchesDeps, OnAPath, LeadsOn
    <3>4. HarvestInv'
      BY <3>1, <3>3, <2>0 DEF HarvestInv, Warned, NotHarvested, Harvested
    <3>5. ManifestInv' /\ Routing' /\ Packaged'
      BY <3>1, <2>0 DEF GenerateInv, ManifestInv, Routing, Packaged
    <3>6. Accepted'
      BY <3>1, <3>2, <2>0 DEF GenerateInv, Accepted
    <3>. QED
      BY <3>4, <3>5, <3>6 DEF ExportsInv, GenerateInv
  <2>. QED
    BY <2>1, <2>4, <2>5, <2>6, <2>7, <2>8, <2>9, <2>10, <2>11, <2>12, <2>13, <2>14, <2>15
       DEF ExportsNext
<1>. QED
  BY <1>1, <1>2, PTL DEF ExportsSpec

\* For every prefix and manifest, shared labels included: Bazel finds no cycle in
\* a package imports-wrapper-gen writes but through a wrapper whose label another
\* export has (CyclesAreUnseen).
THEOREM CyclesUnseen == ExportsSpec => []CyclesAreUnseen
<1>1. ExportsInv => CyclesAreUnseen
  BY EdgesAreAccepted DEF ExportsInv, GenerateInv, CyclesAreUnseen
<1>. QED
  BY <1>1, InvHolds, PTL

\* imports-wrapper-gen never refuses for a cycle what imports-harvest wrote, and
\* what the harvest warns of are cycles (HarvestIsAccepted).
THEOREM HarvestsAccepted == ExportsSpec => []HarvestIsAccepted
<1>1. ExportsInv => HarvestIsAccepted
  BY DEF ExportsInv, HarvestInv, NotHarvested, Warned, DepRows, HarvestIsAccepted
<1>. QED
  BY <1>1, InvHolds, PTL

\* What the generator works on after a harvest: its manifest, in which no two
\* wrappers have one name.
GeneratesHarvest ==
    /\ step \in {"harvested", "routing", "generated"} /\ Harvested => manifest = HarvestedManifest
    /\ step \in {"routing", "generated"} => ~Colliding(manifest)

\* From the harvest to the generated packages the manifest stays what was harvested.
LEMMA GeneratesHarvestStep ==
    ASSUME ExportsInv, GeneratesHarvest, [ExportsNext]_exportVars
    PROVE  GeneratesHarvest'
<1>1. ASSUME step' \in {"idle", "handmade", "breaking", "collision", "cycle"} PROVE GeneratesHarvest'
  BY <1>1 DEF GeneratesHarvest
<1>2. ASSUME UNCHANGED <<rs, kept>> PROVE HarvestedManifest' = HarvestedManifest /\ Harvested' = Harvested
  BY <1>2 DEF HarvestedManifest, Harvested
<1>3. Colliding(manifest)' = Colliding(manifest')
  BY DEF Colliding
<1>4. CASE WriteManifest
  <2>1. step' = "harvested" /\ manifest' = HarvestedManifest /\ rs' = rs /\ kept' = kept
    BY <1>4 DEF WriteManifest, harvestVars
  <2>. QED
    BY <2>1, <1>2 DEF GeneratesHarvest
<1>5. CASE Route
  <2>1. /\ rs' = rs /\ kept' = kept /\ manifest' = manifest /\ ~Colliding(manifest)
        /\ step = "harvested" \/ (step = "handmade" /\ ~Harvested)
    BY <1>5 DEF Route, harvestVars, ExportsInv, HarvestInv, NotHarvested
  <2>. QED
    BY <2>1, <1>2, <1>3 DEF GeneratesHarvest
<1>6. ASSUME step = "routing", UNCHANGED <<harvestVars, manifest>> PROVE GeneratesHarvest'
  <2>1. rs' = rs /\ kept' = kept /\ manifest' = manifest /\ ~Colliding(manifest)
    BY <1>6 DEF GeneratesHarvest, harvestVars
  <2>. QED
    BY <1>6, <2>1, <1>2, <1>3 DEF GeneratesHarvest
<1>7. CASE UNCHANGED exportVars
  <2>1. rs' = rs /\ kept' = kept /\ manifest' = manifest /\ step' = step
    BY <1>7 DEF exportVars, harvestVars
  <2>. QED
    BY <2>1, <1>2, <1>3 DEF GeneratesHarvest
<1>8. CASE ExportsNext /\ ~WriteManifest /\ ~Route /\ step # "routing"
  <2>1. step' \in {"idle", "handmade", "breaking", "collision", "cycle"}
    BY <1>8 DEF ExportsNext, Harvest, VisitRoot, DropDep, KeepDep, Looking, Leave, Write,
                RefuseCollision, RefuseCycle, Refuse, BreakRoute, Generate
  <2>. QED
    BY <2>1, <1>1
<1>9. CASE ExportsNext /\ ~Route /\ step = "routing"
  <2>1. UNCHANGED <<harvestVars, manifest>>
    BY <1>9 DEF ExportsNext, Harvest, VisitRoot, DropDep, KeepDep, Looking, Leave, Write,
                WriteManifest, RefuseCollision, RefuseCycle, BreakRoute, Generate
  <2>. QED
    BY <2>1, <1>6, <1>9
<1>. QED
  BY <1>4, <1>5, <1>7, <1>8, <1>9

\* An export's label is that of the row it stands for.  Rows of one label are
\* one row: no two wrappers have one name.
LEMMA StandsFor ==
    ASSUME ~Colliding(manifest), manifest = HarvestedManifest, DOMAIN rs.row \subseteq Targets,
           \A t \in DOMAIN rs.row : rs.row[t].alias # None => rs.row[t].alias \in DOMAIN rs.row \ {t},
           NEW t \in DOMAIN rs.row, NEW u \in DOMAIN rs.row
    PROVE  /\ manifest[t].label = Label(IF rs.row[t].alias # None THEN rs.row[t].alias ELSE t)
           /\ Label(t) = Label(u) => t = u
           /\ manifest[t].label = Label(u) <=>
                IF rs.row[t].alias # None THEN rs.row[t].alias = u ELSE t = u
<1>1. DOMAIN manifest = DOMAIN rs.row
  BY DEF HarvestedManifest
<1>2. manifest[t].label = Label(IF rs.row[t].alias # None THEN rs.row[t].alias ELSE t)
  BY DEF HarvestedManifest
<1>3. \A a, b \in DOMAIN rs.row : Label(a) = Label(b) => a = b
  BY <1>1 DEF Colliding, Label
<1>. QED
  BY <1>2, <1>3

\* LabelsSurvive for every prefix, and every order of its targets.
THEOREM LabelsHold == ExportsSpec => []LabelsSurvive
<1>1. ExportsInit => GeneratesHarvest
  BY DEF ExportsInit, GeneratesHarvest
<1>2. ExportsInv /\ GeneratesHarvest => LabelsSurvive
  <2>. DEFINE aliases == {t \in DOMAIN rs.row : rs.row[t].alias # None}
              m == manifest
              Survives(t) == Remap(m, m[t].label) = m[t].label
              InOrder(t) == NameRank[t] < NameRank[rs.row[t].alias] /\ rs.row[t].alias \notin aliases
  <2>. SUFFICES ASSUME ExportsInv, GeneratesHarvest, step = "generated", Harvested,
                       \A t \in aliases : rs.row[t].alias \in DOMAIN rs.row \ {t}
                PROVE  (\A t \in DOMAIN m : Survives(t)) <=> \A t \in aliases : InOrder(t)
    BY DEF LabelsSurvive
  <2>1. /\ m = HarvestedManifest /\ DOMAIN m = DOMAIN rs.row /\ ~Colliding(m)
        /\ DOMAIN rs.row \subseteq Targets
    BY DEF GeneratesHarvest, HarvestedManifest, ExportsInv, HarvestInv, WellFormed
  <2>2. ASSUME NEW t \in DOMAIN m
        PROVE  \E o \in Owner(m, m[t].label) : Remap(m, m[t].label) = Label(o)
    <3>. DEFINE S == {u \in DOMAIN m : m[u].label = m[t].label}
    <3>1. S \in (SUBSET Targets) \ {{}}
      BY <2>1
    <3>2. LastBy(NameRank, S) # {}
      BY ONLY <3>1, RanksAssumption
    <3>. QED
      BY <3>2 DEF Owner, Remap
  <2>3. ASSUME NEW t \in DOMAIN m, NEW u \in DOMAIN m, t # u PROVE NameRank[t] # NameRank[u]
    BY <2>1, <2>3, RanksAssumption
  <2>4. ASSUME \A t \in DOMAIN m : Survives(t), NEW t \in aliases PROVE InOrder(t)
    <3>. DEFINE x == rs.row[t].alias
    <3>1. PICK o \in Owner(m, m[t].label) : m[t].label = Label(o)
      BY <2>1, <2>2, <2>4
    <3>2. /\ o \in DOMAIN m /\ m[o].label = m[t].label
          /\ \A u \in DOMAIN m : m[u].label = m[t].label => NameRank[u] <= NameRank[o]
      BY DEF Owner, LastBy
    <3>3. o = x
      BY <2>1, <3>1, <3>2, StandsFor
    <3>4. x \notin aliases
      BY <2>1, <3>1, <3>2, <3>3, StandsFor
    <3>5. NameRank[t] <= NameRank[x] /\ NameRank[t] # NameRank[x]
      BY <2>1, <2>3, <3>2, <3>3
    <3>6. NameRank[t] \in Nat /\ NameRank[x] \in Nat
      BY <2>1, RanksAssumption
    <3>. QED
      BY <3>4, <3>5, <3>6
  <2>5. ASSUME \A t \in aliases : InOrder(t), NEW t \in DOMAIN m PROVE Survives(t)
    <3>1. PICK o \in Owner(m, m[t].label) : Remap(m, m[t].label) = Label(o)
      BY <2>2
    <3>2. /\ o \in DOMAIN m /\ m[o].label = m[t].label
          /\ \A u \in DOMAIN m : m[u].label = m[t].label => NameRank[u] <= NameRank[o]
      BY DEF Owner, LastBy
    <3>. DEFINE x == IF rs.row[t].alias # None THEN rs.row[t].alias ELSE t
    <3>3. x \in DOMAIN rs.row /\ rs.row[x].alias = None /\ m[t].label = Label(x) /\ m[x].label = Label(x)
      BY <2>1, <2>5, StandsFor
    <3>4. o = x
      <4>1. SUFFICES ASSUME o # x PROVE FALSE
        OBVIOUS
      <4>2. o \in aliases /\ rs.row[o].alias = x
        BY <2>1, <3>2, <3>3, <4>1, StandsFor
      <4>3. NameRank[o] < NameRank[x] /\ NameRank[x] <= NameRank[o]
        BY <2>1, <2>5, <3>2, <3>3, <4>2
      <4>4. NameRank[o] \in Nat /\ NameRank[x] \in Nat
        BY <2>1, <3>2, <3>3, RanksAssumption
      <4>. QED
        BY <4>3, <4>4
    <3>. QED
      BY <3>1, <3>3, <3>4
  <2>. QED
    BY <2>1, <2>4, <2>5
<1>. QED
  BY <1>1, <1>2, GeneratesHarvestStep, InvHolds, PTL DEF ExportsSpec
=============================================================================
