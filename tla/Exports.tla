------------------------------ MODULE Exports ------------------------------
(***************************************************************************)
(* From an installed prefix to the prebuilt package that wraps it:         *)
(* imports-harvest (internal/harvest: rows folded, references resolved,    *)
(* dependency cycles broken, the manifest written) and imports-wrapper-gen *)
(* (internal/wrappergen: names and cycles checked, link names routed to    *)
(* dependencies, the BUILD and the rewritten manifest), which also takes   *)
(* manifests written by hand.                                              *)
(*                                                                         *)
(* A row carries what the two decide on: its alias, its artifact, the      *)
(* targets it refers to and the libraries it links by name.  Executables,  *)
(* include paths, the .pc channel and linkopts are left out.               *)
(***************************************************************************)
EXTENDS Naturals, Sequences

CONSTANTS
    Prefixes,   \* what parseBundles may leave: see Rows
    HandMade,   \* manifests written by hand
    Wrapper,    \* WrapperName: cmake target -> wrapper name
    Stem,       \* cmake target -> the bare name behind its namespace, or None
    NameRank,   \* cmake targets in the order of their bytes
    WrapRank,   \* wrapper names in that order
    Registry,   \* the other elements' targets -> their labels
    ProvidedBy, \* artifact -> the name that links it
    None

Targets == DOMAIN Wrapper

LastBy(rank, S) == {t \in S : \A u \in S : rank[u] <= rank[t]}
FirstBy(rank, S) == {t \in S : \A u \in S : rank[t] <= rank[u]}

\* The targets are finitely many: whatever is sorted has a last element.
ASSUME RanksAssumption ==
    /\ NameRank \in [Targets -> Nat]
    /\ \A t, u \in Targets : NameRank[t] = NameRank[u] => t = u
    /\ \A S \in (SUBSET Targets) \ {{}} : LastBy(NameRank, S) # {}
    /\ \A t \in Targets : WrapRank[Wrapper[t]] \in Nat

Label(t) == <<"prebuilts", Wrapper[t]>>
Old(t) == <<"old", t>>

\* Every non-empty set of nodes has one without an edge into the set: a finite
\* graph is then acyclic.
Acyclic(edges) ==
    \A S \in (SUBSET DOMAIN edges) \ {{}} : \E n \in S : edges[n] \cap S = {}

\* Fault: a routed edge is only checked against the edge back.
ReachesAtOnce(edges, t, goal) == goal \in {t} \cup edges[t]

\* t gets to goal: every set that t is in, and that no edge leaves, has goal.
Reaches(edges, t, goal) ==
    \A S \in SUBSET DOMAIN edges :
        t \in S /\ (\A n \in S : edges[n] \subseteq S) => goal \in S

ASSUME PrefixesAssumption ==
    \A p \in Prefixes :
        /\ p = [row |-> p.row, pos |-> p.pos, folded |-> <<>>]
        /\ DOMAIN p.row \subseteq Targets
        /\ \A n \in DOMAIN p.row : p.pos[n] \in Nat

ASSUME HandMadeAssumption == \A m \in HandMade : DOMAIN m \subseteq Targets

\* Other elements' labels are in other packages.
ASSUME RegistryAssumption ==
    \A f \in DOMAIN Registry, t \in Targets : Registry[f] # Label(t)

-----------------------------------------------------------------------------
(* imports-harvest: which rows describe one library *)

\* A prefix: its rows, and the order they were declared in.
Before(rs, m, n) == rs.pos[m] < rs.pos[n]

First(rs, S) == {n \in S : \A m \in S : m = n \/ Before(rs, n, m)}
Last(rs, S) == {n \in S : \A m \in S : m = n \/ Before(rs, m, n)}

Libraries(rs) == {n \in DOMAIN rs.row : rs.row[n].alias = None}

\* dedupBundleRows, by artifact: the first row that claims it owns it.
SameArtifact(rs, n) ==
    First(rs, {m \in Libraries(rs) : rs.row[m].art # None /\ rs.row[m].art = rs.row[n].art}) \ {n}

\* dedupBundleRows, by name: `foo` beside `ns::foo`, unless both have artifacts.
OldStyle(rs, n) ==
    IF Stem[n] # None THEN {}
    ELSE First(rs, {m \in Libraries(rs) :
                      Stem[m] = n /\ (rs.row[m].art = None \/ rs.row[n].art = None)})

\* foldDuplicate: the duplicates stay as aliases, their keys go to the claimant.
Fold(rs, claimant) ==
    [rs EXCEPT
       !.row = [n \in DOMAIN rs.row |->
         IF n \in DOMAIN claimant
         THEN [alias |-> claimant[n], art |-> None, refs |-> {}, libs |-> {}]
         ELSE LET mine == {n} \cup {m \in DOMAIN claimant : claimant[m] = n}
              IN [alias |-> rs.row[n].alias,
                  art |-> IF \E m \in mine : rs.row[m].art # None
                          THEN CHOOSE a \in {rs.row[m].art : m \in mine} : a # None
                          ELSE None,
                  refs |-> UNION {rs.row[m].refs : m \in mine},
                  libs |-> UNION {rs.row[m].libs : m \in mine}]],
       !.folded = [n \in DOMAIN claimant \cup DOMAIN rs.folded |->
                     IF n \in DOMAIN claimant THEN claimant[n] ELSE rs.folded[n]]]

ByArtifact(rs) ==
    LET dup == {n \in Libraries(rs) : SameArtifact(rs, n) # {}}
    IN Fold(rs, [n \in dup |-> CHOOSE m \in SameArtifact(rs, n) : TRUE])

ByName(rs) ==
    LET bare == {n \in Libraries(rs) : OldStyle(rs, n) # {}}
        prev(n) == CHOOSE m \in OldStyle(rs, n) : TRUE
        dup == {n \in bare : rs.row[n].art = None} \cup {prev(n) : n \in {b \in bare : rs.row[b].art # None}}
    IN Fold(rs, [d \in dup |-> IF d \in bare THEN prev(d) ELSE CHOOSE n \in bare : prev(n) = d])

DedupBundleRows(rs) == ByName(ByArtifact(rs))

\* resolveDeps: a reference is looked up by name (a folded name finds its
\* claimant), an alias stands for the target it names; what is not here may be
\* another element's; the rest is dropped with a warning.
Named(rs, ref) ==
    LET t == IF ref \in DOMAIN rs.folded THEN rs.folded[ref] ELSE ref
    IN IF rs.row[t].alias # None THEN rs.row[t].alias ELSE t

DepsOf(rs, n) ==
    ({Label(Named(rs, ref)) : ref \in rs.row[n].refs \cap DOMAIN rs.row}
     \cup {Registry[ref] : ref \in (rs.row[n].refs \cap DOMAIN Registry) \ DOMAIN rs.row})
    \ {Label(n)}

\* breakDepCycles' byLabel: of two libraries with one wrapper name, the later.
RowOf(rs, label) == Last(rs, {n \in Libraries(rs) : Label(n) = label})

VARIABLES
    step,     \* how far the two tools are
    rs,       \* the prefix's rows, folded
    todo,     \* library -> its deps that breakDepCycles has still to look at
    kept,     \* library -> those it has kept
    colour,   \* library -> "white", "gray" or "black"
    stack,    \* the libraries being visited
    warnings, \* the cycles the harvest warned of: the paths it names
    manifest, \* cmake target -> export
    adj,      \* breakRouteCycles: target -> the targets it depends on
    unrouted, \* the routed edges it has still to look at
    routes,   \* target -> the routed labels it has kept
    package   \* the generated package: target -> the labels its wrapper depends on

harvestVars == <<rs, todo, kept, colour, stack, warnings>>
generateVars == <<adj, unrouted, routes, package>>
exportVars == <<step, harvestVars, manifest, generateVars>>

ExportsInit ==
    /\ step = "idle"
    /\ rs = [row |-> <<>>, pos |-> <<>>, folded |-> <<>>]
    /\ todo = <<>> /\ kept = <<>> /\ colour = <<>> /\ stack = <<>> /\ warnings = {}
    /\ manifest = <<>>
    /\ adj = <<>> /\ unrouted = {} /\ routes = <<>> /\ package = <<>>

-----------------------------------------------------------------------------
(* breakDepCycles: a depth-first search that drops the edges back into the *)
(* path it is on.  The code takes roots in row order and edges in sorted    *)
(* order; here any order will do.                                           *)

Harvest(p) ==
    /\ step = "idle"
    /\ step' = "breaking"
    /\ rs' = DedupBundleRows(p)
    /\ todo' = [n \in Libraries(rs') |-> DepsOf(rs', n)]
    /\ kept' = [n \in Libraries(rs') |-> {}]
    /\ colour' = [n \in Libraries(rs') |-> "white"]
    /\ stack' = <<>>
    /\ warnings' = {}
    /\ UNCHANGED <<manifest, generateVars>>

\* Fault: a library is done with as soon as it is visited.
VisitOnce(n) ==
    /\ colour' = [colour EXCEPT ![n] = "black"]
    /\ stack' = Append(stack, n)

Visit(n) ==
    /\ colour' = [colour EXCEPT ![n] = "gray"]
    /\ stack' = Append(stack, n)

VisitRoot(n) ==
    /\ step = "breaking"
    /\ stack = <<>>
    /\ colour[n] = "white"
    /\ Visit(n)
    /\ UNCHANGED <<step, rs, todo, kept, warnings, manifest, generateVars>>

\* The library on top of the stack looks at its next dep.
Top == stack[Len(stack)]

Looking(d) ==
    /\ step = "breaking"
    /\ stack # <<>>
    /\ d \in todo[Top]
    /\ todo' = [todo EXCEPT ![Top] = @ \ {d}]
    /\ UNCHANGED <<step, rs, manifest, generateVars>>

\* The path from the target to the top of the stack, and back.
CycleTo(t) ==
    LET i == CHOOSE i \in 1..Len(stack) : stack[i] = t
    IN Append(SubSeq(stack, i, Len(stack)), t)

DropDep(d) ==
    /\ Looking(d)
    /\ \E t \in RowOf(rs, d) :
          /\ colour[t] = "gray"
          /\ warnings' = warnings \cup {CycleTo(t)}
    /\ UNCHANGED <<kept, colour, stack>>

KeepDep(d) ==
    /\ Looking(d)
    /\ \A t \in RowOf(rs, d) : colour[t] # "gray"
    /\ kept' = [kept EXCEPT ![Top] = @ \cup {d}]
    /\ IF \E t \in RowOf(rs, d) : colour[t] = "white"
       THEN \E t \in RowOf(rs, d) : Visit(t)
       ELSE UNCHANGED <<colour, stack>>
    /\ UNCHANGED warnings

Leave ==
    /\ step = "breaking"
    /\ stack # <<>>
    /\ todo[Top] = {}
    /\ colour' = [colour EXCEPT ![Top] = "black"]
    /\ stack' = SubSeq(stack, 1, Len(stack) - 1)
    /\ UNCHANGED <<step, rs, todo, kept, warnings, manifest, generateVars>>

\* manifest: every row becomes an export, an alias one under the label of the
\* target it names.
HarvestedManifest ==
    [n \in DOMAIN rs.row |->
       LET r == rs.row[n]
       IN [label |-> Label(IF r.alias # None THEN r.alias ELSE n), art |-> r.art, libs |-> r.libs,
           deps |-> IF r.alias # None THEN {} ELSE kept[n]]]

WriteManifest ==
    /\ step = "breaking"
    /\ stack = <<>>
    /\ \A n \in DOMAIN colour : colour[n] = "black"
    /\ step' = "harvested"
    /\ manifest' = HarvestedManifest
    /\ UNCHANGED <<harvestVars, generateVars>>

\* A manifest somebody wrote, instead.
Write(m) ==
    /\ step = "idle"
    /\ step' = "handmade"
    /\ manifest' = m
    /\ UNCHANGED <<harvestVars, generateVars>>

-----------------------------------------------------------------------------
(* imports-wrapper-gen *)

ByWrapper == [t \in Targets |-> WrapRank[Wrapper[t]]]

\* Fault: of the exports that share a label, the first one has it.
FirstOwner(m, l) == FirstBy(NameRank, {t \in DOMAIN m : m[t].label = l})

\* oldLabelToNew: of the exports that share a label, the last one has it.
Owner(m, l) == LastBy(NameRank, {t \in DOMAIN m : m[t].label = l})

Remap(m, l) == IF Owner(m, l) = {} THEN l ELSE Label(CHOOSE t \in Owner(m, l) : TRUE)

\* byNewLabel: the exports in wrapper order, the last under a label has it.
Exported(m, l) == LastBy(ByWrapper, {t \in DOMAIN m : Remap(m, m[t].label) = l})

DeclaredEdges(m) ==
    [t \in DOMAIN m |-> (UNION {Exported(m, Remap(m, d)) : d \in m[t].deps}) \ {t}]

\* linkKeysOf: the names an export can be linked by.
LinkKeys(m, t) == {Wrapper[t]} \cup (IF m[t].art = None THEN {} ELSE {ProvidedBy[m[t].art]})

\* routeLinkLibraries: a name the export provides itself is no dependency; one
\* another export provides (the first that does) is one on its wrapper; any
\* other stays a linkopt.
RoutedLabels(m, t) ==
    {Remap(m, m[u].label) :
       u \in (UNION {FirstBy(NameRank, {v \in DOMAIN m : l \in LinkKeys(m, v)}) :
                       l \in m[t].libs \ LinkKeys(m, t)}) \ {t}}

Colliding(m) == \E t, u \in DOMAIN m : t # u /\ Wrapper[t] = Wrapper[u]

Refuse(verdict) ==
    /\ step' = verdict
    /\ UNCHANGED <<harvestVars, manifest, generateVars>>

RefuseCollision ==
    /\ step \in {"harvested", "handmade"}
    /\ Colliding(manifest)
    /\ Refuse("collision")

\* checkDepCycles
RefuseCycle ==
    /\ step \in {"harvested", "handmade"}
    /\ ~Colliding(manifest)
    /\ ~Acyclic(DeclaredEdges(manifest))
    /\ Refuse("cycle")

Route ==
    /\ step \in {"harvested", "handmade"}
    /\ ~Colliding(manifest)
    /\ Acyclic(DeclaredEdges(manifest))
    /\ step' = "routing"
    /\ adj' = DeclaredEdges(manifest)
    /\ unrouted' = UNION {{t} \X RoutedLabels(manifest, t) : t \in DOMAIN manifest}
    /\ routes' = [t \in DOMAIN manifest |-> {}]
    /\ UNCHANGED <<harvestVars, manifest, package>>

\* breakRouteCycles: a routed edge is kept when it closes no cycle.  The code
\* goes by export and then by link name; here any order will do.
BreakRoute(t, d) ==
    /\ step = "routing"
    /\ <<t, d>> \in unrouted
    /\ unrouted' = unrouted \ {<<t, d>>}
    /\ LET to == Exported(manifest, d) \ {t}
           closes == \E u \in to : Reaches(adj, u, t)
       IN /\ adj' = IF closes THEN adj ELSE [adj EXCEPT ![t] = @ \cup to]
          /\ routes' = IF closes THEN routes ELSE [routes EXCEPT ![t] = @ \cup {d}]
    /\ UNCHANGED <<step, harvestVars, manifest, package>>

\* wrapperDeps of every wrapper.
Generate ==
    /\ step = "routing"
    /\ unrouted = {}
    /\ step' = "generated"
    /\ package' = [t \in DOMAIN manifest |->
          ({Remap(manifest, d) : d \in manifest[t].deps} \cup routes[t])
          \ {Remap(manifest, manifest[t].label)}]
    /\ UNCHANGED <<harvestVars, manifest, adj, unrouted, routes>>

ExportsNext ==
    \/ step = "idle" /\ \E p \in Prefixes : Harvest(p)
    \/ \E n \in DOMAIN colour : VisitRoot(n)
    \/ stack # <<>> /\ \E d \in todo[Top] : DropDep(d) \/ KeepDep(d)
    \/ Leave
    \/ WriteManifest
    \/ step = "idle" /\ \E m \in HandMade : Write(m)
    \/ RefuseCollision
    \/ RefuseCycle
    \/ Route
    \/ \E e \in unrouted : BreakRoute(e[1], e[2])
    \/ Generate

ExportsSpec == ExportsInit /\ [][ExportsNext]_exportVars

-----------------------------------------------------------------------------
(* Properties *)

Harvested == DOMAIN rs.row # {}

\* The edges of the generated package among its wrappers, as Bazel sees them.
PackageEdges ==
    [t \in DOMAIN package |-> {u \in DOMAIN package : Label(u) \in package[t]}]

\* The wrappers that checkDepCycles and breakRouteCycles find under their labels:
\* the others are there for Bazel only.
Seen == {t \in DOMAIN package : t \in Exported(manifest, Label(t))}

\* Whatever the manifest declares and whatever its link names add, a cycle of the
\* generated package's deps, which Bazel would reject, goes through a wrapper
\* that the checks do not see: one whose label another export has.
CyclesAreUnseen == step = "generated" => Acyclic([t \in Seen |-> PackageEdges[t] \cap Seen])

\* "harvested manifests are cycle-free by construction": the generator never
\* refuses one for a cycle, aliases and clashing names included, and what the
\* search drops for it are edges back into a real path of deps, whose cycle
\* it warns of.
HarvestIsAccepted ==
    /\ step = "cycle" => ~Harvested
    /\ \A w \in warnings :
          /\ Len(w) > 1 /\ w[1] = w[Len(w)]
          /\ \A i \in 1..(Len(w) - 1) : w[i + 1] \in UNION {RowOf(rs, d) : d \in DepsOf(rs, w[i])}

\* Generation keeps the harvest's labels, and with them the library behind
\* every name, exactly when no alias comes after the target it stands for and
\* none stands for another alias, as a folded target is one: of the exports
\* under one label the last one's wrapper gets it, and an alias' wrapper holds
\* nothing.  (The aliases are those of targets the prefix has.)
LabelsSurvive ==
    LET aliases == {t \in DOMAIN rs.row : rs.row[t].alias # None} IN
    step = "generated" /\ Harvested /\ (\A t \in aliases : rs.row[t].alias \in DOMAIN rs.row \ {t}) =>
      ((\A t \in DOMAIN manifest : Remap(manifest, manifest[t].label) = manifest[t].label)
       <=> \A t \in aliases : NameRank[t] < NameRank[rs.row[t].alias] /\ rs.row[t].alias \notin aliases)

(* What the repository says that the code does not do *)

\* wrappergen.go, breakRouteCycles: "Bazel would then reject the generated package
\* at load time, so rather than refuse the whole manifest [...] break it": the
\* package made of a harvest can be loaded.
PackageLoads == step = "generated" /\ Harvested => Acyclic(PackageEdges)
=============================================================================
