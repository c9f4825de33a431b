---------------------------- MODULE PackageSplit ----------------------------
(***************************************************************************)
(* converter/emit/bazel/split.go: one lowered element becomes one Bazel    *)
(* package per directory.  Files go to the deepest package above them,     *)
(* generators follow their first output, and what include directories      *)
(* granted is granted by header libraries.  Sources are local (no          *)
(* SourceKey).                                                             *)
(*                                                                         *)
(* A path is a sequence of names below the element's root <<>>, and a      *)
(* label <<package, path in it>>; a target's name is a path of one.        *)
(***************************************************************************)
EXTENDS Naturals, Sequences, FiniteSets
SeqOps == INSTANCE SequencesExt

CONSTANTS
    Names,           \* of files, directories and targets
    LoweredPackages, \* lowered elements: functions from names to targets
    CompiledNames,   \* the file names that are compiled sources
    NotSplit

VARIABLES
    lowered, \* the element
    layout,  \* splitPlan; NotSplit
    split    \* the rules by label and the exported files, or refused; NotSplit

splitVars == <<lowered, layout, split>>

\* What lowering makes of an element.  Names that the split gives to libraries
\* of headers stand for ones it finds free.  Rules that generate are declared
\* at the root (they have no SubPackages entry), have neither headers nor deps,
\* and each writes its own files.  No file is a directory.  Of compiled targets
\* none is made private.
IsLowered(e) ==
    LET generated == UNION {{e[g].outs[i] : i \in DOMAIN e[g].outs} : g \in DOMAIN e} IN
    /\ IsFiniteSet(DOMAIN e)
    /\ DOMAIN e \subseteq Names \ {"headers", "root_hdrs", "element_root_headers"}
    /\ \A n \in DOMAIN e :
         LET t     == e[n]
             files == t.srcs \cup t.arms \cup t.hdrs \cup t.wants \cup {t.outs[i] : i \in DOMAIN t.outs}
         IN /\ {t.dir} \cup t.incs \cup t.privIncs \subseteq Seq(Names) \ (files \cup generated)
            /\ files \subseteq Seq(Names) \ {<<>>}
            /\ \A S \in {t.incs, t.privIncs, t.hdrs, t.wants} : IsFiniteSet(S)
            /\ t.outs \in Seq(files)
            /\ t.deps \cup t.tools \cup t.order \subseteq DOMAIN e
            /\ t.wants \subseteq generated
            /\ t.rootInclude => t.public
            /\ t.outs # <<>> =>
                 /\ t.dir = <<>> /\ ~t.rootInclude
                 /\ t.incs \cup t.privIncs \cup t.hdrs \cup t.wants \cup t.deps = {}
            /\ \A g \in DOMAIN e \ {n} : \A i \in DOMAIN t.outs, j \in DOMAIN e[g].outs : t.outs[i] # e[g].outs[j]

ASSUME LoweredAssumption == \A e \in LoweredPackages : IsLowered(e)

Under(dir, p) == SeqOps!IsPrefix(dir, p)
RelTo(dir, p) == SubSeq(p, Len(dir) + 1, Len(p))
LongestOf(dirs) == CHOOSE d \in dirs : \A e \in dirs : Len(e) <= Len(d)

\* What is reached from S in the graph that gives each node its successors.
ReachedFrom(S, next) ==
    LET r[i \in 0..Cardinality(DOMAIN next)] ==
          IF i = 0 THEN S ELSE LET q == r[i - 1] IN q \cup UNION {next[n] : n \in q}
    IN r[Cardinality(DOMAIN next)]

-----------------------------------------------------------------------------
(* The lowered element *)

SplitTargets == DOMAIN lowered
Outs(n) == {lowered[n].outs[i] : i \in DOMAIN lowered[n].outs}
Generators == {n \in SplitTargets : lowered[n].outs # <<>>}
GeneratedFiles == UNION {Outs(g) : g \in Generators}
ProducerOf(o) == CHOOSE g \in Generators : o \in Outs(g)
Compiled(p) == p[Len(p)] \in CompiledNames
AllHeaders == UNION {lowered[n].hdrs : n \in SplitTargets}

\* A target's include directories; a private one that is the root stays a flag of
\* its compiles, and gives no library.
RootsOf(n) == lowered[n].incs \cup (lowered[n].privIncs \ {<<>>})

\* The targets whose outputs run or link into a generator's tools.
ToolClosure(g) == ReachedFrom(lowered[g].tools, [n \in SplitTargets |-> lowered[n].deps])

-----------------------------------------------------------------------------
(* planSplit *)

IncludeRoots == UNION {RootsOf(n) : n \in SplitTargets}

\* deepestPkg
OwnerAmong(pkgs, p) == LongestOf({d \in pkgs : Under(d, p)})

\* landingDir
LandingAmong(pkgs, n) ==
    IF n \in Generators /\ OwnerAmong(pkgs, lowered[n].outs[1]) # <<>>
    THEN OwnerAmong(pkgs, lowered[n].outs[1])
    ELSE lowered[n].dir

HeadersIn(roots, r) == {h \in AllHeaders : OwnerAmong(roots \cup {<<>>}, h) = r}

\* Fault: a tool's libraries are not followed.
ToolRootsOfTools(n) ==
    {<<o[1]>> : o \in {p \in UNION {Outs(g) : g \in {h \in Generators : n \in lowered[h].tools}} : Len(p) > 1}}

\* The directories of the element's root that a tool, or what it is linked
\* from, has a part in producing.
ToolRoots(n) ==
    {<<o[1]>> : o \in {p \in UNION {Outs(g) : g \in {h \in Generators : n \in ToolClosure(h)}} : Len(p) > 1}}

\* computeSplitPublicize: generators whose outputs another package names, in a
\* target (select() arms are not looked at) or in a header library; and targets
\* that one in another package is built after.
Publicize(pkgs, roots) ==
    {g \in Generators : \E o \in Outs(g) :
       \/ \E n \in SplitTargets \ {g} :
            o \in lowered[n].srcs \cup lowered[n].hdrs /\ OwnerAmong(pkgs, o) # LandingAmong(pkgs, n)
       \/ \E r \in roots : o \in HeadersIn(roots, r) /\ ~Compiled(o) /\ OwnerAmong(pkgs, o) # r}
    \cup {d \in SplitTargets : \E n \in SplitTargets \ {d} :
            d \in lowered[n].order /\ LandingAmong(pkgs, d) # LandingAmong(pkgs, n)}

RootWalk == UNION {lowered[n].hdrs : n \in {m \in SplitTargets : lowered[m].rootInclude}}

SplitPlan ==
    LET pkgs == {<<>>} \cup {lowered[n].dir : n \in SplitTargets} \cup IncludeRoots
        owners == {OwnerAmong(pkgs, h) : h \in RootWalk}
    IN [pkgs      |-> pkgs,
        roots     |-> IncludeRoots,
        landing   |-> [n \in SplitTargets |-> LandingAmong(pkgs, n)],
        toolRoots |-> [n \in SplitTargets |-> ToolRoots(n)],
        publicize |-> Publicize(pkgs, IncludeRoots),
        \* synthesizeRootHdrLibs: nothing for a surface in one package.
        rootHdrs  |-> IF Cardinality(owners) > 1 THEN owners ELSE {}]

PlanSplit ==
    /\ layout = NotSplit
    /\ layout' = SplitPlan
    /\ UNCHANGED <<lowered, split>>

-----------------------------------------------------------------------------
(* The packages *)

OwnerOf(p) == OwnerAmong(layout.pkgs, p)

\* splitFileLabel, and targetLabel: a name is where it was declared.
FileLabel(p) == <<OwnerOf(p), RelTo(OwnerOf(p), p)>>
TargetLabel(n) == <<lowered[n].dir, <<n>>>>

\* The label of a target's rule.
RealLabel(n) == <<layout.landing[n], <<n>>>>

HeaderLib(r) == <<r, <<"headers">>>>
RootHdrLib(d) == <<d, <<"root_hdrs">>>>
RootHdrAgg == << <<>>, <<"element_root_headers">>>>
GeneratedIncludes(d) == <<d, <<"generated_includes">>>>

\* Files of another package, other than generated ones, are exported there.
CrossExports(from, files) == {FileLabel(p) : p \in {q \in files \ GeneratedFiles : OwnerOf(q) # from}}

PublicRule == [srcs |-> {}, hdrs |-> {}, deps |-> {}, privDeps |-> {}, runs |-> {}, outs |-> {},
               includes |-> FALSE, prefix |-> <<>>, public |-> TRUE]

\* Fault: header libraries of nested directories are not forwarded.
FlatHeaderLibTarget(r) ==
    [PublicRule EXCEPT
       !.hdrs = {FileLabel(h) : h \in {g \in HeadersIn(layout.roots, r) :
                   ~(g \in GeneratedFiles /\ Compiled(g) /\ OwnerOf(g) # r)}},
       !.includes = TRUE]

\* The library of an include directory: its headers, but for sources that a
\* deeper package compiles, and the libraries of directories in it.
HeaderLibTarget(r) ==
    [PublicRule EXCEPT
       !.hdrs = {FileLabel(h) : h \in {g \in HeadersIn(layout.roots, r) :
                   ~(g \in GeneratedFiles /\ Compiled(g) /\ OwnerOf(g) # r)}},
       !.deps = {HeaderLib(q) : q \in {s \in layout.roots \ {r} : Under(r, s)}},
       !.includes = TRUE]

\* The element's root as an include directory, package by package.
RootHdrLibTarget(d) ==
    [PublicRule EXCEPT
       !.hdrs = {FileLabel(h) : h \in {g \in RootWalk \ GeneratedFiles : OwnerOf(g) = d}},
       !.includes = d = <<>>,
       !.prefix = d]

RootHdrAggTarget == [PublicRule EXCEPT !.deps = {RootHdrLib(d) : d \in layout.rootHdrs}]

WantedHeaders == UNION {lowered[n].wants : n \in SplitTargets}

\* A package's generated headers that anyone includes.
WrapperTarget(d) ==
    [PublicRule EXCEPT
       !.hdrs = {FileLabel(o) : o \in {w \in WantedHeaders : OwnerOf(w) = d}},
       !.includes = TRUE]

\* The target is given the element's root by its library, and no more is done to
\* it.
FastPath(n) == lowered[n].rootInclude /\ layout.rootHdrs # {}

Public(n) == lowered[n].public \/ (n \in layout.publicize /\ ~FastPath(n))

\* The include directories that become dependencies on header libraries; a
\* library keeps its private ones to itself.
GrantedRoots(n) == RootsOf(n) \ layout.toolRoots[n]
HeaderDeps(n) ==
    {HeaderLib(r) : r \in IF lowered[n].kind = "library" THEN GrantedRoots(n) \cap lowered[n].incs
                          ELSE GrantedRoots(n)}
PrivHeaderDeps(n) == {HeaderLib(r) : r \in GrantedRoots(n)} \ HeaderDeps(n)

\* rewriteSplitHdrs: those no granted header library has.
KeptHdrs(n) ==
    IF FastPath(n) THEN {} ELSE {h \in lowered[n].hdrs : \A r \in GrantedRoots(n) : ~Under(r, h)}

\* include_prefix, for one package whose headers are all its own.
PrefixOf(n) ==
    IF /\ lowered[n].rootInclude /\ ~FastPath(n)
       /\ \A h \in KeptHdrs(n) : OwnerOf(h) = layout.landing[n]
    THEN layout.landing[n] ELSE <<>>

RewriteTarget(n) ==
    LET t == lowered[n] IN
    [srcs     |-> {FileLabel(p) : p \in t.srcs \cup t.arms},
     hdrs     |-> {FileLabel(h) : h \in KeptHdrs(n)},
     deps     |-> {TargetLabel(d) : d \in t.deps} \cup HeaderDeps(n)
                  \cup {GeneratedIncludes(OwnerOf(o)) : o \in t.wants}
                  \cup IF FastPath(n) THEN {RootHdrAgg} ELSE {},
     privDeps |-> PrivHeaderDeps(n),
     runs     |-> {TargetLabel(d) : d \in t.tools \cup t.order},
     outs     |-> {IF Under(layout.landing[n], o) THEN RelTo(layout.landing[n], o) ELSE o : o \in Outs(n)},
     includes |-> FALSE,
     prefix   |-> PrefixOf(n),
     public   |-> Public(n)]

SplitRules ==
    LET real    == {RealLabel(n) : n \in SplitTargets}
        libs    == {HeaderLib(r) : r \in layout.roots}
        rooted  == {RootHdrLib(d) : d \in layout.rootHdrs}
        agg     == {RootHdrAgg : d \in layout.rootHdrs}
        wrapped == {GeneratedIncludes(OwnerOf(o)) : o \in WantedHeaders}
    IN [l \in real \cup libs \cup rooted \cup agg \cup wrapped |->
          IF l \in real THEN RewriteTarget(l[2][1])
          ELSE IF l \in libs THEN HeaderLibTarget(l[1])
          ELSE IF l \in rooted THEN RootHdrLibTarget(l[1])
          ELSE IF l \in agg THEN RootHdrAggTarget ELSE WrapperTarget(l[1])]

ExportedFiles ==
    (UNION {CrossExports(layout.landing[n], lowered[n].srcs \cup lowered[n].arms \cup KeptHdrs(n)) : n \in SplitTargets})
    \cup (UNION {CrossExports(r, HeadersIn(layout.roots, r)) : r \in layout.roots})

\* A target of the element has the name that a package's wrapper needs.
WrapperNameTaken ==
    \E o \in WantedHeaders : \E n \in SplitTargets : n = "generated_includes" /\ lowered[n].dir = OwnerOf(o)

EmitSplit ==
    /\ layout # NotSplit /\ split = NotSplit
    /\ split' = IF WrapperNameTaken THEN [refused |-> TRUE]
                ELSE [refused |-> FALSE, rules |-> SplitRules, exports |-> ExportedFiles]
    /\ UNCHANGED <<lowered, layout>>

SplitInit == lowered \in LoweredPackages /\ layout = NotSplit /\ split = NotSplit
SplitNext == PlanSplit \/ EmitSplit
SplitSpec == SplitInit /\ [][SplitNext]_splitVars
-----------------------------------------------------------------------------
(* Bazel *)

Emitted == split # NotSplit /\ ~split.refused

SplitFiles == UNION {lowered[n].srcs \cup lowered[n].arms \cup lowered[n].hdrs : n \in SplitTargets}
BuildFiles == {l[1] : l \in DOMAIN split.rules} \cup {e[1] : e \in split.exports}

\* No other package lies between a package and a file it names.
Inside(pkg, path) == \A d \in BuildFiles : Under(d, pkg \o path) => Len(d) <= Len(pkg)

References(r) == r.srcs \cup r.hdrs \cup r.deps \cup r.privDeps \cup r.runs

\* The rule a label stands for or is an output of.
RulesBehind(l) ==
    {k \in DOMAIN split.rules : k = l \/ (k[1] = l[1] /\ l[2] \in split.rules[k].outs)}

Usable(l, pkg) ==
    \/ \E k \in RulesBehind(l) : l[1] = pkg \/ split.rules[k].public
    \/ /\ l[1] \o l[2] \in SplitFiles \ GeneratedFiles /\ l[1] \in BuildFiles /\ Inside(l[1], l[2])
       /\ l[1] = pkg \/ l \in split.exports

\* What a rule is built from.
BuiltFrom == [k \in DOMAIN split.rules |-> UNION {RulesBehind(l) : l \in References(split.rules[k])}]

SplitPackagesLoad ==
    /\ \A k \in DOMAIN split.rules :
         /\ \A l \in References(split.rules[k]) : Usable(l, k[1])
         /\ \A o \in split.rules[k].outs : Inside(k[1], o) /\ <<k[1], o>> \notin DOMAIN split.rules
    /\ LET after == BuiltFrom IN \A k \in DOMAIN after : k \notin ReachedFrom(after[k], after)

-----------------------------------------------------------------------------
(* Properties *)

\* What a target needs as the element was lowered, in one package.
LoweredNeeds ==
    [n \in SplitTargets |->
       LET t == lowered[n] IN
       t.deps \cup t.tools \cup t.order
       \cup {ProducerOf(o) : o \in (t.srcs \cup t.arms \cup t.hdrs \cup t.wants) \cap GeneratedFiles}]
NeededBy(n) == ReachedFrom(LoweredNeeds[n], LoweredNeeds)

\* A generator writes into one package.
OneHomeEach == \A g \in Generators : \A o, p \in Outs(g) : OwnerOf(o) = OwnerOf(p)

MayName(n, d) == Public(d) \/ layout.landing[d] = layout.landing[n]

\* No select() arm names another package's private output.
ArmsAreLocal ==
    \A n \in SplitTargets : \A p \in lowered[n].arms \cap GeneratedFiles : MayName(n, ProducerOf(p))

\* A target that others name is where it was declared: no generator that moves.
NamesStay ==
    \A n \in SplitTargets : \A d \in lowered[n].deps \cup lowered[n].tools \cup lowered[n].order :
      layout.landing[d] = lowered[d].dir

\* None is built from, or runs, another package's private target.
ToolsAreVisible == \A n \in SplitTargets : \A d \in lowered[n].deps \cup lowered[n].tools : MayName(n, d)

\* No file has a rule's name in the rule's package, and no target a wrapper's.
NamesApart ==
    /\ \A p \in SplitFiles \cup GeneratedFiles : FileLabel(p) \notin DOMAIN split.rules
    /\ \A n \in SplitTargets, o \in WantedHeaders : RealLabel(n) # GeneratedIncludes(OwnerOf(o))

\* What generators are built from is given no generated header by a library
\* that it did not need before, other than below a directory of the root that
\* it takes part in producing itself.
NothingNewForTools ==
    \A g \in Generators : \A n \in NeededBy(g) \ Generators :
      /\ \A r \in RootsOf(n), o \in GeneratedFiles \cap AllHeaders : Under(r, o) =>
           ProducerOf(o) \in NeededBy(n) \/ (r = <<o[1]>> /\ n \in ToolClosure(ProducerOf(o)))
      /\ \A w \in lowered[n].wants, o \in WantedHeaders : OwnerOf(w) = OwnerOf(o) =>
           ProducerOf(o) \in NeededBy(n)

\* An element that loads as one package loads as many: every label leads to a
\* file or rule of a package that may be named from there, and libraries of
\* headers close no cycle through the tools that generate them.
SplitLoads ==
    Emitted =>
      (/\ \A n \in SplitTargets : n \notin NeededBy(n)
       /\ OneHomeEach /\ ArmsAreLocal /\ NothingNewForTools
       /\ NamesStay /\ ToolsAreVisible /\ NamesApart
       => SplitPackagesLoad)

\* What a target's include directories let be included: <<spelling, header>>.
Grants(n, roots) ==
    UNION {{<<RelTo(r, h), h>> : h \in {g \in lowered[n].hdrs : Under(r, g) /\ ~Compiled(g)}} : r \in roots}

\* What the split takes away: from a tool the root it has a part in; and below
\* the element's root what is generated or, where one package has it all, not
\* the target's own or in an include directory of it.
Forgone(n) ==
    UNION {Grants(n, {r}) : r \in {q \in RootsOf(n) : Len(q) = 1 /\ \E g \in Generators :
             n \in ToolClosure(g) /\ \E o \in Outs(g) : o[1] = q[1] /\ Len(o) > 1}}
SurvivesAtRoot(n, h) ==
    IF layout.rootHdrs # {} THEN h \notin GeneratedFiles
    ELSE lowered[n].dir # <<>> /\ \A g \in lowered[n].hdrs :
           OwnerOf(g) = lowered[n].dir /\ \A r \in RootsOf(n) : ~Under(r, g)

GrantsOf(n, roots) ==
    (Grants(n, roots) \ Forgone(n))
    \cup IF lowered[n].rootInclude
         THEN {<<h, h>> : h \in {g \in lowered[n].hdrs : SurvivesAtRoot(n, g) /\ ~Compiled(g)}} ELSE {}

\* What a target may include after the split.
IncludableBy(l) ==
    LET rule(k)  == split.rules[k]
        after    == [k \in DOMAIN split.rules |-> rule(k).deps \cap DOMAIN split.rules]
        behind   == {l} \cup ReachedFrom((rule(l).deps \cup rule(l).privDeps) \cap DOMAIN after, after)
        headers  == UNION {{h[1] \o h[2] : h \in rule(k).hdrs} : k \in behind}
        searched == {k[1] : k \in {j \in behind : rule(j).includes}}
    IN {<<RelTo(d, h), h>> : d \in searched, h \in headers}
       \cup UNION {{<<rule(k).prefix \o h[2], h[1] \o h[2]>> : h \in rule(k).hdrs} :
                     k \in {j \in behind : rule(j).prefix # <<>>}}

\* Each #include that a target's or its dependencies' directories made work still
\* finds its header, by the same spelling.
IncludesSurvive ==
    Emitted =>
      \A n \in SplitTargets \ Generators :
        GrantsOf(n, RootsOf(n))
        \cup UNION {GrantsOf(m, lowered[m].incs) :
                      m \in ReachedFrom(lowered[n].deps, [k \in SplitTargets |-> lowered[k].deps])}
        \subseteq IncludableBy(RealLabel(n))
=============================================================================
