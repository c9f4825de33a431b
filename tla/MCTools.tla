------------------------------ MODULE MCTools ------------------------------
(***************************************************************************)
(* Small instances of the tools around a conversion, which share no state: *)
(* the import tools, stage-b, finalize-b, fold-element, and source keys    *)
(* with their audit, convert-element-trace, and the split into packages. A *)
(* behaviour is one of one of them.                                        *)
(***************************************************************************)
EXTENDS Exports, Staging, Finalize, ElementFold, Narrowing, TraceRules, PackageSplit, TLC

CONSTANT Tools

VARIABLE tool

\* Only the tool at work starts from any of its inputs.
AnyProject == CHOOSE x \in Projects : TRUE
AnyRules == CHOOSE x \in RuleSets : TRUE
AnyMakes == CHOOSE x \in TracedBuilds : TRUE
AnyLowered == CHOOSE x \in LoweredPackages : TRUE

ToolsInit ==
    /\ tool \in Tools
    /\ ExportsInit /\ StagingInit /\ FoldInit
    /\ FinalizeInit /\ (tool = "finalize-b" \/ project = AnyProject)
    /\ NarrowingInit /\ (tool = "audit-narrowing" \/ rules = AnyRules)
    /\ TraceRulesInit /\ (tool = "convert-element-trace" \/ (makes = AnyMakes /\ cwdKnown))
    /\ SplitInit /\ (tool = "split-packages" \/ lowered = AnyLowered)

ToolsNext ==
    \/ /\ tool = "imports" /\ ExportsNext
       /\ UNCHANGED <<tool, stagingVars, finalizeVars, foldVars, narrowingVars, traceRulesVars, splitVars>>
    \/ /\ tool = "stage-b" /\ StagingNext
       /\ UNCHANGED <<tool, exportVars, finalizeVars, foldVars, narrowingVars, traceRulesVars, splitVars>>
    \/ /\ tool = "finalize-b" /\ FinalizeNext
       /\ UNCHANGED <<tool, exportVars, stagingVars, foldVars, narrowingVars, traceRulesVars, splitVars>>
    \/ /\ tool = "fold-element" /\ FoldNext
       /\ UNCHANGED <<tool, exportVars, stagingVars, finalizeVars, narrowingVars, traceRulesVars, splitVars>>
    \/ /\ tool = "audit-narrowing" /\ NarrowingNext
       /\ UNCHANGED <<tool, exportVars, stagingVars, finalizeVars, foldVars, traceRulesVars, splitVars>>
    \/ /\ tool = "convert-element-trace" /\ TraceRulesNext
       /\ UNCHANGED <<tool, exportVars, stagingVars, finalizeVars, foldVars, narrowingVars, splitVars>>
    \/ /\ tool = "split-packages" /\ SplitNext
       /\ UNCHANGED <<tool, exportVars, stagingVars, finalizeVars, foldVars, narrowingVars, traceRulesVars>>

toolsVars == <<tool, exportVars, stagingVars, finalizeVars, foldVars, narrowingVars, traceRulesVars, splitVars>>

ToolsSpec == ToolsInit /\ [][ToolsNext]_toolsVars

-----------------------------------------------------------------------------
(* The import tools: four targets, two of which share a wrapper's name.    *)

MCWrapper == ("core" :> "core") @@ ("b::core" :> "core") @@ ("b::dep" :> "dep") @@ ("a::zed" :> "zed")
MCStem == [t \in Targets |-> IF t = "core" THEN None ELSE MCWrapper[t]]
MCNameRank == ("a::zed" :> 1) @@ ("b::core" :> 2) @@ ("b::dep" :> 3) @@ ("core" :> 4)
MCWrapRank == ("core" :> 1) @@ ("dep" :> 2) @@ ("zed" :> 3)
MCRegistry == ("far::qux" :> <<"far", "qux">>)
MCProvidedBy == ("libcore.a" :> "core") @@ ("libdep.a" :> "dep")

Library(arts, refs, libs) == [alias : {None}, art : arts, refs : refs, libs : libs]
AliasOf(to) == [alias : to, art : {None}, refs : {{}}, libs : {{}}]

RowsOf(a, b, c, d) ==
    LET all == ("core" :> a) @@ ("b::core" :> b) @@ ("b::dep" :> c) @@ ("a::zed" :> d)
    IN [t \in {u \in Targets : all[u] # None} |-> all[t]]

MCRows ==
    {RowsOf(a, b, c, d) :
       a \in {None} \cup Library({None, "libdep.a"}, {{"b::dep"}}, {{}}),
       b \in Library({None, "libcore.a"}, SUBSET {"b::dep", "a::zed"}, {{}, {"dep"}}),
       c \in Library({"libcore.a", "libdep.a"}, SUBSET {"b::core", "a::zed"}, {{"core"}}) \cup AliasOf({"b::core", "core"}),
       d \in {None} \cup AliasOf({"b::core", "b::dep"}) \cup Library({None}, {{"b::core", "far::qux"}}, {{}})}

\* Declared in the order of the names, or against it.
MCPrefixes ==
    {[row |-> r, folded |-> <<>>, pos |-> p] :
       r \in MCRows, p \in {MCNameRank, [t \in Targets |-> 5 - MCNameRank[t]]}}

Exports3(label, deps, libs) == [label : label, art : {None}, deps : deps, libs : libs]

MCHandMade ==
    {("b::core" :> c) @@ ("b::dep" :> d) @@ ("a::zed" :> z) :
       c \in Exports3({Old("b::core")}, SUBSET {Old("b::dep"), Old("a::zed")}, {{}, {"dep"}}),
       d \in Exports3({Old("b::dep")}, SUBSET {Label("b::core"), Old("a::zed")}, {{}, {"core"}}),
       z \in Exports3({Old("a::zed"), Old("b::core")}, SUBSET {Old("b::core"), Old("b::dep")}, {{}, {"dep"}})}

-----------------------------------------------------------------------------
(* stage-b: two elements.                                                  *)

MCElementRank == ("e1" :> 1) @@ ("e2" :> 2)

-----------------------------------------------------------------------------
(* finalize-b: x, and y that may depend on it.                             *)

Rule(n, k, tags, refs, uses) == [name |-> n, kind |-> k, tags |-> tags, refs |-> refs, uses |-> uses]
TraceBuild(pkg, needs) ==
    Rule("trace_build", "pipeline_install", {"trace_build"}, {<<n, "trace_build">> : n \in needs}, {})
InstallTree(pkg) == Rule("install", "filegroup", {}, {<<pkg, "trace_build">>}, {})

FinePackage(pkg, needs, links, consts) ==
    [rules |-> {Rule("lib", "cc", {}, {<<n, "lib">> : n \in links}, consts), Rule("trace", "trace_load", {}, {}, {}),
                TraceBuild(pkg, needs), InstallTree(pkg)},
     loads |-> {"cc", "trace_load", "pipeline_install"} \cup consts]
StubPackage(pkg, needs, tag) ==
    [rules |-> {Rule("lib", "cc", {tag}, {<<pkg, "pick">>}, {}), TraceBuild(pkg, needs),
                Rule("pick", "pick_file", {tag, "fallback-extract"}, {<<pkg, "trace_build">>}, {})},
     loads |-> {"cc", "pick_file", "pipeline_install"}]
\* A program, and a library of headers with or without any to pick.
HeaderPackage(pkg, needs, picks) ==
    LET tag == "execute-process-fallback" IN
    [rules |-> {Rule("lib", "cc", {tag}, {}, {}), TraceBuild(pkg, needs)}
               \cup (IF picks THEN {Rule("tool", "sh", {tag}, {<<pkg, "pick">>}, {}),
                                    Rule("pick", "pick_file", {tag, "fallback-extract"}, {<<pkg, "trace_build">>}, {})}
                     ELSE {}),
     loads |-> {"cc", "sh", "pick_file", "pipeline_install"}]
CoarsePackage(pkg, needs) ==
    [rules |-> {TraceBuild(pkg, needs), InstallTree(pkg)}, loads |-> {"pipeline_install"}]

PackagesOf(pkg, needs, links) ==
    {FinePackage(pkg, needs, links, c) : c \in {{}, {"COMMON_COPTS"}}}
    \cup {StubPackage(pkg, needs, t) : t \in {"target-fallback", "execute-process-fallback"}}
    \cup {HeaderPackage(pkg, needs, picks) : picks \in BOOLEAN}
    \cup {CoarsePackage(pkg, needs)}

\* y may link x's library where there is one.
MCProjects ==
    UNION {{[build |-> ("x" :> x) @@ ("y" :> y), rulesDep |-> TRUE] :
              x \in PackagesOf("x", {}, {}) \ (IF links = {} THEN {} ELSE {CoarsePackage("x", {})}),
              y \in PackagesOf("y", {}, links) \cup PackagesOf("y", {"x"}, links)} :
             links \in {{}, {"x"}}}

-----------------------------------------------------------------------------
(* fold-element: two platforms, two sources, one option.                   *)

MCFlagOf == ("opt_on" :> "opt")
MCFlags == <<"opt">>
MCLabelRank == ("arm" :> 1) @@ ("x86" :> 2) @@ ("linux" :> 3) @@ ("windows" :> 4)
MCPlatformRank == ("lin" :> 1) @@ ("win" :> 2)

Matrix(l, w, s, t) ==
    ("lin" :> [constraints |-> l, select |-> s]) @@ ("win" :> [constraints |-> w, select |-> t])

\* Told apart by their CPU or by their system only; by no constraint; by labels
\* of the operator's; and by one that clashes, or that the other one satisfies.
MCMatrices ==
    {Matrix({"linux", "x86"}, {"windows", "arm"}, Unset, Unset),
     Matrix({"linux", "x86"}, {"windows", "x86"}, Unset, Unset),
     Matrix({"linux", "x86"}, {"linux", "x86"}, Unset, Unset),
     Matrix({"linux", "x86"}, {"linux", "x86"}, "a", "b"),
     Matrix({"linux", "x86"}, {"windows", "x86"}, Unset, "linux"),
     Matrix({"linux", "x86"}, {"windows", "arm"}, "a", "linux")}

Places == {{}, {"flat"}, {"linux"}, {"windows"}, {"linux", "windows"}, {"default"}, {"linux", "default"}, {"opt_on"}}

Placed(place) ==
    [flat |-> {i \in DOMAIN place : "flat" \in place[i]},
     arms |-> [a \in {<<l>> : l \in (UNION {place[i] : i \in DOMAIN place}) \ {"flat"}} |->
                 {i \in DOMAIN place : a[1] \in place[i]}]]

SomeSrcs == {Placed(p) : p \in [{"i", "j"} -> Places]}
SomeCopts ==
    {[flat |-> f, arms |-> a] :
       f \in {<<>>, <<"O1">>, <<"O2", "O1">>},
       a \in {<<>>, <<"opt_on">> :> <<"O2">>, <<"opt_on">> :> <<"O3", "O1">>,
              <<"opt_on">> :> <<"O2">> @@ <<"default">> :> <<"O3">>}}

NoSrcs == [flat |-> {}, arms |-> <<>>]
NoCopts == [flat |-> <<>>, arms |-> <<>>]
CellsOf(someSrcs, someCopts, paths, shapes) == [srcs : someSrcs, copts : someCopts, path : paths, shape : shapes]

MCFoldInputs ==
    LET both(S) == {("lin" :> x) @@ ("win" :> y) : x, y \in S}
        cells == both(CellsOf(SomeSrcs, {NoCopts}, {Unset}, {1}))
                 \cup both(CellsOf({NoSrcs}, SomeCopts, {Unset}, {1}))
                 \cup both(CellsOf({NoSrcs}, {NoCopts}, {Unset, "lib"}, {1, 2}))
                 \cup {("win" :> y) : y \in CellsOf(SomeSrcs, SomeCopts, {Unset, "lib"}, {1})}
    IN {[platforms |-> m, cells |-> c] : m \in MCMatrices, c \in cells}

-----------------------------------------------------------------------------
(* Narrowing: a source at the root, one in a directory, and a pinned one.  *)

MCSourceFiles ==
    {<<"main", <<"conf.in">> >>, <<"main", <<"x.c">> >>, <<"lib", <<"y.h">> >>, <<"far", <<"z">> >>}
MCDirectory == ("main" :> <<>>) @@ ("lib" :> <<"lib">>) @@ ("far" :> <<"far">>)
MCCheckouts == {[f \in SourceFiles |-> "v1"]}
MCGlobs ==
    ("*.c" :> {<<"x.c">>}) @@ ("conf.in" :> {<<"conf.in">>})
    @@ ("**/*.h" :> {<<"y.h">>, <<"lib", "y.h">>}) @@ ("lib/**" :> {<<"lib", "y.h">>})
MCRuleSets ==
    {[include |-> {}, exclude |-> {"*.c"}],
     [include |-> {"conf.in", "lib/**"}, exclude |-> {}],
     [include |-> {"conf.in", "**/*.h"}, exclude |-> {"*.c"}]}

-----------------------------------------------------------------------------
(* convert-element-trace: builds of one make and of several.               *)

Compile(cwd, to, src, defines) ==
    [kind |-> "compile", cwd |-> cwd, out |-> to, srcs |-> {src}, objs |-> {}, libs |-> {}, uses |-> {},
     defines |-> defines, seen |-> TRUE]
Unseen(c) == [c EXCEPT !.seen = FALSE]
Ar(cwd, to, objs) ==
    [kind |-> "archive", cwd |-> cwd, out |-> to, srcs |-> {}, objs |-> objs, libs |-> {}, uses |-> {},
     defines |-> {}, seen |-> TRUE]
LinkOf(cwd, to, from, objs, libs, uses) ==
    [kind |-> "link", cwd |-> cwd, out |-> to, srcs |-> from, objs |-> objs, libs |-> libs, uses |-> uses,
     defines |-> {}, seen |-> TRUE]

MCLibraryName ==
    ("libA.a" :> "A") @@ ("libB.a" :> "B") @@ ("libz.a" :> "z") @@ ("libfoo.a" :> "foo") @@ ("libfoo_pic.a" :> "foo_pic")

\* One source and one object name in two directories, each with its archive.
SubdirMake(dir, lib, d) ==
    <<Compile(<<dir>>, <<"x.o">>, <<"x.c">>, {d}), Ar(<<dir>>, <<lib>>, {<<"x.o">>})>>
BothLibraries == {<<"A", "libA.a">>, <<"B", "libB.a">>}

MCTracedBuilds ==
    {\* Recursive make; automake's subdir-objects; a program that names another
     \* directory's object.
     <<SubdirMake("A", "libA.a", "d"), SubdirMake("B", "libB.a", "e"),
       <<Compile(<<>>, <<"m.o">>, <<"m.c">>, {}),
         LinkOf(<<>>, <<"app">>, {}, {<<"m.o">>}, {"A", "B", "z", "c"}, BothLibraries)>> >>,
     << <<Compile(<<>>, <<"A", "x.o">>, <<"A", "x.c">>, {"d"}), Compile(<<>>, <<"B", "x.o">>, <<"B", "x.c">>, {"e"}),
          Ar(<<>>, <<"libA.a">>, {<<"A", "x.o">>}), Ar(<<>>, <<"libB.a">>, {<<"B", "x.o">>})>> >>,
     <<SubdirMake("A", "libA.a", "d"), SubdirMake("B", "libB.a", "e"),
       <<LinkOf(<<"B">>, <<"app">>, {}, {<<"..", "A", "x.o">>}, {}, {})>>,
       <<LinkOf(<<>>, <<"tool">>, {}, {<<"A", "x.o">>}, {}, {})>> >>,
     \* A bundled archive that is not the one linked, or is linked by its path.
     <<SubdirMake("Z", "libz.a", "d"), <<LinkOf(<<>>, <<"app">>, {<<"m.c">>}, {}, {"z"}, {})>>,
       <<LinkOf(<<>>, <<"tool">>, {<<"t.c">>}, {}, {}, {<<"Z", "libz.a">>})>> >>,
     \* libtool compiles twice.
     << <<Compile(<<>>, <<"x.o">>, <<"x.c">>, {}), Ar(<<>>, <<"libfoo.a">>, {<<"x.o">>})>>,
        <<Compile(<<>>, <<".libs", "x.o">>, <<"x.c">>, {"PIC"}), Ar(<<>>, <<"libfoo_pic.a">>, {<<".libs", "x.o">>})>> >>,
     \* Compiled again for a second archive; an archive in two steps; a program
     \* beside its library; configure's tests.
     << <<Compile(<<>>, <<"x.o">>, <<"x.c">>, {}), Ar(<<>>, <<"libA.a">>, {<<"x.o">>}),
          Compile(<<>>, <<"x.o">>, <<"x.c">>, {"d"}), Ar(<<>>, <<"libB.a">>, {<<"x.o">>})>> >>,
     << <<Compile(<<>>, <<"x.o">>, <<"x.c">>, {}), Ar(<<>>, <<"libA.a">>, {<<"x.o">>}),
          Compile(<<>>, <<"y.o">>, <<"y.c">>, {}), Ar(<<>>, <<"libA.a">>, {<<"y.o">>})>> >>,
     << <<Compile(<<>>, <<"x.o">>, <<"x.c">>, {}), Ar(<<>>, <<"libfoo.a">>, {<<"x.o">>}),
          LinkOf(<<>>, <<"foo">>, {<<"m.c">>}, {}, {"foo"}, {<<"libfoo.a">>})>> >>,
     << <<LinkOf(<<>>, <<"conftest">>, {<<"conftest.c">>}, {}, {}, {}),
          LinkOf(<<>>, <<"conftest">>, {<<"conftest.c">>}, {}, {"c"}, {}),
          LinkOf(<<>>, <<"app">>, {<<"m.c">>}, {}, {}, {})>> >>,
     \* Compiled by a driver that is not known, with and without a namesake.
     << <<Unseen(Compile(<<>>, <<"x.o">>, <<"x.c">>, {})), Ar(<<>>, <<"libfoo.a">>, {<<"x.o">>}),
          LinkOf(<<>>, <<"app">>, {<<"m.c">>}, {}, {"foo"}, {<<"libfoo.a">>})>> >>,
     << <<Unseen(Compile(<<>>, <<"x.o">>, <<"x.c">>, {})), Ar(<<>>, <<"libfoo.a">>, {<<"x.o">>}),
          LinkOf(<<>>, <<"app">>, {<<"m.c">>}, {}, {"foo"}, {<<"libfoo.a">>})>>,
        SubdirMake("A", "libA.a", "d")>>}

-----------------------------------------------------------------------------
(* The package split: a tool, a library it is linked from, what it         *)
(* generates, and a library that uses that.                                *)

Lowered(kind, dir, incs, hdrs, from) ==
    [kind |-> kind, dir |-> dir, outs |-> <<>>, tools |-> {}, incs |-> incs, privIncs |-> {}, rootInclude |-> FALSE,
     hdrs |-> hdrs, srcs |-> from, arms |-> {}, deps |-> {}, order |-> {}, wants |-> {}, public |-> TRUE]
Generator(outs, tools, from) ==
    [Lowered("genrule", <<>>, {}, {}, from) EXCEPT !.outs = outs, !.tools = tools, !.public = FALSE]

\* The headers that lowering finds below a target's include directories.
Found(headers, incs) == {h \in headers : \E r \in incs : Under(r, h)}
SourceHeaders == {<<"include", "a.h">>, <<"include", "api", "b.h">>, <<"lib", "s.h">>, <<"gens", "y.h">>}

Include == <<"include">>
Api == <<"include", "api">>
Gens == <<"gens">>

\* Where a tool generates: one header, or with a source, in one package or two.
MCOutputs ==
    {<< <<"gens", "x.h">> >>, << <<"include", "api", "x.h">> >>, << <<"gens", "x.c">>, <<"gens", "x.h">> >>,
     << <<"lib", "x.c">>, <<"gens", "x.h">> >>}

Codegen(toolIncs, libIncs, private, useIncs, outs, root, given, wanted, arm) ==
    LET made     == {outs[i] : i \in DOMAIN outs}
        sources  == {o \in made : Compiled(o)}
        headers  == made \ sources
        atRoot   == IF root THEN {<<>>} ELSE {}
    IN ("tool" :> [Lowered("binary", <<>>, toolIncs, Found(SourceHeaders, toolIncs), {<<"main.c">>})
                     EXCEPT !.deps = {"support"}])
       @@ ("support" :> [Lowered("library", <<"lib">>, IF private THEN {} ELSE libIncs,
                                 Found(SourceHeaders, libIncs \cup atRoot), {<<"lib", "s.c">>})
                     EXCEPT !.privIncs = IF private THEN libIncs ELSE {}, !.rootInclude = root])
       @@ ("gen" :> Generator(outs, {"tool"}, {<<"in.x">>}))
       @@ ("user" :> [Lowered("library", <<"app">>, useIncs,
                              Found(SourceHeaders, useIncs \cup atRoot) \cup IF given THEN headers ELSE {},
                              {<<"app", "u.c">>} \cup IF arm THEN {} ELSE sources)
                     EXCEPT !.arms = IF arm THEN sources ELSE {}, !.rootInclude = root, !.deps = {"support"},
                            !.order = {"tool"}, !.wants = IF wanted THEN headers ELSE {}])

MCCodegen ==
    {Codegen(toolIncs, libIncs, private, useIncs, outs, root, given, wanted, arm) :
       toolIncs \in {{}, {Gens}, {<<>>}}, libIncs \in {{}, {Include}, {Include, Api}, {Gens}, {<<>>}}, private \in BOOLEAN,
       useIncs \in {{}, {Include}, {Gens}}, outs \in MCOutputs,
       root \in BOOLEAN, given \in BOOLEAN, wanted \in BOOLEAN, arm \in BOOLEAN}

\* A second tool is built from what the first one generates.
Bootstrap(first, second) ==
    ("min" :> Lowered("binary", <<>>, {}, {}, {<<"min.c">>}))
    @@ ("gen" :> Generator(<<first>>, {"min"}, {<<"in.x">>}))
    @@ ("tool" :> [Lowered("binary", <<"utils">>, {}, {}, {<<"utils", "t.c">>}) EXCEPT !.wants = {first}])
    @@ ("gen2" :> Generator(<<second>>, {"tool"}, {<<"in.x">>}))
    @@ ("user" :> [Lowered("library", <<"app">>, {}, {}, {<<"app", "u.c">>}) EXCEPT !.wants = {second}])
MCBootstraps ==
    {Bootstrap(f, s) : f \in {<<"utils", "f.h">>, <<"app", "f.h">>, <<"f.h">>}, s \in {<<"utils", "s.h">>, <<"app", "s.h">>}}
    \cup {("generated_includes" :> Lowered("library", <<"utils">>, {}, {}, {<<"utils", "g.c">>}))
          @@ Bootstrap(<<"utils", "f.h">>, <<"app", "s.h">>)}

\* The root as an include directory, with the headers in one package; and
\* generated sources among the headers below an include directory.
RootWalks ==
    {("glm" :> [Lowered("library", dir, incs, h, {<<"glm", "c.c">>}) EXCEPT !.rootInclude = TRUE])
     @@ ("user" :> [Lowered("binary", <<"app">>, {}, {}, {<<"app", "u.c">>}) EXCEPT !.deps = {"glm"}]) :
       dir \in {<<>>, <<"glm">>, <<"app">>}, incs \in {{}, {<<"glm">>}, {<<"glm", "ext">>}},
       h \in SUBSET {<<"glm", "v.h">>, <<"glm", "ext", "q.h">>}}
CompiledHeaders ==
    {("blas" :> Lowered("library", dir, {r}, {<<"lib", "x.c">>, <<"lib", "s.h">>}, {<<"lib", "x.c">>}))
     @@ ("gen" :> Generator(<< <<"lib", "x.c">> >>, {}, {<<"in.x">>})) :
       dir \in {<<>>, <<"lib">>, <<"app">>}, r \in {<<>>, <<"lib">>}}

\* A generated script that a generator runs, or that a target is built after; and
\* a program's name that is a file's in the program's directory.
Scripts ==
    {("script" :> Generator(<<s>>, {}, {<<"in.x">>}))
     @@ ("gen" :> Generator(<<o>>, tools, {<<"in.x">>}))
     @@ ("user" :> [Lowered("library", dir, incs, {}, {<<"app", "u.c">>}) EXCEPT !.order = after, !.wants = {o}]) :
       s \in {<<"s.py">>, <<"app", "s.py">>, <<"app", "user">>}, o \in {<<"x.h">>, <<"app", "x.h">>},
       tools \in SUBSET {"script"}, after \in SUBSET {"script"},
       dir \in {<<>>, <<"app">>, <<"lib">>}, incs \in SUBSET {<<"app">>}}

MCLowered == MCCodegen \cup MCBootstraps \cup RootWalks \cup CompiledHeaders \cup Scripts

MCNames ==
    {"main.c", "s.c", "u.c", "min.c", "t.c", "g.c", "c.c", "x.c", "in.x", "a.h", "b.h", "f.h", "q.h", "s.h", "v.h",
     "x.h", "y.h", "s.py", "include", "api", "lib", "gens", "app", "utils", "glm", "ext", "tool", "support", "gen",
     "gen2", "user", "min", "blas", "script", "generated_includes"}
=============================================================================
