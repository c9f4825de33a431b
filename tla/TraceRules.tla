----------------------------- MODULE TraceRules -----------------------------
(***************************************************************************)
(* cmd/convert-element-trace: from the lines of a traced build to          *)
(* cc_library and cc_binary rules.  The build is several makes at once,    *)
(* each in a directory of its own, whose commands interleave in the trace; *)
(* the converter looks objects up by name among all compiles of the trace, *)
(* whenever they were made.                                                *)
(*                                                                         *)
(* A path is a sequence of names, relative to the source root or, as a     *)
(* command spells it, to the command's directory; it may begin with "..".  *)
(***************************************************************************)
EXTENDS Naturals, Sequences

CONSTANTS
    TracedBuilds, \* the builds traced: for each make, its commands in order
    LibraryName,  \* stripLibPrefixSuffix of the names of archives
    LinkImports,  \* the -l names of other elements' exports
    NotYet

Base(path) == path[Len(path)]

\* The file a command means.
Resolve(cwd, path) ==
    IF path[1] = ".." THEN SubSeq(cwd, 1, Len(cwd) - 1) \o Tail(path) ELSE cwd \o path

\* A path of names, but for one step up at its beginning.
IsPath(p) ==
    /\ p \in Seq(STRING) /\ Len(p) > 0
    /\ \A k \in 1..Len(p) : p[k] = ".." => k = 1 /\ Len(p) > 1

\* classifyArgv: what is taken for an event, with the files it must name.
IsEvent(c) ==
    \/ c.kind = "compile" /\ c.srcs # {} /\ c.objs = {}
    \/ c.kind = "archive" /\ c.objs # {} /\ c.srcs = {} /\ c.libs = {}
    \/ c.kind = "link" /\ (c.srcs # {} \/ c.objs # {})

IsCommand(c) ==
    /\ c.cwd \in Seq(STRING) /\ \A k \in 1..Len(c.cwd) : c.cwd[k] # ".."
    /\ IsPath(c.out) /\ \A o \in c.objs : IsPath(o)
    /\ c.seen => IsEvent(c)

ASSUME TracedBuildsAssumption ==
    \A build \in TracedBuilds : \A m \in DOMAIN build :
      Len(build[m]) \in Nat /\ \A n \in 1..Len(build[m]) : IsCommand(build[m][n])

VARIABLES
    makes,     \* the build
    at,        \* how many commands each of its makes has run
    ran,       \* the commands run: the lines of the trace
    cwdKnown,  \* written by the native backend, with cwd annotations
    disk,      \* history: which commands have compiled what is in each product
    recovered  \* the rules, by the command they come from; NotYet

traceRulesVars == <<makes, at, ran, cwdKnown, disk, recovered>>

TraceRulesInit ==
    /\ makes \in TracedBuilds
    /\ at = [m \in DOMAIN makes |-> 0]
    /\ ran = <<>>
    /\ cwdKnown \in BOOLEAN
    /\ disk = <<>>
    /\ recovered = NotYet

-----------------------------------------------------------------------------
(* The build *)

Product(c) == Resolve(c.cwd, c.out)
Inputs(c) == {Resolve(c.cwd, o) : o \in c.objs} \cup c.uses

\* What is compiled into a command's product; ar replaces members by name.
Content(c) ==
    LET from == UNION {disk[p] : p \in {Resolve(c.cwd, o) : o \in c.objs}}
        old  == IF c.kind = "archive" /\ Product(c) \in DOMAIN disk
                THEN {i \in disk[Product(c)] : Base(ran[i].out) \notin {Base(o) : o \in c.objs}}
                ELSE {}
    IN from \cup old \cup IF c.kind = "archive" THEN {} ELSE {Len(ran) + 1}

\* A make runs its next command when what it reads is there.
RunCommand(m) ==
    /\ recovered = NotYet /\ at[m] < Len(makes[m])
    /\ LET c == makes[m][at[m] + 1] IN
         /\ Inputs(c) \subseteq DOMAIN disk
         /\ ran' = Append(ran, c)
         /\ disk' = [p \in DOMAIN disk \cup {Product(c)} |->
                       IF p = Product(c) THEN Content(c) ELSE disk[p]]
    /\ at' = [at EXCEPT ![m] = @ + 1]
    /\ UNCHANGED <<makes, cwdKnown, recovered>>

-----------------------------------------------------------------------------
(* The converter *)

\* classifyArgv: compiles and links by a known driver with an -o, neither of a
\* shared library nor of libtool's own files, and archives with objects.
Events(kinds) ==
    {i \in DOMAIN ran : ran[i].kind \in kinds /\ ran[i].seen}

Compiles == Events({"compile"})
Artifacts == Events({"archive", "link"})

\* A map holds the last event written under a key.
Latest(S) == {i \in S : \A k \in S : k <= i}

\* Fault: paths before directories.
LookupByPath(cwd, obj) ==
    LET byCwd  == {i \in Compiles : cwdKnown /\ ran[i].cwd \o ran[i].out = cwd \o obj}
        byPath == {i \in Compiles : ran[i].out = obj}
        byBase == {i \in Compiles : Base(ran[i].out) = Base(obj)}
    IN Latest(IF byPath # {} THEN byPath ELSE IF byCwd # {} THEN byCwd ELSE byBase)

\* lookupCompile: by directory and path when the trace has directories, by
\* path, by name.  The key joins the two and normalises nothing.
LookupCompile(cwd, obj) ==
    LET byCwd  == {i \in Compiles : cwdKnown /\ ran[i].cwd \o ran[i].out = cwd \o obj}
        byPath == {i \in Compiles : ran[i].out = obj}
        byBase == {i \in Compiles : Base(ran[i].out) = Base(obj)}
    IN Latest(IF byCwd # {} THEN byCwd ELSE IF byPath # {} THEN byPath ELSE byBase)

NameOf(i) == IF ran[i].kind = "archive" THEN LibraryName[Base(ran[i].out)] ELSE Base(ran[i].out)

\* libByBaseName
Archived(n) == \E i \in Events({"archive"}) : NameOf(i) = n

\* -l names: first the build's own archives, then the imports manifest; others
\* are the toolchain's.
DepsOfLink(libs) ==
    {<<"local", n>> : n \in {l \in libs : Archived(l)}}
    \cup {<<"import", n>> : n \in {l \in libs \cap LinkImports : ~Archived(l)}}

\* One archive or link of buildRules; a link's own sources and defines count.
RuleFrom(i) ==
    LET from == (UNION {LookupCompile(ran[i].cwd, o) : o \in ran[i].objs})
                \cup IF ran[i].kind = "link" THEN {i} ELSE {}
    IN [kind    |-> IF ran[i].kind = "archive" THEN "cc_library" ELSE "cc_binary",
        name    |-> NameOf(i),
        srcs    |-> UNION {ran[k].srcs : k \in from},
        defines |-> UNION {ran[k].defines : k \in from},
        deps    |-> DepsOfLink(ran[i].libs)]

\* Fault: a rule for whatever the build has made.
BuildAllRules == [i \in Artifacts |-> RuleFrom(i)]

\* buildRules: nothing without sources becomes a rule.
BuildRules == [i \in {a \in Artifacts : RuleFrom(a).srcs # {}} |-> RuleFrom(i)]

\* parseTrace, correlate, buildRules.
ConvertTrace ==
    /\ recovered = NotYet
    /\ \A m \in DOMAIN makes : at[m] = Len(makes[m])
    /\ recovered' = BuildRules
    /\ UNCHANGED <<makes, at, ran, cwdKnown, disk>>

TraceRulesNext == ConvertTrace \/ \E m \in DOMAIN makes : RunCommand(m)

TraceRulesSpec == TraceRulesInit /\ [][TraceRulesNext]_traceRulesVars

-----------------------------------------------------------------------------
(* Properties *)

\* Only one command has written the file.
OnlyBy(i, p) == {h \in DOMAIN ran : Product(ran[h]) = p} = {i}

\* An object is told apart: one compile made it, which the trace shows, and
\* either both commands name it alike with their directories, or no other
\* compile is of that path or, failing that, of that name.
ToldApart(i, o) ==
    \E k \in Compiles :
      /\ OnlyBy(k, Resolve(ran[i].cwd, o))
      /\ \/ cwdKnown /\ ran[k].cwd \o ran[k].out = ran[i].cwd \o o
         \/ ran[k].out = o /\ \A h \in Compiles \ {k} : ran[h].out # o
         \/ \A h \in Compiles \ {k} : Base(ran[h].out) # Base(o)

\* A link names each archive it takes by -l, and by no -l another library that
\* shares its name with an archive.
LinkedByName(i) == {n \in ran[i].libs : Archived(n)} = {LibraryName[Base(u)] : u \in ran[i].uses}

\* Whatever makes ran at once and in whatever order their lines came, a product
\* all of whose objects are told apart, and which was written once, becomes the
\* rule with the sources, defines and libraries it was built from.
RecoveredAsBuilt ==
    recovered # NotYet =>
      \A i \in Artifacts :
        LET made == disk[Product(ran[i])] IN
        /\ \A o \in ran[i].objs : ToldApart(i, o)
        /\ OnlyBy(i, Product(ran[i])) /\ LinkedByName(i)
        => /\ i \in DOMAIN recovered
           /\ recovered[i].srcs = UNION {ran[k].srcs : k \in made}
           /\ recovered[i].defines = UNION {ran[k].defines : k \in made}
           /\ {d \in recovered[i].deps : d[1] = "local"} =
                {<<"local", LibraryName[Base(u)]>> : u \in ran[i].uses}

\* Bazel loads the package: names are unique and deps are libraries.
PackageOfRulesLoads ==
    /\ \A i, j \in DOMAIN recovered : recovered[i].name = recovered[j].name => i = j
    /\ \A i \in DOMAIN recovered : \A d \in recovered[i].deps : d[1] = "local" =>
         \E j \in DOMAIN recovered : recovered[j].kind = "cc_library" /\ recovered[j].name = d[2]

\* Some source of a product shows in the trace, by its name at least.
Shows(i) == ran[i].srcs # {} \/ \E o \in ran[i].objs, k \in Compiles : Base(ran[k].out) = Base(o)

\* The rules load in Bazel exactly when no name was built twice (an archive in
\* two steps, a program beside its library, configure's conftest) and of each
\* archive that is linked by -l some source shows in the trace.
RulesLoad ==
    recovered # NotYet =>
      (PackageOfRulesLoads <=>
         /\ \A i, j \in {a \in Artifacts : Shows(a)} : NameOf(i) = NameOf(j) => i = j
         /\ \A i \in Events({"link"}) : Shows(i) =>
              \A n \in {l \in ran[i].libs : Archived(l)} :
                \E a \in Events({"archive"}) : NameOf(a) = n /\ Shows(a))
=============================================================================
