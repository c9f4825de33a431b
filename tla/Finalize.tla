------------------------------ MODULE Finalize ------------------------------
(***************************************************************************)
(* cmd/finalize-b: a converged project B is copied, without the targets    *)
(* that only served the conversion, their load statements and, when no     *)
(* BUILD file mentions it any more, the bazel_dep on the rules package.    *)
(*                                                                         *)
(* A rule carries what finalize-b looks at (its kind, its tags, its name)  *)
(* and what Bazel needs of it (the labels it refers to, the constants it   *)
(* uses); every BUILD file parses.                                         *)
(***************************************************************************)

CONSTANTS
    Projects,     \* what project B may be, see ProjectsAssumption
    BundleNames,  \* install_tree.tar, cmake_config_bundle, pkg_config_bundle,
                  \* build_bazel and the package's own <elem>_install
    FromRules     \* the symbols @rules_buildstream_bazel defines

\* Bazel loads a project: every reference finds its target, what is called or
\* used is loaded, and the module it is loaded from is a dep.
Loads(p) ==
    \A pkg \in DOMAIN p.build :
      LET b == p.build[pkg] IN
      /\ \A r \in b.rules :
           /\ r.kind # "filegroup" => r.kind \in b.loads
           /\ r.uses \subseteq b.loads
           /\ \A l \in r.refs :
                l[1] \in DOMAIN p.build /\ \E t \in p.build[l[1]].rules : t.name = l[2]
      /\ b.loads \cap FromRules # {} => p.rulesDep

-----------------------------------------------------------------------------
(* One BUILD file *)

\* hasFineCC: a cc rule without the tag of a fallback stub.
HasFineCC(b) == \E r \in b.rules : r.kind = "cc" /\ "target-fallback" \notin r.tags

\* What only served the conversion.
Scaffolding(r) ==
    \/ r.kind \in {"trace_load", "zero_files"}
    \/ "trace_build" \in r.tags
    \/ r.kind = "filegroup" /\ r.name \in BundleNames
    \/ "fallback-extract" \in r.tags

\* Of the names a load imports those that some rule calls are kept.
PruneUnusedLoads(rules, loads) == loads \cap {r.kind : r \in rules}

Strip(b) ==
    LET kept == {r \in b.rules : ~Scaffolding(r)}
    IN [rules |-> kept, loads |-> PruneUnusedLoads(kept, b.loads)]

\* Fault: a stub is taken for a target that was recovered.
CleanupStubs(b) == IF \E r \in b.rules : r.kind = "cc" THEN Strip(b) ELSE b

CleanupBuild(b) == IF HasFineCC(b) THEN Strip(b) ELSE b

\* The code looks for the text "@rules_buildstream_bazel//".  What is rendered
\* has it in load statements only, and a load without names is pruned.
MentionsRulesPackage(b) == b.loads \cap FromRules # {}

-----------------------------------------------------------------------------
(* What project B may be *)

\* A stub that lowering emits for a kind:cmake element, of something installed:
\* it carries a tag that finalize-b does not know, and refers to files picked
\* from the install tree.
CmakeStub(r) ==
    /\ "execute-process-fallback" \in r.tags
    /\ ~Scaffolding(r)
    /\ r.refs # {}

\* The templates and the converters: an element is converted as a whole or is
\* stubs as a whole, and what is converted refers to the rules of other
\* converted elements, never to what they were converted with.
Rendered(p) ==
    \A pkg \in DOMAIN p.build :
      LET b == p.build[pkg] IN
      /\ \A r, t \in b.rules : r.name = t.name => r = t
      /\ \A r \in b.rules :
           /\ r.kind = "cc" => ~Scaffolding(r)
           /\ \A t \in b.rules : t.kind \notin r.uses
           /\ CmakeStub(r) => \E l \in r.refs, t \in b.rules :
                l = <<pkg, t.name>> /\ "fallback-extract" \in t.tags
           /\ HasFineCC(b) /\ ~Scaffolding(r) /\ ~CmakeStub(r) =>
                \A l \in r.refs : HasFineCC(p.build[l[1]]) =>
                  \A t \in p.build[l[1]].rules : t.name = l[2] => ~Scaffolding(t)

ASSUME ProjectsAssumption == \A p \in Projects : Loads(p) /\ Rendered(p)

VARIABLES
    project,  \* --in, never modified
    out,      \* --out: the BUILD files written so far
    outDep,   \* whether its MODULE.bazel has the dep; unwritten before "done"
    plan,     \* rulesPackageStillUsed
    finishing \* "plan", "write", "done" or "failed"

finalizeVars == <<project, out, outDep, plan, finishing>>

FinalizeInit ==
    /\ project \in Projects
    /\ out = <<>>
    /\ outDep = TRUE
    /\ plan = FALSE
    /\ finishing = "plan"

-----------------------------------------------------------------------------
(* The two passes *)

ComputeCleanupPlan ==
    /\ finishing = "plan"
    /\ plan' = \E pkg \in DOMAIN project.build : MentionsRulesPackage(CleanupBuild(project.build[pkg]))
    /\ finishing' = "write"
    /\ UNCHANGED <<project, out, outDep>>

\* The walk copies one file after the other.
WriteBuild(pkg) ==
    /\ finishing = "write"
    /\ pkg \notin DOMAIN out
    /\ out' = [q \in DOMAIN out \cup {pkg} |->
                 IF q = pkg THEN CleanupBuild(project.build[pkg]) ELSE out[q]]
    /\ UNCHANGED <<project, outDep, plan, finishing>>

\* cleanupModule
WriteModule ==
    /\ finishing = "write"
    /\ DOMAIN out = DOMAIN project.build
    /\ outDep' = (plan /\ project.rulesDep)
    /\ finishing' = "done"
    /\ UNCHANGED <<project, out, plan>>

\* A read or write fails: --out stays as it is, and no later run takes it up.
BreakOff ==
    /\ finishing \in {"plan", "write"}
    /\ finishing' = "failed"
    /\ UNCHANGED <<project, out, outDep, plan>>

FinalizeNext ==
    \/ ComputeCleanupPlan
    \/ \E pkg \in DOMAIN project.build : WriteBuild(pkg)
    \/ WriteModule
    \/ BreakOff

FinalizeSpec == FinalizeInit /\ [][FinalizeNext]_finalizeVars

-----------------------------------------------------------------------------
(* Properties *)

Delivered == [build |-> out, rulesDep |-> outDep]

\* What has to be so for the project to load once it is stripped: no element
\* was taken for converged that is made of kind:cmake stubs
\* (execute_process_fallback.go:141), nothing a converged BUILD file keeps uses
\* a loaded constant, and no rule of an unconverged element refers to the
\* scaffolding of a converged one.
SafeToStrip(p) ==
    \A pkg \in DOMAIN p.build :
      LET b == p.build[pkg] IN
      IF HasFineCC(b)
      THEN \A r \in b.rules : ~CmakeStub(r) /\ (~Scaffolding(r) => r.uses = {})
      ELSE \A r \in b.rules : \A l \in r.refs :
             HasFineCC(p.build[l[1]]) =>
               \A t \in p.build[l[1]].rules : t.name = l[2] => ~Scaffolding(t)

\* The delivered project loads exactly when it was safe to strip.  It keeps the
\* dep on the rules package as long as a BUILD file loads from it and no longer,
\* and finalizing it again changes nothing.
DeliveryLoads ==
    finishing = "done" =>
      /\ Loads(Delivered) <=> SafeToStrip(project)
      /\ outDep <=> \E pkg \in DOMAIN out : MentionsRulesPackage(out[pkg])
      /\ \A pkg \in DOMAIN out : CleanupBuild(out[pkg]) = out[pkg]
=============================================================================
