----------------------------- MODULE BuildTracer -----------------------------
(***************************************************************************)
(* cmd/build-tracer's native backend: one thread that waits for any stop   *)
(* of any process below the traced build, keeps a pidState per process,    *)
(* writes a line for each execve and read that succeeded, and resumes the  *)
(* process.  The kernel's side is modelled from what ptrace promises with  *)
(* the options runNative sets: which stops there are, in which order one   *)
(* process makes them, and that different processes' stops come in any.    *)
(***************************************************************************)
EXTENDS Naturals, Sequences, FiniteSets

CONSTANTS
    Pids,      \* process and thread ids; one that is free again may be reused
    Root,      \* the build command's pid
    ExitCodes, \* what a process of the build may exit with
    Paths,     \* what is executed and read
    None,      \* no path, no open
    Unknown,   \* no entry in a map
    Writes,    \* whether the build opens files for reading, writing or both
    CaptureReads,  \* --source-root was given
    Threads,   \* the build has processes with several threads
    MaxLines   \* bound: the lines a trace may come to have

ASSUME TracerAssumption ==
    /\ Root \in Pids
    /\ Writes \subseteq BOOLEAN
    /\ CaptureReads \in BOOLEAN
    /\ Threads \in BOOLEAN
    /\ MaxLines \in Nat

VARIABLES
    proc,      \* the kernel's view of every pid
    states,    \* the tracer's `states` map; Unknown is no entry
    trace,     \* the lines written
    tracer,    \* "loop", or "done" when runNative has returned
    rootExit,  \* what it returns
    returned,  \* history: the calls to be traced, as they returned to a program
    orphans,   \* history: living children that neither a fork event nor a stop
               \* of their own will have or has made known to the tracer
    takeovers, \* history: an execve was made by a thread that is not the leader
    rootStatus \* history: how the root process died

kernel == <<proc, returned, orphans, takeovers, rootStatus>>
vars == <<states, trace, tracer, rootExit, kernel>>

Call == [op : {"fork", "other"}] \cup [op : {"execve"}, path : Paths]
        \cup [op : {"openat"}, path : Paths, write : Writes]
NoCall == [op |-> "other"]
Statuses == ExitCodes \cup {"0", "killed"}
Line == [pid : Pids, op : {"execve", "openat"}, path : Paths]

\* Where a process is: running ("user", or "in" a system call), stopped and
\* waited for ("new" is a child's initial SIGSTOP, "signal" the group-stop that
\* injecting it leads to, or any signal that does not kill), or a zombie.
Stops == {"new", "signal", "fatal", "enter", "exit", "forked", "execed"}
Gone == {"none", "dead"}

\* `ret` is the sign of rax at an exit stop, `child` the message of a fork
\* event, `leader` the thread group.
Proc == [st : Stops \cup Gone \cup {"user", "in"}, call : Call, leader : Pids,
         ret : {"zero", "positive", "error"}, child : Pids, status : Statuses]

Opened == [path : Paths, write : Writes]
PidState == [atEnter : BOOLEAN, execPath : Paths \cup {None}, open : Opened \cup {None}]

ASSUME MarksAssumption == None \notin Paths \cup Opened /\ Unknown \notin PidState

Fresh == [atEnter |-> TRUE, execPath |-> None, open |-> None]

TypeOK ==
    /\ proc \in [Pids -> Proc]
    /\ states \in [Pids -> PidState \cup {Unknown}]
    /\ trace \in Seq(Line)
    /\ tracer \in {"loop", "done"}
    /\ rootExit \in Statuses
    /\ returned \in Seq(Line)
    /\ orphans \subseteq Pids
    /\ takeovers \in BOOLEAN
    /\ rootStatus \in Statuses

Process(st, leader, call, ret, child) ==
    [st |-> st, call |-> call, leader |-> leader, ret |-> ret, child |-> child, status |-> "0"]
Born(st, leader) == Process(st, leader, NoCall, "zero", Root)

\* The root stopped after its first execve, whose line runNative wrote itself,
\* and was resumed with the options set.
Init ==
    /\ proc = [p \in Pids |-> Born(IF p = Root THEN "user" ELSE "none", p)]
    /\ states = [p \in Pids |-> IF p = Root THEN Fresh ELSE Unknown]
    /\ \E path \in Paths :
          /\ trace = <<[pid |-> Root, op |-> "execve", path |-> path]>>
          /\ returned = trace
    /\ tracer = "loop"
    /\ rootExit = "0"
    /\ orphans = {}
    /\ takeovers = FALSE
    /\ rootStatus = "0"

-----------------------------------------------------------------------------
(* the build's processes and the kernel *)

Move(p, st) == proc' = [proc EXCEPT ![p].st = st]

\* A call that leads to a line if it succeeds.
Traced(c) == c.op = "execve" \/ (CaptureReads /\ c.op = "openat" /\ ~c.write)

\* A bound: after a takeover the build does no more than come to its end.
Enter(p, c) ==
    /\ proc[p].st = "user"
    /\ takeovers => c = NoCall
    /\ Traced(c) => Len(returned) + Cardinality({q \in Pids : Traced(proc[q].call)}) < MaxLines
    /\ proc' = [proc EXCEPT ![p] = Process("enter", @.leader, c, "error", Root)]
    /\ UNCHANGED <<states, trace, tracer, rootExit, returned, orphans, takeovers, rootStatus>>

\* A call other than a successful fork or execve runs to its exit stop.  What
\* calls that are not traced return is of no account.
Leave(p, ret) ==
    /\ proc[p].st = "in"
    /\ ret \in CASE proc[p].call.op = "openat" -> {"positive", "error"}
                 [] proc[p].call.op = "other" -> {"zero"}
                 [] proc[p].call.op \in {"execve", "fork"} -> {"error"}
    /\ proc' = [proc EXCEPT ![p] = Process("exit", @.leader, @.call, ret, Root)]
    /\ UNCHANGED <<states, trace, tracer, rootExit, returned, orphans, takeovers, rootStatus>>

\* fork, vfork or clone: the child runs to its own first stop at once, with the
\* parent on its way to the event stop.  The root's pid is not handed out again.
Fork(p, c, leader) ==
    /\ proc[p].st = "in" /\ proc[p].call.op = "fork"
    /\ proc[c].st = "none" /\ c # Root
    /\ leader \in {c} \cup (IF Threads THEN {proc[p].leader} ELSE {})
    /\ proc' = [proc EXCEPT ![p] = Process("forked", @.leader, @.call, "positive", c),
                            ![c] = Born("new", leader)]
    /\ UNCHANGED <<states, trace, tracer, rootExit, returned, orphans, takeovers, rootStatus>>

Exec(p) ==
    /\ proc[p].st = "in" /\ proc[p].call.op = "execve"
    /\ proc[p].leader = p
    /\ proc' = [proc EXCEPT ![p] = Process("execed", p, @.call, "zero", Root)]
    /\ UNCHANGED <<states, trace, tracer, rootExit, returned, orphans, takeovers, rootStatus>>

\* A child that only its parent's pending event stop would announce.
Unannounced(p) ==
    {c \in Pids : proc[p].st = "forked" /\ proc[p].child = c /\ proc[c].st = "new"}

\* Any other thread's execve ends its leader, takes over the leader's pid and
\* gives up its own, of which no stop and no death is reported any more.
ThreadExec(t) ==
    LET l == proc[t].leader IN
    /\ proc[t].st = "in" /\ proc[t].call.op = "execve"
    /\ l # t /\ proc[l].st # "none"
    /\ proc' = [proc EXCEPT ![l] = Process("execed", l, proc[t].call, "zero", Root),
                            ![t] = Born("none", t)]
    /\ orphans' = (orphans \cup Unannounced(l)) \ {t}
    /\ takeovers' = TRUE
    /\ UNCHANGED <<states, trace, tracer, rootExit, returned, rootStatus>>

Die(p, status) ==
    /\ proc' = [proc EXCEPT ![p] = [Born("dead", @.leader) EXCEPT !.status = status]]
    /\ orphans' = (orphans \cup Unannounced(p)) \ {p}
    /\ rootStatus' = IF p = Root THEN status ELSE rootStatus

Exit(p, status) ==
    /\ proc[p].st = "in" /\ proc[p].call.op = "other"
    /\ Die(p, status)
    /\ UNCHANGED <<states, trace, tracer, rootExit, returned, takeovers>>

Signal(p, sig) ==
    /\ proc[p].st = "user"
    /\ Move(p, sig)
    /\ UNCHANGED <<states, trace, tracer, rootExit, returned, orphans, takeovers, rootStatus>>

\* SIGKILL, or the end of a thread whose group exits: it waits for nobody.
Kill(p) ==
    /\ proc[p].st \notin Gone
    /\ Die(p, "killed")
    /\ UNCHANGED <<states, trace, tracer, rootExit, returned, takeovers>>

-----------------------------------------------------------------------------
(* runNative's loop: one action is one iteration *)

InLoop == tracer = "loop" /\ \E p \in Pids : states[p] # Unknown

\* `states[pid]`, registered if the process surfaces before its parent's event.
StateOf(p) == IF states[p] = Unknown THEN Fresh ELSE states[p]

\* PTRACE_SYSCALL: where the process goes, given the signal it was stopped by
\* is injected.
ResumesAs == {<<"new", "signal">>, <<"signal", "user">>, <<"enter", "in">>,
              <<"forked", "exit">>, <<"execed", "exit">>}

\* The call that is over when a process is resumed from an exit stop.
Succeeded(p) == IF proc[p].call.op = "execve" THEN proc[p].ret = "zero" ELSE proc[p].ret # "error"
LineOf(p) == [pid |-> p, op |-> proc[p].call.op, path |-> proc[p].call.path]

PtraceSyscall(p) ==
    /\ \/ /\ proc[p].st = "fatal"
          /\ Die(p, "killed")
       \/ /\ proc[p].st = "exit"
          /\ proc' = [proc EXCEPT ![p] = Born("user", @.leader)]
          /\ UNCHANGED <<orphans, rootStatus>>
       \/ /\ \E next \in ResumesAs : proc[p].st = next[1] /\ Move(p, next[2])
          /\ orphans' = orphans \ ({p} \cup Unannounced(p))
          /\ UNCHANGED rootStatus
    /\ returned' = IF proc[p].st = "exit" /\ Traced(proc[p].call) /\ Succeeded(p)
                   THEN Append(returned, LineOf(p)) ELSE returned
    /\ UNCHANGED <<takeovers, tracer, rootExit>>

InStop(p, sts) == InLoop /\ proc[p].st \in sts

\* Fault: the last process to die sets the exit status.
ReapAny(p) ==
    /\ InLoop
    /\ proc[p].st = "dead"
    /\ \A t \in Pids \ {p} : proc[t].leader = p => proc[t].st = "none"
    /\ proc' = [proc EXCEPT ![p] = Born("none", p)]
    /\ states' = [states EXCEPT ![p] = Unknown]
    /\ rootExit' = proc[p].status
    /\ UNCHANGED <<trace, tracer, returned, orphans, takeovers, rootStatus>>

\* Wait4 says Exited or Signaled: the entry goes.  A leader's death is reported
\* after that of its other threads.
Reap(p) ==
    /\ InLoop
    /\ proc[p].st = "dead"
    /\ \A t \in Pids \ {p} : proc[t].leader = p => proc[t].st = "none"
    /\ proc' = [proc EXCEPT ![p] = Born("none", p)]
    /\ states' = [states EXCEPT ![p] = Unknown]
    /\ rootExit' = IF p = Root THEN proc[p].status ELSE rootExit
    /\ UNCHANGED <<trace, tracer, returned, orphans, takeovers, rootStatus>>

\* What handleSyscallStop reads of the call at what it takes for an enter stop.
\* After a successful execve the registers hold no argument of it any more.
Captured(p) ==
    LET c == proc[p].call
        cleared == proc[p].ret = "zero"
    IN [atEnter |-> FALSE,
        execPath |-> IF c.op # "execve" THEN StateOf(p).execPath
                     ELSE IF cleared THEN None ELSE c.path,
        open |-> IF c.op = "openat" /\ CaptureReads
                 THEN [path |-> c.path, write |-> c.write] ELSE StateOf(p).open]

SyscallEnter(p) ==
    /\ InStop(p, {"enter", "exit"})
    /\ StateOf(p).atEnter
    /\ states' = [states EXCEPT ![p] = Captured(p)]
    /\ PtraceSyscall(p)
    /\ UNCHANGED trace

\* Fault: it is not checked that an execve was captured.
EmittedUnchecked(p) ==
    LET st == StateOf(p) IN
    IF proc[p].ret = "zero"
    THEN <<[pid |-> p, op |-> "execve", path |-> st.execPath]>> ELSE <<>>

\* The lines that what it takes for an exit stop gives, judging by rax.
Emitted(p) ==
    LET st == StateOf(p) IN
    (IF st.execPath # None /\ proc[p].ret = "zero"
     THEN <<[pid |-> p, op |-> "execve", path |-> st.execPath]>> ELSE <<>>)
    \o (IF st.open # None /\ proc[p].ret # "error" /\ ~st.open.write
        THEN <<[pid |-> p, op |-> "openat", path |-> st.open.path]>> ELSE <<>>)

\* Fault: what was captured is kept after it was written.
SyscallExitKeeping(p) ==
    /\ InStop(p, {"enter", "exit"})
    /\ ~StateOf(p).atEnter
    /\ trace' = trace \o Emitted(p)
    /\ states' = [states EXCEPT ![p] = [StateOf(p) EXCEPT !.atEnter = TRUE]]
    /\ PtraceSyscall(p)

SyscallExit(p) ==
    /\ InStop(p, {"enter", "exit"})
    /\ ~StateOf(p).atEnter
    /\ trace' = trace \o Emitted(p)
    /\ states' = [states EXCEPT ![p] = Fresh]
    /\ PtraceSyscall(p)

\* Fault: the child is registered anew though it surfaced already.
ForkEventAnew(p) ==
    /\ InStop(p, {"forked"})
    /\ states' = [states EXCEPT ![p] = StateOf(p), ![proc[p].child] = Fresh]
    /\ PtraceSyscall(p)
    /\ UNCHANGED trace

\* Fault: the child is registered only when it surfaces.
ForkEventIgnored(p) ==
    /\ InStop(p, {"forked"})
    /\ states' = [states EXCEPT ![p] = StateOf(p)]
    /\ PtraceSyscall(p)
    /\ UNCHANGED trace

\* PTRACE_EVENT_FORK, VFORK, CLONE: the child is registered unless it surfaced
\* already.
ForkEvent(p) ==
    /\ InStop(p, {"forked"})
    /\ LET c == proc[p].child IN
       states' = [states EXCEPT ![p] = StateOf(p),
                                ![c] = IF @ = Unknown THEN Fresh ELSE @]
    /\ PtraceSyscall(p)
    /\ UNCHANGED trace

\* PTRACE_EVENT_EXEC, and every signal: nothing but the registration.
OtherStop(p) ==
    /\ InStop(p, {"execed", "new", "signal", "fatal"})
    /\ states' = [states EXCEPT ![p] = StateOf(p)]
    /\ PtraceSyscall(p)
    /\ UNCHANGED trace

\* The process is killed after Wait4 reported its stop: PtraceGetRegs fails and
\* atEnter is toggled, PtraceGetEventMsg fails and no child is registered.
StopVanishes(p) ==
    /\ InStop(p, Stops)
    /\ LET syscall == proc[p].st \in {"enter", "exit"} IN
       states' = [states EXCEPT ![p] =
                    [StateOf(p) EXCEPT !.atEnter = IF syscall THEN ~@ ELSE @]]
    /\ Die(p, "killed")
    /\ UNCHANGED <<trace, tracer, rootExit, returned, takeovers>>

\* The loop ends when the map is empty, or by ECHILD when no process is left.
Return ==
    /\ tracer = "loop"
    /\ \/ \A p \in Pids : states[p] = Unknown
       \/ \A p \in Pids : proc[p].st = "none"
    /\ tracer' = "done"
    /\ UNCHANGED <<states, trace, rootExit, kernel>>

-----------------------------------------------------------------------------

Build ==
    \E p \in Pids :
        \/ \E c \in Call : Enter(p, c)
        \/ \E ret \in {"zero", "positive", "error"} : Leave(p, ret)
        \/ \E c, leader \in Pids : Fork(p, c, leader)
        \/ Exec(p)
        \/ ThreadExec(p)
        \/ \E status \in ExitCodes : Exit(p, status)
        \/ \E sig \in {"signal", "fatal"} : Signal(p, sig)
        \/ Kill(p)

Tracer ==
    \/ \E p \in Pids :
          \/ Reap(p)
          \/ SyscallEnter(p)
          \/ SyscallExit(p)
          \/ ForkEvent(p)
          \/ OtherStop(p)
          \/ StopVanishes(p)
    \/ Return

\* When runNative has returned its process exits, which detaches what is left:
\* the only end of the behaviours.
Returned == tracer = "done" /\ UNCHANGED vars

Next == (tracer = "loop" /\ (Build \/ Tracer)) \/ Returned

Spec == Init /\ [][Next]_vars

-----------------------------------------------------------------------------
(* Safety *)

\* The entry a process should have: "enter" exactly outside a system call, and
\* the arguments of the call it is in.
InCall(p) == proc[p].st \in {"in", "exit", "forked", "execed"}
Expected(p) ==
    LET c == proc[p].call IN
    [atEnter |-> ~InCall(p),
     execPath |-> IF InCall(p) /\ c.op = "execve" THEN c.path ELSE None,
     open |-> IF InCall(p) /\ c.op = "openat" /\ CaptureReads
              THEN [path |-> c.path, write |-> c.write] ELSE None]

\* The enter/exit toggle and the captured arguments agree with the process for
\* every live process, and no entry of an earlier one waits for the next to get
\* its pid, however processes' first stops, parents' fork events, deaths and
\* reused pids interleave.
InSync == ~takeovers => \A p \in Pids : proc[p].st # "dead" => StateOf(p) = Expected(p)

\* The trace is the history of the build: every execve and every read that
\* succeeded in any process, each once, with its own arguments, and in the order
\* in which they returned to the programs; so a process's line is there before
\* anything the process does afterwards.
TraceIsHistory == ~takeovers => trace = returned

\* runNative leaves no process behind that it was told of: what is still alive
\* when it returns was created by a process killed inside that very fork.
LeavesNothingBehind ==
    tracer = "done" => \A p \in Pids : proc[p].st \notin Gone => p \in orphans

\* build-tracer exits with the build command's own status, whichever process
\* of the build dies last.
ExitPropagates == tracer = "done" => rootExit = rootStatus

(* What the repository says that the code does not do *)

\* runNative's comment: it "captures every successful execve".
EveryExecTraced == trace = returned
=============================================================================
