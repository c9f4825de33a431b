-------------------------- MODULE BuildTracerProofs --------------------------
(***************************************************************************)
(* Invariance proofs for BuildTracer, for any set of pids, any number of   *)
(* processes and threads and any length of the build.                      *)
(***************************************************************************)
EXTENDS BuildTracer, TLAPS

(***************************************************************************)
(* Types.                                                                  *)
(***************************************************************************)

\* The records the model builds have their declared types.
LEMMA ConstantTypes ==
    /\ NoCall \in Call
    /\ Fresh \in PidState
    /\ Fresh # Unknown
    /\ "0" \in Statuses /\ "killed" \in Statuses
    /\ \A p, leader \in Pids : \A st \in Stops \cup Gone \cup {"user", "in"} :
          /\ Born(st, leader) \in Proc
          /\ \A c \in Call, ret \in {"zero", "positive", "error"}, child \in Pids :
                Process(st, leader, c, ret, child) \in Proc
<1>1. NoCall \in Call
  BY DEF NoCall, Call
<1>2. Fresh \in PidState
  BY DEF Fresh, PidState
<1>3. QED
  BY <1>1, <1>2, TracerAssumption, MarksAssumption DEF Born, Process, Proc, Statuses

\* The fields of a process of a well-typed state.
LEMMA ProcType ==
    ASSUME TypeOK, NEW p \in Pids
    PROVE  /\ proc[p] \in Proc
           /\ proc[p].leader \in Pids
           /\ proc[p].call \in Call
           /\ proc[p].status \in Statuses
           /\ proc[p].st \in Stops \cup Gone \cup {"user", "in"}
BY DEF TypeOK, Proc

\* Looking a pid up, or adding it, gives a record of the tracer.
LEMMA StateOfType ==
    ASSUME TypeOK, NEW p \in Pids
    PROVE  StateOf(p) \in PidState
BY ConstantTypes DEF TypeOK, StateOf

\* What handleSyscallStop keeps at an enter stop is a record of the tracer.
LEMMA CapturedType ==
    ASSUME TypeOK, NEW p \in Pids
    PROVE  Captured(p) \in PidState
<1>1. proc[p].call \in Call
  BY DEF TypeOK, Proc
<1>2. /\ proc[p].call.op = "execve" => proc[p].call.path \in Paths
      /\ proc[p].call.op = "openat" =>
            proc[p].call.path \in Paths /\ proc[p].call.write \in Writes
  BY <1>1 DEF Call
<1>3. QED
  BY <1>2, StateOfType DEF Captured, PidState, Opened

\* What handleSyscallStop writes at an exit stop is a sequence of trace lines.
LEMMA EmittedType ==
    ASSUME TypeOK, NEW p \in Pids
    PROVE  Emitted(p) \in Seq(Line)
<1> DEFINE st == StateOf(p)
<1>1. st \in PidState
  BY StateOfType
<1>2. st.execPath # None => [pid |-> p, op |-> "execve", path |-> st.execPath] \in Line
  BY <1>1 DEF PidState, Line
<1>3. st.open # None => [pid |-> p, op |-> "openat", path |-> st.open.path] \in Line
  BY <1>1 DEF PidState, Opened, Line
<1> HIDE DEF st
<1>4. QED
  BY <1>2, <1>3 DEF Emitted, st

\* A death keeps the kernel's side well typed.
LEMMA DieType ==
    ASSUME TypeOK, NEW p \in Pids, NEW status \in Statuses, Die(p, status)
    PROVE  /\ proc' \in [Pids -> Proc]
           /\ orphans' \subseteq Pids
           /\ rootStatus' \in Statuses
<1>1. [Born("dead", proc[p].leader) EXCEPT !.status = status] \in Proc
  BY ConstantTypes, TracerAssumption DEF TypeOK, Proc, Born, Process, Gone
<1>2. QED
  BY <1>1 DEF Die, TypeOK, Unannounced

\* Resuming a stopped process keeps the kernel's side well typed.
LEMMA PtraceSyscallType ==
    ASSUME TypeOK, NEW p \in Pids, proc[p].st \in Stops, PtraceSyscall(p)
    PROVE  /\ proc' \in [Pids -> Proc]
           /\ orphans' \subseteq Pids
           /\ rootStatus' \in Statuses
           /\ returned' \in Seq(Line)
           /\ UNCHANGED <<takeovers, tracer, rootExit>>
<1>1. CASE proc[p].st = "fatal"
  <2>1. Die(p, "killed") /\ returned' = returned
    BY <1>1 DEF PtraceSyscall, ResumesAs
  <2>2. QED
    BY <2>1, DieType, ConstantTypes DEF PtraceSyscall, TypeOK
<1>2. CASE proc[p].st = "exit"
  <2>1. /\ proc' = [proc EXCEPT ![p] = Born("user", proc[p].leader)]
        /\ UNCHANGED <<orphans, rootStatus>>
    BY <1>2 DEF PtraceSyscall, ResumesAs
  <2>2. Born("user", proc[p].leader) \in Proc
    BY ConstantTypes DEF TypeOK, Proc
  <2>3. Traced(proc[p].call) => LineOf(p) \in Line
    <3>1. proc[p].call \in Call
      BY DEF TypeOK, Proc
    <3>2. QED
      BY <3>1 DEF Traced, LineOf, Line, Call
  <2>4. returned' \in Seq(Line)
    BY <2>3 DEF PtraceSyscall, TypeOK
  <2>5. QED
    BY <2>1, <2>2, <2>4 DEF PtraceSyscall, TypeOK
<1>3. CASE proc[p].st \notin {"fatal", "exit"}
  <2>1. PICK next \in ResumesAs : proc[p].st = next[1] /\ Move(p, next[2])
    BY <1>3 DEF PtraceSyscall
  <2>2. next[2] \in {"signal", "user", "in", "exit"}
    BY DEF ResumesAs
  <2>3. [proc[p] EXCEPT !.st = next[2]] \in Proc
    BY <2>2 DEF TypeOK, Proc, Stops
  <2>4. proc' \in [Pids -> Proc]
    BY <2>1, <2>3 DEF Move, TypeOK
  <2>5. QED
    BY <1>3, <2>4 DEF PtraceSyscall, TypeOK, Unannounced
<1>4. QED
  BY <1>1, <1>2, <1>3


(***************************************************************************)
(* Type correctness.                                                       *)
(***************************************************************************)

\* TypeOK is an invariant: in particular the tracer never writes a line of a
\* call it did not capture.
THEOREM TypeCorrect == Spec => []TypeOK
<1>1. Init => TypeOK
  <2> SUFFICES ASSUME Init PROVE TypeOK
    OBVIOUS
  <2>1. proc \in [Pids -> Proc]
    BY ConstantTypes DEF Init, Gone
  <2>2. states \in [Pids -> PidState \cup {Unknown}]
    BY ConstantTypes DEF Init
  <2>3. trace \in Seq(Line) /\ returned = trace
    BY TracerAssumption DEF Init, Line
  <2>4. QED
    BY <2>1, <2>2, <2>3, ConstantTypes DEF Init, TypeOK
<1>2. TypeOK /\ [Next]_vars => TypeOK'
  <2> SUFFICES ASSUME TypeOK, [Next]_vars PROVE TypeOK'
    OBVIOUS
  <2>1. ASSUME NEW p \in Pids, NEW c \in Call, Enter(p, c) PROVE TypeOK'
    <3>1. Process("enter", proc[p].leader, c, "error", Root) \in Proc
      BY ConstantTypes, TracerAssumption DEF TypeOK, Proc, Stops
    <3>2. QED
      BY <2>1, <3>1 DEF Enter, TypeOK
  <2>2. ASSUME NEW p \in Pids, NEW ret \in {"zero", "positive", "error"}, Leave(p, ret)
        PROVE  TypeOK'
    <3>1. Process("exit", proc[p].leader, proc[p].call, ret, Root) \in Proc
      BY ConstantTypes, ProcType, TracerAssumption DEF Stops
    <3>2. QED
      BY <2>2, <3>1 DEF Leave, TypeOK
  <2>3. ASSUME NEW p \in Pids, NEW c \in Pids, NEW leader \in Pids, Fork(p, c, leader)
        PROVE  TypeOK'
    <3>1. /\ Process("forked", proc[p].leader, proc[p].call, "positive", c) \in Proc
          /\ Born("new", leader) \in Proc
      BY ConstantTypes DEF TypeOK, Proc, Stops
    <3>2. QED
      BY <2>3, <3>1 DEF Fork, TypeOK
  <2>4. ASSUME NEW p \in Pids, Exec(p) PROVE TypeOK'
    <3>1. Process("execed", p, proc[p].call, "zero", Root) \in Proc
      BY ConstantTypes, TracerAssumption DEF TypeOK, Proc, Stops
    <3>2. QED
      BY <2>4, <3>1 DEF Exec, TypeOK
  <2>5. ASSUME NEW p \in Pids, ThreadExec(p) PROVE TypeOK'
    <3>1. /\ proc[p].leader \in Pids
          /\ Process("execed", proc[p].leader, proc[p].call, "zero", Root) \in Proc
          /\ Born("none", p) \in Proc
      BY ConstantTypes, TracerAssumption DEF TypeOK, Proc, Stops, Gone
    <3>2. QED
      BY <2>5, <3>1 DEF ThreadExec, TypeOK, Unannounced
  <2>6. ASSUME NEW p \in Pids, NEW status \in ExitCodes, Exit(p, status) PROVE TypeOK'
    BY <2>6, DieType DEF Exit, TypeOK, Statuses
  <2>7. ASSUME NEW p \in Pids, NEW sig \in {"signal", "fatal"}, Signal(p, sig) PROVE TypeOK'
    <3>1. [proc[p] EXCEPT !.st = sig] \in Proc
      BY SMTT(20) DEF TypeOK, Proc, Stops
    <3>2. QED
      BY <2>7, <3>1 DEF Signal, Move, TypeOK
  <2>8. ASSUME NEW p \in Pids, Kill(p) PROVE TypeOK'
    BY <2>8, DieType, ConstantTypes DEF Kill, TypeOK
  <2>9. ASSUME NEW p \in Pids, Reap(p) PROVE TypeOK'
    <3>1. Born("none", p) \in Proc /\ proc[p].status \in Statuses
      BY ConstantTypes DEF TypeOK, Proc, Gone
    <3>2. QED
      BY <2>9, <3>1 DEF Reap, TypeOK
  <2>10. ASSUME NEW p \in Pids, SyscallEnter(p) PROVE TypeOK'
    BY <2>10, CapturedType, PtraceSyscallType DEF SyscallEnter, InStop, Stops, TypeOK
  <2>11. ASSUME NEW p \in Pids, SyscallExit(p) PROVE TypeOK'
    <3>1. trace' \in Seq(Line)
      BY <2>11, EmittedType DEF SyscallExit, TypeOK
    <3>2. QED
      BY <2>11, <3>1, ConstantTypes, PtraceSyscallType DEF SyscallExit, InStop, Stops, TypeOK
  <2>12. ASSUME NEW p \in Pids, ForkEvent(p) PROVE TypeOK'
    <3>1. states' \in [Pids -> PidState \cup {Unknown}]
      BY <2>12, ConstantTypes, StateOfType DEF ForkEvent, TypeOK
    <3>2. QED
      BY <2>12, <3>1, PtraceSyscallType DEF ForkEvent, InStop, Stops, TypeOK
  <2>13. ASSUME NEW p \in Pids, OtherStop(p) PROVE TypeOK'
    BY <2>13, StateOfType, PtraceSyscallType DEF OtherStop, InStop, Stops, TypeOK
  <2>14. ASSUME NEW p \in Pids, StopVanishes(p) PROVE TypeOK'
    <3>1. states' \in [Pids -> PidState \cup {Unknown}]
      <4>1. StateOf(p) \in PidState
        BY StateOfType
      <4>2. \A b \in BOOLEAN : [StateOf(p) EXCEPT !.atEnter = b] \in PidState
        BY <4>1 DEF PidState
      <4>3. StateOf(p).atEnter \in BOOLEAN
        BY <4>1 DEF PidState
      <4>4. \E b \in BOOLEAN : states' = [states EXCEPT ![p] = [StateOf(p) EXCEPT !.atEnter = b]]
        BY <2>14, <4>3 DEF StopVanishes
      <4>5. QED
        BY <4>2, <4>4 DEF TypeOK
    <3>2. QED
      BY <2>14, <3>1, DieType, ConstantTypes DEF StopVanishes, TypeOK
  <2>15. CASE Return
    BY <2>15 DEF Return, kernel, TypeOK
  <2>16. CASE UNCHANGED vars
    BY <2>16 DEF vars, kernel, TypeOK
  <2>17. QED
    BY <2>1, <2>2, <2>3, <2>4, <2>5, <2>6, <2>7, <2>8, <2>9, <2>10, <2>11, <2>12, <2>13,
       <2>14, <2>15, <2>16 DEF Next, Build, Tracer, Returned
<1>3. QED
  BY <1>1, <1>2, PTL DEF Spec


(***************************************************************************)
(* The trace is the build's history.  Two facts are added to InSync and    *)
(* TraceIsHistory: types, and that rax at an enter stop is no success, so  *)
(* that what is read there is the call's argument.                         *)
(***************************************************************************)

EnterFails == \A p \in Pids : proc[p].st = "enter" => proc[p].ret = "error"

HistoryInv == TypeOK /\ EnterFails /\ InSync /\ TraceIsHistory

\* What Captured reads at a true enter stop is what the entry should hold.
LEMMA CapturedAtEnter ==
    ASSUME HistoryInv, NEW p \in Pids, proc[p].st = "enter", StateOf(p) = Expected(p)
    PROVE  Captured(p) = [atEnter |-> FALSE,
                          execPath |-> IF proc[p].call.op = "execve" THEN proc[p].call.path ELSE None,
                          open |-> IF proc[p].call.op = "openat" /\ CaptureReads
                                   THEN [path |-> proc[p].call.path, write |-> proc[p].call.write]
                                   ELSE None]
<1>1. ~InCall(p) /\ proc[p].ret # "zero"
  BY DEF InCall, HistoryInv, EnterFails
<1>2. StateOf(p).execPath = None /\ StateOf(p).open = None
  BY <1>1 DEF Expected
<1>3. QED
  BY <1>1, <1>2 DEF Captured

\* What is written at a true exit stop is the call that returns, if it is traced
\* and has succeeded.
LEMMA EmittedAtExit ==
    ASSUME HistoryInv, NEW p \in Pids, proc[p].st = "exit", StateOf(p) = Expected(p)
    PROVE  Emitted(p) = IF Traced(proc[p].call) /\ Succeeded(p) THEN <<LineOf(p)>> ELSE <<>>
<1> DEFINE c == proc[p].call
<1>1. c \in Call
  BY ProcType DEF HistoryInv
<1>2. /\ StateOf(p).execPath = IF c.op = "execve" THEN c.path ELSE None
      /\ StateOf(p).open = IF c.op = "openat" /\ CaptureReads
                           THEN [path |-> c.path, write |-> c.write] ELSE None
  BY DEF Expected, InCall
<1>3. CASE c.op = "execve"
  <2>1. c.path # None
    BY <1>1, <1>3, MarksAssumption DEF Call
  <2>2. Emitted(p) = (IF proc[p].ret = "zero"
                      THEN <<[pid |-> p, op |-> "execve", path |-> c.path]>> ELSE <<>>) \o <<>>
    BY <1>2, <1>3, <2>1 DEF Emitted
  <2>3. QED
    BY <1>3, <2>2 DEF Traced, Succeeded, LineOf
<1>4. CASE c.op = "openat"
  <2>1. [path |-> c.path, write |-> c.write] # None
    BY <1>1, <1>4, MarksAssumption DEF Call, Opened
  <2>2. Emitted(p) = <<>> \o (IF CaptureReads /\ proc[p].ret # "error" /\ ~c.write
                              THEN <<[pid |-> p, op |-> "openat", path |-> c.path]>> ELSE <<>>)
    BY <1>2, <1>4, <2>1 DEF Emitted
  <2>3. QED
    BY <1>4, <2>2 DEF Traced, Succeeded, LineOf
<1>5. CASE c.op \in {"fork", "other"}
  <2>1. Emitted(p) = <<>> \o <<>>
    BY <1>2, <1>5 DEF Emitted
  <2>2. QED
    BY <1>5, <2>1 DEF Traced
<1>6. QED
  BY <1>1, <1>3, <1>4, <1>5 DEF Call

\* InSync, for one process.
Sync(p) == proc[p].st # "dead" => StateOf(p) = Expected(p)

\* A pid that did not move stays in sync, be it registered with what it had.
LEMMA Unmoved ==
    ASSUME NEW q \in Pids, Sync(q), proc'[q] = proc[q],
           states'[q] = states[q] \/ states'[q] = StateOf(q)
    PROVE  Sync(q)'
<1>1. StateOf(q)' = StateOf(q)
  BY ConstantTypes DEF StateOf
<1>2. Expected(q)' = Expected(q)
  BY DEF Expected, InCall
<1>3. QED
  BY <1>1, <1>2 DEF Sync

\* A move that enters or leaves no system call keeps a process in sync.
LEMMA MovedWithinCall ==
    ASSUME NEW q \in Pids, Sync(q), proc[q].st # "dead",
           states'[q] = states[q] \/ states'[q] = StateOf(q),
           InCall(q)' <=> InCall(q),
           InCall(q) => proc'[q].call = proc[q].call
    PROVE  Sync(q)'
<1>1. StateOf(q)' = StateOf(q)
  BY ConstantTypes DEF StateOf
<1>2. CASE InCall(q)
  <2>1. proc'[q].call = proc[q].call /\ InCall(q)'
    BY <1>2
  <2>2. Expected(q)' = Expected(q)
    BY <1>2, <2>1 DEF Expected
  <2>3. QED
    BY <1>1, <2>2 DEF Sync
<1>3. CASE ~InCall(q)
  <2>1. ~InCall(q)'
    BY <1>3
  <2>2. Expected(q)' = Fresh /\ Expected(q) = Fresh
    BY <1>3, <2>1 DEF Expected, Fresh
  <2>3. QED
    BY <1>1, <2>2 DEF Sync
<1>4. QED
  BY <1>2, <1>3

\* Where PTRACE_SYSCALL takes a process, and that it moves no other.
LEMMA PtraceSyscallMoves ==
    ASSUME TypeOK, NEW p \in Pids, proc[p].st \in Stops, PtraceSyscall(p)
    PROVE  /\ \A q \in Pids \ {p} : proc'[q] = proc[q]
           /\ proc[p].st = "fatal" => proc'[p].st = "dead"
           /\ proc[p].st = "exit" => proc'[p].st = "user"
           /\ proc[p].st \notin {"fatal", "exit"} =>
                 /\ <<proc[p].st, proc'[p].st>> \in ResumesAs
                 /\ proc'[p].call = proc[p].call
           /\ proc[p].st # "exit" => returned' = returned
           /\ takeovers' = takeovers
<1>1. CASE proc[p].st = "fatal"
  BY <1>1 DEF PtraceSyscall, ResumesAs, Die, Born, Process, TypeOK
<1>2. CASE proc[p].st = "exit"
  BY <1>2 DEF PtraceSyscall, ResumesAs, Born, Process, TypeOK
<1>3. CASE proc[p].st \notin {"fatal", "exit"}
  <2>1. PICK next \in ResumesAs : proc[p].st = next[1] /\ Move(p, next[2])
    BY <1>3 DEF PtraceSyscall
  <2>2. next = <<next[1], next[2]>>
    BY DEF ResumesAs
  <2>3. proc'[p] = [proc[p] EXCEPT !.st = next[2]]
    BY <2>1 DEF Move, TypeOK
  <2>4. proc'[p].st = next[2] /\ proc'[p].call = proc[p].call
    BY <2>3 DEF TypeOK, Proc
  <2>5. \A q \in Pids \ {p} : proc'[q] = proc[q]
    BY <2>1 DEF Move, TypeOK
  <2>6. QED
    BY <1>3, <2>1, <2>2, <2>4, <2>5 DEF PtraceSyscall
<1>4. QED
  BY <1>1, <1>2, <1>3

\* A death moves the process that dies and no other.
LEMMA DieMoves ==
    ASSUME TypeOK, NEW p \in Pids, NEW status, Die(p, status)
    PROVE  /\ \A q \in Pids \ {p} : proc'[q] = proc[q]
           /\ proc'[p].st = "dead"
BY DEF Die, Born, Process, TypeOK

\* Only Enter leads to an enter stop.
LEMMA EnterFailsStep ==
    ASSUME TypeOK, EnterFails, Next
    PROVE  EnterFails'
<1>1. ASSUME NEW p \in Pids, NEW status, Die(p, status) PROVE EnterFails'
  BY <1>1, DieMoves DEF EnterFails
<1>2. ASSUME NEW p \in Pids, proc[p].st \in Stops, PtraceSyscall(p) PROVE EnterFails'
  BY <1>2, PtraceSyscallMoves DEF EnterFails, ResumesAs
<1>3. ASSUME NEW p \in Pids,
             \/ \E c \in Call : Enter(p, c)
             \/ \E ret \in {"zero", "positive", "error"} : Leave(p, ret)
             \/ \E c, leader \in Pids : Fork(p, c, leader)
             \/ Exec(p) \/ ThreadExec(p) \/ Reap(p)
      PROVE  EnterFails'
  <2>1. CASE \E c \in Call : Enter(p, c)
    BY <2>1 DEF EnterFails, TypeOK, Enter, Process
  <2>2. CASE \E ret \in {"zero", "positive", "error"} : Leave(p, ret)
    BY <2>2 DEF EnterFails, TypeOK, Leave, Process
  <2>3. CASE \E c, leader \in Pids : Fork(p, c, leader)
    BY <2>3 DEF EnterFails, TypeOK, Fork, Process, Born
  <2>4. CASE Exec(p)
    BY <2>4 DEF EnterFails, TypeOK, Exec, Process
  <2>5. CASE ThreadExec(p)
    BY <2>5, ProcType DEF EnterFails, TypeOK, ThreadExec, Process, Born
  <2>6. CASE Reap(p)
    BY <2>6 DEF EnterFails, TypeOK, Reap, Process, Born
  <2>7. QED
    BY <1>3, <2>1, <2>2, <2>3, <2>4, <2>5, <2>6
<1>4. CASE \E p \in Pids, sig \in {"signal", "fatal"} : Signal(p, sig)
  BY <1>4 DEF EnterFails, TypeOK, Proc, Signal, Move
<1>5. CASE \E p \in Pids : (\E status \in ExitCodes : Exit(p, status)) \/ Kill(p) \/ StopVanishes(p)
  BY <1>5, <1>1 DEF Exit, Kill, StopVanishes
<1>6. CASE \E p \in Pids : SyscallEnter(p) \/ SyscallExit(p) \/ ForkEvent(p) \/ OtherStop(p)
  BY <1>6, <1>2 DEF SyscallEnter, SyscallExit, ForkEvent, OtherStop, InStop, Stops
<1>7. CASE Return \/ Returned
  BY <1>7 DEF EnterFails, Return, Returned, kernel, vars
<1>8. QED
  BY <1>3, <1>4, <1>5, <1>6, <1>7 DEF Next, Build, Tracer

\* The build's steps: InSync again, no line.
LEMMA BuildStep ==
    ASSUME HistoryInv, Build
    PROVE  InSync' /\ TraceIsHistory'
<1> USE DEF HistoryInv
<1>1. CASE takeovers'
  BY <1>1 DEF InSync, TraceIsHistory
<1>2. CASE ~takeovers'
  <2> SUFFICES ASSUME NEW p \in Pids,
                      \/ \E c \in Call : Enter(p, c)
                      \/ \E ret \in {"zero", "positive", "error"} : Leave(p, ret)
                      \/ \E c, leader \in Pids : Fork(p, c, leader)
                      \/ Exec(p) \/ ThreadExec(p)
                      \/ \E status \in ExitCodes : Exit(p, status)
                      \/ \E sig \in {"signal", "fatal"} : Signal(p, sig)
                      \/ Kill(p)
               PROVE  InSync' /\ TraceIsHistory'
    BY DEF Build
  <2>1. /\ ~takeovers /\ states' = states /\ trace' = trace /\ returned' = returned
        /\ ~ThreadExec(p)
    <3>1. CASE ThreadExec(p)
      BY <1>2, <3>1 DEF ThreadExec
    <3>2. CASE ~ThreadExec(p)
      <4>1. takeovers' = takeovers /\ states' = states /\ trace' = trace /\ returned' = returned
        BY <3>2 DEF Enter, Leave, Fork, Exec, Exit, Signal, Kill
      <4>2. QED
        BY <1>2, <3>2, <4>1
    <3>3. QED
      BY <3>1, <3>2
  <2>2. \A q \in Pids : Sync(q)
    BY <2>1 DEF InSync, Sync
  <2>3. ASSUME \A q \in Pids : Sync(q)' PROVE InSync' /\ TraceIsHistory'
    BY <2>1, <2>3 DEF InSync, TraceIsHistory, Sync
  <2>4. ASSUME NEW status, Die(p, status) PROVE \A q \in Pids : Sync(q)'
    <3>1. Sync(p)'
      BY <2>4, DieMoves DEF Sync
    <3>2. \A q \in Pids \ {p} : Sync(q)'
      BY <2>1, <2>2, <2>4, DieMoves, Unmoved
    <3>3. QED
      BY <3>1, <3>2
  <2>5. ASSUME \A q \in Pids \ {p} : proc'[q] = proc[q], proc[p].st # "dead",
               InCall(p)' <=> InCall(p), InCall(p) => proc'[p].call = proc[p].call
        PROVE  \A q \in Pids : Sync(q)'
    <3>1. Sync(p)'
      BY <2>1, <2>2, <2>5, MovedWithinCall
    <3>2. \A q \in Pids \ {p} : Sync(q)'
      BY <2>1, <2>2, <2>5, Unmoved
    <3>3. QED
      BY <3>1, <3>2
  <2>6. CASE \E c \in Call : Enter(p, c)
    BY <2>3, <2>5, <2>6 DEF Enter, Process, InCall, TypeOK
  <2>7. CASE \E ret \in {"zero", "positive", "error"} : Leave(p, ret)
    BY <2>3, <2>5, <2>7 DEF Leave, Process, InCall, TypeOK
  <2>8. ASSUME NEW c \in Pids, NEW leader \in Pids, Fork(p, c, leader) PROVE \A q \in Pids : Sync(q)'
    <3>1. /\ proc[p].st = "in" /\ proc[c].st = "none" /\ p # c
          /\ proc'[p].st = "forked" /\ proc'[p].call = proc[p].call
          /\ proc'[c].st = "new"
          /\ \A q \in Pids \ {p, c} : proc'[q] = proc[q]
      BY <2>8 DEF Fork, Process, Born, TypeOK
    <3>2. Sync(p)'
      BY <2>1, <2>2, <3>1, MovedWithinCall DEF InCall
    <3>3. Sync(c)'
      BY <2>1, <2>2, <3>1, MovedWithinCall DEF InCall
    <3>4. \A q \in Pids \ {p, c} : Sync(q)'
      BY <2>1, <2>2, <3>1, Unmoved
    <3>5. QED
      BY <3>2, <3>3, <3>4
  <2>9. CASE Exec(p)
    BY <2>3, <2>5, <2>9 DEF Exec, Process, InCall, TypeOK
  <2>10. CASE \E status \in ExitCodes : Exit(p, status)
    BY <2>3, <2>4, <2>10 DEF Exit
  <2>11. ASSUME NEW sig \in {"signal", "fatal"}, Signal(p, sig) PROVE \A q \in Pids : Sync(q)'
    <3>1. proc'[p] = [proc[p] EXCEPT !.st = sig] /\ \A q \in Pids \ {p} : proc'[q] = proc[q]
      BY <2>11 DEF Signal, Move, TypeOK
    <3>2. proc'[p].st = sig
      BY <3>1 DEF TypeOK, Proc
    <3>3. QED
      BY <2>5, <2>11, <3>1, <3>2 DEF InCall, Signal
  <2>12. CASE Kill(p)
    BY <2>3, <2>4, <2>12 DEF Kill
  <2>13. QED
    BY <2>1, <2>3, <2>6, <2>7, <2>8, <2>9, <2>10, <2>11, <2>12
<1>3. QED
  BY <1>1, <1>2

\* The tracer's steps.
LEMMA TracerStep ==
    ASSUME HistoryInv, Tracer, ~takeovers
    PROVE  (\A q \in Pids : Sync(q)') /\ trace' = returned'
<1> USE DEF HistoryInv
<1>1. trace = returned /\ \A q \in Pids : Sync(q)
  BY DEF InSync, Sync, TraceIsHistory
<1>2. CASE Return
  <2>1. states' = states /\ proc' = proc /\ trace' = trace /\ returned' = returned
    BY <1>2 DEF Return, kernel
  <2>2. QED
    BY <1>1, <2>1, Unmoved
<1>3. ASSUME NEW p \in Pids,
             Reap(p) \/ SyscallEnter(p) \/ SyscallExit(p) \/ ForkEvent(p)
             \/ OtherStop(p) \/ StopVanishes(p)
      PROVE  (\A q \in Pids : Sync(q)') /\ trace' = returned'
  <2>1. ASSUME Sync(p)', \A q \in Pids \ {p} : proc'[q] = proc[q] /\ states'[q] \in {states[q], StateOf(q)}
        PROVE  \A q \in Pids : Sync(q)'
    <3>1. \A q \in Pids \ {p} : Sync(q)'
      BY <1>1, <2>1, Unmoved
    <3>2. QED
      BY <2>1, <3>1
  <2>2. CASE Reap(p)
    <3>1. /\ proc'[p] = Born("none", p) /\ states'[p] = Unknown
          /\ \A q \in Pids \ {p} : proc'[q] = proc[q] /\ states'[q] = states[q]
          /\ trace' = trace /\ returned' = returned
      BY <2>2 DEF Reap, TypeOK
    <3>2. ~InCall(p)'
      BY <3>1 DEF InCall, Born, Process
    <3>3. Expected(p)' = Fresh
      BY <3>2 DEF Expected, Fresh
    <3>4. StateOf(p)' = Fresh
      BY <3>1 DEF StateOf
    <3>5. QED
      BY <1>1, <2>1, <3>1, <3>3, <3>4 DEF Sync
  <2>3. CASE SyscallEnter(p)
    <3>1. /\ proc[p].st \in {"enter", "exit"} /\ StateOf(p).atEnter
          /\ PtraceSyscall(p) /\ trace' = trace
          /\ states'[p] = Captured(p)
          /\ \A q \in Pids \ {p} : states'[q] = states[q]
      BY <2>3 DEF SyscallEnter, InStop, TypeOK
    <3>2. StateOf(p) = Expected(p)
      BY <1>1, <3>1 DEF Sync
    <3>3. proc[p].st = "enter"
      <4>1. StateOf(p).atEnter = ~InCall(p)
        BY <3>2 DEF Expected
      <4>2. ~InCall(p)
        BY <3>1, <4>1
      <4>3. QED
        BY <3>1, <4>2 DEF InCall
    <3>4. /\ proc'[p].st = "in" /\ proc'[p].call = proc[p].call
          /\ \A q \in Pids \ {p} : proc'[q] = proc[q]
          /\ returned' = returned
      BY <3>1, <3>3, PtraceSyscallMoves DEF Stops, ResumesAs
    <3>5. Captured(p) = Expected(p)'
      BY <3>2, <3>3, <3>4, CapturedAtEnter DEF Expected, InCall
    <3>6. StateOf(p)' = Captured(p)
      BY <3>1, CapturedType, MarksAssumption DEF StateOf
    <3>7. QED
      BY <1>1, <2>1, <3>1, <3>4, <3>5, <3>6 DEF Sync
  <2>4. CASE SyscallExit(p)
    <3>1. /\ proc[p].st \in {"enter", "exit"} /\ ~StateOf(p).atEnter
          /\ PtraceSyscall(p) /\ trace' = trace \o Emitted(p)
          /\ states'[p] = Fresh
          /\ \A q \in Pids \ {p} : states'[q] = states[q]
      BY <2>4 DEF SyscallExit, InStop, TypeOK
    <3>2. StateOf(p) = Expected(p)
      BY <1>1, <3>1 DEF Sync
    <3>3. proc[p].st = "exit"
      <4>1. StateOf(p).atEnter = ~InCall(p)
        BY <3>2 DEF Expected
      <4>2. InCall(p)
        BY <3>1, <4>1
      <4>3. QED
        BY <3>1, <4>2 DEF InCall
    <3>4. proc'[p].st = "user" /\ \A q \in Pids \ {p} : proc'[q] = proc[q]
      BY <3>1, <3>3, PtraceSyscallMoves DEF Stops
    <3>5. Expected(p)' = Fresh /\ StateOf(p)' = Fresh
      BY <3>1, <3>4, ConstantTypes DEF Expected, InCall, Fresh, StateOf
    <3>6. trace' = returned'
      <4>1. returned' = IF Traced(proc[p].call) /\ Succeeded(p)
                        THEN Append(returned, LineOf(p)) ELSE returned
        BY <3>1, <3>3 DEF PtraceSyscall
      <4>2. Emitted(p) = IF Traced(proc[p].call) /\ Succeeded(p) THEN <<LineOf(p)>> ELSE <<>>
        BY <3>2, <3>3, EmittedAtExit
      <4>3. returned \in Seq(Line) /\ Append(returned, LineOf(p)) = returned \o <<LineOf(p)>>
        BY DEF TypeOK
      <4>4. QED
        BY <1>1, <3>1, <4>1, <4>2, <4>3
    <3>7. QED
      BY <1>1, <2>1, <3>1, <3>4, <3>5, <3>6 DEF Sync
  <2>5. CASE ForkEvent(p)
    <3>1. /\ proc[p].st = "forked" /\ PtraceSyscall(p) /\ trace' = trace
          /\ \A q \in Pids : states'[q] \in {states[q], StateOf(q)}
      BY <2>5 DEF ForkEvent, InStop, TypeOK, StateOf
    <3>2. /\ proc'[p].st = "exit" /\ proc'[p].call = proc[p].call
          /\ \A q \in Pids \ {p} : proc'[q] = proc[q]
          /\ returned' = returned
      BY <3>1, PtraceSyscallMoves DEF Stops, ResumesAs
    <3>3. Sync(p)'
      BY <1>1, <3>1, <3>2, MovedWithinCall DEF InCall
    <3>4. QED
      BY <1>1, <2>1, <3>1, <3>2, <3>3
  <2>6. CASE OtherStop(p)
    <3>1. /\ proc[p].st \in {"execed", "new", "signal", "fatal"}
          /\ PtraceSyscall(p) /\ trace' = trace
          /\ states'[p] = StateOf(p)
          /\ \A q \in Pids \ {p} : states'[q] = states[q]
      BY <2>6 DEF OtherStop, InStop, TypeOK
    <3>2. (\A q \in Pids \ {p} : proc'[q] = proc[q]) /\ returned' = returned
      BY <3>1, PtraceSyscallMoves DEF Stops
    <3>3. CASE proc[p].st = "fatal"
      BY <1>1, <2>1, <3>1, <3>2, <3>3, PtraceSyscallMoves DEF Stops, Sync
    <3>4. CASE proc[p].st # "fatal"
      <4>1. /\ <<proc[p].st, proc'[p].st>> \in {<<"execed", "exit">>, <<"new", "signal">>, <<"signal", "user">>}
            /\ proc'[p].call = proc[p].call
        BY <3>1, <3>4, PtraceSyscallMoves DEF Stops, ResumesAs
      <4>2. Sync(p)'
        BY <1>1, <3>1, <4>1, MovedWithinCall DEF InCall
      <4>3. QED
        BY <1>1, <2>1, <3>1, <3>2, <4>2
    <3>5. QED
      BY <3>3, <3>4
  <2>7. CASE StopVanishes(p)
    <3>1. /\ Die(p, "killed") /\ trace' = trace /\ returned' = returned
          /\ \A q \in Pids \ {p} : states'[q] = states[q]
      BY <2>7 DEF StopVanishes, TypeOK
    <3>2. QED
      BY <1>1, <2>1, <3>1, DieMoves DEF Sync
  <2>8. QED
    BY <1>3, <2>2, <2>3, <2>4, <2>5, <2>6, <2>7
<1>4. QED
  BY <1>2, <1>3 DEF Tracer

\* The inductive invariant behind ToggleCorrect and TraceCorrect: the
\* tracer's records and its output follow the build's calls.
LEMMA HistoryInvariant == Spec => []HistoryInv
<1>1. Init => EnterFails /\ InSync /\ TraceIsHistory
  <2> SUFFICES ASSUME Init PROVE EnterFails /\ InSync /\ TraceIsHistory
    OBVIOUS
  <2>1. ASSUME NEW p \in Pids
        PROVE  ~InCall(p) /\ proc[p].st # "enter" /\ StateOf(p) = Fresh
    BY DEF Init, Born, Process, InCall, StateOf
  <2>2. ASSUME NEW p \in Pids PROVE StateOf(p) = Expected(p)
    BY <2>1 DEF Expected, Fresh
  <2>3. EnterFails /\ InSync
    BY <2>1, <2>2 DEF EnterFails, InSync
  <2>4. TraceIsHistory
    BY DEF Init, TraceIsHistory
  <2>5. QED
    BY <2>3, <2>4
<1>2. HistoryInv /\ TypeOK' /\ [Next]_vars => HistoryInv'
  <2> SUFFICES ASSUME HistoryInv, TypeOK', [Next]_vars PROVE HistoryInv'
    OBVIOUS
  <2>1. CASE UNCHANGED vars
    BY <2>1 DEF vars, kernel, HistoryInv, TypeOK, EnterFails, InSync, TraceIsHistory,
       StateOf, Expected, InCall
  <2>2. CASE Next
    <3>1. EnterFails'
      BY <2>2, EnterFailsStep DEF HistoryInv
    <3>2. InSync' /\ TraceIsHistory'
      <4>1. CASE Build
        BY <4>1, BuildStep
      <4>2. CASE Tracer
        <5>1. takeovers' = takeovers
          BY <4>2 DEF Tracer, Reap, SyscallEnter, SyscallExit, ForkEvent, OtherStop,
             StopVanishes, Return, PtraceSyscall, kernel
        <5>2. CASE takeovers
          BY <5>1, <5>2 DEF InSync, TraceIsHistory
        <5>3. CASE ~takeovers
          BY <4>2, <5>3, TracerStep DEF InSync, TraceIsHistory, Sync
        <5>4. QED
          BY <5>2, <5>3
      <4>3. CASE Returned
        BY <2>1, <4>3 DEF Returned, HistoryInv
      <4>4. QED
        BY <2>2, <4>1, <4>2, <4>3 DEF Next
    <3>3. QED
      BY <3>1, <3>2 DEF HistoryInv
  <2>3. QED
    BY <2>1, <2>2
<1>3. QED
  BY <1>1, <1>2, TypeCorrect, PTL DEF Spec, HistoryInv

\* While no thread but a leader calls execve, the tracer's enter/exit toggle and
\* its captured arguments agree with every process at every moment.
THEOREM ToggleCorrect == Spec => []InSync
<1>1. HistoryInv => InSync
  BY DEF HistoryInv
<1>2. QED
  BY <1>1, HistoryInvariant, PTL

\* While no thread but a leader calls execve, the trace is the build's history:
\* each successful execve and read once, with its arguments, in order.
THEOREM TraceCorrect == Spec => []TraceIsHistory
<1>1. HistoryInv => TraceIsHistory
  BY DEF HistoryInv
<1>2. QED
  BY <1>1, HistoryInvariant, PTL

(***************************************************************************)
(* Nobody is left behind: whatever runs has surfaced and is registered; a  *)
(* child that has not surfaced is registered, or announced by a fork event *)
(* that waits to be reported, or an orphan; and a thread's leader stays    *)
(* registered for as long as the thread is there to take its pid.          *)
(***************************************************************************)

Surfaced == \A p \in Pids : proc[p].st \notin Gone \cup {"new"} => states[p] # Unknown

Announced ==
    \A c \in Pids : proc[c].st = "new" =>
        states[c] # Unknown \/ c \in orphans \/ \E p \in Pids : c \in Unannounced(p)

LeadersKnown ==
    \A t \in Pids : proc[t].st # "none" /\ proc[t].leader # t => states[proc[t].leader] # Unknown

FollowInv == Surfaced /\ Announced /\ LeadersKnown

KnownStays == \A q \in Pids : states[q] # Unknown => states'[q] # Unknown

\* One process moves, without being born or reaped; what it would have announced
\* is known or an orphan by then.
LEMMA FollowMove ==
    ASSUME TypeOK, FollowInv, KnownStays, NEW p \in Pids,
           \A q \in Pids \ {p} : proc'[q] = proc[q],
           proc'[p].leader = proc[p].leader,
           proc[p].st \notin Gone, proc'[p].st \notin {"none", "new"},
           proc'[p].st # "dead" => states'[p] # Unknown,
           \A c \in orphans \ orphans' : c = p \/ states'[c] # Unknown,
           \A c \in Unannounced(p) : c \in orphans' \/ states'[c] # Unknown
    PROVE  FollowInv'
<1>1. Surfaced'
  BY DEF FollowInv, Surfaced, KnownStays, Gone
<1>2. Announced'
  <2> SUFFICES ASSUME NEW c \in Pids, proc'[c].st = "new", states'[c] = Unknown, c \notin orphans'
               PROVE  \E q \in Pids : c \in Unannounced(q)'
    BY DEF Announced
  <2>1. c # p /\ proc[c].st = "new" /\ c \notin orphans /\ states[c] = Unknown
    BY DEF KnownStays
  <2>2. PICK q \in Pids : c \in Unannounced(q)
    BY <2>1 DEF FollowInv, Announced
  <2>3. q # p
    BY <2>2
  <2>4. c \in Unannounced(q)'
    BY <2>1, <2>2, <2>3 DEF Unannounced
  <2>5. QED
    BY <2>4
<1>3. LeadersKnown'
  <2> SUFFICES ASSUME NEW t \in Pids, proc'[t].st # "none", proc'[t].leader # t
               PROVE  states'[proc'[t].leader] # Unknown
    BY DEF LeadersKnown
  <2>1. proc'[t].leader = proc[t].leader /\ proc[t].st # "none"
    BY DEF Gone
  <2>2. states[proc[t].leader] # Unknown
    BY <2>1 DEF FollowInv, LeadersKnown
  <2>3. proc[t].leader \in Pids
    BY ProcType
  <2>4. QED
    BY <2>1, <2>2, <2>3 DEF KnownStays
<1>4. QED
  BY <1>1, <1>2, <1>3 DEF FollowInv

\* A death leaves the other processes announced as they were.
LEMMA FollowDie ==
    ASSUME TypeOK, FollowInv, KnownStays, NEW p \in Pids, NEW status,
           proc[p].st \notin Gone, Die(p, status)
    PROVE  FollowInv'
<1>1. /\ \A q \in Pids \ {p} : proc'[q] = proc[q]
      /\ proc'[p].st = "dead"
      /\ proc'[p].leader = proc[p].leader
      /\ orphans' = (orphans \cup Unannounced(p)) \ {p}
  BY DEF Die, Born, Process, TypeOK
<1>2. p \notin Unannounced(p)
  BY DEF Unannounced
<1>3. QED
  BY <1>1, <1>2, FollowMove, ProcType DEF KnownStays

\* Resuming a process the tracer knows, with its children known, leaves
\* nobody unannounced.
LEMMA FollowPtraceSyscall ==
    ASSUME TypeOK, FollowInv, KnownStays, NEW p \in Pids, proc[p].st \in Stops,
           states'[p] # Unknown, \A c \in Unannounced(p) : states'[c] # Unknown,
           PtraceSyscall(p)
    PROVE  FollowInv'
<1>1. CASE proc[p].st = "fatal"
  <2>1. Die(p, "killed")
    BY <1>1 DEF PtraceSyscall, ResumesAs
  <2>2. QED
    BY <1>1, <2>1, FollowDie DEF Gone
<1>2. CASE proc[p].st = "exit"
  <2>1. /\ \A q \in Pids \ {p} : proc'[q] = proc[q]
        /\ proc'[p].st = "user" /\ proc'[p].leader = proc[p].leader
        /\ orphans' = orphans
    BY <1>2 DEF PtraceSyscall, ResumesAs, Born, Process, TypeOK
  <2>2. QED
    BY <1>2, <2>1, FollowMove, ProcType DEF Gone
<1>3. CASE proc[p].st \notin {"fatal", "exit"}
  <2>1. PICK next \in ResumesAs : proc[p].st = next[1] /\ Move(p, next[2])
    BY <1>3 DEF PtraceSyscall
  <2>2. next[2] \in {"signal", "user", "in", "exit"}
    BY DEF ResumesAs
  <2>3. proc'[p] = [proc[p] EXCEPT !.st = next[2]] /\ \A q \in Pids \ {p} : proc'[q] = proc[q]
    BY <2>1 DEF Move, TypeOK
  <2>4. proc'[p].st = next[2] /\ proc'[p].leader = proc[p].leader
    BY <2>3 DEF TypeOK, Proc
  <2>5. orphans' = orphans \ ({p} \cup Unannounced(p))
    BY <1>3 DEF PtraceSyscall
  <2>6. proc[p].st \notin Gone
    BY DEF Stops, Gone
  <2>7. QED
    BY <2>2, <2>3, <2>4, <2>5, <2>6, FollowMove, ProcType
<1>4. QED
  BY <1>1, <1>2, <1>3

\* What the build does between two stops keeps every live process known
\* or about to be announced.
LEMMA FollowBuild ==
    ASSUME TypeOK, FollowInv, Build
    PROVE  FollowInv'
<1>1. states' = states /\ KnownStays
  <2>1. states' = states
    BY DEF Build, Enter, Leave, Fork, Exec, ThreadExec, Exit, Signal, Kill
  <2>2. QED
    BY <2>1 DEF KnownStays
<1>2. ASSUME NEW p \in Pids,
             \/ \E c \in Call : Enter(p, c)
             \/ \E ret \in {"zero", "positive", "error"} : Leave(p, ret)
             \/ Exec(p)
      PROVE  FollowInv'
  <2>1. /\ \A q \in Pids \ {p} : proc'[q] = proc[q]
        /\ proc[p].st \in {"user", "in"}
        /\ proc'[p].st \in {"enter", "exit", "execed"} /\ proc'[p].leader = proc[p].leader
        /\ orphans' = orphans
    <3>1. CASE \E c \in Call : Enter(p, c)
      BY <3>1 DEF Enter, Process, TypeOK
    <3>2. CASE \E ret \in {"zero", "positive", "error"} : Leave(p, ret)
      BY <3>2 DEF Leave, Process, TypeOK
    <3>3. CASE Exec(p)
      BY <3>3 DEF Exec, Process, TypeOK
    <3>4. QED
      BY <1>2, <3>1, <3>2, <3>3
  <2>2. Unannounced(p) = {} /\ states[p] # Unknown
    BY <2>1 DEF Unannounced, FollowInv, Surfaced, Gone
  <2>3. QED
    BY <1>1, <2>1, <2>2, FollowMove, ProcType DEF Gone
<1>3. ASSUME NEW p \in Pids, NEW sig \in {"signal", "fatal"}, Signal(p, sig) PROVE FollowInv'
  <2>1. proc'[p] = [proc[p] EXCEPT !.st = sig] /\ \A q \in Pids \ {p} : proc'[q] = proc[q]
    BY <1>3 DEF Signal, Move, TypeOK
  <2>2. proc'[p].st = sig /\ proc'[p].leader = proc[p].leader
    BY <2>1 DEF TypeOK, Proc
  <2>3. proc[p].st = "user" /\ orphans' = orphans
    BY <1>3 DEF Signal
  <2>4. Unannounced(p) = {} /\ states[p] # Unknown
    BY <2>3 DEF Unannounced, FollowInv, Surfaced, Gone
  <2>5. QED
    BY <1>1, <2>1, <2>2, <2>3, <2>4, FollowMove, ProcType DEF Gone
<1>4. ASSUME NEW p \in Pids, Kill(p) \/ \E status \in ExitCodes : Exit(p, status) PROVE FollowInv'
  BY <1>1, <1>4, FollowDie DEF Kill, Exit, Gone
<1>5. ASSUME NEW p \in Pids, NEW c \in Pids, NEW leader \in Pids, Fork(p, c, leader)
      PROVE  FollowInv'
  <2>1. /\ proc[p].st = "in" /\ proc[c].st = "none" /\ p # c
        /\ proc'[p].st = "forked" /\ proc'[p].leader = proc[p].leader /\ proc'[p].child = c
        /\ proc'[c].st = "new" /\ proc'[c].leader = leader
        /\ leader \in {c, proc[p].leader}
        /\ \A q \in Pids \ {p, c} : proc'[q] = proc[q]
        /\ orphans' = orphans
    BY <1>5 DEF Fork, Process, Born, TypeOK
  <2>2. states[p] # Unknown
    BY <2>1 DEF FollowInv, Surfaced, Gone
  <2>3. Surfaced'
    BY <1>1, <2>1, <2>2 DEF FollowInv, Surfaced
  <2>4. Announced'
    <3> SUFFICES ASSUME NEW d \in Pids, proc'[d].st = "new", states'[d] = Unknown, d \notin orphans'
                 PROVE  \E q \in Pids : d \in Unannounced(q)'
      BY DEF Announced
    <3>1. CASE d = c
      <4>1. c \in Unannounced(p)'
        BY <2>1 DEF Unannounced
      <4>2. QED
        BY <3>1, <4>1
    <3>2. CASE d # c
      <4>1. d # p /\ proc[d].st = "new"
        BY <2>1, <3>2
      <4>2. PICK q \in Pids : d \in Unannounced(q)
        BY <1>1, <2>1, <4>1 DEF FollowInv, Announced
      <4>3. d \in Unannounced(q)'
        BY <2>1, <3>2, <4>1, <4>2 DEF Unannounced
      <4>4. QED
        BY <4>3
    <3>3. QED
      BY <3>1, <3>2
  <2>5. LeadersKnown'
    BY <1>1, <2>1, <2>2 DEF FollowInv, LeadersKnown
  <2>6. QED
    BY <2>3, <2>4, <2>5 DEF FollowInv
<1>6. ASSUME NEW t \in Pids, ThreadExec(t) PROVE FollowInv'
  <2> DEFINE l == proc[t].leader
  <2>1. l \in Pids
    BY ProcType
  <2>2. /\ proc[t].st = "in" /\ l # t
        /\ proc'[l].st = "execed" /\ proc'[l].leader = l
        /\ proc'[t].st = "none"
        /\ \A q \in Pids \ {l, t} : proc'[q] = proc[q]
        /\ orphans' = (orphans \cup Unannounced(l)) \ {t}
    BY <1>6, <2>1 DEF ThreadExec, Process, Born, TypeOK
  <2>3. states[l] # Unknown
    BY <2>2 DEF FollowInv, LeadersKnown
  <2> HIDE DEF l
  <2>4. Surfaced'
    BY <1>1, <2>2, <2>3 DEF FollowInv, Surfaced, Gone
  <2>5. Announced'
    <3> SUFFICES ASSUME NEW d \in Pids, proc'[d].st = "new", states'[d] = Unknown, d \notin orphans'
                 PROVE  \E q \in Pids : d \in Unannounced(q)'
      BY DEF Announced
    <3>1. d \notin {l, t} /\ proc[d].st = "new" /\ d \notin orphans
      BY <2>2
    <3>2. PICK q \in Pids : d \in Unannounced(q)
      BY <1>1, <3>1 DEF FollowInv, Announced
    <3>3. q # l /\ q # t
      BY <2>2, <3>1, <3>2 DEF Unannounced
    <3>4. d \in Unannounced(q)'
      BY <2>2, <3>1, <3>2, <3>3 DEF Unannounced
    <3>5. QED
      BY <3>4
  <2>6. LeadersKnown'
    BY <1>1, <2>2 DEF FollowInv, LeadersKnown
  <2>7. QED
    BY <2>4, <2>5, <2>6 DEF FollowInv
<1>7. QED
  BY <1>2, <1>3, <1>4, <1>5, <1>6 DEF Build

\* So does every pass of runNative's wait loop.
LEMMA FollowTracer ==
    ASSUME TypeOK, FollowInv, Tracer
    PROVE  FollowInv'
<1>1. CASE Return
  <2>1. proc' = proc /\ states' = states /\ orphans' = orphans
    BY <1>1 DEF Return, kernel
  <2>2. QED
    BY <2>1 DEF FollowInv, Surfaced, Announced, LeadersKnown, Unannounced
<1>2. ASSUME NEW p \in Pids, Reap(p) PROVE FollowInv'
  <2>1. /\ proc[p].st = "dead" /\ \A t \in Pids \ {p} : proc[t].leader = p => proc[t].st = "none"
        /\ proc'[p].st = "none" /\ states'[p] = Unknown
        /\ \A q \in Pids \ {p} : proc'[q] = proc[q] /\ states'[q] = states[q]
        /\ orphans' = orphans
    BY <1>2 DEF Reap, Born, Process, TypeOK
  <2>2. Surfaced'
    BY <2>1 DEF FollowInv, Surfaced, Gone
  <2>3. Announced'
    <3> SUFFICES ASSUME NEW d \in Pids, proc'[d].st = "new", states'[d] = Unknown, d \notin orphans'
                 PROVE  \E q \in Pids : d \in Unannounced(q)'
      BY DEF Announced
    <3>1. d # p /\ proc[d].st = "new" /\ states[d] = Unknown /\ d \notin orphans
      BY <2>1
    <3>2. PICK q \in Pids : d \in Unannounced(q)
      BY <3>1 DEF FollowInv, Announced
    <3>3. q # p
      BY <2>1, <3>2 DEF Unannounced
    <3>4. d \in Unannounced(q)'
      BY <2>1, <3>1, <3>2, <3>3 DEF Unannounced
    <3>5. QED
      BY <3>4
  <2>4. LeadersKnown'
    <3> SUFFICES ASSUME NEW t \in Pids, proc'[t].st # "none", proc'[t].leader # t
                 PROVE  states'[proc'[t].leader] # Unknown
      BY DEF LeadersKnown
    <3>1. t # p /\ proc[t].leader # p
      BY <2>1
    <3>2. states[proc[t].leader] # Unknown /\ proc[t].leader \in Pids
      BY <2>1, <3>1, ProcType DEF FollowInv, LeadersKnown
    <3>3. QED
      BY <2>1, <3>1, <3>2
  <2>5. QED
    BY <2>2, <2>3, <2>4 DEF FollowInv
<1>3. ASSUME NEW p \in Pids, StopVanishes(p) PROVE FollowInv'
  <2>1. /\ proc[p].st \in Stops /\ Die(p, "killed")
        /\ \A q \in Pids \ {p} : states'[q] = states[q]
        /\ states'[p] \in PidState
    BY <1>3, StateOfType DEF StopVanishes, InStop, TypeOK, PidState
  <2>2. KnownStays
    BY <2>1, MarksAssumption DEF KnownStays
  <2>3. QED
    BY <2>1, <2>2, FollowDie DEF Stops, Gone
<1>4. ASSUME NEW p \in Pids, SyscallEnter(p) \/ SyscallExit(p) \/ OtherStop(p) PROVE FollowInv'
  <2>1. /\ proc[p].st \in Stops /\ proc[p].st # "forked" /\ PtraceSyscall(p)
        /\ \A q \in Pids \ {p} : states'[q] = states[q]
        /\ states'[p] \in PidState
    <3>1. CASE SyscallEnter(p)
      BY <3>1, CapturedType DEF SyscallEnter, InStop, Stops, TypeOK
    <3>2. CASE SyscallExit(p)
      BY <3>2, ConstantTypes DEF SyscallExit, InStop, Stops, TypeOK
    <3>3. CASE OtherStop(p)
      BY <3>3, StateOfType DEF OtherStop, InStop, Stops, TypeOK
    <3>4. QED
      BY <1>4, <3>1, <3>2, <3>3
  <2>2. KnownStays /\ states'[p] # Unknown /\ Unannounced(p) = {}
    BY <2>1, MarksAssumption DEF KnownStays, Unannounced
  <2>3. QED
    BY <2>1, <2>2, FollowPtraceSyscall
<1>5. ASSUME NEW p \in Pids, ForkEvent(p) PROVE FollowInv'
  <2>1. proc[p].st \in Stops /\ PtraceSyscall(p) /\ proc[p].child \in Pids
    BY <1>5 DEF ForkEvent, InStop, Stops, TypeOK, Proc
  <2>2. /\ states'[p] # Unknown /\ states'[proc[p].child] # Unknown
        /\ \A q \in Pids : states[q] # Unknown => states'[q] # Unknown
    BY <1>5, <2>1, StateOfType, ConstantTypes, MarksAssumption DEF ForkEvent, TypeOK
  <2>3. KnownStays /\ \A c \in Unannounced(p) : states'[c] # Unknown
    BY <2>2 DEF KnownStays, Unannounced
  <2>4. QED
    BY <2>1, <2>2, <2>3, FollowPtraceSyscall
<1>6. QED
  BY <1>1, <1>2, <1>3, <1>4, <1>5 DEF Tracer

\* When runNative returns, what is still alive is an orphan: it was created by a
\* process that died inside that very fork.
THEOREM NobodyLeftBehind == Spec => []LeavesNothingBehind
<1>1. Init => FollowInv /\ LeavesNothingBehind
  <2> SUFFICES ASSUME Init PROVE FollowInv /\ LeavesNothingBehind
    OBVIOUS
  <2>1. \A p \in Pids : /\ proc[p].st = IF p = Root THEN "user" ELSE "none"
                        /\ proc[p].leader = p
                        /\ p = Root => states[p] = Fresh
    BY DEF Init, Born, Process
  <2>2. FollowInv
    BY <2>1, ConstantTypes DEF FollowInv, Surfaced, Announced, LeadersKnown, Gone
  <2>3. QED
    BY <2>2 DEF Init, LeavesNothingBehind
<1>2. TypeOK /\ FollowInv /\ LeavesNothingBehind /\ [Next]_vars => FollowInv' /\ LeavesNothingBehind'
  <2> SUFFICES ASSUME TypeOK, FollowInv, LeavesNothingBehind, [Next]_vars
               PROVE  FollowInv' /\ LeavesNothingBehind'
    OBVIOUS
  <2>1. CASE UNCHANGED vars
    BY <2>1 DEF vars, kernel, FollowInv, Surfaced, Announced, LeadersKnown, Unannounced,
       LeavesNothingBehind
  <2>2. CASE tracer = "loop" /\ Build
    <3>1. tracer' = "loop"
      BY <2>2 DEF Build, Enter, Leave, Fork, Exec, ThreadExec, Exit, Signal, Kill
    <3>2. QED
      BY <2>2, <3>1, FollowBuild DEF LeavesNothingBehind
  <2>3. CASE tracer = "loop" /\ Tracer
    <3>1. FollowInv'
      BY <2>3, FollowTracer
    <3>2. CASE Return
      <4>1. proc' = proc /\ states' = states /\ orphans' = orphans
        BY <3>2 DEF Return, kernel
      <4>2. CASE \A p \in Pids : states[p] = Unknown
        <5>1. ASSUME NEW p \in Pids, proc[p].st \notin Gone PROVE p \in orphans
          <6>1. proc[p].st = "new"
            BY <4>2, <5>1 DEF FollowInv, Surfaced
          <6>2. \A q \in Pids : proc[q].st # "forked"
            BY <4>2 DEF FollowInv, Surfaced, Gone
          <6>3. \A q \in Pids : p \notin Unannounced(q)
            BY <6>2 DEF Unannounced
          <6>4. QED
            BY <4>2, <6>1, <6>3 DEF FollowInv, Announced
        <5>2. QED
          BY <3>1, <4>1, <5>1 DEF LeavesNothingBehind
      <4>3. CASE \A p \in Pids : proc[p].st = "none"
        BY <3>1, <4>1, <4>3 DEF LeavesNothingBehind, Gone
      <4>4. QED
        BY <3>1, <3>2, <4>2, <4>3 DEF Return
    <3>3. CASE ~Return
      <4>1. tracer' = "loop"
        BY <2>3, <3>3 DEF Tracer, Reap, SyscallEnter, SyscallExit, ForkEvent, OtherStop,
           StopVanishes, PtraceSyscall
      <4>2. QED
        BY <3>1, <4>1 DEF LeavesNothingBehind
    <3>4. QED
      BY <3>1, <3>2, <3>3
  <2>4. QED
    BY <2>1, <2>2, <2>3 DEF Next, Returned
<1>3. QED
  BY <1>1, <1>2, TypeCorrect, PTL DEF Spec

(***************************************************************************)
(* The exit status.  The root is registered until it is reaped, its pid is *)
(* its thread group's, and its corpse holds the status it died with.       *)
(***************************************************************************)

RootInv ==
    /\ proc[Root].leader = Root
    /\ proc[Root].st # "none" => states[Root] # Unknown
    /\ proc[Root].st = "none" => rootExit = rootStatus
    /\ proc[Root].st = "dead" => proc[Root].status = rootStatus

\* A step that leaves the root as it is, and registered.
LEMMA RootKept ==
    ASSUME RootInv, proc'[Root] = proc[Root], rootExit' = rootExit, rootStatus' = rootStatus,
           states[Root] # Unknown => states'[Root] # Unknown
    PROVE  RootInv'
BY DEF RootInv

\* A step that moves the root, without its death.
LEMMA RootMoves ==
    ASSUME RootInv, proc[Root].st \notin Gone, proc'[Root].st \notin Gone,
           proc'[Root].leader = Root, states[Root] # Unknown => states'[Root] # Unknown
    PROVE  RootInv'
BY DEF RootInv, Gone

\* A death of the root records the status the tracer has to exit with.
LEMMA RootDie ==
    ASSUME TypeOK, RootInv, NEW p \in Pids, NEW status, Die(p, status), rootExit' = rootExit,
           proc[p].st \notin Gone,
           states[Root] # Unknown => states'[Root] # Unknown
    PROVE  RootInv'
<1>1. CASE p = Root
  <2>1. /\ proc'[Root].st = "dead" /\ proc'[Root].leader = proc[Root].leader
        /\ proc'[Root].status = status /\ rootStatus' = status
    BY <1>1 DEF Die, Born, Process, TypeOK
  <2>2. QED
    BY <1>1, <2>1 DEF RootInv, Gone
<1>2. CASE p # Root
  <2>1. proc'[Root] = proc[Root] /\ rootStatus' = rootStatus
    BY <1>2, DieMoves, TracerAssumption DEF Die
  <2>2. QED
    BY <2>1, RootKept
<1>3. QED
  BY <1>1, <1>2

\* Resuming a process keeps the root's status, or records it when the
\* resumed root is killed.
LEMMA RootPtraceSyscall ==
    ASSUME TypeOK, RootInv, NEW p \in Pids, proc[p].st \in Stops, PtraceSyscall(p),
           states[Root] # Unknown => states'[Root] # Unknown
    PROVE  RootInv'
<1>1. rootExit' = rootExit
  BY DEF PtraceSyscall
<1>2. CASE proc[p].st = "fatal"
  <2>1. Die(p, "killed")
    BY <1>2 DEF PtraceSyscall, ResumesAs
  <2>2. QED
    BY <1>1, <1>2, <2>1, RootDie DEF Gone
<1>3. CASE proc[p].st # "fatal" /\ p # Root
  <2>1. proc'[Root] = proc[Root]
    BY <1>3, PtraceSyscallMoves, TracerAssumption
  <2>2. rootStatus' = rootStatus
    BY <1>3 DEF PtraceSyscall
  <2>3. QED
    BY <1>1, <2>1, <2>2, RootKept
<1>4. CASE proc[p].st # "fatal" /\ p = Root
  <2>1. CASE proc[p].st = "exit"
    <3>1. proc'[p].st = "user" /\ proc'[p].leader = proc[p].leader
      BY <2>1 DEF PtraceSyscall, ResumesAs, Born, Process, TypeOK
    <3>2. QED
      BY <1>4, <2>1, <3>1, RootMoves DEF Gone, RootInv
  <2>2. CASE proc[p].st # "exit"
    <3>1. PICK next \in ResumesAs : proc[p].st = next[1] /\ Move(p, next[2])
      BY <1>4, <2>2 DEF PtraceSyscall
    <3>2. proc'[p] = [proc[p] EXCEPT !.st = next[2]]
      BY <3>1 DEF Move, TypeOK
    <3>3. proc'[p].st = next[2] /\ proc'[p].leader = proc[p].leader
      BY <3>2 DEF TypeOK, Proc
    <3>4. next[2] \notin Gone /\ proc[p].st \notin Gone
      BY DEF ResumesAs, Gone, Stops
    <3>5. QED
      BY <1>4, <3>3, <3>4, RootMoves DEF RootInv
  <2>3. QED
    BY <2>1, <2>2
<1>5. QED
  BY <1>2, <1>3, <1>4

\* Steps of the build touch the root's status only when the root exits.
LEMMA RootBuild ==
    ASSUME TypeOK, RootInv, Build
    PROVE  RootInv'
<1>1. states' = states /\ rootExit' = rootExit
  BY DEF Build, Enter, Leave, Fork, Exec, ThreadExec, Exit, Signal, Kill
<1>2. ASSUME NEW p \in Pids, p # Root \/ proc[p].st \in {"user", "in"},
             \A q \in Pids \ {p} : proc'[q] = proc[q],
             proc'[p].st \notin Gone, proc'[p].leader = proc[p].leader,
             rootStatus' = rootStatus
      PROVE  RootInv'
  <2>1. CASE p # Root
    BY <1>1, <1>2, <2>1, RootKept, TracerAssumption
  <2>2. CASE p = Root
    BY <1>1, <1>2, <2>2, RootMoves DEF Gone, RootInv
  <2>3. QED
    BY <2>1, <2>2
<1>3. ASSUME NEW p \in Pids, \E c \in Call : Enter(p, c) PROVE RootInv'
  BY <1>2, <1>3 DEF Enter, Process, TypeOK, Gone
<1>4. ASSUME NEW p \in Pids, \E ret \in {"zero", "positive", "error"} : Leave(p, ret) PROVE RootInv'
  BY <1>2, <1>4 DEF Leave, Process, TypeOK, Gone
<1>5. ASSUME NEW p \in Pids, Exec(p) PROVE RootInv'
  BY <1>2, <1>5 DEF Exec, Process, TypeOK, Gone
<1>6. ASSUME NEW p \in Pids, NEW sig \in {"signal", "fatal"}, Signal(p, sig) PROVE RootInv'
  <2>1. proc'[p] = [proc[p] EXCEPT !.st = sig] /\ \A q \in Pids \ {p} : proc'[q] = proc[q]
    BY <1>6 DEF Signal, Move, TypeOK
  <2>2. proc'[p].st = sig /\ proc'[p].leader = proc[p].leader
    BY <2>1 DEF TypeOK, Proc
  <2>3. QED
    BY <1>2, <1>6, <2>1, <2>2 DEF Signal, Gone
<1>7. ASSUME NEW p \in Pids, Kill(p) \/ \E status \in ExitCodes : Exit(p, status) PROVE RootInv'
  BY <1>1, <1>7, RootDie DEF Kill, Exit, Gone
<1>8. ASSUME NEW p \in Pids, NEW c \in Pids, NEW leader \in Pids, Fork(p, c, leader) PROVE RootInv'
  <2>1. /\ proc[p].st = "in" /\ c # Root /\ p # c
        /\ proc'[p].st = "forked" /\ proc'[p].leader = proc[p].leader
        /\ \A q \in Pids \ {p, c} : proc'[q] = proc[q]
        /\ rootStatus' = rootStatus
    BY <1>8 DEF Fork, Process, TypeOK
  <2>2. CASE p = Root
    BY <1>1, <2>1, <2>2, RootMoves DEF Gone, RootInv
  <2>3. CASE p # Root
    BY <1>1, <2>1, <2>3, RootKept, TracerAssumption
  <2>4. QED
    BY <2>2, <2>3
<1>9. ASSUME NEW t \in Pids, ThreadExec(t) PROVE RootInv'
  <2> DEFINE l == proc[t].leader
  <2>1. l \in Pids
    BY ProcType
  <2>2. /\ l # t /\ proc[l].st # "none"
        /\ proc'[l].st = "execed" /\ proc'[l].leader = l
        /\ \A q \in Pids \ {l, t} : proc'[q] = proc[q]
        /\ rootStatus' = rootStatus
    BY <1>9, <2>1 DEF ThreadExec, Process, Born, TypeOK
  <2>3. t # Root
    BY <2>2 DEF RootInv
  <2> HIDE DEF l
  <2>4. CASE l = Root
    BY <1>1, <2>2, <2>4 DEF RootInv
  <2>5. CASE l # Root
    BY <1>1, <2>2, <2>3, <2>5, RootKept, TracerAssumption
  <2>6. QED
    BY <2>4, <2>5
<1>10. QED
  BY <1>3, <1>4, <1>5, <1>6, <1>7, <1>8, <1>9 DEF Build

\* runNative takes its exit status from the root's reaping alone.
LEMMA RootTracer ==
    ASSUME TypeOK, RootInv, Tracer
    PROVE  RootInv'
<1>1. CASE Return
  BY <1>1 DEF Return, kernel, RootInv
<1>2. ASSUME NEW p \in Pids, Reap(p) PROVE RootInv'
  <2>1. /\ proc[p].st = "dead" /\ proc'[p].st = "none" /\ proc'[p].leader = p
        /\ \A q \in Pids \ {p} : proc'[q] = proc[q] /\ states'[q] = states[q]
        /\ rootExit' = IF p = Root THEN proc[p].status ELSE rootExit
        /\ rootStatus' = rootStatus
    BY <1>2 DEF Reap, Born, Process, TypeOK
  <2>2. CASE p = Root
    BY <2>1, <2>2 DEF RootInv
  <2>3. CASE p # Root
    BY <2>1, <2>3, RootKept, TracerAssumption
  <2>4. QED
    BY <2>2, <2>3
<1>3. ASSUME NEW p \in Pids, StopVanishes(p) PROVE RootInv'
  <2>1. /\ proc[p].st \in Stops /\ Die(p, "killed") /\ rootExit' = rootExit
        /\ \A q \in Pids \ {p} : states'[q] = states[q]
        /\ states'[p] \in PidState
    BY <1>3, StateOfType DEF StopVanishes, InStop, TypeOK, PidState
  <2>2. states[Root] # Unknown => states'[Root] # Unknown
    BY <2>1, MarksAssumption, TracerAssumption
  <2>3. proc[p].st \notin Gone
    BY <2>1 DEF Stops, Gone
  <2>4. QED
    BY <2>1, <2>2, <2>3, RootDie
<1>4. ASSUME NEW p \in Pids, SyscallEnter(p) \/ SyscallExit(p) \/ OtherStop(p) \/ ForkEvent(p)
      PROVE  RootInv'
  <2>1. proc[p].st \in Stops /\ PtraceSyscall(p)
    BY <1>4 DEF SyscallEnter, SyscallExit, OtherStop, ForkEvent, InStop, Stops
  <2>2. states[Root] # Unknown => states'[Root] # Unknown
    <3>1. CASE SyscallEnter(p)
      BY <3>1, CapturedType, MarksAssumption, TracerAssumption DEF SyscallEnter, TypeOK
    <3>2. CASE SyscallExit(p)
      BY <3>2, ConstantTypes, TracerAssumption DEF SyscallExit, TypeOK
    <3>3. CASE OtherStop(p)
      BY <3>3, StateOfType, MarksAssumption, TracerAssumption DEF OtherStop, TypeOK
    <3>4. CASE ForkEvent(p)
      BY <3>4, StateOfType, ConstantTypes, MarksAssumption, TracerAssumption DEF ForkEvent, TypeOK
    <3>5. QED
      BY <1>4, <3>1, <3>2, <3>3, <3>4
  <2>3. QED
    BY <2>1, <2>2, RootPtraceSyscall
<1>5. QED
  BY <1>1, <1>2, <1>3, <1>4 DEF Tracer

\* What runNative returns is the status the build command itself died with.
THEOREM ExitStatusCorrect == Spec => []ExitPropagates
<1>1. Init => RootInv /\ ExitPropagates
  <2> SUFFICES ASSUME Init PROVE RootInv /\ ExitPropagates
    OBVIOUS
  <2>1. proc[Root].st = "user" /\ proc[Root].leader = Root /\ states[Root] = Fresh
    BY TracerAssumption DEF Init, Born, Process
  <2>2. QED
    BY <2>1, ConstantTypes DEF Init, RootInv, ExitPropagates
<1>2. TypeOK /\ RootInv /\ ExitPropagates /\ [Next]_vars => RootInv' /\ ExitPropagates'
  <2> SUFFICES ASSUME TypeOK, RootInv, ExitPropagates, [Next]_vars
               PROVE  RootInv' /\ ExitPropagates'
    OBVIOUS
  <2>1. CASE UNCHANGED vars
    BY <2>1 DEF vars, kernel, RootInv, ExitPropagates
  <2>2. CASE tracer = "loop" /\ Build
    <3>1. tracer' = "loop"
      BY <2>2 DEF Build, Enter, Leave, Fork, Exec, ThreadExec, Exit, Signal, Kill
    <3>2. QED
      BY <2>2, <3>1, RootBuild DEF ExitPropagates
  <2>3. CASE tracer = "loop" /\ Tracer
    <3>1. RootInv'
      BY <2>3, RootTracer
    <3>2. CASE Return
      <4>1. proc[Root].st = "none"
        BY <3>2, TracerAssumption DEF Return, RootInv
      <4>2. rootExit = rootStatus /\ rootExit' = rootExit /\ rootStatus' = rootStatus
        BY <3>2, <4>1 DEF Return, kernel, RootInv
      <4>3. QED
        BY <3>1, <4>2 DEF ExitPropagates
    <3>3. CASE ~Return
      <4>1. tracer' = "loop"
        BY <2>3, <3>3 DEF Tracer, Reap, SyscallEnter, SyscallExit, ForkEvent, OtherStop,
           StopVanishes, PtraceSyscall
      <4>2. QED
        BY <3>1, <4>1 DEF ExitPropagates
    <3>4. QED
      BY <3>2, <3>3
  <2>4. QED
    BY <2>1, <2>2, <2>3 DEF Next, Returned
<1>3. QED
  BY <1>1, <1>2, TypeCorrect, PTL DEF Spec
=============================================================================
