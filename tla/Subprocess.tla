----------------------------- MODULE Subprocess -----------------------------
(***************************************************************************)
(* Subprocess objects of one process, each used by a thread of its own,    *)
(* and the processes they start (src/Posix/SubprocessPosix.cpp and         *)
(* src/Win32/SubprocessWin32.cpp; CloseAllFilesExcept in                   *)
(* src/Linux/SubprocessLinux.cpp and src/Mach/SubprocessMach.cpp).         *)
(*                                                                         *)
(* A pipe connects the parent with each child.  A child that destroys its  *)
(* own Subprocess object writes a token into it; a pipe that breaks        *)
(* without one means a crash.  The monitor thread of an object reads the   *)
(* pipe, reports, waits for the child and meanwhile replaces the handler   *)
(* of SIGINT, which belongs to the whole process.                          *)
(*                                                                         *)
(* Pipes, and the processes at their ends, are numbered in the order the   *)
(* pipes are made.  Descriptors are inherited: who holds a write end keeps *)
(* the pipe from breaking.                                                 *)
(***************************************************************************)
EXTENDS Naturals, FiniteSets

CONSTANTS
  Objects,   \* the Subprocess objects of the parent
  MaxPipes   \* bound: pipes made

ASSUME SubprocessAssumption == MaxPipes \in Nat

NoPipe == 0
Pipes == 1 .. MaxPipes

VARIABLES
  os,        \* "posix" or "win32"
  made,      \* how many pipes were made
  call,      \* call[s]: where the thread of s is in which method
  impl,      \* impl[s]: Subprocess::Impl
  monitor,   \* monitor[s]: the worker thread
  writeEnds, \* the write ends the parent holds
  process,   \* process[p]: the process started with pipe p
  sigint,    \* the handler of SIGINT: the application's or the monitors'
  overlap    \* history: monitors of two objects had installed at once

vars == <<os, made, call, impl, monitor, writeEnds, process, sigint, overlap>>

-----------------------------------------------------------------------------
Monitoring(s) == monitor[s].pc \in {"read", "wait", "restore"}
Alive(p) == process[p].state \in {"forked", "ready", "running", "finishing"}

(* A process that is nobody's yet.  ends: the write ends it holds; token:   *)
(* whether it wrote into its pipe; report: what its parent was told.        *)
Unborn == [state |-> "none", detached |-> FALSE, ends |-> {},
           token |-> FALSE, failed |-> FALSE, report |-> "none"]

Idle == [pc |-> "idle", pipe |-> NoPipe, detached |-> FALSE]

Init ==
  /\ os \in {"posix", "win32"}
  /\ made = 0
  /\ call = [s \in Objects |-> Idle]
  /\ impl = [s \in Objects |-> [pipe |-> NoPipe, joinable |-> FALSE]]
  /\ monitor = [s \in Objects |-> [pc |-> "none", saved |-> "none"]]
  /\ writeEnds = {}
  /\ process = [p \in Pipes |-> Unborn]
  /\ sigint = "application"
  /\ overlap = FALSE

-----------------------------------------------------------------------------
(* The thread of an object: StartChild, StartDetached and the destructor.   *)

Begin(s, pc) ==
  /\ call[s].pc = "idle"
  /\ call' = [call EXCEPT ![s] = [Idle EXCEPT !.pc = pc,
                                              !.detached = pc = "pipe"]]
  /\ UNCHANGED <<os, made, impl, monitor, writeEnds, process, sigint, overlap>>

StartChild(s) == made < MaxPipes /\ Begin(s, "join")

(* On Windows StartDetached is one CreateProcess that inherits nothing.     *)
StartDetached(s) == os = "posix" /\ made < MaxPipes /\ Begin(s, "pipe")

Destroy(s) == Begin(s, "destroy")

(* Faulty variant: the monitor of the previous child is awaited until it    *)
(* has done with the child only.                                            *)
DoneWithChild(s) == monitor[s].pc \in {"restore", "ended"}

MonitorEnded(s) == monitor[s].pc = "ended"

(* JoinChild(), with which StartChild and the destructor begin: the monitor *)
(* of the previous child must end, then its pipe is closed.                 *)
JoinChild(s) ==
  /\ call[s].pc \in {"join", "destroy"}
  /\ impl[s].joinable => MonitorEnded(s)
  /\ impl' = [impl EXCEPT ![s].joinable = FALSE,
                          ![s].pipe = IF impl[s].joinable THEN NoPipe ELSE @]
  /\ call' = [call EXCEPT ![s].pc = IF @ = "join" THEN "pipe" ELSE "gone"]
  /\ UNCHANGED <<os, made, monitor, writeEnds, process, sigint, overlap>>

CreatePipe(s) ==
  /\ call[s].pc = "pipe"
  /\ \/ /\ made < MaxPipes
        /\ made' = made + 1
        /\ writeEnds' = writeEnds \cup {made'}
        /\ call' = [call EXCEPT ![s].pc = "launch", ![s].pipe = made']
        /\ impl' = [impl EXCEPT ![s].pipe =
                      IF os = "win32" THEN made' ELSE @]
     \/ /\ call' = [call EXCEPT ![s] = Idle]
        /\ UNCHANGED <<made, writeEnds, impl>>
  /\ UNCHANGED <<os, monitor, process, sigint, overlap>>

(* Faulty variant: the ends are left open when no process could be made.    *)
EndKept(ends, p) == ends

EndClosed(ends, p) == ends \ {p}

(* fork() or CreateProcess().  The process inherits every write end that is *)
(* open, also one that another thread has made and not yet closed.          *)
Launch(s) ==
  /\ call[s].pc = "launch"
  /\ LET p == call[s].pipe
     IN  \/ /\ process' = [process EXCEPT ![p] =
                 [Unborn EXCEPT
                    !.state = IF os = "posix" THEN "forked" ELSE "running",
                    !.detached = call[s].detached, !.ends = writeEnds]]
            /\ call' = [call EXCEPT ![s].pc = "close"]
            /\ UNCHANGED <<writeEnds, impl>>
         \/ /\ writeEnds' = EndClosed(writeEnds, p)
            /\ impl' = [impl EXCEPT ![s].pipe =
                          IF os = "win32" THEN NoPipe ELSE @]
            /\ call' = [call EXCEPT ![s] = Idle]
            /\ UNCHANGED process
  /\ UNCHANGED <<os, made, monitor, sigint, overlap>>

(* Faulty variant: the parent keeps its write end.                          *)
WriteEndKept(ends, p) == ends

WithoutWriteEnd(ends, p) == ends \ {p}

(* The parent closes its write end and starts the monitor; StartChild       *)
(* returns.                                                                 *)
SpawnMonitor(s) ==
  /\ call[s].pc = "close" /\ ~call[s].detached
  /\ writeEnds' = WithoutWriteEnd(writeEnds, call[s].pipe)
  /\ impl' = [impl EXCEPT ![s] = [pipe |-> call[s].pipe, joinable |-> TRUE]]
  /\ monitor' = [monitor EXCEPT ![s] = [pc |-> "install", saved |-> "none"]]
  /\ call' = [call EXCEPT ![s] = Idle]
  /\ UNCHANGED <<os, made, process, sigint, overlap>>

CloseDetached(s) ==
  /\ call[s].pc = "close" /\ call[s].detached
  /\ writeEnds' = WithoutWriteEnd(writeEnds, call[s].pipe)
  /\ call' = [call EXCEPT ![s].pc = "reap"]
  /\ UNCHANGED <<os, made, impl, monitor, process, sigint, overlap>>

(* waitpid() for the process between; its exit status tells of a failure.   *)
ReapDetached(s) ==
  LET p == call[s].pipe
  IN  /\ call[s].pc = "reap"
      /\ process[p].state = "dead"
      /\ process' = [process EXCEPT ![p].state = "reaped"]
      /\ call' = [call EXCEPT ![s] =
                    IF process[p].failed THEN Idle ELSE [@ EXCEPT !.pc = "id"]]
      /\ UNCHANGED <<os, made, impl, monitor, writeEnds, sigint, overlap>>

(* No process holds the pipe: read() returns 0 once it is empty.            *)
PipeBroken(p) ==
  /\ p \notin writeEnds
  /\ \A q \in Pipes : p \notin process[q].ends

(* The identifier of the detached process is read from the pipe, or 0 is    *)
(* returned.                                                                *)
ReadId(s) ==
  LET p == call[s].pipe
  IN  /\ call[s].pc = "id"
      /\ process[p].token \/ PipeBroken(p)
      /\ process' = [process EXCEPT ![p].report =
                       IF process[p].token THEN "started" ELSE "none"]
      /\ call' = [call EXCEPT ![s] = Idle]
      /\ UNCHANGED <<os, made, impl, monitor, writeEnds, sigint, overlap>>

-----------------------------------------------------------------------------
(* MonitorChild().                                                          *)

InstallHandler(s) ==
  /\ monitor[s].pc = "install"
  /\ monitor' = [monitor EXCEPT ![s] = [pc |-> "read", saved |-> sigint]]
  /\ sigint' = "monitor"
  /\ overlap' = (overlap \/ \E t \in Objects \ {s} : Monitoring(t))
  /\ UNCHANGED <<os, made, call, impl, writeEnds, process>>

Report(s, what) ==
  /\ process' = [process EXCEPT ![impl[s].pipe].report = what]
  /\ monitor' = [monitor EXCEPT ![s].pc = "wait"]
  /\ UNCHANGED <<os, made, call, impl, writeEnds, sigint, overlap>>

ChildExited(s) ==
  /\ monitor[s].pc = "read"
  /\ process[impl[s].pipe].token
  /\ Report(s, "exited")

(* Faulty variant: an interrupted read() is taken for a broken pipe.        *)
BrokenOrInterrupted(p) == TRUE

(* An interrupted read() is repeated.                                       *)
Broken(p) == PipeBroken(p)

ChildCrashed(s) ==
  /\ monitor[s].pc = "read"
  /\ ~process[impl[s].pipe].token
  /\ Broken(impl[s].pipe)
  /\ Report(s, "crashed")

WaitChild(s) ==
  /\ monitor[s].pc = "wait"
  /\ process[impl[s].pipe].state = "dead"
  /\ process' = [process EXCEPT ![impl[s].pipe].state = "reaped"]
  /\ monitor' = [monitor EXCEPT ![s].pc = "restore"]
  /\ UNCHANGED <<os, made, call, impl, writeEnds, sigint, overlap>>

RestoreHandler(s) ==
  /\ monitor[s].pc = "restore"
  /\ sigint' = monitor[s].saved
  /\ monitor' = [monitor EXCEPT ![s].pc = "ended"]
  /\ UNCHANGED <<os, made, call, impl, writeEnds, process, overlap>>

-----------------------------------------------------------------------------
(* The started processes.                                                   *)

Becomes(p, record) ==
  /\ process' = [process EXCEPT ![p] = record]
  /\ UNCHANGED <<os, made, call, impl, monitor, writeEnds, sigint, overlap>>

(* CloseAllFilesExcept() after fork().  It closes nothing when it cannot    *)
(* list the descriptors, for want of one to list them with.                 *)
CloseOthers(p) ==
  /\ process[p].state = "forked"
  /\ \E ends \in {{p}, process[p].ends} :
       Becomes(p, [process[p] EXCEPT !.state = "ready", !.ends = ends])

Exec(p) ==
  /\ process[p].state = "ready" /\ ~process[p].detached
  /\ Becomes(p, [process[p] EXCEPT !.state = "running"])

Ended(r) == [r EXCEPT !.state = "dead", !.ends = {}]

(* The process between forks the detached one, writes its identifier and    *)
(* exits, or exits with a failure.                                          *)
ForkDetached(p) ==
  /\ process[p].state = "ready" /\ process[p].detached
  /\ \/ Becomes(p, [Ended(process[p]) EXCEPT !.token = TRUE])
     \/ Becomes(p, [Ended(process[p]) EXCEPT !.failed = TRUE])

(* The destructor in a child that has called ContactParent().               *)
TellParent(p) ==
  /\ process[p].state = "running"
  /\ Becomes(p, [process[p] EXCEPT !.state = "finishing", !.token = TRUE])

(* A process ends: by itself a second after the token, without one, because *)
(* execv() fails, by a crash, or killed (Kill).                             *)
End(p) == Alive(p) /\ Becomes(p, Ended(process[p]))

-----------------------------------------------------------------------------
CallStep(s) ==
  \/ JoinChild(s) \/ CreatePipe(s) \/ Launch(s) \/ SpawnMonitor(s)
  \/ CloseDetached(s) \/ ReapDetached(s) \/ ReadId(s)

MonitorStep(s) ==
  \/ InstallHandler(s) \/ ChildExited(s) \/ ChildCrashed(s)
  \/ WaitChild(s) \/ RestoreHandler(s)

ProcessStep(p) ==
  CloseOthers(p) \/ Exec(p) \/ ForkDetached(p) \/ TellParent(p) \/ End(p)

Next ==
  \/ \E s \in Objects :
       StartChild(s) \/ StartDetached(s) \/ Destroy(s)
         \/ CallStep(s) \/ MonitorStep(s)
  \/ \E p \in Pipes : ProcessStep(p)

Spec == Init /\ [][Next]_vars

(* Threads run, and processes end some day.                                 *)
FairSpec ==
  /\ Spec
  /\ \A s \in Objects : WF_vars(CallStep(s)) /\ WF_vars(MonitorStep(s))
  /\ \A p \in Pipes : WF_vars(ProcessStep(p))

-----------------------------------------------------------------------------
TypeOK ==
  /\ os \in {"posix", "win32"}
  /\ made \in 0 .. MaxPipes
  /\ call \in [Objects -> [pc : {"idle", "join", "pipe", "launch", "close",
                                 "reap", "id", "destroy", "gone"},
                           pipe : Pipes \cup {NoPipe}, detached : BOOLEAN]]
  /\ impl \in [Objects -> [pipe : Pipes \cup {NoPipe}, joinable : BOOLEAN]]
  /\ monitor \in [Objects -> [pc : {"none", "install", "read", "wait",
                                    "restore", "ended"},
                              saved : {"none", "application", "monitor"}]]
  /\ writeEnds \subseteq Pipes
  /\ process \in [Pipes -> [state : {"none", "forked", "ready", "running",
                                     "finishing", "dead", "reaped"},
                            detached : BOOLEAN, ends : SUBSET Pipes,
                            token : BOOLEAN, failed : BOOLEAN,
                            report : {"none", "started", "exited", "crashed"}]]
  /\ sigint \in {"application", "monitor"}
  /\ overlap \in BOOLEAN

(* A child is reported crashed only when it is gone without having told its *)
(* parent, and exited only when it has; never while another process that    *)
(* inherited the pipe keeps the answer open.                                *)
ReportedAsItEnded ==
  \A p \in Pipes :
    /\ process[p].report \in {"exited", "started"} => process[p].token
    /\ process[p].report = "crashed" =>
         ~process[p].token /\ process[p].state \in {"dead", "reaped"}

(* While a child is monitored SIGINT has the monitors' handler, and the     *)
(* application's otherwise, over any number of children of one object: each *)
(* StartChild waits for the previous monitor.  It is not so once monitors   *)
(* of two objects have overlapped.                                          *)
InterruptsIgnoredWhileMonitored ==
  ~overlap =>
    (sigint = "monitor" <=> \E s \in Objects : Monitoring(s))

(* Whatever fails, every write end of a pipe, every read end that an object *)
(* keeps, and every process that has ended has somebody in the parent who   *)
(* will close or wait for it.                                               *)
NothingLeaks ==
  /\ \A p \in writeEnds :
       \E s \in Objects : call[s].pipe = p /\ call[s].pc \in {"launch", "close"}
  /\ \A s \in Objects :
       impl[s].pipe # NoPipe =>
         impl[s].joinable \/ call[s].pc \in {"launch", "close"}
  /\ \A p \in Pipes : process[p].state \notin {"none", "reaped"} =>
       \E s \in Objects :
         \/ call[s].pipe = p /\ call[s].pc \in {"close", "reap"}
         \/ impl[s].pipe = p /\ monitor[s].pc \in {"install", "read", "wait"}

(* Every child is reported once it has ended, although other processes may  *)
(* have inherited its pipe, and StartChild, StartDetached and the           *)
(* destructor return.                                                       *)
EndsAreReported ==
  /\ \A p \in Pipes :
       process[p].state = "dead" /\ ~process[p].detached
         ~> process[p].report \in {"exited", "crashed"}
  /\ \A s \in Objects :
       call[s].pc # "idle" ~> call[s].pc \in {"idle", "gone"}
=============================================================================
