-------------------------- MODULE SubprocessProofs --------------------------
(***************************************************************************)
(* Proofs about Subprocess, for any set of objects and any number of       *)
(* pipes.                                                                  *)
(***************************************************************************)
EXTENDS Subprocess, TLAPS

-----------------------------------------------------------------------------
(* The types of TypeOK, by name, and the updates that stay in them.         *)

CallPcs == {"idle", "join", "pipe", "launch", "close", "reap", "id", "destroy", "gone"}
MonitorPcs == {"none", "install", "read", "wait", "restore", "ended"}
States == {"none", "forked", "ready", "running", "finishing", "dead", "reaped"}
Reports == {"none", "started", "exited", "crashed"}

Calls == [pc : CallPcs, pipe : Pipes \cup {NoPipe}, detached : BOOLEAN]
Impls == [pipe : Pipes \cup {NoPipe}, joinable : BOOLEAN]
Monitors == [pc : MonitorPcs, saved : {"none", "application", "monitor"}]
Processes == [state : States, detached : BOOLEAN, ends : SUBSET Pipes,
              token : BOOLEAN, failed : BOOLEAN, report : Reports]

Types ==
  /\ os \in {"posix", "win32"} /\ made \in 0 .. MaxPipes
  /\ call \in [Objects -> Calls] /\ impl \in [Objects -> Impls]
  /\ monitor \in [Objects -> Monitors] /\ writeEnds \subseteq Pipes
  /\ process \in [Pipes -> Processes]
  /\ sigint \in {"application", "monitor"} /\ overlap \in BOOLEAN

(* TypeOK and Types are the same; Types keeps the record sets folded.       *)
LEMMA TypeOKTypes == TypeOK <=> Types
  BY DEF TypeOK, Types, Calls, Impls, Monitors, Processes, CallPcs, MonitorPcs,
         States, Reports

(* The records the calls assign are calls.                                  *)
LEMMA CallUpdates ==
  ASSUME NEW c \in Calls, NEW pc \in CallPcs, NEW p \in Pipes \cup {NoPipe}
  PROVE  /\ [c EXCEPT !.pc = pc] \in Calls
         /\ [c EXCEPT !.pc = pc, !.pipe = p] \in Calls
         /\ Idle \in Calls
         /\ \A d \in BOOLEAN : [Idle EXCEPT !.pc = pc, !.detached = d] \in Calls
  BY DEF Calls, Idle, CallPcs

(* The records the calls assign are Impls.                                  *)
LEMMA ImplUpdates ==
  ASSUME NEW i \in Impls, NEW p \in Pipes \cup {NoPipe}, NEW j \in BOOLEAN
  PROVE  /\ [i EXCEPT !.pipe = p] \in Impls
         /\ [i EXCEPT !.joinable = j, !.pipe = p] \in Impls
         /\ [pipe |-> p, joinable |-> j] \in Impls
  BY DEF Impls

(* The records the monitors assign are monitors.                            *)
LEMMA MonitorUpdates ==
  ASSUME NEW m \in Monitors, NEW pc \in MonitorPcs,
         NEW h \in {"none", "application", "monitor"}
  PROVE  /\ [m EXCEPT !.pc = pc] \in Monitors
         /\ [pc |-> pc, saved |-> h] \in Monitors
  BY DEF Monitors, MonitorPcs

(* The records assigned to a process are processes.                         *)
LEMMA ProcessUpdates ==
  ASSUME NEW r \in Processes, NEW state \in States, NEW report \in Reports,
         NEW ends \in SUBSET Pipes, NEW d \in BOOLEAN
  PROVE  /\ [r EXCEPT !.state = state] \in Processes
         /\ [r EXCEPT !.state = state, !.ends = ends] \in Processes
         /\ [r EXCEPT !.state = state, !.token = TRUE] \in Processes
         /\ [r EXCEPT !.report = report] \in Processes
         /\ [r EXCEPT !.token = TRUE] \in Processes
         /\ [r EXCEPT !.failed = TRUE] \in Processes
         /\ [Unborn EXCEPT !.state = state, !.detached = d, !.ends = ends] \in Processes
  BY Zenon DEF Processes, Unborn, States, Reports

(* An update with a value of the range stays in the function set.           *)
LEMMA UpdateIsFunction ==
  ASSUME NEW S, NEW T, NEW f \in [S -> T], NEW x \in S, NEW v \in T
  PROVE  [f EXCEPT ![x] = v] \in [S -> T]
  OBVIOUS

-----------------------------------------------------------------------------
(* What a monitor has saved, which it restores.                             *)
Saved ==
  /\ \A s \in Objects : Monitoring(s) => monitor[s].saved \in {"application", "monitor"}
  /\ ~overlap =>
       /\ \A s \in Objects : Monitoring(s) => monitor[s].saved = "application"
       /\ \A s, t \in Objects : Monitoring(s) /\ Monitoring(t) => s = t

(* The variables begin with their types.                                    *)
LEMMA TypesInit == Init => Types
<1> SUFFICES ASSUME Init PROVE Types
  OBVIOUS
<1>1. made \in 0 .. MaxPipes
  BY SubprocessAssumption DEF Init, SubprocessAssumption
<1>2. call \in [Objects -> Calls]
  BY DEF Init, Idle, Calls, CallPcs
<1>3. impl \in [Objects -> Impls] /\ monitor \in [Objects -> Monitors]
  BY DEF Init, Impls, Monitors, MonitorPcs
<1>4. process \in [Pipes -> Processes]
  BY DEF Init, Unborn, Processes, States, Reports
<1> QED  BY <1>1, <1>2, <1>3, <1>4 DEF Init, Types

(* A change of the calls only.                                              *)
LEMMA TypesNewCall ==
  ASSUME Types, NEW s \in Objects, StartChild(s) \/ StartDetached(s) \/ Destroy(s)
  PROVE  Types'
<1>1. PICK pc \in {"join", "pipe", "destroy"} : Begin(s, pc)
  BY DEF StartChild, StartDetached, Destroy
<1>2. pc \in CallPcs /\ (pc = "pipe") \in BOOLEAN
  BY DEF CallPcs
<1>3. [Idle EXCEPT !.pc = pc, !.detached = pc = "pipe"] \in Calls
  BY <1>2, CallUpdates, call[s] \in Calls DEF Types
<1>4. call' \in [Objects -> Calls]
  BY <1>1, <1>3, UpdateIsFunction DEF Begin, Types
<1> QED  BY <1>1, <1>4 DEF Begin, Types

(* The steps of StartChild, StartDetached and the destructor keep the       *)
(* types.                                                                   *)
LEMMA TypesCall ==
  ASSUME Types, NEW s \in Objects, CallStep(s)
  PROVE  Types'
<1> USE SubprocessAssumption DEF SubprocessAssumption
<1>0. /\ call[s] \in Calls /\ impl[s] \in Impls /\ monitor[s] \in Monitors
      /\ call[s].pipe \in Pipes \cup {NoPipe} /\ impl[s].pipe \in Pipes \cup {NoPipe}
      /\ impl[s].joinable \in BOOLEAN /\ call[s].detached \in BOOLEAN
  BY DEF Types, Calls, Impls
<1>a. Idle \in Calls /\ \A pc \in CallPcs : [call[s] EXCEPT !.pc = pc] \in Calls
  BY <1>0, CallUpdates DEF CallPcs
<1>p. \A c \in Calls : [call EXCEPT ![s] = c] \in [Objects -> Calls]
  BY UpdateIsFunction DEF Types
<1>q. \A i \in Impls : [impl EXCEPT ![s] = i] \in [Objects -> Impls]
  BY UpdateIsFunction DEF Types
<1>r. \A q \in Pipes : \A r \in Processes : [process EXCEPT ![q] = r] \in [Pipes -> Processes]
  BY UpdateIsFunction DEF Types
<1>1. CASE JoinChild(s)
  <2>1. call' \in [Objects -> Calls]
    <3>1. call' = [call EXCEPT ![s] =
                     [call[s] EXCEPT !.pc = IF call[s].pc = "join" THEN "pipe" ELSE "gone"]]
      BY <1>1 DEF JoinChild, Types
    <3> QED  BY <3>1, <1>a, <1>p DEF CallPcs
  <2>2. impl' \in [Objects -> Impls]
    <3>1. impl' = [impl EXCEPT ![s] =
                     [impl[s] EXCEPT !.joinable = FALSE,
                        !.pipe = IF impl[s].joinable THEN NoPipe ELSE impl[s].pipe]]
      BY <1>1 DEF JoinChild, Types
    <3>2. (IF impl[s].joinable THEN NoPipe ELSE impl[s].pipe) \in Pipes \cup {NoPipe}
      BY <1>0
    <3>3. [impl[s] EXCEPT !.joinable = FALSE,
             !.pipe = IF impl[s].joinable THEN NoPipe ELSE impl[s].pipe] \in Impls
      BY <3>2, <1>0, ImplUpdates
    <3> QED  BY <3>1, <3>3, <1>q
  <2> QED  BY <1>1, <2>1, <2>2 DEF JoinChild, Types
<1>2. CASE CreatePipe(s)
  <2>1. CASE call' = [call EXCEPT ![s] = Idle] /\ UNCHANGED <<made, writeEnds, impl>>
    BY <1>2, <2>1, <1>a, <1>p DEF CreatePipe, Types
  <2>2. CASE /\ made < MaxPipes /\ made' = made + 1
             /\ writeEnds' = writeEnds \cup {made'}
             /\ call' = [call EXCEPT ![s].pc = "launch", ![s].pipe = made']
             /\ impl' = [impl EXCEPT ![s].pipe = IF os = "win32" THEN made' ELSE @]
    <3>1. made' \in 0 .. MaxPipes /\ made' \in Pipes
      BY <2>2 DEF Types, Pipes
    <3>2. [call[s] EXCEPT !.pc = "launch", !.pipe = made'] \in Calls
      BY <3>1, <1>0, CallUpdates DEF CallPcs
    <3>3. call' = [call EXCEPT ![s] = [call[s] EXCEPT !.pc = "launch", !.pipe = made']]
      BY <2>2 DEF Types
    <3>4. (IF os = "win32" THEN made' ELSE impl[s].pipe) \in Pipes \cup {NoPipe}
      BY <3>1, <1>0
    <3>5. [impl[s] EXCEPT !.pipe = IF os = "win32" THEN made' ELSE impl[s].pipe] \in Impls
      BY <3>4, <1>0, ImplUpdates
    <3>6. impl' = [impl EXCEPT ![s] =
                     [impl[s] EXCEPT !.pipe = IF os = "win32" THEN made' ELSE impl[s].pipe]]
      BY <2>2 DEF Types
    <3>7. call' \in [Objects -> Calls] /\ impl' \in [Objects -> Impls]
      BY <3>2, <3>3, <3>5, <3>6, <1>p, <1>q
    <3>8. writeEnds' \subseteq Pipes
      BY <2>2, <3>1 DEF Types
    <3> QED  BY <1>2, <3>1, <3>7, <3>8 DEF CreatePipe, Types
  <2> QED  BY <1>2, <2>1, <2>2 DEF CreatePipe
<1>3. CASE Launch(s)
  <2>1. CASE /\ process' = [process EXCEPT ![call[s].pipe] =
                 [Unborn EXCEPT
                    !.state = IF os = "posix" THEN "forked" ELSE "running",
                    !.detached = call[s].detached, !.ends = writeEnds]]
             /\ call' = [call EXCEPT ![s].pc = "close"]
             /\ UNCHANGED <<writeEnds, impl>>
    <3>1. call' \in [Objects -> Calls]
      <4>1. call' = [call EXCEPT ![s] = [call[s] EXCEPT !.pc = "close"]]
        BY <2>1 DEF Types
      <4> QED  BY <4>1, <1>a, <1>p DEF CallPcs
    <3>2. process' \in [Pipes -> Processes]
      <4>1. CASE call[s].pipe \notin Pipes
        BY <4>1, <2>1 DEF Types
      <4>2. CASE call[s].pipe \in Pipes
        <5>1. (IF os = "posix" THEN "forked" ELSE "running") \in States
          BY DEF States
        <5>2. process[call[s].pipe] \in Processes /\ "none" \in Reports
          BY <4>2 DEF Types, Reports
        <5>3. writeEnds \in SUBSET Pipes
          BY DEF Types
        <5>4. [Unborn EXCEPT
                 !.state = IF os = "posix" THEN "forked" ELSE "running",
                 !.detached = call[s].detached, !.ends = writeEnds] \in Processes
          BY <5>1, <5>2, <5>3, <1>0, ProcessUpdates
        <5> QED  BY <5>4, <4>2, <2>1, <1>r
      <4> QED  BY <4>1, <4>2
    <3> QED  BY <1>3, <2>1, <3>1, <3>2 DEF Launch, Types
  <2>2. CASE /\ writeEnds' = EndClosed(writeEnds, call[s].pipe)
             /\ impl' = [impl EXCEPT ![s].pipe = IF os = "win32" THEN NoPipe ELSE @]
             /\ call' = [call EXCEPT ![s] = Idle]
             /\ UNCHANGED process
    <3>1. (IF os = "win32" THEN NoPipe ELSE impl[s].pipe) \in Pipes \cup {NoPipe}
      BY <1>0
    <3>2. [impl[s] EXCEPT !.pipe = IF os = "win32" THEN NoPipe ELSE impl[s].pipe] \in Impls
      BY <3>1, <1>0, ImplUpdates
    <3>3. impl' = [impl EXCEPT ![s] =
                     [impl[s] EXCEPT !.pipe = IF os = "win32" THEN NoPipe ELSE impl[s].pipe]]
      BY <2>2 DEF Types
    <3>4. impl' \in [Objects -> Impls] /\ call' \in [Objects -> Calls]
      BY <3>2, <3>3, <2>2, <1>a, <1>p, <1>q
    <3>5. writeEnds' \subseteq Pipes
      BY <2>2 DEF EndClosed, Types
    <3> QED  BY <1>3, <2>2, <3>4, <3>5 DEF Launch, Types
  <2> QED  BY <1>3, <2>1, <2>2 DEF Launch
<1>4. CASE SpawnMonitor(s)
  <2>1. impl' \in [Objects -> Impls]
    BY <1>4, <1>0, <1>q, ImplUpdates DEF SpawnMonitor
  <2>2. monitor' \in [Objects -> Monitors]
    <3>1. [pc |-> "install", saved |-> "none"] \in Monitors
      BY DEF Monitors, MonitorPcs
    <3> QED  BY <3>1, <1>4, UpdateIsFunction DEF SpawnMonitor, Types
  <2>3. call' \in [Objects -> Calls]
    BY <1>4, <1>a, <1>p DEF SpawnMonitor
  <2> QED  BY <1>4, <2>1, <2>2, <2>3 DEF SpawnMonitor, WithoutWriteEnd, Types
<1>5. CASE CloseDetached(s)
  <2>1. call' = [call EXCEPT ![s] = [call[s] EXCEPT !.pc = "reap"]]
    BY <1>5 DEF CloseDetached, Types
  <2>2. call' \in [Objects -> Calls]
    BY <2>1, <1>a, <1>p DEF CallPcs
  <2> QED  BY <1>5, <2>2 DEF CloseDetached, WithoutWriteEnd, Types
<1>6. CASE ReapDetached(s)
  <2>1. call' \in [Objects -> Calls]
    <3>1. \/ call' = [call EXCEPT ![s] = Idle]
          \/ call' = [call EXCEPT ![s] = [call[s] EXCEPT !.pc = "id"]]
      BY <1>6 DEF ReapDetached, Types
    <3> QED  BY <3>1, <1>a, <1>p DEF CallPcs
  <2>2. process' \in [Pipes -> Processes]
    <3>1. process' = [process EXCEPT ![call[s].pipe] =
                        [process[call[s].pipe] EXCEPT !.state = "reaped"]]
      BY <1>6 DEF ReapDetached, Types
    <3>2. call[s].pipe \in Pipes => [process[call[s].pipe] EXCEPT !.state = "reaped"] \in Processes
      BY ProcessUpdates DEF Types, States, Reports
    <3> QED  BY <3>1, <3>2, <1>r DEF Types
  <2> QED  BY <1>6, <2>1, <2>2 DEF ReapDetached, Types
<1>7. CASE ReadId(s)
  <2>1. process' \in [Pipes -> Processes]
    <3>1. PICK report \in Reports :
            process' = [process EXCEPT ![call[s].pipe] =
                          [process[call[s].pipe] EXCEPT !.report = report]]
      BY <1>7 DEF ReadId, Types, Reports
    <3>2. call[s].pipe \in Pipes => [process[call[s].pipe] EXCEPT !.report = report] \in Processes
      BY ProcessUpdates DEF Types, States
    <3> QED  BY <3>1, <3>2, <1>r DEF Types
  <2>2. call' \in [Objects -> Calls]
    BY <1>7, <1>a, <1>p DEF ReadId
  <2> QED  BY <1>7, <2>1, <2>2 DEF ReadId, Types
<1> QED  BY <1>1, <1>2, <1>3, <1>4, <1>5, <1>6, <1>7 DEF CallStep

(* The steps of a monitor keep the types; what it restores it has saved.    *)
LEMMA TypesMonitor ==
  ASSUME Types, Saved, NEW s \in Objects, MonitorStep(s)
  PROVE  Types'
<1>0. monitor[s] \in Monitors /\ monitor[s].saved \in {"none", "application", "monitor"}
  BY DEF Types, Monitors
<1>r. \A q \in Pipes : \A r \in Processes : [process EXCEPT ![q] = r] \in [Pipes -> Processes]
  BY UpdateIsFunction DEF Types
<1>a. \A m \in Monitors : [monitor EXCEPT ![s] = m] \in [Objects -> Monitors]
  BY UpdateIsFunction DEF Types
<1>b. \A pc \in MonitorPcs : [monitor[s] EXCEPT !.pc = pc] \in Monitors
  BY <1>0, MonitorUpdates DEF MonitorPcs
<1>c. ASSUME NEW what \in Reports, Report(s, what)  PROVE Types'
  <2>1. process' \in [Pipes -> Processes]
    <3>1. process' = [process EXCEPT ![impl[s].pipe] =
                        [process[impl[s].pipe] EXCEPT !.report = what]]
      BY <1>c DEF Report, Types
    <3>2. impl[s].pipe \in Pipes => [process[impl[s].pipe] EXCEPT !.report = what] \in Processes
      BY <1>c, ProcessUpdates DEF Types, States
    <3> QED  BY <3>1, <3>2, <1>r DEF Types
  <2>2. monitor' = [monitor EXCEPT ![s] = [monitor[s] EXCEPT !.pc = "wait"]]
    BY <1>c DEF Report, Types
  <2>3. monitor' \in [Objects -> Monitors]
    BY <2>2, <1>a, <1>b DEF MonitorPcs
  <2> QED  BY <1>c, <2>1, <2>3 DEF Report, Types
<1>1. CASE InstallHandler(s)
  <2>1. [pc |-> "read", saved |-> sigint] \in Monitors
    BY <1>0, MonitorUpdates DEF Types, MonitorPcs
  <2>2. monitor' \in [Objects -> Monitors]
    BY <2>1, <1>1, <1>a DEF InstallHandler
  <2>3. overlap' \in BOOLEAN
    BY Zenon, <1>1 DEF InstallHandler, Types
  <2> QED  BY <1>1, <2>2, <2>3 DEF InstallHandler, Types
<1>2. CASE ChildExited(s)
  BY <1>2, <1>c DEF ChildExited, Reports
<1>3. CASE ChildCrashed(s)
  BY <1>3, <1>c DEF ChildCrashed, Reports
<1>4. CASE WaitChild(s)
  <2>1. process' \in [Pipes -> Processes]
    <3>1. process' = [process EXCEPT ![impl[s].pipe] =
                        [process[impl[s].pipe] EXCEPT !.state = "reaped"]]
      BY <1>4 DEF WaitChild, Types
    <3>2. impl[s].pipe \in Pipes => [process[impl[s].pipe] EXCEPT !.state = "reaped"] \in Processes
      BY ProcessUpdates DEF Types, States, Reports
    <3> QED  BY <3>1, <3>2, <1>r DEF Types
  <2>2. monitor' = [monitor EXCEPT ![s] = [monitor[s] EXCEPT !.pc = "restore"]]
    BY <1>4 DEF WaitChild, Types
  <2>3. monitor' \in [Objects -> Monitors]
    BY <2>2, <1>a, <1>b DEF MonitorPcs
  <2> QED  BY <1>4, <2>1, <2>3 DEF WaitChild, Types
<1>5. CASE RestoreHandler(s)
  <2>1. monitor' = [monitor EXCEPT ![s] = [monitor[s] EXCEPT !.pc = "ended"]]
    BY <1>5 DEF RestoreHandler, Types
  <2>2. monitor' \in [Objects -> Monitors]
    BY <2>1, <1>a, <1>b DEF MonitorPcs
  <2>3. sigint' \in {"application", "monitor"}
    BY <1>5 DEF RestoreHandler, Saved, Monitoring
  <2> QED  BY <1>5, <2>2, <2>3 DEF RestoreHandler, Types
<1> QED  BY <1>1, <1>2, <1>3, <1>4, <1>5 DEF MonitorStep

(* The steps of a started process keep the types.                           *)
LEMMA TypesProcess ==
  ASSUME Types, NEW p \in Pipes, ProcessStep(p)
  PROVE  Types'
<1>0. /\ process[p] \in Processes
      /\ process[p].ends \in SUBSET Pipes /\ {p} \in SUBSET Pipes /\ {} \in SUBSET Pipes
  BY DEF Types, Processes
<1>1. ASSUME NEW r \in Processes, Becomes(p, r)  PROVE Types'
  BY <1>1, UpdateIsFunction DEF Becomes, Types
<1>2. \A state \in States : \A ends \in SUBSET Pipes :
        /\ [process[p] EXCEPT !.state = state] \in Processes
        /\ [process[p] EXCEPT !.state = state, !.ends = ends] \in Processes
        /\ [process[p] EXCEPT !.state = state, !.token = TRUE] \in Processes
  BY <1>0, ProcessUpdates DEF Reports
<1>3. Ended(process[p]) \in Processes
  BY <1>0, <1>2 DEF Ended, States
<1>4. /\ [Ended(process[p]) EXCEPT !.token = TRUE] \in Processes
      /\ [Ended(process[p]) EXCEPT !.failed = TRUE] \in Processes
  BY <1>3, <1>0, ProcessUpdates DEF States, Reports
<1>5. PICK r \in Processes : Becomes(p, r)
  <2>1. CASE CloseOthers(p)
    BY <2>1, <1>0, <1>2 DEF CloseOthers, States
  <2>2. CASE Exec(p)
    BY <2>2, <1>2 DEF Exec, States
  <2>3. CASE ForkDetached(p)
    BY <2>3, <1>4 DEF ForkDetached
  <2>4. CASE TellParent(p)
    BY <2>4, <1>2 DEF TellParent, States
  <2>5. CASE End(p)
    BY <2>5, <1>3 DEF End
  <2> QED  BY <2>1, <2>2, <2>3, <2>4, <2>5 DEF ProcessStep
<1> QED  BY <1>1, <1>5

-----------------------------------------------------------------------------
(* Nobody monitors but an object that is joinable, and so not one that is   *)
(* in StartChild, past its JoinChild.  Windows has no pipe for a detached   *)
(* process.                                                                 *)
Joined ==
  \A s \in Objects :
    /\ ~impl[s].joinable => monitor[s].pc \in {"none", "ended"}
    /\ call[s].pc \in {"pipe", "launch", "close"} /\ ~call[s].detached
         => ~impl[s].joinable
    /\ call[s].detached => os = "posix"
    /\ call[s].pc = "join" => ~call[s].detached

(* A new monitor is only given to an object that has joined the previous.   *)
LEMMA JoinedCall ==
  ASSUME Types, Joined, NEW s \in Objects,
         StartChild(s) \/ StartDetached(s) \/ Destroy(s) \/ CallStep(s)
  PROVE  Joined'
<1>0. /\ call[s] \in Calls /\ impl[s] \in Impls /\ monitor[s] \in Monitors
      /\ UNCHANGED os
  BY DEF Types, StartChild, StartDetached, Destroy, Begin, CallStep, JoinChild,
         CreatePipe, Launch, SpawnMonitor, CloseDetached, ReapDetached, ReadId
<1>1. CASE StartChild(s) \/ StartDetached(s) \/ Destroy(s)
  <2>1. PICK pc \in {"join", "pipe", "destroy"} :
          Begin(s, pc) /\ (pc = "pipe" => os = "posix")
    BY <1>1 DEF StartChild, StartDetached, Destroy
  <2>2. /\ call'[s].pc = pc /\ call'[s].detached = (pc = "pipe")
        /\ UNCHANGED <<impl, monitor>>
        /\ \A t \in Objects \ {s} : call'[t] = call[t]
    BY <2>1 DEF Begin, Idle, Types
  <2> QED  BY <2>1, <2>2, <1>0 DEF Joined
<1>2. CASE JoinChild(s)
  BY <1>2, <1>0 DEF Types, Calls, Impls, Joined, JoinChild, MonitorEnded
<1>3. CASE CreatePipe(s)
  <2>1. /\ \/ call'[s] = Idle
           \/ call'[s].pc = "launch" /\ call'[s].detached = call[s].detached
        /\ impl'[s].joinable = impl[s].joinable
        /\ \A t \in Objects \ {s} : call'[t] = call[t] /\ impl'[t] = impl[t]
    BY <1>3, <1>0 DEF CreatePipe, Types, Calls, Impls
  <2>2. call[s].pc = "pipe" /\ UNCHANGED monitor
    BY <1>3 DEF CreatePipe
  <2> QED  BY <2>1, <2>2, <1>0 DEF Joined, Idle
<1>4. CASE Launch(s)
  <2>1. /\ \/ call'[s] = Idle
           \/ call'[s].pc = "close" /\ call'[s].detached = call[s].detached
        /\ impl'[s].joinable = impl[s].joinable
        /\ \A t \in Objects \ {s} : call'[t] = call[t] /\ impl'[t] = impl[t]
    BY <1>4, <1>0 DEF Launch, Types, Calls, Impls
  <2>2. call[s].pc = "launch" /\ UNCHANGED monitor
    BY <1>4 DEF Launch
  <2> QED  BY <2>1, <2>2, <1>0 DEF Joined, Idle
<1>5. CASE SpawnMonitor(s)
  <2>1. /\ call'[s] = Idle /\ impl'[s].joinable
        /\ \A t \in Objects \ {s} :
             call'[t] = call[t] /\ impl'[t] = impl[t] /\ monitor'[t] = monitor[t]
    BY <1>5 DEF SpawnMonitor, Types
  <2> QED  BY <2>1, <1>0 DEF Joined, Idle
<1>6. CASE CloseDetached(s) \/ ReapDetached(s) \/ ReadId(s)
  BY <1>6, <1>0 DEF Types, Calls, Joined, CloseDetached, ReapDetached, ReadId, Idle
<1> QED  BY <1>1, <1>2, <1>3, <1>4, <1>5, <1>6 DEF CallStep

(* A monitor that runs belongs to a joinable object.                        *)
LEMMA JoinedMonitor ==
  ASSUME Types, Joined, NEW s \in Objects, MonitorStep(s)
  PROVE  Joined'
<1>1. /\ UNCHANGED <<os, call, impl>>
      /\ monitor[s].pc \notin {"none", "ended"}
      /\ \A t \in Objects \ {s} : monitor'[t] = monitor[t]
  BY DEF MonitorStep, InstallHandler, ChildExited, ChildCrashed, Report, WaitChild,
         RestoreHandler, Types, Monitors
<1> QED  BY <1>1 DEF Joined

(* The processes do not touch the objects.                                  *)
LEMMA JoinedProcess ==
  ASSUME Joined, NEW p \in Pipes, ProcessStep(p)
  PROVE  Joined'
<1>1. UNCHANGED <<os, call, impl, monitor>>
  BY DEF ProcessStep, CloseOthers, Exec, ForkDetached, TellParent, End, Becomes
<1> QED  BY <1>1 DEF Joined

-----------------------------------------------------------------------------
(* The handler of SIGINT: only a monitor that installs or restores touches  *)
(* it, and a new monitor is given to an object that has none.               *)
Interrupts == Saved /\ InterruptsIgnoredWhileMonitored

(* A call touches no handler, and replaces a monitor that does not monitor. *)
LEMMA InterruptsCall ==
  ASSUME Types, Joined, Interrupts, NEW s \in Objects,
         StartChild(s) \/ StartDetached(s) \/ Destroy(s) \/ CallStep(s)
  PROVE  Interrupts'
<1>1. CASE SpawnMonitor(s)
  <2>1. ~Monitoring(s)
    BY <1>1 DEF SpawnMonitor, Joined, Monitoring
  <2>2. /\ UNCHANGED <<sigint, overlap>>
        /\ ~Monitoring(s)'
        /\ \A t \in Objects \ {s} : monitor'[t] = monitor[t]
    BY <1>1 DEF SpawnMonitor, Monitoring, Types
  <2> QED  BY <2>1, <2>2 DEF Interrupts, Saved, InterruptsIgnoredWhileMonitored, Monitoring
<1>2. CASE ~SpawnMonitor(s)
  <2>1. UNCHANGED <<sigint, overlap, monitor>>
    BY <1>2 DEF StartChild, StartDetached, Destroy, Begin, CallStep, JoinChild, CreatePipe,
           Launch, CloseDetached, ReapDetached, ReadId
  <2> QED  BY <2>1 DEF Interrupts, Saved, InterruptsIgnoredWhileMonitored, Monitoring
<1> QED  BY <1>1, <1>2

(* Without an overlap a monitor finds the application's handler and puts it *)
(* back.                                                                    *)
LEMMA InterruptsMonitor ==
  ASSUME Types, Interrupts, NEW s \in Objects, MonitorStep(s)
  PROVE  Interrupts'
<1>0. /\ monitor[s] \in Monitors /\ sigint \in {"application", "monitor"}
      /\ overlap \in BOOLEAN
  BY DEF Types
<1>1. CASE InstallHandler(s)
  <2>1. /\ ~Monitoring(s) /\ Monitoring(s)'
        /\ monitor'[s].saved = sigint /\ sigint' = "monitor"
        /\ \A t \in Objects \ {s} : monitor'[t] = monitor[t]
    BY <1>1 DEF InstallHandler, Monitoring, Types
  <2>2. ~overlap' => ~overlap /\ \A t \in Objects : ~Monitoring(t)
    BY <1>1, <2>1 DEF InstallHandler
  <2>3. ~overlap' => sigint = "application"
    BY <2>2, <1>0 DEF Interrupts, InterruptsIgnoredWhileMonitored
  <2> QED  BY <2>1, <2>2, <2>3, <1>0
        DEF Interrupts, Saved, InterruptsIgnoredWhileMonitored, Monitoring
<1>2. CASE RestoreHandler(s)
  <2>1. /\ Monitoring(s) /\ ~Monitoring(s)' /\ sigint' = monitor[s].saved
        /\ UNCHANGED overlap
        /\ \A t \in Objects \ {s} : monitor'[t] = monitor[t]
    BY <1>2 DEF RestoreHandler, Monitoring, Types, Monitors
  <2> QED  BY <2>1, <1>0 DEF Interrupts, Saved, InterruptsIgnoredWhileMonitored, Monitoring
<1>3. CASE ~InstallHandler(s) /\ ~RestoreHandler(s)
  <2>1. /\ UNCHANGED <<sigint, overlap>>
        /\ Monitoring(s) /\ Monitoring(s)' /\ monitor'[s].saved = monitor[s].saved
        /\ \A t \in Objects \ {s} : monitor'[t] = monitor[t]
    BY <1>3, <1>0 DEF MonitorStep, ChildExited, ChildCrashed, Report, WaitChild, Monitoring,
           Types, Monitors
  <2> QED  BY <2>1 DEF Interrupts, Saved, InterruptsIgnoredWhileMonitored, Monitoring
<1> QED  BY <1>1, <1>2, <1>3

(* The processes do not touch the handler of the parent.                    *)
LEMMA InterruptsProcess ==
  ASSUME Interrupts, NEW p \in Pipes, ProcessStep(p)
  PROVE  Interrupts'
<1>1. UNCHANGED <<sigint, overlap, monitor>>
  BY DEF ProcessStep, CloseOthers, Exec, ForkDetached, TellParent, End, Becomes
<1> QED  BY <1>1 DEF Interrupts, Saved, InterruptsIgnoredWhileMonitored, Monitoring

-----------------------------------------------------------------------------
(* The pipes and the processes at their ends.                               *)

(* A call that has made a pipe and not yet closed its end of it holds that  *)
(* end alone.                                                               *)
Holding ==
  /\ \A s \in Objects : call[s].pc \in {"launch", "close"} => call[s].pipe \in 1 .. made
  /\ \A s \in Objects : call[s].pc = "launch" => call[s].pipe \in writeEnds
  /\ \A s, t \in Objects :
       /\ call[s].pc \in {"launch", "close"} /\ call[t].pc \in {"launch", "close"}
       /\ call[s].pipe = call[t].pipe
       => s = t

(* Who is called started or monitored has been started, and a process that  *)
(* has not ended holds its own pipe.                                        *)
Started ==
  /\ \A s \in Objects : call[s].pc = "close" => process[call[s].pipe].state # "none"
  /\ \A s \in Objects :
       monitor[s].pc \in {"install", "read", "wait"} =>
         impl[s].pipe \in Pipes /\ process[impl[s].pipe].state # "none"
  /\ \A p \in Pipes : Alive(p) => p \in process[p].ends

(* NothingLeaks, with the platform on which an object without a monitor may *)
(* hold a pipe.                                                             *)
Owned ==
  /\ NothingLeaks
  /\ \A s \in Objects :
       impl[s].pipe # NoPipe =>
         impl[s].joinable \/ (os = "win32" /\ call[s].pc \in {"launch", "close"})

Pipework == Holding /\ Started /\ Owned /\ ReportedAsItEnded

(* The pipe of a call that holds an end of it has been made.                *)
LEMMA HeldPipes ==
  ASSUME Types, Holding, NEW s \in Objects, call[s].pc \in {"launch", "close"}
  PROVE  call[s].pipe \in Pipes
<1>1. made \in 0 .. MaxPipes /\ MaxPipes \in Nat /\ call[s].pipe \in 1 .. made
  BY SubprocessAssumption DEF Types, Holding, SubprocessAssumption
<1> QED  BY <1>1 DEF Pipes

(* The calls that touch neither a pipe nor a process.                       *)
LEMMA PipeworkNewCall ==
  ASSUME Types, Joined, Pipework, NEW s \in Objects,
         StartChild(s) \/ StartDetached(s) \/ Destroy(s) \/ JoinChild(s)
  PROVE  Pipework'
<1>0. call[s] \in Calls /\ impl[s] \in Impls /\ monitor[s] \in Monitors
  BY DEF Types
<1>1. /\ UNCHANGED <<os, made, monitor, writeEnds, process>>
      /\ call[s].pc \in {"idle", "join", "destroy"}
      /\ call'[s].pc \in {"join", "pipe", "destroy", "gone"}
      /\ \A t \in Objects \ {s} : call'[t] = call[t] /\ impl'[t] = impl[t]
      /\ \/ impl'[s] = impl[s]
         \/ impl'[s].pipe = NoPipe /\ monitor[s].pc \notin {"install", "read", "wait"}
         \/ impl'[s].pipe = impl[s].pipe /\ ~impl[s].joinable
  <2>1. CASE JoinChild(s)
    <3>1. /\ UNCHANGED <<os, made, monitor, writeEnds, process>>
          /\ call[s].pc \in {"join", "destroy"} /\ call'[s].pc \in {"pipe", "gone"}
          /\ \A t \in Objects \ {s} : call'[t] = call[t] /\ impl'[t] = impl[t]
      BY <1>0, <2>1 DEF JoinChild, Types, Calls
    <3>2. /\ impl'[s].pipe = IF impl[s].joinable THEN NoPipe ELSE impl[s].pipe
          /\ impl[s].joinable => monitor[s].pc = "ended"
      BY <1>0, <2>1 DEF JoinChild, MonitorEnded, Types, Impls
    <3> QED  BY <3>1, <3>2
  <2>2. ASSUME NEW pc \in {"join", "pipe", "destroy"}, Begin(s, pc)
        PROVE  /\ UNCHANGED <<os, made, impl, monitor, writeEnds, process>>
               /\ call[s].pc = "idle" /\ call'[s].pc = pc
               /\ \A t \in Objects \ {s} : call'[t] = call[t]
    BY <2>2 DEF Begin, Idle, Types
  <2>3. CASE StartChild(s) \/ StartDetached(s) \/ Destroy(s)
    <3>1. PICK pc \in {"join", "pipe", "destroy"} : Begin(s, pc)
      BY <2>3 DEF StartChild, StartDetached, Destroy
    <3> QED  BY <3>1, <2>2
  <2> QED  BY <2>1, <2>3
<1>2. Holding'
  BY <1>1 DEF Pipework, Holding
<1>3. Started'
  BY <1>1 DEF Pipework, Started, Alive
<1>4. Owned'
  BY <1>1 DEF Pipework, Owned, NothingLeaks
<1>5. ReportedAsItEnded'
  BY <1>1 DEF Pipework, ReportedAsItEnded
<1> QED  BY <1>2, <1>3, <1>4, <1>5 DEF Pipework

(* A new pipe belongs to the call that makes it, or nothing was made.       *)
LEMMA PipeworkCreatePipe ==
  ASSUME Types, Joined, Pipework, NEW s \in Objects, CreatePipe(s)
  PROVE  Pipework'
<1> USE SubprocessAssumption DEF SubprocessAssumption
<1>0. call[s] \in Calls /\ impl[s] \in Impls /\ monitor[s] \in Monitors
  BY DEF Types
<1>1. /\ UNCHANGED <<os, monitor, process>> /\ call[s].pc = "pipe"
      /\ \A t \in Objects \ {s} : call'[t] = call[t] /\ impl'[t] = impl[t]
  BY DEF CreatePipe, Types
<1>2. CASE call' = [call EXCEPT ![s] = Idle] /\ UNCHANGED <<made, writeEnds, impl>>
  <2>1. call'[s].pc = "idle"
    BY <1>2 DEF Idle, Types
  <2>2. Holding'
    BY <1>1, <1>2, <2>1 DEF Pipework, Holding
  <2>3. Started'
    BY <1>1, <1>2, <2>1 DEF Pipework, Started, Alive
  <2>4. Owned'
    BY <1>1, <1>2, <2>1 DEF Pipework, Owned, NothingLeaks
  <2> QED  BY <1>1, <2>2, <2>3, <2>4 DEF Pipework, ReportedAsItEnded
<1>3. CASE /\ made < MaxPipes /\ made' = made + 1
           /\ writeEnds' = writeEnds \cup {made'}
           /\ call' = [call EXCEPT ![s].pc = "launch", ![s].pipe = made']
           /\ impl' = [impl EXCEPT ![s].pipe = IF os = "win32" THEN made' ELSE @]
  <2>1. /\ call'[s].pc = "launch" /\ call'[s].pipe = made'
        /\ impl'[s].joinable = impl[s].joinable
        /\ \/ impl'[s].pipe = impl[s].pipe
           \/ os = "win32" /\ ~impl[s].joinable
    BY <1>1, <1>3, <1>0 DEF Types, Calls, Impls, Joined
  <2>2. made \in Nat /\ made' = made + 1
    BY <1>3 DEF Types
  <2>3. Holding'
    <3>1. made' \in writeEnds' /\ writeEnds \subseteq writeEnds'
      BY <1>3
    <3>2. \A t \in Objects : call[t].pc \in {"launch", "close"} =>
            call[t].pipe \in 1 .. made' /\ call[t].pipe # made'
      BY <2>2 DEF Pipework, Holding
    <3> QED  BY <3>1, <3>2, <1>1, <2>1, <2>2 DEF Pipework, Holding
  <2>4. Started'
    BY <1>1, <2>1 DEF Pipework, Started, Alive, Joined
  <2>5. Owned'
    <3>1. \A q \in writeEnds' : \E t \in Objects :
            call'[t].pipe = q /\ call'[t].pc \in {"launch", "close"}
      <4>1. ASSUME NEW q \in writeEnds
            PROVE  \E t \in Objects : call'[t].pipe = q /\ call'[t].pc \in {"launch", "close"}
        BY <1>1 DEF Pipework, Owned, NothingLeaks
      <4> QED  BY <4>1, <1>3, <2>1
    <3>2. \A t \in Objects : impl'[t].pipe # NoPipe =>
            \/ impl'[t].joinable
            \/ os' = "win32" /\ call'[t].pc \in {"launch", "close"}
      BY <1>1, <2>1 DEF Pipework, Owned
    <3>3. \A q \in Pipes : process'[q].state \notin {"none", "reaped"} =>
            \E t \in Objects :
              \/ call'[t].pipe = q /\ call'[t].pc \in {"close", "reap"}
              \/ impl'[t].pipe = q /\ monitor'[t].pc \in {"install", "read", "wait"}
      BY <1>1, <2>1 DEF Pipework, Owned, NothingLeaks, Joined
    <3> QED  BY <3>1, <3>2, <3>3 DEF Owned, NothingLeaks
  <2> QED  BY <1>1, <2>3, <2>4, <2>5 DEF Pipework, ReportedAsItEnded
<1> QED  BY <1>2, <1>3 DEF CreatePipe

(* fork() hands the call's pipe to the child; without a child all is        *)
(* closed.                                                                  *)
LEMMA PipeworkLaunch ==
  ASSUME Types, Joined, Pipework, NEW s \in Objects, Launch(s)
  PROVE  Pipework'
<1>0. call[s] \in Calls /\ impl[s] \in Impls /\ monitor[s] \in Monitors
  BY DEF Types
<1> DEFINE p == call[s].pipe
<1>1. /\ UNCHANGED <<os, made, monitor>> /\ call[s].pc = "launch"
      /\ p \in Pipes /\ p \in writeEnds
      /\ \A t \in Objects \ {s} : call'[t] = call[t] /\ impl'[t] = impl[t]
  BY DEF Launch, Types, Pipework, Holding
<1>2. CASE /\ process' = [process EXCEPT ![p] =
                 [Unborn EXCEPT
                    !.state = IF os = "posix" THEN "forked" ELSE "running",
                    !.detached = call[s].detached, !.ends = writeEnds]]
           /\ call' = [call EXCEPT ![s].pc = "close"]
           /\ UNCHANGED <<writeEnds, impl>>
  <2>1. /\ call'[s].pc = "close" /\ call'[s].pipe = p
        /\ process'[p].state \in {"forked", "running"}
        /\ process'[p].ends = writeEnds /\ process'[p].report = "none"
        /\ \A q \in Pipes \ {p} : process'[q] = process[q]
    BY <1>0, <1>1, <1>2 DEF Types, Calls, Unborn
  <2>2. Holding'
    BY <1>1, <1>2, <2>1 DEF Pipework, Holding
  <2>3. Started'
    <3>1. \A t \in Objects : call'[t].pc = "close" => process'[call'[t].pipe].state # "none"
      BY <1>1, <2>1, <1>2, HeldPipes DEF Pipework, Started, Holding, Types
    <3>2. \A t \in Objects : monitor'[t].pc \in {"install", "read", "wait"} =>
            impl'[t].pipe \in Pipes /\ process'[impl'[t].pipe].state # "none"
      BY <1>1, <2>1, <1>2 DEF Pipework, Started
    <3>3. \A q \in Pipes : Alive(q)' => q \in process'[q].ends
      BY <1>1, <2>1 DEF Pipework, Started, Alive
    <3> QED  BY <3>1, <3>2, <3>3 DEF Started
  <2>4. Owned'
    BY <1>1, <1>2, <2>1 DEF Pipework, Owned, NothingLeaks
  <2>5. ReportedAsItEnded'
    BY <2>1 DEF Pipework, ReportedAsItEnded
  <2> QED  BY <2>2, <2>3, <2>4, <2>5 DEF Pipework
<1>3. CASE /\ writeEnds' = EndClosed(writeEnds, p)
           /\ impl' = [impl EXCEPT ![s].pipe = IF os = "win32" THEN NoPipe ELSE @]
           /\ call' = [call EXCEPT ![s] = Idle]
           /\ UNCHANGED process
  <2>1. /\ call'[s].pc = "idle" /\ writeEnds' = writeEnds \ {p}
        /\ impl'[s].joinable = impl[s].joinable
        /\ \/ os = "posix" /\ impl'[s].pipe = impl[s].pipe
           \/ os = "win32" /\ impl'[s].pipe = NoPipe /\ ~impl[s].joinable
    BY <1>0, <1>1, <1>3 DEF Types, Impls, Idle, EndClosed, Joined
  <2>2. Holding'
    BY <1>1, <2>1 DEF Pipework, Holding
  <2>3. Started'
    BY <1>1, <1>3, <2>1 DEF Pipework, Started, Alive, Joined
  <2>4. Owned'
    BY <1>1, <1>3, <2>1 DEF Pipework, Owned, NothingLeaks, Joined
  <2> QED  BY <1>3, <2>2, <2>3, <2>4 DEF Pipework, ReportedAsItEnded
<1> QED  BY <1>2, <1>3 DEF Launch

(* The monitor takes over the pipe and the child from the call.             *)
LEMMA PipeworkSpawnMonitor ==
  ASSUME Types, Joined, Pipework, NEW s \in Objects, SpawnMonitor(s)
  PROVE  Pipework'
<1>0. call[s] \in Calls /\ impl[s] \in Impls /\ monitor[s] \in Monitors
  BY DEF Types
<1> DEFINE p == call[s].pipe
<1>1. /\ UNCHANGED <<os, made, process>> /\ call[s].pc = "close" /\ p \in Pipes
      /\ process[p].state # "none"
      /\ \A t \in Objects \ {s} :
           call'[t] = call[t] /\ impl'[t] = impl[t] /\ monitor'[t] = monitor[t]
      /\ call'[s].pc = "idle" /\ impl'[s].pipe = p /\ impl'[s].joinable
      /\ monitor'[s].pc = "install" /\ writeEnds' = writeEnds \ {p}
      /\ monitor[s].pc \in {"none", "ended"}
  <2>1. /\ UNCHANGED <<os, made, process>> /\ call[s].pc = "close"
        /\ \A t \in Objects \ {s} :
             call'[t] = call[t] /\ impl'[t] = impl[t] /\ monitor'[t] = monitor[t]
        /\ call'[s].pc = "idle" /\ impl'[s].pipe = p /\ impl'[s].joinable
        /\ monitor'[s].pc = "install" /\ writeEnds' = writeEnds \ {p}
    BY DEF SpawnMonitor, WithoutWriteEnd, Idle, Types
  <2>2. monitor[s].pc \in {"none", "ended"}
    BY DEF SpawnMonitor, Joined
  <2>3. p \in Pipes /\ process[p].state # "none"
    BY <2>1, HeldPipes DEF Pipework, Started
  <2> QED  BY <2>1, <2>2, <2>3
<1>2. Holding'
  BY <1>1 DEF Pipework, Holding
<1>3. Started'
  BY <1>1 DEF Pipework, Started, Alive
<1>4. Owned'
  BY <1>1 DEF Pipework, Owned, NothingLeaks
<1> QED  BY <1>1, <1>2, <1>3, <1>4 DEF Pipework, ReportedAsItEnded

(* A detached process is waited for by the call that started it.            *)
LEMMA PipeworkDetached ==
  ASSUME Types, Joined, Pipework, NEW s \in Objects,
         CloseDetached(s) \/ ReapDetached(s) \/ ReadId(s)
  PROVE  Pipework'
<1>0. call[s] \in Calls /\ impl[s] \in Impls /\ monitor[s] \in Monitors
  BY DEF Types
<1> DEFINE p == call[s].pipe
<1>1. /\ UNCHANGED <<os, made, impl, monitor>>
      /\ \A t \in Objects \ {s} : call'[t] = call[t]
      /\ \A q \in Pipes \ {p} : process'[q] = process[q]
  BY DEF CloseDetached, ReapDetached, ReadId, Types
<1>2. CASE CloseDetached(s)
  <2>1. /\ UNCHANGED process /\ call[s].pc = "close" /\ call'[s].pc = "reap"
        /\ call'[s].pipe = p /\ writeEnds' = writeEnds \ {p} /\ os # "win32"
    BY <1>0, <1>2 DEF CloseDetached, WithoutWriteEnd, Types, Calls, Joined
  <2>2. Holding'
    BY <1>1, <2>1 DEF Pipework, Holding
  <2>3. Started'
    BY <1>1, <2>1 DEF Pipework, Started, Alive
  <2>4. Owned'
    BY <1>1, <2>1 DEF Pipework, Owned, NothingLeaks
  <2> QED  BY <2>1, <2>2, <2>3, <2>4 DEF Pipework, ReportedAsItEnded
<1>3. CASE ReapDetached(s) \/ ReadId(s)
  <2>1. /\ UNCHANGED writeEnds /\ call[s].pc \in {"reap", "id"}
        /\ call'[s].pc \in {"idle", "id"}
        /\ call[s].pc = "reap" =>
             process[p].state = "dead" /\ (p \in Pipes => process'[p].state = "reaped")
        /\ p \in Pipes =>
             /\ process'[p].state = process[p].state \/ process'[p].state = "reaped"
             /\ process'[p].ends = process[p].ends /\ process'[p].token = process[p].token
             /\ \/ process'[p].report = process[p].report
                \/ process'[p].report = "none"
                \/ process'[p].report = "started" /\ process[p].token
    BY <1>0, <1>3 DEF ReapDetached, ReadId, Types, Calls, Processes, Idle
  <2>2. Holding'
    BY <1>1, <2>1 DEF Pipework, Holding
  <2>3. Started'
    <3>1. \A q \in Pipes : /\ process'[q].state = process[q].state \/ process'[q].state = "reaped"
                          /\ process'[q].ends = process[q].ends
      BY <1>1, <2>1
    <3>2. \A t \in Objects : call'[t].pc = "close" => process'[call'[t].pipe].state # "none"
      BY <3>1, <1>1, <2>1, HeldPipes DEF Pipework, Started
    <3>3. \A t \in Objects : monitor'[t].pc \in {"install", "read", "wait"} =>
            impl'[t].pipe \in Pipes /\ process'[impl'[t].pipe].state # "none"
      BY <3>1, <1>1, <2>1 DEF Pipework, Started
    <3>4. \A q \in Pipes : Alive(q)' => q \in process'[q].ends
      BY <3>1 DEF Pipework, Started, Alive
    <3> QED  BY <3>2, <3>3, <3>4 DEF Started
  <2>4. Owned'
    BY <1>1, <2>1 DEF Pipework, Owned, NothingLeaks
  <2>5. ReportedAsItEnded'
    BY <1>1, <2>1 DEF Pipework, ReportedAsItEnded
  <2> QED  BY <2>2, <2>3, <2>4, <2>5 DEF Pipework
<1> QED  BY <1>2, <1>3

(* A monitor reports what the pipe tells, then waits for the child.         *)
LEMMA PipeworkMonitor ==
  ASSUME Types, Joined, Pipework, NEW s \in Objects, MonitorStep(s)
  PROVE  Pipework'
<1>0. /\ call[s] \in Calls /\ impl[s] \in Impls /\ monitor[s] \in Monitors
      /\ impl[s].joinable
  BY DEF Types, MonitorStep, InstallHandler, ChildExited, ChildCrashed, WaitChild,
         RestoreHandler, Joined
<1> DEFINE p == impl[s].pipe
<1>1. /\ UNCHANGED <<os, made, call, impl, writeEnds>>
      /\ \A t \in Objects \ {s} : monitor'[t] = monitor[t]
      /\ \A q \in Pipes \ {p} : process'[q] = process[q]
  BY DEF MonitorStep, InstallHandler, ChildExited, ChildCrashed, Report, WaitChild,
         RestoreHandler, Types
<1>2. Holding'
  BY <1>1 DEF Pipework, Holding
<1>3. CASE InstallHandler(s) \/ RestoreHandler(s)
  <2>1. /\ UNCHANGED process
        /\ \/ monitor[s].pc = "install" /\ monitor'[s].pc = "read"
           \/ monitor[s].pc = "restore" /\ monitor'[s].pc = "ended"
    BY <1>3, <1>0 DEF InstallHandler, RestoreHandler, Types, Monitors
  <2>2. Started'
    BY <1>1, <2>1 DEF Pipework, Started, Alive
  <2>3. Owned'
    BY <1>1, <2>1 DEF Pipework, Owned, NothingLeaks
  <2> QED  BY <2>1, <1>2, <2>2, <2>3 DEF Pipework, ReportedAsItEnded
<1>4. CASE ChildExited(s) \/ ChildCrashed(s)
  <2>1. /\ p \in Pipes /\ process[p].state # "none" /\ process[p] \in Processes
        /\ monitor[s].pc = "read" /\ monitor'[s].pc = "wait"
    BY <1>4, <1>0 DEF ChildExited, ChildCrashed, Report, Pipework, Started, Types, Monitors
  <2>2. /\ process'[p].state = process[p].state /\ process'[p].ends = process[p].ends
        /\ process'[p].token = process[p].token
        /\ \/ process'[p].report = "exited" /\ process[p].token
           \/ /\ process'[p].report = "crashed" /\ ~process[p].token
              /\ p \notin process[p].ends
    BY <1>4, <2>1 DEF ChildExited, ChildCrashed, Report, Broken, PipeBroken, Types, Processes
  <2>3. \A q \in Pipes : /\ process'[q].state = process[q].state
                        /\ process'[q].ends = process[q].ends
    BY <1>1, <2>2
  <2>4. Started'
    <3>1. \A t \in Objects : call'[t].pc = "close" => process'[call'[t].pipe].state # "none"
      BY <2>3, <1>1, HeldPipes DEF Pipework, Started
    <3>2. \A t \in Objects : monitor'[t].pc \in {"install", "read", "wait"} =>
            impl'[t].pipe \in Pipes /\ process'[impl'[t].pipe].state # "none"
      BY <2>3, <1>1, <2>1 DEF Pipework, Started
    <3>3. \A q \in Pipes : Alive(q)' => q \in process'[q].ends
      BY <2>3 DEF Pipework, Started, Alive
    <3> QED  BY <3>1, <3>2, <3>3 DEF Started
  <2>5. Owned'
    BY <1>1, <2>1, <2>3 DEF Pipework, Owned, NothingLeaks
  <2>6. ReportedAsItEnded'
    <3>1. ~Alive(p) => process[p].state \in {"dead", "reaped"}
      BY <2>1 DEF Alive, Processes, States
    <3>2. Alive(p) => p \in process[p].ends
      BY <2>1 DEF Pipework, Started
    <3> QED  BY <1>1, <2>1, <2>2, <3>1, <3>2 DEF Pipework, ReportedAsItEnded
  <2> QED  BY <1>2, <2>4, <2>5, <2>6 DEF Pipework
<1>5. CASE WaitChild(s)
  <2>1. /\ p \in Pipes /\ process[p] \in Processes /\ process[p].state = "dead"
        /\ monitor[s].pc = "wait" /\ monitor'[s].pc = "restore"
    BY <1>5, <1>0 DEF WaitChild, Pipework, Started, Types, Monitors
  <2>2. /\ process'[p].state = "reaped" /\ process'[p].ends = process[p].ends
        /\ process'[p].token = process[p].token /\ process'[p].report = process[p].report
    BY <1>5, <2>1 DEF WaitChild, Types, Processes
  <2>3. \A q \in Pipes : /\ process'[q].state = process[q].state \/ process'[q].state = "reaped"
                        /\ process'[q].ends = process[q].ends
    BY <1>1, <2>2
  <2>4. Started'
    <3>1. \A t \in Objects : call'[t].pc = "close" => process'[call'[t].pipe].state # "none"
      BY <2>3, <1>1, HeldPipes DEF Pipework, Started
    <3>2. \A t \in Objects : monitor'[t].pc \in {"install", "read", "wait"} =>
            impl'[t].pipe \in Pipes /\ process'[impl'[t].pipe].state # "none"
      BY <2>3, <1>1, <2>1 DEF Pipework, Started
    <3>3. \A q \in Pipes : Alive(q)' => q \in process'[q].ends
      BY <2>3 DEF Pipework, Started, Alive
    <3> QED  BY <3>1, <3>2, <3>3 DEF Started
  <2>5. Owned'
    BY <1>1, <2>1, <2>2 DEF Pipework, Owned, NothingLeaks
  <2>6. ReportedAsItEnded'
    BY <1>1, <2>1, <2>2 DEF Pipework, ReportedAsItEnded
  <2> QED  BY <1>2, <2>4, <2>5, <2>6 DEF Pipework
<1> QED  BY <1>3, <1>4, <1>5 DEF MonitorStep

(* A process gives up its own pipe only when it ends.                       *)
LEMMA PipeworkProcess ==
  ASSUME Types, Pipework, NEW p \in Pipes, ProcessStep(p)
  PROVE  Pipework'
<1>0. process[p] \in Processes
  BY DEF Types
<1>1. /\ UNCHANGED <<os, made, call, impl, monitor, writeEnds>>
      /\ \A q \in Pipes \ {p} : process'[q] = process[q]
      /\ process[p].state \notin {"none", "dead", "reaped"}
      /\ process'[p].state \notin {"none", "reaped"}
      /\ process'[p].report = process[p].report
      /\ process[p].token => process'[p].token
      /\ \/ process'[p].state = "dead"
         \/ process'[p].ends \in {{p}, process[p].ends}
  <2>0. process \in [Pipes -> Processes]
    BY DEF Types
  <2>1. /\ UNCHANGED <<os, made, call, impl, monitor, writeEnds>>
        /\ \A q \in Pipes \ {p} : process'[q] = process[q]
    BY <2>0 DEF ProcessStep, CloseOthers, Exec, ForkDetached, TellParent, End, Becomes
  <2>2. CASE CloseOthers(p)
    <3>1. PICK ends \in {{p}, process[p].ends} :
            process'[p] = [process[p] EXCEPT !.state = "ready", !.ends = ends]
      BY <2>0, <2>2 DEF CloseOthers, Becomes
    <3>2. process[p].state = "forked"
      BY <2>2 DEF CloseOthers
    <3> QED  BY <1>0, <2>1, <3>1, <3>2 DEF Processes
  <2>3. CASE Exec(p)
    <3>1. process'[p] = [process[p] EXCEPT !.state = "running"] /\ process[p].state = "ready"
      BY <2>0, <2>3 DEF Exec, Becomes
    <3> QED  BY <1>0, <2>1, <3>1 DEF Processes
  <2>4. CASE ForkDetached(p)
    <3>1. /\ process[p].state = "ready"
          /\ \/ process'[p] = [Ended(process[p]) EXCEPT !.token = TRUE]
             \/ process'[p] = [Ended(process[p]) EXCEPT !.failed = TRUE]
      BY <2>0, <2>4 DEF ForkDetached, Becomes
    <3> QED  BY <1>0, <2>1, <3>1 DEF Processes, Ended
  <2>5. CASE TellParent(p)
    <3>1. /\ process'[p] = [process[p] EXCEPT !.state = "finishing", !.token = TRUE]
          /\ process[p].state = "running"
      BY <2>0, <2>5 DEF TellParent, Becomes
    <3> QED  BY <1>0, <2>1, <3>1 DEF Processes
  <2>6. CASE End(p)
    <3>1. process'[p] = Ended(process[p]) /\ Alive(p)
      BY <2>0, <2>6 DEF End, Becomes
    <3> QED  BY <1>0, <2>1, <3>1 DEF Processes, Ended, Alive
  <2> QED  BY <2>2, <2>3, <2>4, <2>5, <2>6 DEF ProcessStep
<1>2. Holding'
  BY <1>1 DEF Pipework, Holding
<1>3. Started'
  <2>1. \A q \in Pipes : process'[q].state = "none" => process[q].state = "none"
    BY <1>1
  <2>2. \A s \in Objects : call'[s].pc = "close" => process'[call'[s].pipe].state # "none"
    BY <2>1, <1>1, HeldPipes DEF Pipework, Started
  <2>3. \A s \in Objects : monitor'[s].pc \in {"install", "read", "wait"} =>
          impl'[s].pipe \in Pipes /\ process'[impl'[s].pipe].state # "none"
    BY <2>1, <1>1 DEF Pipework, Started
  <2>4. \A q \in Pipes : Alive(q)' => q \in process'[q].ends
    BY <1>1, <1>0 DEF Pipework, Started, Alive, Processes, States
  <2> QED  BY <2>2, <2>3, <2>4 DEF Started
<1>4. Owned'
  BY <1>1 DEF Pipework, Owned, NothingLeaks
<1>5. ReportedAsItEnded'
  BY <1>1 DEF Pipework, ReportedAsItEnded
<1> QED  BY <1>2, <1>3, <1>4, <1>5 DEF Pipework

-----------------------------------------------------------------------------
(* The inductive invariant: the types; who may have a monitor; the handler  *)
(* of SIGINT and what the monitors have saved of it; the pipes, who holds   *)
(* their ends and who waits for the processes.                              *)
IInv == Types /\ Joined /\ Interrupts /\ Pipework

(* The invariant holds at first and every step preserves it.                *)
LEMMA IInvHolds == Spec => []IInv
<1>1. Init => IInv
  <2> SUFFICES ASSUME Init PROVE IInv
    OBVIOUS
  <2>1. Joined /\ Interrupts
    BY DEF Init, Joined, Interrupts, Saved, InterruptsIgnoredWhileMonitored, Monitoring, Idle
  <2>2. Pipework
    BY DEF Init, Pipework, Holding, Started, Owned, NothingLeaks, ReportedAsItEnded, Alive,
       Idle, Unborn, NoPipe
  <2> QED  BY <2>1, <2>2, TypesInit DEF IInv
<1>2. IInv /\ [Next]_vars => IInv'
  <2> SUFFICES ASSUME IInv, [Next]_vars PROVE IInv'
    OBVIOUS
  <2>1. ASSUME NEW s \in Objects, StartChild(s) \/ StartDetached(s) \/ Destroy(s)
        PROVE  IInv'
    BY <2>1, TypesNewCall, JoinedCall, InterruptsCall, PipeworkNewCall DEF IInv
  <2>2. ASSUME NEW s \in Objects, CallStep(s)  PROVE IInv'
    <3>1. Pipework'
      BY <2>2, PipeworkNewCall, PipeworkCreatePipe, PipeworkLaunch, PipeworkSpawnMonitor,
         PipeworkDetached DEF IInv, CallStep
    <3> QED  BY <2>2, <3>1, TypesCall, JoinedCall, InterruptsCall DEF IInv
  <2>3. ASSUME NEW s \in Objects, MonitorStep(s)  PROVE IInv'
    BY <2>3, TypesMonitor, JoinedMonitor, InterruptsMonitor, PipeworkMonitor
       DEF IInv, Interrupts
  <2>4. ASSUME NEW p \in Pipes, ProcessStep(p)  PROVE IInv'
    BY <2>4, TypesProcess, JoinedProcess, InterruptsProcess, PipeworkProcess DEF IInv
  <2>5. CASE UNCHANGED vars
    BY <2>5 DEF vars, IInv, Types, Joined, Interrupts, Saved, InterruptsIgnoredWhileMonitored,
       Monitoring, Pipework, Holding, Started, Owned, NothingLeaks, ReportedAsItEnded, Alive
  <2> QED  BY <2>1, <2>2, <2>3, <2>4, <2>5 DEF Next
<1> QED  BY <1>1, <1>2, PTL DEF Spec

(* The variables keep their types through every call of every thread.       *)
THEOREM TypeCorrect == Spec => []TypeOK
<1>1. IInv => TypeOK
  BY TypeOKTypes DEF IInv
<1> QED  BY <1>1, IInvHolds, PTL

(* While no monitors of two objects overlap, SIGINT has the monitors'       *)
(* handler while a child is monitored and the application's otherwise.      *)
THEOREM InterruptsHandled == Spec => []InterruptsIgnoredWhileMonitored
<1>1. IInv => InterruptsIgnoredWhileMonitored
  BY DEF IInv, Interrupts
<1> QED  BY <1>1, IInvHolds, PTL

(* A child reported crashed is gone and has written no token; one reported  *)
(* exited has written it: for any number of children that inherit each      *)
(* other's pipes.                                                           *)
THEOREM ReportsAreTrue == Spec => []ReportedAsItEnded
<1>1. IInv => ReportedAsItEnded
  BY DEF IInv, Pipework
<1> QED  BY <1>1, IInvHolds, PTL

(* Every write end, every read end and every process that has not been      *)
(* waited for has a thread of the parent that will see to it.               *)
THEOREM EverythingIsOwned == Spec => []NothingLeaks
<1>1. IInv => NothingLeaks
  BY DEF IInv, Pipework, Owned
<1> QED  BY <1>1, IInvHolds, PTL
=============================================================================
