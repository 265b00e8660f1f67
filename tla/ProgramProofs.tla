---------------------------- MODULE ProgramProofs ---------------------------
(***************************************************************************)
(* Proofs about Program: a service that watches a directory, with any      *)
(* number of requests to stop, signals and changes.                        *)
(***************************************************************************)
EXTENDS Program, TLAPS

(* impl and watch are records, whatever the signal is.                      *)
Records ==
  /\ impl = [joinable |-> impl.joinable, stopSignal |-> impl.stopSignal]
  /\ impl.joinable \in BOOLEAN
  /\ watch = [open |-> watch.open, registered |-> watch.registered,
              pending |-> watch.pending, recorded |-> watch.recorded]
  /\ watch.open \in BOOLEAN

(* What Stop leaves: no worker that runs and no open watch, until Start has *)
(* made both; the worker waits, and has something to wait for, only while   *)
(* it is joinable.                                                          *)
MonitorInv ==
  /\ Records
  /\ NoCallbackAfterStop
  /\ ~impl.joinable => watch = Monitor!NoWatch

(* On Linux the poller is started once by Main, calls Stop as the last      *)
(* thing it does, and Main returns after it.                                *)
PollerInv ==
  os = "linux" =>
    /\ main \in {"idle", "starting"} => poller = "none"
    /\ poller \in {"none", "poll", "ended"}
    /\ stops = IF poller = "ended" THEN 1 ELSE 0
    /\ main = "returned" => poller = "ended"

IInv == MonitorInv /\ PollerInv

-----------------------------------------------------------------------------
(* Start, Stop and the destructor join the worker and close the watch; only *)
(* Start goes on to make both again.                                        *)
LEMMA OwnerStep ==
  ASSUME MonitorInv,
         \/ Monitor!Start \/ Monitor!Stop \/ Monitor!Destroy
         \/ Monitor!JoinWorker \/ Monitor!StartWatching
  PROVE  MonitorInv'
<1> USE DEF MonitorInv, NoCallbackAfterStop, Monitor!NoCallbackAfterStop
<1>1. CASE Monitor!Start \/ Monitor!Stop \/ Monitor!Destroy
  <2>1. /\ UNCHANGED <<worker, watch>> /\ call' \in {"start", "stop", "destroy"}
        /\ impl' \in {impl, [impl EXCEPT !.stopSignal = Monitor!Set(@)]}
    BY <1>1 DEF Monitor!Start, Monitor!Stop, Monitor!Destroy, Monitor!BeginStop
  <2>2. impl'.joinable = impl.joinable /\ Records'
    BY <2>1 DEF Records
  <2> QED  BY <2>1, <2>2
<1>2. CASE Monitor!JoinWorker
  <2>1. impl'.joinable = FALSE /\ watch' = Monitor!NoWatch /\ UNCHANGED worker
    BY <1>2 DEF Monitor!JoinWorker, Records
  <2>2. worker \in {"none", "ended"}
    BY <1>2 DEF Monitor!JoinWorker, Monitor!WorkerEnded
  <2>3. Records'
    <3>1. impl' = [impl EXCEPT !.joinable = FALSE]
      BY <1>2 DEF Monitor!JoinWorker
    <3>2. /\ impl' = [joinable |-> impl'.joinable, stopSignal |-> impl'.stopSignal]
          /\ impl'.joinable \in BOOLEAN
      BY <3>1 DEF Records
    <3> QED  BY <2>1, <3>2 DEF Monitor!NoWatch, Records
  <2> QED  BY <2>1, <2>2, <2>3 DEF Monitor!NoWatch
<1>3. CASE Monitor!StartWatching
  <2>1. CASE /\ impl' = [joinable |-> TRUE, stopSignal |-> Monitor!Cleared(impl.stopSignal)]
             /\ watch' = [Monitor!NoWatch EXCEPT !.open = TRUE, !.registered = os # "mac"]
    <3>1. call' = "idle" /\ impl'.joinable = TRUE
      BY <1>3, <2>1 DEF Monitor!StartWatching
    <3>2. Records'
      BY <2>1 DEF Records, Monitor!NoWatch
    <3> QED  BY <3>1, <3>2
  <2>2. CASE /\ impl' \in {impl,
                    [impl EXCEPT !.stopSignal = Monitor!Initialize(@)],
                    [impl EXCEPT !.stopSignal = Monitor!Cleared(@)]}
             /\ UNCHANGED <<watch, worker, history>>
    <3>1. call' = "idle"
      BY <1>3 DEF Monitor!StartWatching
    <3>2. impl'.joinable = impl.joinable /\ Records'
      BY <2>2 DEF Records
    <3> QED  BY <2>2, <3>1, <3>2
  <2> QED  BY <1>3, <2>1, <2>2 DEF Monitor!StartWatching
<1> QED  BY <1>1, <1>2, <1>3

(* The worker, a handler that interrupts it, and the directory: none        *)
(* touches impl, and without a worker nothing happens to the watch.         *)
LEMMA WorkerStep ==
  ASSUME MonitorInv,
         \/ Monitor!WorkerStep \/ Monitor!Interrupted
         \/ \E kind \in {"entry", "content"} : Monitor!Change(kind)
  PROVE  MonitorInv'
<1> USE DEF MonitorInv, NoCallbackAfterStop, Monitor!NoCallbackAfterStop
<1>1. CASE Monitor!WorkerStep \/ Monitor!Interrupted
  <2>1. UNCHANGED <<call, impl>> /\ worker \notin {"none", "ended"}
    BY <1>1 DEF Monitor!WorkerStep, Monitor!Register, Monitor!StopSeen, Monitor!ChangeSeen,
           Monitor!CallbackReturns, Monitor!Renew, Monitor!Interrupted, Monitor!WorkerGoes
  <2>2. /\ watch' = [open |-> watch'.open, registered |-> watch'.registered,
                     pending |-> watch'.pending, recorded |-> watch'.recorded]
        /\ watch'.open \in BOOLEAN
    BY <1>1 DEF Monitor!WorkerStep, Monitor!Register, Monitor!StopSeen, Monitor!ChangeSeen,
           Monitor!CallbackReturns, Monitor!Renew, Monitor!Interrupted, Monitor!Emptied,
           Records
  <2> QED  BY <2>1, <2>2 DEF Records
<1>2. ASSUME NEW kind \in {"entry", "content"}, Monitor!Change(kind)  PROVE MonitorInv'
  <2>1. UNCHANGED <<call, impl, worker>>
    BY <1>2 DEF Monitor!Change
  <2>2. /\ watch' = [open |-> watch'.open, registered |-> watch'.registered,
                     pending |-> watch'.pending, recorded |-> watch'.recorded]
        /\ watch'.open = watch.open
    BY <1>2 DEF Monitor!Change, Records
  <2>3. ~impl.joinable => watch' = watch
    BY <1>2 DEF Monitor!Change, Monitor!Told, Monitor!NoWatch
  <2> QED  BY <2>1, <2>2, <2>3 DEF Records
<1> QED  BY <1>1, <1>2

(* Every step of Main, of the poller and of who asks for the stop.          *)
LEMMA ServiceStep ==
  ASSUME PollerInv,
         \/ Main!MainLinux \/ Main!MainMac \/ Main!MainWin32 \/ Main!ServiceStep
         \/ Main!RunReturns \/ Main!PollerStep \/ Main!Terminate \/ Main!ControlStop
  PROVE  PollerInv'
<1>1. CASE os = "linux"
  BY <1>1 DEF PollerInv, Main!MainLinux, Main!MainMac, Main!MainWin32, Main!ServiceStep,
     Main!SpawnPoller, Main!ServiceMain, Main!ReturnLinux, Main!ReturnWin32, Main!RunReturns,
     Main!Running, Main!PollerEnded, Main!PollerStep, Main!PollShutDown, Main!Terminate,
     Main!ControlStop
<1>2. CASE os # "linux"
  <2>1. UNCHANGED os
    BY DEF Main!MainLinux, Main!MainMac, Main!MainWin32, Main!ServiceStep, Main!SpawnPoller,
       Main!ServiceMain, Main!ReturnLinux, Main!ReturnWin32, Main!RunReturns,
       Main!PollerStep, Main!PollShutDown, Main!Terminate, Main!ControlStop
  <2> QED  BY <1>2, <2>1 DEF PollerInv
<1> QED  BY <1>1, <1>2

(* One of the two parts takes a step and the other one stands still, except *)
(* that SIGTERM may do with both at once.                                   *)
LEMMA IInvHolds == Spec => []IInv
<1>1. Init => IInv
  BY DEF Init, Monitor!Init, Main!Init, IInv, MonitorInv, Records, NoCallbackAfterStop,
     Monitor!NoCallbackAfterStop, Monitor!NoWatch, PollerInv
<1>2. IInv /\ [Next]_vars => IInv'
  <2> SUFFICES ASSUME IInv, [Next]_vars PROVE IInv'
    OBVIOUS
  <2>a. UNCHANGED monitorVars => MonitorInv'
    BY DEF monitorVars, IInv, MonitorInv, Records, NoCallbackAfterStop,
       Monitor!NoCallbackAfterStop
  <2>b. UNCHANGED <<os, serviceVars>> => PollerInv'
    BY DEF serviceVars, IInv, PollerInv
  <2>1. CASE RunWatches \/ RunStopsWatching \/ MonitorCallStep
    <3>1. MonitorInv'
      BY <2>1, OwnerStep DEF RunWatches, RunStopsWatching, MonitorCallStep,
         Monitor!CallStep, IInv
    <3>2. UNCHANGED <<os, serviceVars>>
      BY <2>1 DEF RunWatches, RunStopsWatching, MonitorCallStep, Monitor!CallStep,
         Monitor!Start, Monitor!Stop, Monitor!Destroy, Monitor!BeginStop,
         Monitor!JoinWorker, Monitor!StartWatching
    <3> QED  BY <3>1, <3>2, <2>b DEF IInv
  <2>2. CASE MonitorStep \/ Interrupted \/ Changed
    <3>1. MonitorInv'
      BY <2>2, WorkerStep DEF MonitorStep, Interrupted, Changed, IInv
    <3>2. UNCHANGED <<os, serviceVars>>
      BY <2>2 DEF MonitorStep, Interrupted, Changed, Monitor!Change, Monitor!WorkerStep,
         Monitor!Register, Monitor!StopSeen, Monitor!ChangeSeen, Monitor!CallbackReturns,
         Monitor!Renew, Monitor!Interrupted, Monitor!WorkerGoes
    <3> QED  BY <3>1, <3>2, <2>b DEF IInv
  <2>3. CASE RunReturns \/ MainBegins \/ MainStep \/ PollerStep \/ Stopped
    <3>1. PollerInv'
      BY <2>3, ServiceStep DEF RunReturns, MainBegins, MainStep, PollerStep, Stopped, IInv
    <3>2. UNCHANGED monitorVars
      BY <2>3 DEF RunReturns, MainBegins, MainStep, PollerStep, Stopped
    <3> QED  BY <3>1, <3>2, <2>a DEF IInv
  <2>4. CASE Terminated
    <3>1. PollerInv'
      BY <2>4, ServiceStep DEF Terminated, IInv
    <3>2. MonitorInv'
      BY <2>4, <2>a, WorkerStep DEF Terminated, IInv
    <3> QED  BY <3>1, <3>2 DEF IInv
  <2>5. CASE UNCHANGED vars
    BY <2>5, <2>a, <2>b DEF vars, IInv
  <2> QED  BY <2>1, <2>2, <2>3, <2>4, <2>5 DEF Next
<1> QED  BY <1>1, <1>2, PTL DEF Spec

(* Once Stop, Start or the destructor has joined the worker no callback     *)
(* runs and no watch is open, whatever failed, was interrupted or ended by  *)
(* itself before, on each platform.                                         *)
THEOREM StopIsFinal == Spec => []NoCallbackAfterStop
<1>1. IInv => NoCallbackAfterStop
  BY DEF IInv, MonitorInv
<1> QED  BY <1>1, IInvHolds, PTL

(* On Linux Stop of the subclass is called once, by the time Main returns,  *)
(* for any number of SIGTERM and also without one.                          *)
THEOREM OneStopForEachMain == Spec => []StopCalledOnce
<1>1. IInv => StopCalledOnce
  BY DEF IInv, PollerInv, StopCalledOnce, Main!StopCalledOnce
<1> QED  BY <1>1, IInvHolds, PTL
=============================================================================
