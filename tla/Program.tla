------------------------------- MODULE Program ------------------------------
(***************************************************************************)
(* A service whose Run starts and stops a DirectoryMonitor and returns     *)
(* once it is told to stop, with the monitor stopped, as                   *)
(* include/SystemAbstractions/Service.hpp asks.  What ties the two         *)
(* together are the signals: SIGTERM runs its handler on any thread of the *)
(* process, and so does SIGINT while Subprocess monitors a child.  On the  *)
(* thread of the directory monitor a handler interrupts the wait.          *)
(***************************************************************************)
EXTENDS Naturals

CONSTANTS
  PipeCapacity,   \* tokens a pipe takes
  MaxChanges,     \* bound: changes of the directory
  MaxStops,       \* bound: requests to stop
  ChildMonitored  \* SIGINT has the handler of Subprocess

ASSUME ProgramAssumption ==
  MaxChanges \in Nat /\ MaxStops \in Nat /\ ChildMonitored \in BOOLEAN

VARIABLES
  os,
  call, impl, worker, watch, history,
  main, poller, shutDown, promise, status, exit, requests, stops

Monitor == INSTANCE DirectoryMonitor
Main == INSTANCE Service

monitorVars == <<call, impl, worker, watch, history>>
serviceVars ==
  <<main, poller, shutDown, promise, status, exit, requests, stops>>
vars == <<os, monitorVars, serviceVars>>

Init == Monitor!Init /\ Main!Init

-----------------------------------------------------------------------------
(* The application's Run: it watches the directory, or another one, until   *)
(* it is told to stop.  On the Mac, where Main does not call Run, the       *)
(* application does the same after Main.                                    *)
Working == Main!Running \/ (os = "mac" /\ main = "returned")

RunWatches ==
  /\ Working /\ ~Main!Told
  /\ Monitor!Start \/ Monitor!Stop
  /\ UNCHANGED serviceVars

RunStopsWatching ==
  /\ Working /\ (Main!Told \/ os = "mac")
  /\ Monitor!Destroy
  /\ UNCHANGED serviceVars

(* Run returns when it was told to, or by itself.                           *)
RunReturns ==
  /\ call \in {"gone", "idle"} /\ ~impl.joinable
  /\ Main!RunReturns
  /\ UNCHANGED monitorVars

MonitorStep ==
  /\ Monitor!WorkerStep
  /\ UNCHANGED serviceVars

MonitorCallStep ==
  /\ Monitor!CallStep
  /\ UNCHANGED serviceVars

MainBegins ==
  /\ Main!MainLinux \/ Main!MainMac \/ Main!MainWin32
  /\ UNCHANGED monitorVars

MainStep == Main!ServiceStep /\ UNCHANGED monitorVars

PollerStep == Main!PollerStep /\ UNCHANGED monitorVars

-----------------------------------------------------------------------------
(* SIGTERM, on the thread of the directory monitor or on another one.       *)
Terminated ==
  /\ Main!Terminate
  /\ \/ UNCHANGED monitorVars
     \/ Monitor!Interrupted

Stopped == Main!ControlStop /\ UNCHANGED monitorVars

(* SIGINT on the thread of the directory monitor.                           *)
Interrupted ==
  /\ ChildMonitored
  /\ Monitor!Interrupted
  /\ UNCHANGED serviceVars

Changed ==
  /\ \E kind \in {"entry", "content"} : Monitor!Change(kind)
  /\ UNCHANGED serviceVars

-----------------------------------------------------------------------------
Next ==
  \/ RunWatches \/ RunStopsWatching \/ RunReturns
  \/ MonitorStep \/ MonitorCallStep
  \/ MainBegins \/ MainStep \/ PollerStep
  \/ Terminated \/ Stopped \/ Interrupted \/ Changed

Spec == Init /\ [][Next]_vars

(* The threads run, and Run returns promptly once it was told to stop.      *)
FairSpec ==
  /\ Spec
  /\ WF_vars(MonitorStep)
  /\ WF_vars(MonitorCallStep)
  /\ WF_vars(Main!Told /\ RunStopsWatching)
  /\ WF_vars(Main!Told /\ RunReturns)
  /\ WF_vars(MainStep)
  /\ WF_vars(PollerStep)

-----------------------------------------------------------------------------
(* The properties of the two parts, in the program that has both.           *)
NoCallbackAfterStop == Monitor!NoCallbackAfterStop
ChangesAreReported == Monitor!ChangesAreReported
EveryChangeIsReported == Monitor!EveryChangeIsReported
StopCalledOnce == Main!StopCalledOnce

(* A request to stop makes Main return although the monitor's worker is in  *)
(* a callback, has changes still to report, was interrupted by the very     *)
(* signal, or is just being restarted; so does the end of Run without one.  *)
RequestsAreObeyed == Main!RequestsAreObeyed
=============================================================================
