------------------------------- MODULE Service ------------------------------
(***************************************************************************)
(* Service::Main (src/Linux/ServiceLinux.cpp, src/Win32/ServiceWin32.cpp,  *)
(* src/Mach/ServiceMach.cpp) and what it calls of the application's        *)
(* subclass: Run and Stop.  Main is called once, as                        *)
(* include/SystemAbstractions/Service.hpp implies: the promise in Impl     *)
(* cannot be used again.                                                   *)
(*                                                                         *)
(* On Linux a handler of SIGTERM sets a flag which a worker thread polls   *)
(* to call Stop.  On Windows the service control manager calls Stop on the *)
(* thread that entered its dispatcher, and Run is called on another.  On   *)
(* the Mac Main does nothing.                                              *)
(***************************************************************************)
EXTENDS Naturals

CONSTANT MaxStops   \* bound: requests to stop, SIGTERM or SERVICE_CONTROL_STOP

VARIABLES
  os,        \* "linux", "mac" or "win32"
  main,      \* where Main, or the ServiceMain thread, is
  poller,    \* the worker thread
  shutDown,  \* the flag set by the handler
  promise,   \* stopWorker has its value
  status,    \* what the service control manager was told
  exit,      \* what Main returned: "run" for what Run returned
  requests,  \* bound and history: requests to stop
  stops      \* history: calls of the subclass's Stop

serviceVars ==
  <<main, poller, shutDown, promise, status, exit, requests, stops>>

Init ==
  /\ os \in {"linux", "mac", "win32"}
  /\ main = "idle"
  /\ poller = "none"
  /\ shutDown = FALSE
  /\ promise = FALSE
  /\ status = "stopped"
  /\ exit = "none"
  /\ requests = 0
  /\ stops = 0

(* The subclass was told to stop.                                           *)
Told == stops > 0

Running == main = "running"

-----------------------------------------------------------------------------
(* Main.                                                                    *)

(* The handler is installed; then the poller is started and Run called.     *)
MainLinux ==
  /\ os = "linux" /\ main = "idle"
  /\ main' = "starting"
  /\ UNCHANGED <<os, poller, shutDown, promise, status, exit, requests, stops>>

SpawnPoller ==
  /\ os = "linux" /\ main = "starting"
  /\ main' = "running"
  /\ poller' = "poll"
  /\ UNCHANGED <<os, shutDown, promise, status, exit, requests, stops>>

MainMac ==
  /\ os = "mac" /\ main = "idle"
  /\ main' = "returned"
  /\ exit' = "success"
  /\ UNCHANGED <<os, poller, shutDown, promise, status, requests, stops>>

(* StartServiceCtrlDispatcherA() fails, for which Main returns EXIT_SUCCESS,*)
(* or creates the thread of ServiceMain().                                  *)
MainWin32 ==
  /\ os = "win32" /\ main = "idle"
  /\ \/ main' = "starting" /\ UNCHANGED exit
     \/ main' = "returned" /\ exit' = "success"
  /\ UNCHANGED <<os, poller, shutDown, promise, status, requests, stops>>

(* Impl::Main(): the handler is registered and the service reported to run  *)
(* before Run is called.                                                    *)
ServiceMain ==
  /\ os = "win32" /\ main = "starting"
  /\ \/ status = "stopped" /\ status' = "running" /\ UNCHANGED main
     \/ status = "running" /\ main' = "running" /\ UNCHANGED status
  /\ UNCHANGED <<os, poller, shutDown, promise, exit, requests, stops>>

(* Run returns; on Linux the promise gets its value.                        *)
RunReturns ==
  /\ Running
  /\ main' = "ran"
  /\ promise' = (os = "linux")
  /\ status' = "stopped"
  /\ UNCHANGED <<os, poller, shutDown, exit, requests, stops>>

(* Faulty variant: the poller is not awaited.                               *)
PollerNotAwaited == TRUE

PollerEnded == poller = "ended"

(* The poller is joined and the handler restored; what Run returned is      *)
(* returned.                                                                *)
ReturnLinux ==
  /\ os = "linux" /\ main = "ran"
  /\ PollerEnded
  /\ main' = "returned"
  /\ exit' = "run"
  /\ UNCHANGED <<os, poller, shutDown, promise, status, requests, stops>>

(* The dispatcher returns, with success, once the service is stopped and no *)
(* control is being handled.                                                *)
ReturnWin32 ==
  /\ os = "win32" /\ main = "ran"
  /\ main' = "returned"
  /\ exit' = "failure"
  /\ UNCHANGED <<os, poller, shutDown, promise, status, requests, stops>>

-----------------------------------------------------------------------------
(* The requests to stop.                                                    *)

(* SIGTERM while the handler is installed.                                  *)
Terminate ==
  /\ os = "linux" /\ main \in {"starting", "running", "ran"}
  /\ requests < MaxStops
  /\ requests' = requests + 1
  /\ shutDown' = TRUE
  /\ UNCHANGED <<os, main, poller, promise, status, exit, stops>>

(* Faulty variant: only the flag ends the poll.                             *)
PollsFlagOnly == shutDown

(* The loop of PollShutDown() ends, now or within 100 ms.                   *)
PollEnds == shutDown \/ promise

(* PollShutDown() calls Stop, whatever ended its loop.                      *)
PollShutDown ==
  /\ poller = "poll"
  /\ PollEnds
  /\ poller' = "ended"
  /\ stops' = stops + 1
  /\ UNCHANGED <<os, main, shutDown, promise, status, exit, requests>>

(* ServiceControlHandler(): SERVICE_CONTROL_STOP, for a service that is     *)
(* reported to run.                                                         *)
ControlStop ==
  /\ os = "win32" /\ status = "running"
  /\ requests < MaxStops
  /\ requests' = requests + 1
  /\ stops' = stops + 1
  /\ UNCHANGED <<os, main, poller, shutDown, promise, status, exit>>

-----------------------------------------------------------------------------
ServiceStep ==
  \/ SpawnPoller \/ ServiceMain \/ ReturnLinux \/ ReturnWin32

PollerStep == PollShutDown

-----------------------------------------------------------------------------
(* On Linux Stop is called once for each Main, by the time it returns,      *)
(* however many SIGTERM there were and also when Run returned by itself.    *)
StopCalledOnce ==
  os = "linux" =>
    /\ stops <= 1
    /\ main = "returned" => stops = 1

(* A request to stop makes Main return, and so does the end of Run.         *)
RequestsAreObeyed == requests > 0 \/ main = "ran" ~> main = "returned"
=============================================================================
