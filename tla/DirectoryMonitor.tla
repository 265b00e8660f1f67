-------------------------- MODULE DirectoryMonitor --------------------------
(***************************************************************************)
(* DirectoryMonitor (src/Linux/DirectoryMonitorLinux.cpp,                  *)
(* src/Mach/DirectoryMonitorMach.cpp, src/Win32/DirectoryMonitorWin32.cpp; *)
(* the interface is include/SystemAbstractions/DirectoryMonitor.hpp).      *)
(*                                                                         *)
(* A worker thread waits for a change of the directory or for the signal   *)
(* to stop, and calls the callback for a change.  One thread, the owner,   *)
(* starts, stops and destroys the object, and not from the callback.       *)
(***************************************************************************)
EXTENDS PipeSignal

CONSTANT MaxChanges   \* bound: changes of the directory

VARIABLES
  os,      \* "linux", "mac" or "win32"
  call,    \* which method the owner is in
  impl,    \* DirectoryMonitor::Impl
  worker,  \* the worker thread: where it is, and whose callback it calls
  watch,   \* the operating system's side of the open watch
  history  \* what happened: starts, changes, and what is still owed

monitorVars == <<call, impl, worker, watch, history>>

-----------------------------------------------------------------------------
(* open        inotifyQueue, kqueueHandle or changeEvent                    *)
(* registered  the watch is in force; kqueue gets it from the worker        *)
(* pending     inotify or kqueue has something, or changeEvent is set       *)
(* recorded    Windows: a change since changeEvent was set                  *)
NoWatch == [open |-> FALSE, registered |-> FALSE,
            pending |-> FALSE, recorded |-> FALSE]

Init ==
  /\ os \in {"linux", "mac", "win32"}
  /\ call = "idle"
  /\ impl = [joinable |-> FALSE, stopSignal |-> NoPipe]
  /\ worker = "none"
  /\ watch = NoWatch
  /\ history = [changes |-> 0, owed |-> {}, broke |-> FALSE]

(* Faulty variant: Stop does not wait for the worker.                       *)
WorkerNotAwaited == TRUE

(* The worker has left its loop.                                            *)
WorkerEnded == worker = "ended"

-----------------------------------------------------------------------------
(* Start, Stop and the destructor, which all begin with Stop.               *)

BeginStop(method) ==
  /\ call = "idle"
  /\ call' = method
  /\ impl' = IF impl.joinable
             THEN [impl EXCEPT !.stopSignal = Set(@)] ELSE impl
  /\ UNCHANGED <<os, worker, watch, history>>

Start == BeginStop("start")
Stop == BeginStop("stop")
Destroy == BeginStop("destroy")

AfterStop == CASE call = "start" -> "watch"
               [] call = "stop" -> "idle"
               [] call = "destroy" -> "gone"

JoinWorker ==
  /\ call \in {"start", "stop", "destroy"}
  /\ impl.joinable => WorkerEnded
  /\ impl' = [impl EXCEPT !.joinable = FALSE]
  /\ watch' = IF impl.joinable THEN NoWatch ELSE watch
  /\ history' = [history EXCEPT !.owed = {}]
  /\ call' = AfterStop
  /\ UNCHANGED <<os, worker>>

(* Faulty variant: the signal of the last Stop is still set.                *)
NotCleared(s) == Initialize(s)

(* stopSignal.Initialize() and Clear(), or CreateEvent() or ResetEvent().   *)
Cleared(s) == Clear(Initialize(s))

(* The rest of Start, with its failures: the signal or the event cannot be  *)
(* made; the directory cannot be watched, before or after Clear().          *)
StartWatching ==
  /\ call = "watch"
  /\ call' = "idle"
  /\ \/ /\ impl' = [joinable |-> TRUE, stopSignal |-> Cleared(impl.stopSignal)]
        /\ watch' = [NoWatch EXCEPT !.open = TRUE, !.registered = os # "mac"]
        /\ worker' = IF os = "mac" THEN "register" ELSE "wait"
        /\ history' = [history EXCEPT !.broke = FALSE]
     \/ /\ impl' \in {impl,
             [impl EXCEPT !.stopSignal = Initialize(@)],
             [impl EXCEPT !.stopSignal = Cleared(@)]}
        /\ UNCHANGED <<watch, worker, history>>
  /\ UNCHANGED os

-----------------------------------------------------------------------------
(* Run().                                                                   *)

WorkerGoes(pc) ==
  /\ worker' = pc
  /\ UNCHANGED <<os, call, impl>>

(* The first kevent() of the worker registers the watch.                    *)
Register ==
  /\ worker = "register"
  /\ WorkerGoes("wait")
  /\ watch' = [watch EXCEPT !.registered = TRUE]
  /\ UNCHANGED history

(* The wait returns for the signal, and also when the directory changed,    *)
(* except that kevent() gives one event, in either order.                   *)
StopSeen ==
  /\ worker = "wait"
  /\ IsSet(impl.stopSignal)
  /\ WorkerGoes("ended")
  /\ UNCHANGED <<watch, history>>

(* What was queued is read before the callback is called; changeEvent stays *)
(* set until the callback has returned.                                     *)
Emptied(w) == [w EXCEPT !.pending = os = "win32"]

ChangeSeen ==
  /\ worker = "wait"
  /\ watch.pending
  /\ os # "mac" => ~IsSet(impl.stopSignal)
  /\ WorkerGoes("callback")
  /\ watch' = Emptied(watch)
  /\ history' = [history EXCEPT !.owed = {}]

CallbackReturns ==
  /\ worker = "callback"
  /\ WorkerGoes(IF os = "win32" THEN "renew" ELSE "wait")
  /\ UNCHANGED <<watch, history>>

(* FindNextChangeNotification() sets the event again for what was recorded  *)
(* meanwhile.  If it fails the worker ends.                                 *)
Renew ==
  /\ worker = "renew"
  /\ \/ /\ WorkerGoes("wait")
        /\ watch' = [watch EXCEPT !.pending = watch.recorded,
                                  !.recorded = FALSE]
        /\ UNCHANGED history
     \/ /\ WorkerGoes("ended")
        /\ history' = [history EXCEPT !.broke = TRUE]
        /\ UNCHANGED watch

(* A handler ran on this thread: select() fails and leaves its sets as they *)
(* were, so that the signal to stop seems set; kevent() fails.  The worker  *)
(* ends either way, without a word.                                         *)
Interrupted ==
  /\ worker \in {"wait", "register"} /\ os # "win32"
  /\ WorkerGoes("ended")
  /\ history' = [history EXCEPT !.broke = TRUE]
  /\ UNCHANGED watch

-----------------------------------------------------------------------------
(* The directory: a file comes or goes, or its content changes, which       *)
(* NOTE_WRITE on a directory does not tell.  A change while the object      *)
(* monitors is owed a callback: an "entry", a "content", or an "early" one, *)
(* made before the watch was in force.                                      *)

Told(kind) == watch.registered /\ (os = "mac" => kind = "entry")

Monitored == impl.joinable /\ call = "idle"

Change(kind) ==
  /\ history.changes < MaxChanges
  /\ watch' = IF ~Told(kind) THEN watch
              ELSE [watch EXCEPT !.pending = TRUE,
                                 !.recorded = os = "win32" /\ (@ \/ watch.pending)]
  /\ history' =
       [history EXCEPT !.changes = @ + 1,
          !.owed = IF ~Monitored THEN @
                   ELSE @ \cup {IF watch.registered THEN kind ELSE "early"}]
  /\ UNCHANGED <<os, call, impl, worker>>

-----------------------------------------------------------------------------
CallStep == JoinWorker \/ StartWatching

WorkerStep ==
  Register \/ StopSeen \/ ChangeSeen \/ CallbackReturns \/ Renew

-----------------------------------------------------------------------------
(* Once Stop, Start or the destructor has joined the worker no callback     *)
(* runs, and the watch is the worker's as long as there is one; whatever    *)
(* failed or ended by itself before.                                        *)
NoCallbackAfterStop ==
  /\ ~impl.joinable => worker \in {"none", "ended"} /\ ~watch.open
  /\ call \in {"watch", "gone"} => ~impl.joinable

Owed == {"entry", "content", "early"}

(* Every change of a monitored directory is followed by a callback, or by   *)
(* Stop, as the header promises and the tests expect.  This is false: the   *)
(* next property names the exceptions.                                      *)
EveryChangeIsReported ==
  \A change \in Owed : change \in history.owed ~> change \notin history.owed

(* A change of a monitored directory is followed by a callback, or by Stop, *)
(* also when it falls into an earlier callback, but for three exceptions:   *)
(* on the Mac a change of a file's content, and a change made before the    *)
(* worker's first kevent() (what is left of Owed are entries); and on any   *)
(* platform a worker that has ended by itself, because of a handler that    *)
(* ran on its thread or because the notification could not be renewed.      *)
ChangesAreReported ==
  \A change \in Owed :
    change \in history.owed /\ (os = "mac" => change = "entry") /\ ~history.broke
      ~> change \notin history.owed \/ history.broke
=============================================================================
