----------------------- MODULE NetworkConnectionWin32 -----------------------
(***************************************************************************)
(* NetworkConnection, Windows implementation                               *)
(* (src/Win32/NetworkConnectionWin32.cpp).                                 *)
(*                                                                         *)
(* The public methods and the shape of the processor's loop are those of   *)
(* the POSIX implementation, so this module extends NetworkConnection and  *)
(* states what differs.  processorStateChangeEvent is an auto-reset event: *)
(* it behaves like the pipe of PipeSignal with room for one token, which   *)
(* the wait itself consumes.  The socket is not polled by select() either. *)
(* WSAEventSelect ties it to a second event, which Winsock sets once when  *)
(* data, room or the end of the connection is noticed, and then not again  *)
(* for the same reason until recv() or send() re-enables it.  A wake-up    *)
(* consumed and not acted upon is therefore gone, where select() would     *)
(* report the same thing again.                                            *)
(***************************************************************************)
EXTENDS NetworkConnection

ASSUME AutoResetAssumption == PipeCapacity = 1

VARIABLE winsock   \* socketEvent and what Winsock still has to notice

winVars == <<vars, winsock>>

-----------------------------------------------------------------------------
(* signaled    socketEvent is set                                           *)
(* socket      the socket WSAEventSelect last tied to it                    *)
(* read, write, close: FD_READ, FD_WRITE and FD_CLOSE are enabled: Winsock  *)
(*             will set the event when it notices the thing                 *)
(* partial     history: the latest send() took only part of the data        *)
WinsockStates ==
  [signaled : BOOLEAN, socket : {NoSocket} \cup Sockets,
   read : BOOLEAN, write : BOOLEAN, close : BOOLEAN, partial : BOOLEAN]

InitWin32 ==
  /\ Init
  /\ winsock = [signaled |-> FALSE, socket |-> NoSocket, read |-> FALSE,
                write |-> FALSE, close |-> FALSE, partial |-> FALSE]

(* Winsock sets the event for what is enabled and true of the socket, and   *)
(* disables what it has set the event for.                                  *)
Notice(w, socket) ==
  LET readable == socket.unread > 0
      writable == Len(socket.sendBuf) < SendBuffer
      ended    == socket.peerFin \/ socket.reset
  IN  IF w.socket = socket.id /\ socket.state = "open"
      THEN [w EXCEPT !.signaled = \/ @
                                  \/ w.read /\ readable
                                  \/ w.write /\ writable
                                  \/ w.close /\ ended,
                     !.read = @ /\ ~readable, !.write = @ /\ ~writable,
                     !.close = @ /\ ~ended]
      ELSE w

-----------------------------------------------------------------------------
(* Public methods.  SendMessage and Close differ in nothing but the kind of *)
(* signal; Connect leaves the socket in blocking mode.                      *)
SendMessageWin32(t) == SendMessage(t) /\ UNCHANGED winsock

CloseWin32(t) == (CloseGracefully(t) \/ CloseAbruptly(t)) /\ UNCHANGED winsock

FinishCloseWin32(t) ==
  (Wake(t) \/ LockAndClose(t) \/ CallBroken(t)) /\ UNCHANGED winsock

ConnectWin32(t) ==
  (Connect(t) \/ CreateSocket(t) \/ Establish(t) \/ GiveUp(t)) /\ UNCHANGED winsock

(* getsockname(), and Connect returns true.                                 *)
FinishConnect(t) ==
  /\ call[t].pc = "nonblock"
  /\ Return(t)
  /\ UNCHANGED <<object, loop, calls, tcp, log, winsock>>

(* Faulty variant: FD_CLOSE is left out of the mask.                        *)
SelectedWithoutClose(w, s) ==
  [w EXCEPT !.socket = s, !.read = TRUE, !.write = TRUE, !.close = FALSE]

(* WSAEventSelect(FD_READ | FD_WRITE | FD_CLOSE).                           *)
Selected(w, s) ==
  [w EXCEPT !.socket = s, !.read = TRUE, !.write = TRUE, !.close = TRUE]

(* Process: as on POSIX up to processorStop = false; then either event may  *)
(* not be created or WSAEventSelect may fail, and otherwise the socket is   *)
(* now non-blocking.  An event left set by an earlier call stays set.       *)
ProcessWin32(t) ==
  LET asked == [platform EXCEPT !.delegates = TRUE]
      ready == [asked EXCEPT !.processorStop = FALSE]
      open  == [tcp EXCEPT !.state = IF @ = "blocking" THEN "open" ELSE @]
  IN /\ MayCallLifecycle(t)
     /\ \/ /\ ~Connected \/ platform.joinable
           /\ platform' = asked
           /\ log' = [log EXCEPT !.processed = IF Connected THEN platform.sock ELSE @]
           /\ calls' = [calls EXCEPT ![t] = @ + 1]
           /\ UNCHANGED <<call, tcp, winsock>>
        \/ /\ Connected /\ ~platform.joinable
           /\ \E signal \in {platform.signal, Initialize(platform.signal)} :
                platform' = [ready EXCEPT !.signal = signal]
           /\ calls' = [calls EXCEPT ![t] = @ + 1]
           /\ UNCHANGED <<call, tcp, log, winsock>>
        \/ /\ Connected /\ ~platform.joinable
           /\ platform' = [ready EXCEPT !.signal = Initialize(@)]
           /\ tcp' = open
           /\ winsock' = Notice(Selected(winsock, tcp.id), open)
           /\ Begin(t, "process", "spawn")
           /\ UNCHANGED log
     /\ UNCHANGED <<processingMutex, lifetime, loop>>

(* The thread starts; the event is not reset first.                         *)
SpawnWin32(t) ==
  /\ call[t].pc = "spawn"
  /\ loop' = [NoLoop EXCEPT !.pc = "enter"]
  /\ Goto(t, "assign")
  /\ log' = [log EXCEPT !.spawned = tcp.id]
  /\ UNCHANGED <<object, calls, tcp, winsock>>

AssignProcessorWin32(t) == AssignProcessor(t) /\ UNCHANGED winsock

(* ~NetworkConnection and ~Impl, which closes the events but not a socket.  *)
DestroyWin32(t) == (Destroy(t) \/ Release(t)) /\ UNCHANGED winsock

-----------------------------------------------------------------------------
(* The processor thread.                                                    *)

(* The condition of the while loop: a thread that is to wait drops the      *)
(* mutex for WaitForMultipleObjects.                                        *)
TestLoopWin32 ==
  /\ loop.pc = "test"
  /\ \/ /\ platform.processorStop \/ ~Connected
        /\ Step("exit")
        /\ UNCHANGED processingMutex
     \/ /\ ~platform.processorStop /\ Connected
        /\ IF loop.wait THEN Step("select") /\ Unlock
                        ELSE Step("recv") /\ UNCHANGED processingMutex
  /\ UNCHANGED <<platform, lifetime, call, calls, tcp, log, winsock>>

(* WaitForMultipleObjects returns for one event and resets that one: the    *)
(* state change event if both are set.                                      *)
WaitReturns ==
  /\ loop.pc = "select"
  /\ Step("relock")
  /\ \/ /\ IsSet(platform.signal)
        /\ platform' = [platform EXCEPT !.signal = Clear(@)]
        /\ UNCHANGED winsock
     \/ /\ ~IsSet(platform.signal) /\ winsock.signaled
        /\ winsock' = [winsock EXCEPT !.signaled = FALSE]
        /\ UNCHANGED platform
  /\ UNCHANGED <<processingMutex, lifetime, call, calls, tcp, log>>

RelockWin32 ==
  /\ ProcessorLocks("relock", "recv")
  /\ UNCHANGED <<platform, lifetime, call, calls, tcp, log, winsock>>

(* recv() is called whatever the thread was woken for, and re-enables       *)
(* FD_READ: if more data is left the event is set again at once.            *)
AfterRecv == winsock' = Notice([winsock EXCEPT !.read = TRUE], tcp')

(* recv() on a reset socket, one never connected, or INVALID_SOCKET.        *)
RecvFailsWin32 == RecvFails /\ UNCHANGED winsock

ReceiveMessageWin32 == ReceiveMessage /\ AfterRecv

(* wait is left as it was by the pass that meets the end of the stream.     *)
ReceiveEndOfStreamWin32 ==
  /\ loop.pc = "recv" /\ ~platform.peerClosed
  /\ Connected /\ tcp.unread = 0 /\ tcp.peerFin /\ ~tcp.reset
  /\ platform' = EndOfStreamSeen(platform)
  /\ DropForDelegate("peerClosed", platform.sock, loop.wait)
  /\ UNCHANGED <<lifetime, call, calls, tcp, log>>
  /\ AfterRecv

ReceiveNothingWin32 ==
  /\ ReceiveNothing
  /\ IF platform.peerClosed THEN UNCHANGED winsock ELSE AfterRecv

CallDelegateWin32 == (CallDelegate \/ DelegateReturns \/ Resume) /\ UNCHANGED winsock

SendNothingWin32 == SendNothing /\ UNCHANGED winsock

SendFailsWin32 == SendFails /\ UNCHANGED winsock

(* send() does not wait for FD_WRITE, and only a send() that is refused     *)
(* altogether enables it.                                                   *)
SendSomeWin32 ==
  /\ SendSome
  /\ winsock' = [winsock EXCEPT !.partial = loop'.wait /\ platform'.outputQueue # << >>]

SendBlockedWin32 ==
  /\ SendBlocked
  /\ winsock' = [winsock EXCEPT !.write = TRUE, !.partial = FALSE]

FinishLoopWin32 == FinishLoop /\ UNCHANGED winsock

ExitWin32 == (Enter \/ Exit) /\ UNCHANGED winsock

(* Whatever the peer does, Winsock notices it.                              *)
PeerWin32 == Peer /\ winsock' = Notice(winsock, tcp')

-----------------------------------------------------------------------------
NewCallWin32(t) ==
  \/ SendMessageWin32(t) \/ CloseWin32(t) \/ ProcessWin32(t)
  \/ call[t] = Idle /\ (ConnectWin32(t) \/ DestroyWin32(t))

ContinueWin32(t) ==
  \/ FinishCloseWin32(t) \/ FinishConnect(t) \/ SpawnWin32(t) \/ AssignProcessorWin32(t)
  \/ call[t] # Idle /\ (ConnectWin32(t) \/ DestroyWin32(t))

ProcessorStepWin32 ==
  \/ TestLoopWin32 \/ WaitReturns \/ RelockWin32
  \/ RecvFailsWin32 \/ ReceiveMessageWin32 \/ ReceiveEndOfStreamWin32
  \/ ReceiveNothingWin32 \/ CallDelegateWin32 \/ SendNothingWin32 \/ SendFailsWin32
  \/ SendSomeWin32 \/ SendBlockedWin32 \/ FinishLoopWin32 \/ ExitWin32

NextWin32 ==
  \/ \E t \in Threads : NewCallWin32(t) \/ ContinueWin32(t)
  \/ ProcessorStepWin32
  \/ PeerWin32

(* The fairness of NetworkConnection, less the peer: nothing below depends  *)
(* on the network delivering.                                               *)
FairSpecWin32 ==
  /\ InitWin32 /\ [][NextWin32]_winVars
  /\ WF_winVars(ProcessorStepWin32)
  /\ \A t \in Threads : SF_winVars(ContinueWin32(t))

-----------------------------------------------------------------------------
(* While the processor sleeps with neither event set, and no thread is      *)
(* about to set one, nothing is left that it should act upon: every thing   *)
(* that has become true since was either noticed and handled or is still    *)
(* enabled to be noticed.  Queued data waits for a refused send() to be     *)
(* possible again; a Close(true) made before Process is not forgotten,      *)
(* because tying the socket to the event sets it.  The exception is a       *)
(* send() that took only part of the data (see the README).                 *)
NothingLeftAsleep ==
  /\ Asleep /\ ~winsock.signaled
  /\ Connected /\ winsock.socket = platform.sock
  => /\ ~platform.processorStop
     /\ tcp.unread = 0 /\ (tcp.peerFin \/ tcp.reset => platform.peerClosed)
     /\ platform.outputQueue # << >> => winsock.write \/ winsock.partial
     /\ platform.closing /\ platform.outputQueue = << >> => platform.shutdownSent
=============================================================================
