------------------------ MODULE NetworkEndpointWin32 ------------------------
(***************************************************************************)
(* NetworkEndpoint, Windows implementation                                 *)
(* (src/Win32/NetworkEndpointWin32.cpp): what differs from the POSIX one,  *)
(* which this module extends.                                              *)
(*                                                                         *)
(* The processor waits for two auto-reset events (see                      *)
(* NetworkConnectionWin32): its state change event, and the one Winsock    *)
(* sets for FD_ACCEPT, FD_READ and FD_WRITE, once each until accept(),     *)
(* recvfrom() or a refused sendto() re-enables it.  Each pass of the loop  *)
(* takes at most one client or datagram and sends at most one packet,      *)
(* whatever it was woken for.  Close(true) empties the output queue once   *)
(* it has joined the processor.                                            *)
(***************************************************************************)
EXTENDS NetworkEndpoint

ASSUME AutoResetAssumption == PipeCapacity = 1

VARIABLE winsock   \* socketEvent and what Winsock still has to notice

winVars == <<vars, winsock>>

-----------------------------------------------------------------------------
(* signaled         socketEvent is set                                      *)
(* socket           the socket WSAEventSelect last tied to it               *)
(* incoming, write  FD_ACCEPT or FD_READ, and FD_WRITE, are enabled         *)
(* waiting          what is queued has been refused, or queued before Open:  *)
(*                  it has only FD_WRITE to go by (history)                  *)
InitWin32 ==
  /\ Init
  /\ winsock = [signaled |-> FALSE, socket |-> NoSocket,
                incoming |-> FALSE, write |-> FALSE, waiting |-> FALSE]

(* Winsock sets the event for what is enabled and true of the socket, and   *)
(* disables what it has set the event for.                                  *)
Notice(w, k) ==
  LET arrived == w.incoming /\ k.pending > 0
      room    == w.write /\ k.mode # "connection" /\ ~k.full
  IN  IF w.socket = k.id /\ k.id # NoSocket
      THEN [w EXCEPT !.signaled = @ \/ arrived \/ room,
                     !.incoming = @ /\ ~arrived, !.write = @ /\ ~room]
      ELSE w

-----------------------------------------------------------------------------
(* Open, Close and the destructor.                                          *)

SendPacketWin32(t) == SendPacket(t) /\ UNCHANGED winsock

BeginCallWin32 == (Open \/ Close \/ Destroy) /\ UNCHANGED winsock

QueueCleared(p) == [p EXCEPT !.outputQueue = << >>]

(* Close(true): stop, wake, join, and clear the queue.  clear() takes no    *)
(* lock; a packet queued between join() and clear() is lost like one queued *)
(* before.                                                                  *)
JoinWin32 ==
  /\ call.pc = "join"
  /\ ProcessorEnded
  /\ platform' = QueueCleared([platform EXCEPT !.joinable = FALSE])
  /\ call' = [call EXCEPT !.pc = "close"]
  /\ UNCHANGED <<impl, processingMutex, loop, kernel, log, winsock>>

CloseWin32 ==
  \/ (StopProcessor \/ Wake \/ CloseSocket) /\ UNCHANGED winsock
  \/ JoinWin32

(* socket(), options, bind() and getsockname().                             *)
CreateSocketWin32 == CreateSocket /\ UNCHANGED winsock

(* The mask of WSAEventSelect by mode: FD_ACCEPT or FD_READ, and FD_WRITE,  *)
(* which a socket that receives multicasts does not have.                   *)
AsksForIncoming(mode) == mode # "multicastSend"
AsksForWrite(mode)    == mode \in {"datagram", "multicastSend"}

(* Faulty variant: nor does a socket that receives datagrams.               *)
MaskWithoutWrite(w, mode) ==
  [w EXCEPT !.socket = kernel.id, !.incoming = AsksForIncoming(mode),
            !.write = mode = "multicastSend"]

Selected(w, mode) ==
  [w EXCEPT !.socket = kernel.id, !.incoming = AsksForIncoming(mode),
            !.write = AsksForWrite(mode)]

(* The state change event is created or reset, processorStop is cleared,    *)
(* the socket event created (an old one is kept as it is) and tied to the   *)
(* socket, which may already set it, and a listening socket listens.  Any   *)
(* of it may fail; then Close(false).                                       *)
PrepareEvents ==
  /\ call.pc = "signal"
  /\ \/ /\ platform' = [platform EXCEPT !.signal = 0, !.processorStop = FALSE]
        /\ winsock' = [Notice(Selected(winsock, impl.mode), kernel) EXCEPT
                         !.waiting = platform.outputQueue # << >>]
        /\ call' = [call EXCEPT !.pc = "start"]
        /\ UNCHANGED kernel
     \/ /\ \/ platform.signal = NoPipe /\ platform' = WithoutSocket(platform)
           \/ platform' = WithoutSocket(
                [platform EXCEPT !.signal = 0, !.processorStop = FALSE])
        /\ kernel' = ClosedSocket
        /\ call' = Idle
        /\ UNCHANGED winsock
  /\ UNCHANGED <<impl, processingMutex, loop, log>>

StartProcessorWin32 ==
  /\ call.pc = "start"
  /\ platform' = [platform EXCEPT !.joinable = TRUE]
  /\ loop' = [loop EXCEPT !.pc = "lock", !.sock = platform.sock, !.wait = TRUE]
  /\ call' = Idle
  /\ UNCHANGED <<impl, processingMutex, kernel, log, winsock>>

-----------------------------------------------------------------------------
(* The processor thread.                                                    *)

TestLoopWin32 ==
  /\ loop.pc = "test"
  /\ \/ /\ platform.processorStop
        /\ Exit
     \/ /\ ~platform.processorStop /\ loop.wait
        /\ Goto("select")
        /\ processingMutex' = NoThread
     \/ /\ ~platform.processorStop /\ ~loop.wait
        /\ Goto("receive")
        /\ UNCHANGED processingMutex
  /\ UNCHANGED <<impl, platform, call, kernel, log, winsock>>

(* WaitForMultipleObjects returns for one event and resets that one.        *)
WaitReturns ==
  /\ loop.pc = "select"
  /\ Goto("relock")
  /\ \/ /\ IsSet(platform.signal)
        /\ platform' = [platform EXCEPT !.signal = Clear(@)]
        /\ UNCHANGED winsock
     \/ /\ ~IsSet(platform.signal) /\ winsock.signaled
        /\ winsock' = [winsock EXCEPT !.signaled = FALSE]
        /\ UNCHANGED platform
  /\ UNCHANGED <<impl, processingMutex, call, kernel, log>>

TakeMutexWin32 == TakeMutex /\ UNCHANGED winsock

(* The call that fits the socket re-enables its event, if that is in the    *)
(* mask, whatever it returns.                                               *)
Reenabled == [winsock EXCEPT !.incoming = AsksForIncoming(kernel.mode)]

ReceiveWin32 ==
  /\ loop.pc = "receive"
  /\ Reads
  /\ kernel.pending > 0
  /\ kernel' = [kernel EXCEPT !.pending = @ - 1]
  /\ winsock' = Notice(Reenabled, kernel')
  /\ Goto("received")
  /\ UNCHANGED <<impl, platform, processingMutex, call, log>>

(* Nothing to receive in this mode; WSAEWOULDBLOCK; accept() that fails,    *)
(* with the client left or gone; or an empty datagram.                      *)
ReceiveNothingWin32 ==
  /\ loop.pc = "receive"
  /\ \/ /\ \/ impl.mode = "multicastSend"
           \/ impl.mode = "connection" /\ ~Accepts
        /\ UNCHANGED <<kernel, winsock>>
     \/ /\ Reads
        /\ \/ /\ kernel.pending > 0
              /\ kernel' = [kernel EXCEPT !.pending = @ - 1]
           \/ /\ kernel.pending = 0 \/ Accepts
              /\ UNCHANGED kernel
        /\ winsock' = Notice(Reenabled, kernel')
  /\ Goto("send")
  /\ UNCHANGED <<impl, platform, processingMutex, call, log>>

(* recvfrom() fails: Close(false), and the loop ends.                       *)
ReceiveFailsWin32 ==
  /\ loop.pc = "receive"
  /\ ReceivesPackets
  /\ GiveUp
  /\ UNCHANGED <<impl, call, log, winsock>>

CallDelegateWin32 == (CallDelegate \/ DelegateReturns) /\ UNCHANGED winsock

SendWin32 ==
  \/ (SendNothing \/ SendFails) /\ UNCHANGED winsock
  \/ Send /\ winsock' = [winsock EXCEPT !.waiting = FALSE]

(* Only a refused sendto() enables FD_WRITE again.                          *)
SendBlockedWin32 ==
  /\ SendBlocked
  /\ winsock' = [winsock EXCEPT !.write = AsksForWrite(kernel.mode), !.waiting = TRUE]

-----------------------------------------------------------------------------
(* The environment.                                                         *)
ArriveWin32 ==
  /\ kernel.id # NoSocket /\ log.arrived < MaxArrivals
  /\ kernel.mode = "connection" => winsock.socket = kernel.id
  /\ kernel' = [kernel EXCEPT !.pending = @ + 1]
  /\ winsock' = Notice(winsock, kernel')
  /\ log' = [log EXCEPT !.arrived = @ + 1]
  /\ UNCHANGED <<impl, platform, processingMutex, loop, call>>

DrainWin32 == Drain /\ winsock' = Notice(winsock, kernel')

-----------------------------------------------------------------------------
ProcessorStepWin32 ==
  \/ TakeMutexWin32 \/ TestLoopWin32 \/ WaitReturns
  \/ ReceiveWin32 \/ ReceiveNothingWin32 \/ ReceiveFailsWin32
  \/ CallDelegateWin32 \/ SendWin32 \/ SendBlockedWin32

CallGoesOnWin32 ==
  CloseWin32 \/ CreateSocketWin32 \/ PrepareEvents \/ StartProcessorWin32

NextWin32 ==
  \/ ProcessorStepWin32 \/ CallGoesOnWin32 \/ BeginCallWin32
  \/ \E t \in Users \cup {Processor} : SendPacketWin32(t)
  \/ ArriveWin32 \/ DrainWin32

FairSpecWin32 ==
  /\ InitWin32 /\ [][NextWin32]_winVars
  /\ WF_winVars(ProcessorStepWin32)
  /\ WF_winVars(CallGoesOnWin32)
  /\ WF_winVars(DrainWin32)

-----------------------------------------------------------------------------
(* FD_WRITE is not in the mask of a socket that receives multicasts: a      *)
(* packet that was refused there, or was queued before Open and so woke     *)
(* nobody, waits for something else to wake the processor.                  *)
Stranded == kernel.mode = "multicastReceive" /\ winsock.waiting

(* A processor asleep with neither event set has nothing left to do: all    *)
(* that arrived has been taken although each wake-up takes only one, a      *)
(* queued packet waits for room which Winsock will notice, or is stranded   *)
(* (the exception the code has), and a stop is about to wake it.  (While    *)
(* Open has stored another mode than that of the processor it is about to   *)
(* stop, the processor may not read.)                                       *)
NothingLeftAsleep ==
  /\ loop.pc = "select"
  /\ ~IsSet(platform.signal) /\ ~winsock.signaled
  /\ impl.delegates = loop.sock
  => /\ kernel.mode # "multicastSend" => kernel.pending = 0
     /\ platform.outputQueue # << >> /\ kernel.mode # "connection"
          => Stranded \/ (kernel.full /\ winsock.write)
     /\ platform.processorStop => call.pc = "wake"

(* A packet queued for a socket that sends is sent unless the processor     *)
(* ends, or it is stranded.                                                 *)
PacketsAreSentUnlessStranded ==
  platform.outputQueue # << >> /\ ProcessorRunning /\ kernel.mode # "connection"
    ~> platform.outputQueue = << >> \/ ~ProcessorRunning \/ Stranded
=============================================================================
