--------------------------- MODULE NetworkEndpoint ---------------------------
(***************************************************************************)
(* NetworkEndpoint, POSIX implementation (src/NetworkEndpoint.cpp,         *)
(* src/Posix/NetworkEndpointPosix.cpp): an object that listens for TCP     *)
(* clients, or sends and receives datagrams, on a processor thread which   *)
(* Open starts and Close joins.                                            *)
(*                                                                         *)
(* SendPacket runs under processingMutex, and so does the processor except *)
(* in select(); delegates are called with the mutex held.  Open and Close  *)
(* take no lock: they rely on having joined the processor.  Open stores    *)
(* the new mode and delegates before that.  An action is one stretch of    *)
(* code between two points where another thread can get in.                *)
(*                                                                         *)
(* A packet is its number in the order queued; addresses, ports and        *)
(* diagnostics are left out.                                               *)
(***************************************************************************)
EXTENDS PipeSignal, Sequences

CONSTANTS
  Users,        \* application threads
  Owner,        \* the one that calls Open, Close and the destructor
  Processor,    \* the processor thread
  NoThread,     \* what processingMutex holds while it is free
  Modes,        \* the modes passed to Open
  MaxOpens,     \* bound: calls of Open
  MaxPackets,   \* bound: packets passed to SendPacket
  MaxArrivals   \* bound: clients or datagrams that arrive

ASSUME EndpointAssumption ==
  /\ Owner \in Users /\ Processor \notin Users
  /\ NoThread \notin Users \cup {Processor}
  /\ Modes \subseteq {"connection", "datagram", "multicastSend", "multicastReceive"}
  /\ MaxOpens \in Nat /\ MaxPackets \in Nat /\ MaxArrivals \in Nat

VARIABLES
  impl,            \* what Open stores first: the mode, and whose delegates
  platform,        \* struct Platform
  processingMutex, \* the thread that holds processingMutex
  loop,            \* the processor thread: its pc and its locals
  call,            \* where the owner is inside Open, Close or the destructor
  kernel,          \* the latest socket
  log              \* history: opened, queued, sent, arrived, reported

vars == <<impl, platform, processingMutex, loop, call, kernel, log>>

-----------------------------------------------------------------------------
(* Sockets are numbered by the Open that creates them: -1 is NoSocket.      *)
NoSocket == 0
Opens    == 1 .. MaxOpens

Idle == [pc |-> "idle", op |-> "none"]

Init ==
  /\ impl = [mode |-> "datagram", delegates |-> NoSocket]
  /\ platform = [sock |-> NoSocket, joinable |-> FALSE, processorStop |-> FALSE,
                 signal |-> NoPipe, outputQueue |-> << >>]
  /\ processingMutex = NoThread
  /\ loop = [pc |-> "none", sock |-> NoSocket, wait |-> TRUE,
             wantWrite |-> FALSE, readable |-> FALSE, signaled |-> FALSE]
  /\ call = Idle
  /\ kernel = [id |-> NoSocket, mode |-> "datagram", pending |-> 0, full |-> FALSE]
  /\ log = [opens |-> 0, queued |-> 0, sent |-> << >>, arrived |-> 0,
            reports |-> {}, closed |-> TRUE, reopened |-> {}]

ProcessorRunning == loop.pc \notin {"none", "done"}

(* close(): what is waiting on the socket is gone.                          *)
ClosedSocket == [kernel EXCEPT !.id = NoSocket, !.pending = 0, !.full = FALSE]

-----------------------------------------------------------------------------
(* SendPacket: the whole body runs under the (recursive) mutex.             *)

(* Faulty variant: the processor is not woken.                              *)
QueuedSilently(p) == [p EXCEPT !.outputQueue = Append(@, log.queued + 1)]

Queued(p) ==
  [p EXCEPT !.outputQueue = Append(@, log.queued + 1), !.signal = Set(@)]

SendPacket(t) ==
  /\ call.op # "destroy"
  /\ t = Owner => call = Idle
  /\ t = Processor => loop.pc = "delegate"
  /\ processingMutex \in {NoThread, t}
  /\ log.queued < MaxPackets
  /\ platform' = Queued(platform)
  /\ log' = [log EXCEPT !.queued = @ + 1]
  /\ UNCHANGED <<impl, processingMutex, loop, call, kernel>>

-----------------------------------------------------------------------------
(* Open, Close and the destructor.                                          *)

(* NetworkEndpoint::Open stores its arguments, and Impl::Open begins with   *)
(* Close(true).                                                             *)
Open ==
  /\ call = Idle
  /\ log.opens < MaxOpens
  /\ \E mode \in Modes : impl' = [mode |-> mode, delegates |-> log.opens + 1]
  /\ call' = [pc |-> "stop", op |-> "open"]
  /\ log' = [log EXCEPT !.opens = @ + 1, !.closed = FALSE,
                        !.reopened = IF log.closed THEN @ ELSE @ \cup {log.opens + 1}]
  /\ UNCHANGED <<platform, processingMutex, loop, kernel>>

Close ==
  /\ call = Idle
  /\ ~log.closed
  /\ call' = [pc |-> "stop", op |-> "close"]
  /\ UNCHANGED <<impl, platform, processingMutex, loop, kernel, log>>

Destroy ==
  /\ call = Idle
  /\ call' = [pc |-> "stop", op |-> "destroy"]
  /\ UNCHANGED <<impl, platform, processingMutex, loop, kernel, log>>

(* Close(true): a joinable processor is told to stop, ...                   *)
StopProcessor ==
  /\ call.pc = "stop"
  /\ platform' = [platform EXCEPT !.processorStop = @ \/ platform.joinable]
  /\ call' = [call EXCEPT !.pc = IF platform.joinable THEN "wake" ELSE "close"]
  /\ UNCHANGED <<impl, processingMutex, loop, kernel, log>>

(* Faulty variant: it is not woken.                                         *)
NotWoken(p) == p

Woken(p) == [p EXCEPT !.signal = Set(@)]

(* ... woken, ...                                                           *)
Wake ==
  /\ call.pc = "wake"
  /\ platform' = Woken(platform)
  /\ call' = [call EXCEPT !.pc = "join"]
  /\ UNCHANGED <<impl, processingMutex, loop, kernel, log>>

(* Faulty variant: the processor is detached instead.                       *)
NotAwaited == TRUE

ProcessorEnded == loop.pc = "done"

(* ... and joined.                                                          *)
Join ==
  /\ call.pc = "join"
  /\ ProcessorEnded
  /\ platform' = [platform EXCEPT !.joinable = FALSE]
  /\ call' = [call EXCEPT !.pc = "close"]
  /\ UNCHANGED <<impl, processingMutex, loop, kernel, log>>

(* Faulty variant: the socket is closed and its number kept.                *)
SocketKept(p) == p

WithoutSocket(p) == [p EXCEPT !.sock = NoSocket]

(* The rest of Close, after which Open goes on.                             *)
CloseSocket ==
  /\ call.pc = "close"
  /\ platform' = WithoutSocket(platform)
  /\ kernel' = ClosedSocket
  /\ call' = CASE call.op = "open"    -> [call EXCEPT !.pc = "socket"]
               [] call.op = "close"   -> Idle
               [] call.op = "destroy" -> [call EXCEPT !.pc = "destroyed"]
  /\ log' = [log EXCEPT !.closed = call.op # "open"]
  /\ UNCHANGED <<impl, processingMutex, loop>>

(* socket(), and setting options or bind() and getsockname().  If socket()  *)
(* fails there is none, if the others fail it is closed: false is returned. *)
CreateSocket ==
  /\ call.pc = "socket"
  /\ \/ /\ platform' = [platform EXCEPT !.sock = log.opens]
        /\ kernel' = [kernel EXCEPT !.id = log.opens, !.mode = impl.mode]
        /\ call' = [call EXCEPT !.pc = "signal"]
     \/ /\ call' = Idle
        /\ UNCHANGED <<platform, kernel>>
  /\ UNCHANGED <<impl, processingMutex, loop, log>>

(* The signal is initialized, if it is not already, and cleared once.  When *)
(* there is no pipe to be had false is returned and the socket stays.       *)
PrepareSignal ==
  /\ call.pc = "signal"
  /\ \/ /\ platform' = [platform EXCEPT !.signal = Clear(Initialize(@))]
        /\ call' = [call EXCEPT !.pc = "start"]
     \/ /\ platform.signal = NoPipe
        /\ call' = Idle
        /\ UNCHANGED platform
  /\ UNCHANGED <<impl, processingMutex, loop, kernel, log>>

(* listen(), which can fail and leave the socket open, or O_NONBLOCK; then  *)
(* the processor is started.                                                *)
StartProcessor ==
  /\ call.pc = "start"
  /\ \/ /\ platform' = [platform EXCEPT !.processorStop = FALSE, !.joinable = TRUE]
        /\ loop' = [loop EXCEPT !.pc = "lock", !.sock = platform.sock,
                                !.wait = TRUE, !.readable = FALSE, !.signaled = FALSE]
     \/ /\ impl.mode = "connection"
        /\ UNCHANGED <<platform, loop>>
  /\ call' = Idle
  /\ UNCHANGED <<impl, processingMutex, kernel, log>>

-----------------------------------------------------------------------------
(* The processor thread.                                                    *)

Goto(pc) == loop' = [loop EXCEPT !.pc = pc]

(* The loop ends and the mutex is released with it.                         *)
Exit ==
  /\ loop' = [loop EXCEPT !.pc = "done"]
  /\ processingMutex' = NoThread

(* The mutex is taken at the start and after select(), where one token of a *)
(* signal that was set is removed.                                          *)
TakeMutex ==
  /\ loop.pc \in {"lock", "relock"}
  /\ processingMutex = NoThread
  /\ processingMutex' = Processor
  /\ platform' = [platform EXCEPT !.signal = IF loop.signaled THEN Clear(@) ELSE @]
  /\ Goto(IF loop.pc = "lock" THEN "test" ELSE "receive")
  /\ UNCHANGED <<impl, call, kernel, log>>

(* Faulty variant: room to write is never waited for.                       *)
NeverWrites == FALSE

WantsToWrite == platform.outputQueue # << >>

(* The condition of the loop, and the descriptor sets for select().  With   *)
(* nothing to wait for, the sets of the last select() are used again.       *)
TestLoop ==
  /\ loop.pc = "test"
  /\ \/ /\ platform.processorStop
        /\ Exit
     \/ /\ ~platform.processorStop /\ loop.wait
        /\ loop' = [loop EXCEPT !.pc = "select", !.wantWrite = WantsToWrite]
        /\ processingMutex' = NoThread
     \/ /\ ~platform.processorStop /\ ~loop.wait
        /\ Goto("receive")
        /\ UNCHANGED processingMutex
  /\ UNCHANGED <<impl, platform, call, kernel, log>>

Writable == kernel.mode # "connection" /\ ~kernel.full

Select ==
  /\ loop.pc = "select"
  /\ \/ kernel.pending > 0
     \/ IsSet(platform.signal)
     \/ loop.wantWrite /\ Writable
  /\ loop' = [loop EXCEPT !.pc = "relock", !.readable = kernel.pending > 0,
                          !.signaled = IsSet(platform.signal)]
  /\ UNCHANGED <<impl, platform, processingMutex, call, kernel, log>>

(* Close(false) and break: the processor closes the socket and ends.        *)
GiveUp ==
  /\ platform' = WithoutSocket(platform)
  /\ kernel' = ClosedSocket
  /\ Exit

(* The mode Open has stored decides between accept(), recvfrom() and none,  *)
(* which need not fit the socket once another Open has stored its mode.     *)
Accepts == impl.mode = "connection" /\ kernel.mode = "connection"

ReceivesPackets == impl.mode \in {"datagram", "multicastReceive"}

Reads == Accepts \/ (ReceivesPackets /\ kernel.mode # "connection")

(* accept() or recvfrom() returns a client or a datagram.                   *)
Receive ==
  /\ loop.pc = "receive" /\ loop.readable
  /\ Reads
  /\ kernel.pending > 0
  /\ kernel' = [kernel EXCEPT !.pending = @ - 1]
  /\ Goto("received")
  /\ UNCHANGED <<impl, platform, processingMutex, call, log>>

(* Nothing is reported: the socket is not readable or is not read in this   *)
(* mode, accept() fails (always so on a datagram socket, when Open has      *)
(* changed the mode), recvfrom() would block or gets an empty datagram.     *)
ReceiveNothing ==
  /\ loop.pc = "receive"
  /\ \/ /\ \/ ~loop.readable
           \/ impl.mode = "multicastSend"
           \/ impl.mode = "connection" /\ (kernel.mode = "connection" => kernel.pending > 0)
           \/ Reads /\ ~Accepts /\ kernel.pending = 0
        /\ UNCHANGED kernel
     \/ /\ loop.readable /\ kernel.pending > 0
        /\ Reads /\ ~Accepts
        /\ kernel' = [kernel EXCEPT !.pending = @ - 1]
  /\ Goto("send")
  /\ UNCHANGED <<impl, platform, processingMutex, call, log>>

(* recvfrom() fails, as it does on a listening socket.                      *)
ReceiveFails ==
  /\ loop.pc = "receive" /\ loop.readable
  /\ ReceivesPackets
  /\ GiveUp
  /\ UNCHANGED <<impl, call, log>>

(* newConnectionDelegate or packetReceivedDelegate, called under the mutex. *)
CallDelegate ==
  /\ loop.pc = "received"
  /\ log' = [log EXCEPT !.reports = @ \cup {[from |-> loop.sock, to |-> impl.delegates]}]
  /\ Goto("delegate")
  /\ UNCHANGED <<impl, platform, processingMutex, call, kernel>>

DelegateReturns ==
  /\ loop.pc = "delegate"
  /\ Goto("send")
  /\ UNCHANGED <<impl, platform, processingMutex, call, kernel, log>>

SendNothing ==
  /\ loop.pc = "send"
  /\ platform.outputQueue = << >>
  /\ loop' = [loop EXCEPT !.pc = "test", !.wait = TRUE]
  /\ UNCHANGED <<impl, platform, processingMutex, call, kernel, log>>

(* One packet is sent; with more of them the next pass does not wait.       *)
Send ==
  /\ loop.pc = "send"
  /\ platform.outputQueue # << >>
  /\ Writable
  /\ platform' = [platform EXCEPT !.outputQueue = Tail(@)]
  /\ log' = [log EXCEPT !.sent = Append(@, Head(platform.outputQueue))]
  /\ \E full \in BOOLEAN : kernel' = [kernel EXCEPT !.full = full]
  /\ loop' = [loop EXCEPT !.pc = "test", !.wait = Tail(platform.outputQueue) = << >>]
  /\ UNCHANGED <<impl, processingMutex, call>>

(* Faulty variant: a packet that could not be sent is dropped.              *)
WithoutUnsent(p) == [p EXCEPT !.outputQueue = Tail(@)]

WithUnsent(p) == p

(* sendto() would block: the packet stays first in the queue.               *)
SendBlocked ==
  /\ loop.pc = "send"
  /\ platform.outputQueue # << >>
  /\ kernel.mode # "connection" /\ kernel.full
  /\ platform' = WithUnsent(platform)
  /\ loop' = [loop EXCEPT !.pc = "test", !.wait = TRUE]
  /\ UNCHANGED <<impl, processingMutex, call, kernel, log>>

(* sendto() fails, as it does on a listening socket.                        *)
SendFails ==
  /\ loop.pc = "send"
  /\ platform.outputQueue # << >>
  /\ GiveUp
  /\ UNCHANGED <<impl, call, log>>

-----------------------------------------------------------------------------
(* The environment: clients connect or datagrams arrive, and the kernel     *)
(* makes room for datagrams to send.                                        *)

Arrive ==
  /\ kernel.id # NoSocket /\ log.arrived < MaxArrivals
  /\ kernel.mode = "connection" => ProcessorRunning
  /\ kernel' = [kernel EXCEPT !.pending = @ + 1]
  /\ log' = [log EXCEPT !.arrived = @ + 1]
  /\ UNCHANGED <<impl, platform, processingMutex, loop, call>>

Drain ==
  /\ kernel.full
  /\ kernel' = [kernel EXCEPT !.full = FALSE]
  /\ UNCHANGED <<impl, platform, processingMutex, loop, call, log>>

-----------------------------------------------------------------------------
ProcessorStep ==
  \/ TakeMutex \/ TestLoop \/ Select
  \/ Receive \/ ReceiveNothing \/ ReceiveFails
  \/ CallDelegate \/ DelegateReturns
  \/ SendNothing \/ Send \/ SendBlocked \/ SendFails

CallGoesOn ==
  \/ StopProcessor \/ Wake \/ Join \/ CloseSocket
  \/ CreateSocket \/ PrepareSignal \/ StartProcessor

NewCall ==
  \/ Open \/ Close \/ Destroy
  \/ \E t \in Users \cup {Processor} : SendPacket(t)

Next == ProcessorStep \/ CallGoesOn \/ NewCall \/ Arrive \/ Drain

Spec == Init /\ [][Next]_vars

(* The processor and a call in progress go on when they can (nobody but the *)
(* processor keeps the mutex from one step to the next, so none of them is  *)
(* kept from it), and the kernel sends what it holds.                       *)
Fairness ==
  /\ WF_vars(ProcessorStep)
  /\ WF_vars(CallGoesOn)
  /\ WF_vars(Drain)

FairSpec == Spec /\ Fairness

-----------------------------------------------------------------------------
(* Properties.                                                              *)

SocketIds == {NoSocket} \cup Opens
Packets   == 1 .. MaxPackets

LoopSteps == {"none", "lock", "test", "select", "relock", "receive", "received",
              "delegate", "send", "done"}
CallSteps == {"idle", "stop", "wake", "join", "close", "socket", "signal", "start",
              "destroyed"}

Impls      == [mode : Modes \cup {"datagram"}, delegates : SocketIds]
Platforms  == [sock : SocketIds, joinable : BOOLEAN, processorStop : BOOLEAN,
               signal : Signals, outputQueue : Seq(Packets)]
Loops      == [pc : LoopSteps, sock : SocketIds, wait : BOOLEAN,
               wantWrite : BOOLEAN, readable : BOOLEAN, signaled : BOOLEAN]
Calls      == [pc : CallSteps, op : {"none", "open", "close", "destroy"}]
Kernels    == [id : SocketIds, mode : Modes \cup {"datagram"},
               pending : 0 .. MaxArrivals, full : BOOLEAN]
Histories  == [opens : 0 .. MaxOpens, queued : 0 .. MaxPackets,
               sent : Seq(Packets), arrived : 0 .. MaxArrivals,
               reports : SUBSET [from : SocketIds, to : SocketIds],
               closed : BOOLEAN, reopened : SUBSET Opens]

(* The type invariant.  The signal never counts beyond its pipe, and what   *)
(* waits on a socket is no more than has arrived.                           *)
TypeOK ==
  /\ impl \in Impls
  /\ platform \in Platforms
  /\ processingMutex \in {NoThread, Processor}
  /\ loop \in Loops
  /\ call \in Calls
  /\ kernel \in Kernels /\ kernel.pending <= log.arrived
  /\ log \in Histories

(* Packets are sent once, in the order queued, and none is lost: neither    *)
(* when the kernel has no room, nor when an error ends the processor, nor   *)
(* over Close and another Open.                                             *)
SentInOrder ==
  log.sent \o platform.outputQueue = [i \in 1 .. log.queued |-> i]

(* A processor about to sleep in select() with a packet it did not see, or  *)
(* with a stop it did not see, has a token waiting or about to be set.      *)
NoLostWakeup ==
  loop.pc = "select" =>
    /\ platform.outputQueue # << >> /\ ~loop.wantWrite => IsSet(platform.signal)
    /\ platform.processorStop => IsSet(platform.signal) \/ call.pc = "wake"

(* Open and Close use the socket and the thread object without a lock: the  *)
(* processor has the socket it was started with until it ends, whoever      *)
(* closes, reopens or fails to open the endpoint, and Open never replaces a *)
(* thread that is joinable.                                                 *)
SocketOutlivesProcessor ==
  /\ ProcessorRunning =>
       /\ platform.joinable
       /\ platform.sock = loop.sock /\ kernel.id = loop.sock
       /\ loop.sock # NoSocket
  /\ call.pc \in {"socket", "signal", "start"} =>
       ~platform.joinable /\ ~ProcessorRunning

(* When Close has returned no thread of the endpoint runs, so no delegate   *)
(* is called any more, and the socket is closed, in every state Open left   *)
(* the endpoint in.                                                         *)
ClosedIsQuiet ==
  log.closed /\ (call = Idle \/ call.pc = "destroyed") =>
    /\ ~ProcessorRunning /\ ~platform.joinable
    /\ platform.sock = NoSocket /\ kernel.id = NoSocket

(* What arrives on a socket is reported to the delegates passed to the Open *)
(* that made it; except that an Open of an endpoint that was not closed has *)
(* stored its delegates before the old processor has stopped.               *)
ReportedToItsOpener ==
  \A r \in log.reports : r.to = r.from \/ r.to \in log.reopened

(* Open, Close and the destructor return, whatever the processor is doing   *)
(* when they join it.                                                       *)
CallsReturn == call.pc \notin {"idle", "destroyed"} ~> call.pc \in {"idle", "destroyed"}

(* A packet queued for a socket that sends is sent unless the processor     *)
(* ends.                                                                    *)
PacketsAreSent ==
  platform.outputQueue # << >> /\ ProcessorRunning /\ kernel.mode # "connection"
    ~> platform.outputQueue = << >> \/ ~ProcessorRunning
=============================================================================
