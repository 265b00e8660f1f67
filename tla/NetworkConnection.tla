-------------------------- MODULE NetworkConnection --------------------------
(***************************************************************************)
(* NetworkConnection, POSIX implementation                                 *)
(* (src/NetworkConnection.cpp, src/Posix/NetworkConnectionPosix.cpp).      *)
(*                                                                         *)
(* One connection object is shared by application threads, which call its  *)
(* public methods, and by the processor thread, which Process starts and   *)
(* which does all the sending, the receiving and most of the callbacks.    *)
(* The state the code guards with processingMutex is read and written      *)
(* outside of it as well: platform->sock by Connect, processorStop and     *)
(* the signal by Close, and everything while the processor has dropped the *)
(* mutex to call a delegate.  Each action below is one stretch of code     *)
(* between two points where another thread can get in.                     *)
(*                                                                         *)
(* The TCP socket and the peer are the environment: what the kernel holds  *)
(* for the socket, and what the peer sent, received and closed.            *)
(***************************************************************************)
EXTENDS PipeSignal, Sequences

CONSTANTS
  Users,         \* application threads
  Processor,     \* the processor thread
  NoThread,      \* what processingMutex holds while it is free
  Lifecycle,     \* the threads that call Connect, Process and the destructor
  MaxCalls,      \* bound: public calls of each thread
  MaxSockets,    \* bound: sockets the object uses, one after another
  MaxBytes,      \* bound: bytes passed to SendMessage
  MessageSizes,  \* sizes of the messages passed to SendMessage
  WriteSize,     \* MAXIMUM_WRITE_SIZE
  ReadSize,      \* MAXIMUM_READ_SIZE
  SendBuffer,    \* bytes the kernel holds for the peer
  PeerBytes      \* bound: bytes the peer sends on one socket

Threads == Users \cup {Processor}

ASSUME ConnectionAssumption ==
  /\ Processor \notin Users
  /\ NoThread \notin Users \cup {Processor}
  /\ Lifecycle \subseteq Threads
  /\ MaxCalls \in [Threads -> Nat] /\ MaxSockets \in Nat /\ MaxBytes \in Nat
  /\ MessageSizes \subseteq Nat
  /\ WriteSize \in Nat \ {0} /\ ReadSize \in Nat \ {0}
  /\ SendBuffer \in Nat \ {0} /\ PeerBytes \in Nat

VARIABLES
  platform,        \* struct Platform, and whether the delegates are set
  processingMutex, \* the thread that holds processingMutex
  loop,            \* the processor thread: its pc and its locals
  call,            \* what each thread is doing inside the public methods
  calls,           \* calls each thread has made (the bound MaxCalls)
  lifetime,        \* who keeps the Impl object alive
  tcp,             \* the latest socket: kernel state and peer
  log              \* history: what was queued, notified and lost

object == <<platform, processingMutex, lifetime>>
vars == <<object, loop, call, calls, tcp, log>>

-----------------------------------------------------------------------------
(* Sockets are numbered in the order Connect creates them: -1 is NoSocket. *)
NoSocket == 0
Sockets  == 1 .. MaxSockets

Idle == [pc |-> "idle", op |-> "none", about |-> NoSocket]

NoLoop == [pc |-> "none", wait |-> TRUE, wantWrite |-> FALSE,
           signaled |-> FALSE, kind |-> "none", about |-> NoSocket]

Socket(id, state) ==
  [id |-> id, state |-> state, unread |-> 0, peerSent |-> 0,
   peerFin |-> FALSE, reset |-> FALSE,
   sendBuf |-> << >>, finSent |-> FALSE, peerGot |-> << >>]

(* Either a new object, or one made by MakeConnectionFromExistingSocket for *)
(* a connection a NetworkEndpoint accepted.                                 *)
Init ==
  /\ \E accepted \in BOOLEAN :
       /\ platform = [sock |-> IF accepted THEN 1 ELSE NoSocket,
                      peerClosed |-> FALSE, closing |-> FALSE,
                      shutdownSent |-> FALSE, processorStop |-> FALSE,
                      joinable |-> FALSE, signal |-> NoPipe,
                      outputQueue |-> << >>, delegates |-> FALSE]
       /\ tcp = IF accepted THEN Socket(1, "open") ELSE Socket(NoSocket, "closed")
       /\ accepted => MaxSockets > 0
  /\ processingMutex = NoThread
  /\ loop = NoLoop
  /\ call = [t \in Threads |-> Idle]
  /\ calls = [t \in Threads |-> 0]
  /\ lifetime = "owned"
  /\ log = [queued |-> 0, broken |-> [s \in Sockets |-> 0],
            owed |-> {}, eof |-> {},
            afterEof |-> FALSE, undelivered |-> 0, early |-> FALSE,
            processed |-> NoSocket, spawned |-> NoSocket]

-----------------------------------------------------------------------------
(* Operators on the parts of the state.                                    *)

Connected == platform.sock # NoSocket

(* Platform::CloseImmediately.  SO_LINGER is on with a timeout of zero      *)
(* (Connect lines 72-75, and NetworkEndpoint for accepted sockets), so      *)
(* close() resets the connection and drops what the peer has not been sent. *)
SocketNotReset(p) == p                 \* faulty: sock = -1 forgotten
Disconnected(p) == [p EXCEPT !.sock = NoSocket]
Closed(socket)  == [socket EXCEPT !.state = "closed", !.sendBuf = << >>]

(* The sockets whose closing obliges some thread to call brokenDelegate.    *)
Owe(history, s) ==
  IF platform.delegates THEN [history EXCEPT !.owed = @ \cup {s}] ELSE history

(* brokenDelegate(false) for socket s.                                      *)
NotifyBroken(history, s) == [history EXCEPT !.broken[s] = @ + 1]

ProcessorRunning == loop.pc \notin {"none", "done"}

(* A thread may call the object until the application destroys it:          *)
(* application threads at any time, the processor from a delegate.          *)
MayCall(t) ==
  /\ lifetime = "owned"
  /\ \A u \in Threads : call[u].op # "destroy"
  /\ call[t] = Idle
  /\ calls[t] < MaxCalls[t]
  /\ t = Processor => loop.pc = "delegate"

(* Connect, Process and the destructor take no lock, so the application     *)
(* must not run two of them at once.                                        *)
MayCallLifecycle(t) ==
  /\ t \in Lifecycle
  /\ MayCall(t)
  /\ \A u \in Threads : call[u].op \notin {"connect", "process", "destroy"}

Begin(t, op, pc) ==
  /\ calls' = [calls EXCEPT ![t] = @ + 1]
  /\ call' = [call EXCEPT ![t] = [pc |-> pc, op |-> op, about |-> NoSocket]]

Goto(t, pc) == call' = [call EXCEPT ![t].pc = pc]
Return(t)   == call' = [call EXCEPT ![t] = Idle]

(* What a thread does once its Close has closed the socket and reported it. *)
AfterClose(c) ==
  IF c.op = "close"
  THEN Idle
  ELSE [c EXCEPT !.pc = IF c.op = "connect" THEN "socket" ELSE "release"]

-----------------------------------------------------------------------------
(* Public methods: SendMessage and Close.                                   *)

(* The bytes an application queues are numbered in the order it queues them. *)
(* Faulty variant: the processor is not woken.                              *)
QueuedSilently(p, n) ==
  [p EXCEPT !.outputQueue = @ \o [i \in 1 .. n |-> log.queued + i]]

Queued(p, n) ==
  [p EXCEPT !.outputQueue = @ \o [i \in 1 .. n |-> log.queued + i], !.signal = Set(@)]

(* SendMessage: the whole body runs under the mutex.                        *)
SendMessage(t) ==
  \E n \in MessageSizes :
    /\ MayCall(t)
    /\ processingMutex = NoThread
    /\ log.queued + n <= MaxBytes
    /\ platform' = Queued(platform, n)
    /\ log' = [log EXCEPT !.queued = @ + n]
    /\ calls' = [calls EXCEPT ![t] = @ + 1]
    /\ UNCHANGED <<processingMutex, lifetime, loop, call, tcp>>

ToClose(p) == [p EXCEPT !.closing = TRUE, !.signal = Set(@)]

(* Close(true): under the mutex, ask the processor to finish sending, shut  *)
(* down and close.                                                          *)
CloseGracefully(t) ==
  /\ MayCall(t)
  /\ processingMutex = NoThread
  /\ platform' = IF Connected THEN ToClose(platform) ELSE platform
  /\ log' = [log EXCEPT !.early = @ \/ (Connected /\ loop.pc = "none")]
  /\ calls' = [calls EXCEPT ![t] = @ + 1]
  /\ UNCHANGED <<processingMutex, lifetime, loop, call, tcp>>

(* Close(ImmediateAndStopProcessor) begins before it takes the mutex: a     *)
(* joinable processor is told to stop, then woken.  Close(false), Connect   *)
(* and the destructor all start with it.                                    *)
BeginClose(t, op) ==
  /\ Begin(t, op, IF platform.joinable THEN "wake" ELSE "lock")
  /\ platform' = [platform EXCEPT !.processorStop = @ \/ platform.joinable]
  /\ UNCHANGED <<processingMutex, lifetime, loop, tcp, log>>

CloseAbruptly(t) == MayCall(t) /\ BeginClose(t, "close")

(* Faulty variant: processorStop is set but the signal is not.              *)
NotWoken(p) == p

Woken(p) == [p EXCEPT !.signal = Set(@)]

Wake(t) ==
  /\ call[t].pc = "wake"
  /\ platform' = Woken(platform)
  /\ Goto(t, "lock")
  /\ UNCHANGED <<processingMutex, lifetime, loop, calls, tcp, log>>

(* Faulty variant: Connect ignores that its Close closed the old socket.    *)
MustReportUnlessConnecting(t) == platform.delegates /\ call[t].op # "connect"

MustReport(t) == platform.delegates

(* Under the mutex: whoever finds the socket still open closes it, and has  *)
(* to call brokenDelegate afterwards when there is one.                     *)
LockAndClose(t) ==
  /\ call[t].pc = "lock"
  /\ processingMutex = NoThread
  /\ IF Connected
     THEN /\ platform' = Disconnected(platform)
          /\ tcp' = Closed(tcp)
          /\ log' = Owe(log, platform.sock)
          /\ IF MustReport(t)
             THEN call' = [call EXCEPT ![t].pc = "broken", ![t].about = platform.sock]
             ELSE call' = [call EXCEPT ![t] = AfterClose(@)]
     ELSE /\ call' = [call EXCEPT ![t] = AfterClose(@)]
          /\ UNCHANGED <<platform, tcp, log>>
  /\ UNCHANGED <<processingMutex, lifetime, loop, calls>>

(* brokenDelegate(false), called by Close or Connect without the mutex.     *)
CallBroken(t) ==
  /\ call[t].pc = "broken"
  /\ log' = NotifyBroken(log, call[t].about)
  /\ call' = [call EXCEPT ![t] = AfterClose(@)]
  /\ UNCHANGED <<object, loop, calls, tcp>>

-----------------------------------------------------------------------------
(* Public methods: Connect.                                                 *)

Connect(t) == MayCallLifecycle(t) /\ BeginClose(t, "connect")

(* socket(): the descriptor is stored without the mutex.  On failure the    *)
(* descriptor is -1 and Connect returns false.                              *)
CreateSocket(t) ==
  /\ call[t].pc = "socket"
  /\ \/ /\ tcp.id < MaxSockets
        /\ platform' = [platform EXCEPT !.sock = tcp.id + 1]
        /\ tcp' = Socket(tcp.id + 1, "unconnected")
        /\ Goto(t, "connecting")
     \/ /\ platform' = [platform EXCEPT !.sock = NoSocket]
        /\ Return(t)
        /\ UNCHANGED tcp
  /\ UNCHANGED <<processingMutex, lifetime, loop, calls, log>>

(* bind() and connect().  Another thread may have closed the descriptor     *)
(* meanwhile.                                                               *)
Establish(t) ==
  /\ call[t].pc = "connecting"
  /\ \/ /\ Connected
        /\ tcp' = [tcp EXCEPT !.state = "blocking"]
        /\ Goto(t, "nonblock")
     \/ Goto(t, "giveUp") /\ UNCHANGED tcp
  /\ UNCHANGED <<object, loop, calls, log>>

(* A failed bind() or connect(): Close(ImmediateDoNotStopProcessor), whose  *)
(* result is ignored, and false is returned.                                *)
GiveUp(t) ==
  /\ call[t].pc = "giveUp"
  /\ processingMutex = NoThread
  /\ IF Connected
     THEN platform' = Disconnected(platform) /\ tcp' = Closed(tcp)
     ELSE UNCHANGED <<platform, tcp>>
  /\ Return(t)
  /\ UNCHANGED <<processingMutex, lifetime, loop, calls, log>>

(* O_NONBLOCK is set last; Connect returns true.                            *)
MakeNonBlocking(t) ==
  /\ call[t].pc = "nonblock"
  /\ tcp' = IF Connected THEN [tcp EXCEPT !.state = "open"] ELSE tcp
  /\ Return(t)
  /\ UNCHANGED <<object, loop, calls, log>>

-----------------------------------------------------------------------------
(* Public methods: Process and the destructor.                              *)

(* Process stores the delegates, refuses a closed socket, and returns true  *)
(* at once ("already processing") when the thread object is joinable.       *)
(* Otherwise it clears processorStop and creates the signal's pipe, which   *)
(* may fail.                                                                *)
Process(t) ==
  /\ MayCallLifecycle(t)
  /\ \/ /\ ~Connected
        /\ platform' = [platform EXCEPT !.delegates = TRUE]
        /\ calls' = [calls EXCEPT ![t] = @ + 1]
        /\ UNCHANGED <<call, log>>
     \/ /\ Connected /\ platform.joinable
        /\ platform' = [platform EXCEPT !.delegates = TRUE]
        /\ calls' = [calls EXCEPT ![t] = @ + 1]
        /\ log' = [log EXCEPT !.processed = platform.sock]
        /\ UNCHANGED call
     \/ /\ Connected /\ ~platform.joinable
        /\ \/ /\ platform' = [platform EXCEPT !.delegates = TRUE,
                                !.processorStop = FALSE, !.signal = Initialize(@)]
              /\ Begin(t, "process", "spawn")
           \/ /\ platform' = [platform EXCEPT !.delegates = TRUE,
                                !.processorStop = FALSE]
              /\ calls' = [calls EXCEPT ![t] = @ + 1]
              /\ UNCHANGED call
        /\ UNCHANGED log
  /\ UNCHANGED <<processingMutex, lifetime, loop, tcp>>

(* One token is cleared and the thread starts; it runs before its handle is *)
(* assigned to platform->processor.                                         *)
Spawn(t) ==
  /\ call[t].pc = "spawn"
  /\ platform' = [platform EXCEPT !.signal = Clear(@)]
  /\ loop' = [NoLoop EXCEPT !.pc = "enter"]
  /\ Goto(t, "assign")
  /\ log' = [log EXCEPT !.spawned = tcp.id]
  /\ UNCHANGED <<processingMutex, lifetime, calls, tcp>>

AssignProcessor(t) ==
  /\ call[t].pc = "assign"
  /\ platform' = [platform EXCEPT !.joinable = TRUE]
  /\ log' = [log EXCEPT !.processed = platform.sock]
  /\ Return(t)
  /\ UNCHANGED <<processingMutex, lifetime, loop, calls, tcp>>

(* ~NetworkConnection: Close(false), then the reference to Impl is dropped. *)
(* The application lets no other thread use the object by then.             *)
Destroy(t) ==
  /\ MayCallLifecycle(t)
  /\ \A u \in Threads : call[u] = Idle
  /\ BeginClose(t, "destroy")

(* Faulty variant: the thread captures `this`, not a reference.             *)
ThreadKeepsNothing == FALSE

ThreadKeepsImpl == ProcessorRunning

(* The processor thread holds a reference of its own; without it ~Impl runs *)
(* here and joins the thread, which has left Processor().                   *)
Release(t) ==
  /\ call[t].pc = "release"
  /\ IF ThreadKeepsImpl
     THEN lifetime' = "released" /\ UNCHANGED platform
     ELSE lifetime' = "destroyed" /\ platform' = [platform EXCEPT !.joinable = FALSE]
  /\ Return(t)
  /\ UNCHANGED <<processingMutex, loop, calls, tcp, log>>

-----------------------------------------------------------------------------
(* The processor thread: NetworkConnection::Impl::Processor.                *)

(* Locals carried from one stretch of the loop to the next:                 *)
(*   wait       the flag of the same name                                   *)
(*   wantWrite  whether the socket is in writefds                           *)
(*   signaled   whether select() reported the signal                        *)
(*   kind       the callback being made, about the socket `about`           *)
Step(pc) == loop' = [loop EXCEPT !.pc = pc]

Unlock  == processingMutex' = NoThread

ProcessorLocks(from, to) ==
  /\ loop.pc = from
  /\ processingMutex = NoThread
  /\ processingMutex' = Processor
  /\ Step(to)

(* The thread takes the mutex before anything else.                         *)
Enter ==
  /\ ProcessorLocks("enter", "test")
  /\ UNCHANGED <<platform, lifetime, call, calls, tcp, log>>

(* Faulty variant: the socket is never put in writefds.                     *)
NeverWrites == FALSE

WantsToWrite == platform.outputQueue # << >>

(* The condition of the while loop.  A stopped processor, or one whose      *)
(* socket is gone, leaves; one that is to wait builds the descriptor sets   *)
(* and drops the mutex for select(); otherwise it goes straight to recv().  *)
TestLoop ==
  /\ loop.pc = "test"
  /\ \/ /\ platform.processorStop \/ ~Connected
        /\ Step("exit")
        /\ UNCHANGED processingMutex
     \/ /\ ~platform.processorStop /\ Connected /\ loop.wait
        /\ loop' = [loop EXCEPT !.pc = "select",
                                !.wantWrite = WantsToWrite]
        /\ Unlock
     \/ /\ ~platform.processorStop /\ Connected /\ ~loop.wait
        /\ Step("recv")
        /\ UNCHANGED processingMutex
  /\ UNCHANGED <<platform, lifetime, call, calls, tcp, log>>

(* select() returns for a token, or for the socket: readable when there is  *)
(* data, end of stream or an error, writable when the kernel has room or    *)
(* would refuse the data.                                                   *)
SocketReadable == tcp.unread > 0 \/ tcp.peerFin \/ tcp.reset \/ tcp.state = "unconnected"

Live == tcp.state \in {"blocking", "open"} /\ ~tcp.reset

SocketWritable == Len(tcp.sendBuf) < SendBuffer \/ tcp.reset \/ tcp.finSent

SelectReturns ==
  /\ loop.pc = "select"
  /\ \/ IsSet(platform.signal)
     \/ Connected /\ SocketReadable
     \/ Connected /\ loop.wantWrite /\ SocketWritable
  /\ loop' = [loop EXCEPT !.pc = "relock", !.signaled = IsSet(platform.signal)]
  /\ UNCHANGED <<object, call, calls, tcp, log>>

(* select() on a descriptor that has been closed may fail; the sets are     *)
(* then as they were built, with the signal in them.                        *)
SelectFails ==
  /\ loop.pc = "select"
  /\ ~Connected
  /\ loop' = [loop EXCEPT !.pc = "relock", !.signaled = TRUE]
  /\ UNCHANGED <<object, call, calls, tcp, log>>

(* The mutex is taken again and one token removed if the signal was seen.   *)
(* Neither processorStop nor the descriptor is tested again before recv().  *)
Relock ==
  /\ ProcessorLocks("relock", "recv")
  /\ platform' = [platform EXCEPT !.signal = IF loop.signaled THEN Clear(@) ELSE @]
  /\ UNCHANGED <<lifetime, call, calls, tcp, log>>

(* Faulty variant: the delegate is called with the mutex held.              *)
DelegateUnderMutex(kind, s, wait) ==
  /\ loop' = [loop EXCEPT !.pc = "unlocked", !.kind = kind, !.about = s, !.wait = wait]
  /\ UNCHANGED processingMutex

(* The mutex is dropped, and a delegate will be called about socket s.      *)
DropForDelegate(kind, s, wait) ==
  /\ loop' = [loop EXCEPT !.pc = "unlocked", !.kind = kind, !.about = s, !.wait = wait]
  /\ Unlock

(* Faulty variant: the broken connection is reported but not closed.        *)
BreakWithoutClosing ==
  /\ UNCHANGED <<platform, tcp>>
  /\ log' = Owe(log, platform.sock)
  /\ IF Connected /\ platform.delegates
     THEN DropForDelegate("abrupt", platform.sock, TRUE)
     ELSE Step("exit") /\ UNCHANGED processingMutex

(* "connection closed abruptly by peer": Close(ImmediateDoNotStopProcessor) *)
(* under the mutex, then brokenDelegate(false) if that closed anything.     *)
BreakAbruptly ==
  IF Connected
  THEN /\ platform' = Disconnected(platform)
       /\ tcp' = Closed(tcp)
       /\ log' = Owe(log, platform.sock)
       /\ IF platform.delegates
          THEN DropForDelegate("abrupt", platform.sock, TRUE)
          ELSE Step("exit") /\ UNCHANGED processingMutex
  ELSE /\ Step("exit")
       /\ UNCHANGED <<platform, processingMutex, tcp, log>>

(* recv() on a reset socket, one never connected, or descriptor -1.         *)
RecvFails ==
  /\ loop.pc = "recv" /\ ~platform.peerClosed
  /\ ~Connected \/ tcp.reset \/ tcp.state = "unconnected"
  /\ BreakAbruptly
  /\ UNCHANGED <<lifetime, call, calls>>

ReceiveMessage ==
  /\ loop.pc = "recv" /\ ~platform.peerClosed
  /\ Connected /\ tcp.unread > 0
  /\ tcp' = [tcp EXCEPT !.unread = IF @ <= ReadSize THEN 0 ELSE @ - ReadSize]
  /\ DropForDelegate("message", platform.sock, FALSE)
  /\ UNCHANGED <<platform, lifetime, call, calls, log>>

(* Faulty variant: peerClosed is not remembered.                            *)
EndOfStreamForgotten(p) == p

EndOfStreamSeen(p) == [p EXCEPT !.peerClosed = TRUE]

ReportEndOfStream == DropForDelegate("peerClosed", platform.sock, TRUE)

ReceiveEndOfStream ==
  /\ loop.pc = "recv" /\ ~platform.peerClosed
  /\ Connected /\ tcp.unread = 0 /\ tcp.peerFin /\ ~tcp.reset
  /\ platform' = EndOfStreamSeen(platform)
  /\ ReportEndOfStream
  /\ UNCHANGED <<lifetime, call, calls, tcp, log>>

(* EWOULDBLOCK, or no recv() at all once the peer has closed its end.  On a *)
(* socket that is still in blocking mode recv() would not return: then no   *)
(* step of the processor is possible, and it keeps the mutex.               *)
ReceiveNothing ==
  /\ loop.pc = "recv"
  /\ \/ platform.peerClosed
     \/ /\ Connected /\ tcp.state = "open"
        /\ tcp.unread = 0 /\ ~tcp.peerFin /\ ~tcp.reset
  /\ loop' = [loop EXCEPT !.pc = "send", !.wait = TRUE]
  /\ UNCHANGED <<object, call, calls, tcp, log>>

(* A delegate is called without the mutex: by then another thread may have  *)
(* closed the socket the report is about.                                   *)
CallDelegate ==
  /\ loop.pc = "unlocked"
  /\ Step("delegate")
  /\ LET s == loop.about
         reported == [log EXCEPT !.afterEof = @ \/ s \in log.eof]
     IN  log' = CASE loop.kind = "message"    -> reported
                  [] loop.kind = "peerClosed" -> [reported EXCEPT !.eof = @ \cup {s}]
                  [] OTHER                    -> NotifyBroken(log, s)
  /\ UNCHANGED <<object, call, calls, tcp>>

DelegateReturns ==
  /\ loop.pc = "delegate"
  /\ call[Processor] = Idle
  /\ Step("resume")
  /\ UNCHANGED <<object, call, calls, tcp, log>>

(* The mutex is taken again, and the loop goes on where it was: to its end  *)
(* after an abrupt break, to its condition after a graceful one.            *)
Resume ==
  /\ ProcessorLocks("resume", CASE loop.kind = "abrupt"   -> "exit"
                                [] loop.kind = "graceful" -> "test"
                                [] OTHER                  -> "send")
  /\ UNCHANGED <<platform, lifetime, call, calls, tcp, log>>

(* Before sending the loop ends if a delegate or another thread closed the  *)
(* socket; with an empty queue there is nothing to send.                    *)
SendNothing ==
  /\ loop.pc = "send"
  /\ \/ ~Connected /\ Step("exit")
     \/ Connected /\ platform.outputQueue = << >> /\ Step("finish")
  /\ UNCHANGED <<object, call, calls, tcp, log>>

(* send() fails on a reset or unconnected socket, or after shutdown().      *)
SendFails ==
  /\ loop.pc = "send"
  /\ Connected /\ platform.outputQueue # << >>
  /\ tcp.reset \/ tcp.finSent \/ tcp.state = "unconnected"
  /\ BreakAbruptly
  /\ UNCHANGED <<lifetime, call, calls>>

(* Faulty variant: what was offered is dropped, not what was accepted.      *)
WithoutOffered(queue, sent, offered) == SubSeq(queue, offered + 1, Len(queue))

WithoutSent(queue, sent, offered) == SubSeq(queue, sent + 1, Len(queue))

(* At most WriteSize bytes are peeked and offered, the kernel accepts some  *)
(* of them, and those are dropped from the queue.  If it took all that was  *)
(* offered and more is queued the loop does not wait.                       *)
SendSome ==
  /\ loop.pc = "send"
  /\ Connected /\ platform.outputQueue # << >>
  /\ ~tcp.reset /\ ~tcp.finSent /\ tcp.state \in {"blocking", "open"}
  /\ LET queue == platform.outputQueue
         offered == IF Len(queue) < WriteSize THEN Len(queue) ELSE WriteSize
     IN \E sent \in 1 .. offered :
          /\ Len(tcp.sendBuf) + sent <= SendBuffer
          /\ tcp' = [tcp EXCEPT !.sendBuf = @ \o SubSeq(queue, 1, sent)]
          /\ platform' = [platform EXCEPT !.outputQueue = WithoutSent(queue, sent, offered)]
          /\ loop' = [loop EXCEPT !.pc = "finish",
                        !.wait = @ /\ ~(sent = offered /\ sent < Len(queue))]
  /\ UNCHANGED <<processingMutex, lifetime, call, calls, log>>

(* EWOULDBLOCK: the kernel has no room.                                     *)
SendBlocked ==
  /\ loop.pc = "send"
  /\ Connected /\ platform.outputQueue # << >>
  /\ ~tcp.reset /\ ~tcp.finSent /\ tcp.state = "open"
  /\ Len(tcp.sendBuf) = SendBuffer
  /\ Step("finish")
  /\ UNCHANGED <<object, call, calls, tcp, log>>

(* Once a graceful close has been asked for and the queue is empty, the     *)
(* socket is shut down for sending (once), and closed when the peer has     *)
(* closed its end.                                                          *)
FinishLoop ==
  /\ loop.pc = "finish"
  /\ LET drained == platform.outputQueue = << >> /\ platform.closing
         fin == [tcp EXCEPT !.finSent = @ \/ (Live /\ ~platform.shutdownSent)]
         down == [platform EXCEPT !.shutdownSent = TRUE]
     IN \/ /\ ~drained
           /\ Step("test")
           /\ UNCHANGED <<platform, processingMutex, tcp, log>>
        \/ /\ drained /\ ~platform.peerClosed
           /\ platform' = down
           /\ tcp' = fin
           /\ Step("test")
           /\ UNCHANGED <<processingMutex, log>>
        \/ /\ drained /\ platform.peerClosed
           /\ platform' = Disconnected(down)
           /\ tcp' = Closed(fin)
           /\ log' = [Owe(log, platform.sock) EXCEPT
                        !.undelivered = @ + Len(tcp.sendBuf)]
           /\ IF platform.delegates
              THEN DropForDelegate("graceful", platform.sock, loop.wait)
              ELSE Step("test") /\ UNCHANGED processingMutex
  /\ UNCHANGED <<lifetime, call, calls>>

(* Processor() returns: the mutex is released and then the thread's own     *)
(* reference to Impl.  If that was the last one, ~Impl runs on this very    *)
(* thread and detaches it.                                                  *)
Exit ==
  /\ loop.pc = "exit"
  /\ Step("done")
  /\ Unlock
  /\ IF lifetime = "released"
     THEN lifetime' = "destroyed" /\ platform' = [platform EXCEPT !.joinable = FALSE]
     ELSE UNCHANGED <<lifetime, platform>>
  /\ UNCHANGED <<call, calls, tcp, log>>

-----------------------------------------------------------------------------
(* The environment: the peer and the network.                               *)

PeerSends ==
  /\ Live /\ ~tcp.peerFin
  /\ tcp.peerSent < PeerBytes
  /\ tcp' = [tcp EXCEPT !.unread = @ + 1, !.peerSent = @ + 1]
  /\ UNCHANGED <<object, loop, call, calls, log>>

PeerReceives ==
  /\ Live /\ tcp.sendBuf # << >>
  /\ tcp' = [tcp EXCEPT !.sendBuf = Tail(@), !.peerGot = Append(@, Head(tcp.sendBuf))]
  /\ UNCHANGED <<object, loop, call, calls, log>>

PeerShutsDown ==
  /\ Live /\ ~tcp.peerFin
  /\ tcp' = [tcp EXCEPT !.peerFin = TRUE]
  /\ UNCHANGED <<object, loop, call, calls, log>>

PeerResets ==
  /\ Live
  /\ tcp' = [tcp EXCEPT !.reset = TRUE, !.sendBuf = << >>]
  /\ UNCHANGED <<object, loop, call, calls, log>>

-----------------------------------------------------------------------------
(* New calls are the application's choice; a call that has begun goes on.   *)
NewCall(t) ==
  \/ SendMessage(t) \/ CloseGracefully(t) \/ CloseAbruptly(t)
  \/ Connect(t) \/ Process(t) \/ Destroy(t)

Continue(t) ==
  \/ Wake(t) \/ LockAndClose(t) \/ CallBroken(t)
  \/ CreateSocket(t) \/ Establish(t) \/ GiveUp(t) \/ MakeNonBlocking(t)
  \/ Spawn(t) \/ AssignProcessor(t) \/ Release(t)

ProcessorStep ==
  \/ Enter \/ TestLoop \/ SelectReturns \/ Relock
  \/ RecvFails \/ ReceiveMessage \/ ReceiveEndOfStream \/ ReceiveNothing
  \/ CallDelegate \/ DelegateReturns \/ Resume
  \/ SendNothing \/ SendFails \/ SendSome \/ SendBlocked \/ FinishLoop \/ Exit

Peer == PeerSends \/ PeerReceives \/ PeerShutsDown \/ PeerResets

Next ==
  \/ \E t \in Threads : NewCall(t) \/ Continue(t)
  \/ ProcessorStep
  \/ SelectFails
  \/ Peer

Spec == Init /\ [][Next]_vars

(* Threads are scheduled and delegates return (a delegate's return is a     *)
(* step of the processor).  A call waiting for the mutex gets it if it is   *)
(* released again and again: the processor of a half-closed connection      *)
(* never stops taking it, so this has to be strong fairness.  The network   *)
(* delivers what the kernel holds.  The application need not make another   *)
(* call, and the peer need not send, close or reset.                        *)
Fairness ==
  /\ WF_vars(ProcessorStep)
  /\ \A t \in Threads : SF_vars(Continue(t))
  /\ WF_vars(PeerReceives)

FairSpec == Spec /\ Fairness

-----------------------------------------------------------------------------
(* Properties.                                                              *)

CallSteps == {"idle", "wake", "lock", "broken", "socket", "connecting", "giveUp",
              "nonblock", "spawn", "assign", "release"}
CallOps   == {"none", "close", "connect", "process", "destroy"}
LoopSteps == {"none", "enter", "test", "select", "relock", "recv", "unlocked",
              "delegate", "resume", "send", "finish", "exit", "done"}
LockedSteps == {"test", "recv", "send", "finish", "exit"}

PlatformStates ==
  [sock : {NoSocket} \cup Sockets, peerClosed : BOOLEAN, closing : BOOLEAN,
   shutdownSent : BOOLEAN, processorStop : BOOLEAN, joinable : BOOLEAN,
   signal : Signals, outputQueue : Seq(1 .. MaxBytes), delegates : BOOLEAN]

LoopStates ==
  [pc : LoopSteps, wait : BOOLEAN, wantWrite : BOOLEAN, signaled : BOOLEAN,
   kind : {"none", "message", "peerClosed", "abrupt", "graceful"},
   about : {NoSocket} \cup Sockets]

CallStates == [pc : CallSteps, op : CallOps, about : {NoSocket} \cup Sockets]

TcpStates ==
  [id : {NoSocket} \cup Sockets, state : {"unconnected", "blocking", "open", "closed"},
   unread : Nat, peerSent : Nat, peerFin : BOOLEAN, reset : BOOLEAN,
   sendBuf : Seq(1 .. MaxBytes), finSent : BOOLEAN, peerGot : Seq(1 .. MaxBytes)]

Histories ==
  [queued : 0 .. MaxBytes, broken : [Sockets -> Nat], owed : SUBSET Sockets,
   eof : SUBSET Sockets, afterEof : BOOLEAN, undelivered : Nat,
   early : BOOLEAN, processed : {NoSocket} \cup Sockets,
   spawned : {NoSocket} \cup Sockets]

(* The type invariant.                                                      *)
TypeOK ==
  /\ platform \in PlatformStates
  /\ processingMutex \in {NoThread, Processor}
  /\ loop \in LoopStates
  /\ call \in [Threads -> CallStates]
  /\ calls \in [Threads -> Nat]
  /\ lifetime \in {"owned", "released", "destroyed"}
  /\ tcp \in TcpStates
  /\ log \in Histories

(* The mutex is held by the processor in exactly the stretches of its loop  *)
(* that touch the guarded state, so never while it is in select() or in a   *)
(* delegate, where it would lock the application out.                       *)
LockDiscipline == processingMutex = Processor <=> loop.pc \in LockedSteps

(* The threads that have closed socket s and have yet to report it.         *)
Reporting(s) ==
  {t \in Threads : call[t].pc = "broken" /\ call[t].about = s}

ProcessorReporting(s) ==
  loop.pc = "unlocked" /\ loop.kind \in {"abrupt", "graceful"} /\ loop.about = s

(* However the user's Close, Connect or destructor races with the processor *)
(* finding the connection broken, brokenDelegate(false) is called exactly   *)
(* once for every socket closed while there is a delegate: not again once   *)
(* it has been called, by one thread only, and never forgotten.             *)
BrokenExactlyOnce ==
  \A s \in Sockets :
    /\ log.broken[s] <= 1
    /\ log.broken[s] = 1 => Reporting(s) = {} /\ ~ProcessorReporting(s)
    /\ \A t, u \in Reporting(s) : t = u
    /\ ProcessorReporting(s) => Reporting(s) = {}
    /\ s \in log.owed <=> \/ log.broken[s] = 1
                          \/ Reporting(s) # {}
                          \/ ProcessorReporting(s)

(* The application is told that a connection is broken only when its socket *)
(* really is closed, so it can Connect again from the delegate.             *)
ReportedSocketsAreClosed == \A s \in log.owed : s # platform.sock

(* Nothing is received, and no second end of stream is reported, after the  *)
(* end of stream of a socket was reported.                                  *)
EndOfStreamIsLast == ~log.afterEof

(* While the processor sleeps in select() without a token, and no thread is *)
(* about to wake it, there is nothing for it to do: it is not to stop,      *)
(* queued data is waited on for writing, and a graceful close does not wait *)
(* for its shutdown.  The exception is a Close(true) made before the thread *)
(* was started (see GracefulCloseNoticed).                                  *)
Asleep ==
  /\ loop.pc = "select" /\ platform.signal = 0
  /\ \A t \in Threads : call[t].pc # "wake"

NoLostWakeup ==
  Asleep /\ Connected =>
    /\ ~platform.processorStop
    /\ platform.outputQueue # << >> => loop.wantWrite
    /\ platform.closing /\ platform.outputQueue = << >> /\ ~log.early
         => platform.shutdownSent

(* Close(true) before Process is noticed by the processor like any other.   *)
GracefulCloseNoticed ==
  Asleep /\ Connected /\ platform.closing /\ platform.outputQueue = << >>
    => platform.shutdownSent

(* What the peer has got, what the kernel holds and what is still queued,   *)
(* one after the other, are the bytes the application queued, each once and *)
(* in order up to the last one queued, whatever part of each send() the     *)
(* kernel accepted.  After a reset or a close the kernel's share is gone,   *)
(* and what the peer has got is what came first.                            *)
Consecutive(s) == \A i \in 1 .. Len(s) - 1 : s[i + 1] = s[i] + 1

UpToLastQueued(s) == Consecutive(s) /\ (s # << >> => s[Len(s)] = log.queued)

SentInOrder ==
  /\ Consecutive(tcp.peerGot \o tcp.sendBuf)
  /\ UpToLastQueued(platform.outputQueue)
  /\ Live => UpToLastQueued(tcp.peerGot \o tcp.sendBuf \o platform.outputQueue)

(* A connection Process has returned true for is served: unless it is being *)
(* closed abruptly there is a processor thread and it is not told to stop.  *)
Served == ProcessorRunning /\ ~platform.processorStop

Processed ==
  /\ log.processed # NoSocket /\ log.processed = platform.sock
  /\ \A t \in Threads : call[t].op \notin {"close", "connect", "destroy"}

ProcessedIsServed == Processed => Served

(* It is served if its own Process started the thread: whatever was closed, *)
(* connected and processed before it, and however the callers, the thread's *)
(* start and the peer race.  The exception is the connection on which       *)
(* Process found the thread object of an earlier one still joinable, and    *)
(* returned true without starting anything (line 127).                      *)
ServedUnlessReconnected == Processed /\ log.spawned = platform.sock => Served

(* Impl outlives every thread that is inside it: it is destroyed when the   *)
(* application has given it up and the processor has left its loop.         *)
ImplOutlivesItsThreads ==
  lifetime = "destroyed" => ~ProcessorRunning /\ \A t \in Threads : call[t] = Idle

(* A graceful close delivers what was queued: the socket is not closed by   *)
(* it while the kernel still holds bytes for the peer.                      *)
GracefulCloseDelivers == log.undelivered = 0

-----------------------------------------------------------------------------
(* Liveness, under FairSpec.                                                *)

(* A processor that is told to stop leaves its loop, even if it was asleep  *)
(* in select() when the flag was set; and then a destroyed connection does  *)
(* not leak, for the processor drops the last reference to Impl.            *)
StopIsObeyed ==
  /\ platform.processorStop /\ ProcessorRunning ~> loop.pc = "done"
  /\ lifetime = "released" ~> lifetime = "destroyed"

(* Every byte queued on a connection with a running processor reaches the   *)
(* peer, unless the connection ends first.                                  *)
QueuedBytesArrive ==
  \A n \in 1 .. MaxBytes :
    log.queued >= n /\ ProcessorRunning /\ Connected
      ~> \/ \E i \in DOMAIN tcp.peerGot : tcp.peerGot[i] = n
         \/ ~Connected \/ ~Live

(* A graceful close ends the sending side once the queue is empty, and the  *)
(* connection once the peer has closed its side too.                        *)
Closing == platform.closing /\ ~log.early /\ ProcessorRunning /\ Connected

GracefulCloseEnds ==
  /\ Closing ~> tcp.finSent \/ ~Connected \/ ~Live
  /\ Closing /\ tcp.peerFin ~> ~Connected

(* Whoever closes a socket gets to report it.                               *)
BreakIsReported ==
  \A s \in Sockets : s \in log.owed ~> log.broken[s] = 1

(* The peer's end of stream is reported by a running processor, unless the  *)
(* connection is broken first.                                              *)
EndOfStreamIsReported ==
  ProcessorRunning /\ Connected /\ tcp.peerFin ~> tcp.id \in log.eof \/ ~Connected

(* Either end of a connection is heard of.                                  *)
EndsAreReported == BreakIsReported /\ EndOfStreamIsReported
=============================================================================
