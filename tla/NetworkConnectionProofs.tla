----------------------- MODULE NetworkConnectionProofs -----------------------
(***************************************************************************)
(* What holds of NetworkConnection for any number of application threads,  *)
(* calls, sockets and bytes.  Four of the safety properties lean on one    *)
(* another, so one inductive invariant IInv carries them all; the others   *)
(* have an invariant each beside it, stated where they begin:              *)
(*   CallsInv     where each thread is in the public methods, and that     *)
(*                Process starts the thread only when there is none;       *)
(*   LockDiscipline                                                        *)
(*   SocketsInv   which sockets exist, are open and are being reported;    *)
(*   BrokenExactlyOnce                                                     *)
(***************************************************************************)
EXTENDS NetworkConnection, SequenceTheorems, TLAPS

LifecycleOps == {"connect", "process", "destroy"}

(* The steps of each public method.                                         *)
StepsOf(op) ==
  CASE op = "none"    -> {"idle"}
    [] op = "close"   -> {"wake", "lock", "broken"}
    [] op = "connect" -> {"wake", "lock", "broken", "socket", "connecting",
                          "giveUp", "nonblock"}
    [] op = "process" -> {"spawn", "assign"}
    [] op = "destroy" -> {"wake", "lock", "broken", "release"}

(* Connect, Process and the destructor exclude one another, the destructor  *)
(* excludes everything, and the processor thread exists only between the    *)
(* Process that starts it and the end of the object.                        *)
StepsMatch ==
  \A t \in Threads : /\ call[t].pc \in StepsOf(call[t].op)
                     /\ call[t].op = "none" => call[t] = Idle

OneLifecycleCall ==
  \A t, u \in Threads :
    call[t].op \in LifecycleOps /\ call[u].op \in LifecycleOps => t = u

DestroyIsLast ==
  /\ \A t, u \in Threads : call[t].op = "destroy" /\ t # u => call[u] = Idle
  /\ lifetime # "owned" => \A t \in Threads : call[t] = Idle

OneProcessor ==
  /\ \A t \in Threads :
       call[t].pc = "spawn" => loop.pc = "none" /\ ~platform.joinable
  /\ lifetime = "owned" /\ ~platform.joinable =>
       loop.pc = "none" \/ \E t \in Threads : call[t].pc = "assign"
  /\ lifetime = "destroyed" => ~ProcessorRunning

CallsInv == StepsMatch /\ OneLifecycleCall /\ DestroyIsLast /\ OneProcessor

(* The descriptor is closed or the latest socket; a socket that some thread *)
(* has to report is an earlier one, or closed; Connect creates a socket     *)
(* only when there is none, and the loop ends its round only with one.      *)
LatestSocket ==
  /\ platform.sock \in {NoSocket, tcp.id}
  /\ \A s \in log.owed : s <= tcp.id
  /\ ReportedSocketsAreClosed

(* A Connect that has closed the old socket and not yet created the new one. *)
BetweenSockets(c) == c.pc = "socket" \/ (c.pc = "broken" /\ c.op = "connect")

CallsAndSockets ==
  \A t \in Threads : /\ BetweenSockets(call[t]) => ~Connected
                     /\ call[t].pc = "broken" => call[t].about \in Sockets

LoopAndSockets ==
  /\ loop.pc = "finish" => Connected
  /\ loop.pc = "unlocked" => loop.kind # "none" /\ loop.about \in Sockets

SocketsInv == LatestSocket /\ CallsAndSockets /\ LoopAndSockets

IInv == TypeOK /\ CallsInv /\ LockDiscipline /\ SocketsInv /\ BrokenExactlyOnce

-----------------------------------------------------------------------------
(* Lemmas on the operators the actions are built from.                      *)

(* The operations of PipeSignal keep a signal within the pipe's capacity.   *)
LEMMA SignalOperations ==
  ASSUME NEW signal \in Signals
  PROVE  /\ Set(signal) \in Signals /\ Clear(signal) \in Signals
         /\ Initialize(signal) \in Signals
BY PipeCapacityAssumption DEF Set, Clear, Initialize, Signals, NoPipe

(* A suffix and a prefix of a queue are queues.                             *)
LEMMA QueueParts ==
  ASSUME NEW S, NEW queue \in Seq(S), NEW n \in 0 .. Len(queue)
  PROVE  /\ SubSeq(queue, n + 1, Len(queue)) \in Seq(S)
         /\ SubSeq(queue, 1, n) \in Seq(S)
<1>1. Len(queue) \in Nat
  BY LenProperties
<1>2. \A i \in 1 .. Len(queue) : queue[i] \in S
  BY ElementOfSeq
<1>3. SubSeq(queue, n + 1, Len(queue)) \in Seq(S)
  BY <1>1, <1>2, SubSeqProperties
<1>4. SubSeq(queue, 1, n) \in Seq(S)
  BY <1>1, <1>2, SubSeqProperties
<1>. QED BY <1>3, <1>4

(* A message of n bytes, numbered from k + 1, is a sequence of bytes.       *)
LEMMA NumberedBytes ==
  ASSUME NEW k \in Nat, NEW n \in Nat, k + n <= MaxBytes, MaxBytes \in Nat
  PROVE  [i \in 1 .. n |-> k + i] \in Seq(1 .. MaxBytes)
<1>1. [i \in 1 .. n |-> k + i] \in [1 .. n -> 1 .. MaxBytes]
  OBVIOUS
<1>. QED BY <1>1, SeqDef

(* The record updates the code makes stay within the types.                 *)
LEMMA DisconnectedType ==
  ASSUME NEW p \in PlatformStates
  PROVE  Disconnected(p) \in PlatformStates
BY DEF PlatformStates, Disconnected

(* A closed socket is a socket.                                             *)
LEMMA ClosedType ==
  ASSUME NEW socket \in TcpStates
  PROVE  Closed(socket) \in TcpStates
BY EmptySeq DEF TcpStates, Closed

(* Owing a report keeps the type of the history.                            *)
LEMMA OweType ==
  ASSUME NEW history \in Histories, NEW s \in Sockets
  PROVE  Owe(history, s) \in Histories
BY DEF Histories, Owe

(* So does making it.                                                       *)
LEMMA NotifyBrokenType ==
  ASSUME NEW history \in Histories, NEW s
  PROVE  NotifyBroken(history, s) \in Histories
BY DEF Histories, NotifyBroken

(* So does counting what is lost.                                           *)
LEMMA UndeliveredType ==
  ASSUME NEW history \in Histories, NEW n \in Nat
  PROVE  [history EXCEPT !.undelivered = @ + n] \in Histories
<1>1. history.undelivered + n \in Nat
  BY DEF Histories
<1>. QED BY <1>1 DEF Histories

(* What a call does after its close is a call's state.                      *)
LEMMA AfterCloseType ==
  ASSUME NEW c \in CallStates
  PROVE  AfterClose(c) \in CallStates
BY DEF CallStates, CallSteps, CallOps, AfterClose, Idle

(* A new socket is a socket.                                                *)
LEMMA SocketType ==
  ASSUME NEW id \in {NoSocket} \cup Sockets,
         NEW state \in {"unconnected", "blocking", "open", "closed"}
  PROVE  Socket(id, state) \in TcpStates
BY EmptySeq DEF TcpStates, Socket

(* Moving a program counter keeps the type of what it belongs to.           *)
LEMMA GotoType ==
  ASSUME call \in [Threads -> CallStates], NEW t \in Threads
  PROVE  /\ \A pc \in CallSteps : Goto(t, pc) => call' \in [Threads -> CallStates]
         /\ Return(t) => call' \in [Threads -> CallStates]
BY DEF CallStates, CallSteps, CallOps, Goto, Return, Idle

(* Beginning a call keeps the types of calls and of their bound.            *)
LEMMA BeginType ==
  ASSUME TypeOK, NEW t \in Threads, NEW op \in CallOps, NEW pc \in CallSteps, Begin(t, op, pc)
  PROVE  call' \in [Threads -> CallStates] /\ calls' \in [Threads -> Nat]
BY DEF TypeOK, CallStates, Begin

(* Moving the processor on keeps the type of its loop.                      *)
LEMMA StepType ==
  ASSUME loop \in LoopStates, NEW pc \in LoopSteps, Step(pc)
  PROVE  loop' \in LoopStates
BY DEF LoopStates, Step

(* So does dropping the mutex around a delegate.                            *)
LEMMA DropForDelegateType ==
  ASSUME loop \in LoopStates, NEW s \in {NoSocket} \cup Sockets, NEW wait \in BOOLEAN,
         NEW kind \in {"message", "peerClosed", "abrupt", "graceful"},
         DropForDelegate(kind, s, wait)
  PROVE  loop' \in LoopStates /\ processingMutex' = NoThread
BY DEF LoopStates, LoopSteps, DropForDelegate, Unlock

-----------------------------------------------------------------------------
(* The type invariant.                                                      *)

(* The types hold at the start.                                             *)
LEMMA TypeInit == Init => TypeOK
<1>1. ASSUME Init PROVE platform \in PlatformStates
  BY <1>1, EmptySeq, ConnectionAssumption DEF Init, PlatformStates, Signals, NoPipe, Sockets, NoSocket
<1>2. ASSUME Init PROVE tcp \in TcpStates
  BY <1>2, SocketType, ConnectionAssumption DEF Init, Sockets, NoSocket
<1>3. ASSUME Init PROVE loop \in LoopStates
  BY <1>3 DEF Init, LoopStates, LoopSteps, NoLoop
<1>4. ASSUME Init PROVE call \in [Threads -> CallStates] /\ calls \in [Threads -> Nat]
  BY <1>4 DEF Init, CallStates, CallSteps, CallOps, Idle
<1>5. ASSUME Init PROVE log \in Histories
  BY <1>5, ConnectionAssumption DEF Init, Histories
<1>. QED BY <1>1, <1>2, <1>3, <1>4, <1>5 DEF Init, TypeOK

(* New calls.                                                               *)
LEMMA NewCallType ==
  ASSUME TypeOK, NEW t \in Threads, NewCall(t)
  PROVE  TypeOK'
<1>. USE DEF TypeOK, object
<1>1. CASE SendMessage(t)
  <2>1. PICK n \in MessageSizes :
          /\ log.queued + n <= MaxBytes
          /\ platform' = Queued(platform, n)
          /\ log' = [log EXCEPT !.queued = @ + n]
    BY <1>1 DEF SendMessage
  <2>2. n \in Nat /\ log.queued \in Nat /\ MaxBytes \in Nat
    BY ConnectionAssumption DEF Histories
  <2>3. platform.outputQueue \o [i \in 1 .. n |-> log.queued + i] \in Seq(1 .. MaxBytes)
    BY <2>1, <2>2, NumberedBytes, ConcatProperties DEF PlatformStates
  <2>4. platform' \in PlatformStates
    <3>1. Set(platform.signal) \in Signals
      BY SignalOperations DEF PlatformStates
    <3>. QED BY <2>1, <2>3, <3>1 DEF PlatformStates, Queued
  <2>5. log' \in Histories
    BY <2>1, <2>2 DEF Histories
  <2>. QED BY <1>1, <2>4, <2>5 DEF SendMessage
<1>2. CASE CloseGracefully(t)
  <2>1. platform' \in PlatformStates
    <3>1. Set(platform.signal) \in Signals
      BY SignalOperations DEF PlatformStates
    <3>. QED BY <1>2, <3>1 DEF PlatformStates, CloseGracefully, ToClose
  <2>2. log' \in Histories
    BY <1>2 DEF Histories, CloseGracefully
  <2>. QED BY <1>2, <2>1, <2>2 DEF CloseGracefully
<1>3. ASSUME NEW op \in CallOps, BeginClose(t, op) PROVE TypeOK'
  <2>1. platform' \in PlatformStates
    BY <1>3 DEF PlatformStates, BeginClose
  <2>2. call' \in [Threads -> CallStates] /\ calls' \in [Threads -> Nat]
    BY <1>3, BeginType DEF BeginClose, CallSteps
  <2>. QED BY <1>3, <2>1, <2>2 DEF BeginClose
<1>4. CASE Process(t)
  <2>1. platform' \in PlatformStates
    <3>1. Initialize(platform.signal) \in Signals
      BY SignalOperations DEF PlatformStates
    <3>. QED BY <1>4, <3>1 DEF PlatformStates, Process
  <2>2. call' \in [Threads -> CallStates] /\ calls' \in [Threads -> Nat]
    <3>1. "process" \in CallOps /\ "spawn" \in CallSteps
      BY DEF CallOps, CallSteps
    <3>. QED BY <1>4, <3>1, BeginType DEF Process
  <2>3. log' \in Histories
    BY <1>4 DEF Histories, Process, PlatformStates
  <2>. QED BY <1>4, <2>1, <2>2, <2>3 DEF Process
<1>. QED
  BY <1>1, <1>2, <1>3, <1>4
  DEF NewCall, CloseAbruptly, Connect, Destroy, CallOps

(* The steps of a call that has begun.                                      *)
LEMMA ContinueType ==
  ASSUME IInv, NEW t \in Threads, Continue(t)
  PROVE  TypeOK'
<1>. USE DEF TypeOK, object, IInv
<1>1. CASE Wake(t)
  <2>1. platform' \in PlatformStates
    <3>1. Set(platform.signal) \in Signals
      BY SignalOperations DEF PlatformStates
    <3>. QED BY <1>1, <3>1 DEF PlatformStates, Wake, Woken
  <2>2. call' \in [Threads -> CallStates]
    BY <1>1, GotoType DEF Wake, CallSteps
  <2>. QED BY <1>1, <2>1, <2>2 DEF Wake
<1>2. CASE LockAndClose(t)
  <2>1. platform' \in PlatformStates /\ tcp' \in TcpStates
    BY <1>2, DisconnectedType, ClosedType DEF LockAndClose
  <2>2. Connected => platform.sock \in Sockets
    BY DEF Connected, PlatformStates
  <2>3. log' \in Histories
    BY <1>2, <2>2, OweType DEF LockAndClose
  <2>4. AfterClose(call[t]) \in CallStates
    BY AfterCloseType
  <2>5. [call[t] EXCEPT !.pc = "broken", !.about = platform.sock] \in CallStates
    BY DEF CallStates, CallSteps, PlatformStates
  <2>6. call' \in [Threads -> CallStates]
    BY ZenonT(30), <1>2, <2>4, <2>5 DEF LockAndClose, CallStates, CallSteps, PlatformStates
  <2>. QED BY <1>2, <2>1, <2>3, <2>6 DEF LockAndClose
<1>3. CASE CallBroken(t)
  <2>1. call' \in [Threads -> CallStates]
    BY <1>3, AfterCloseType DEF CallBroken
  <2>. QED BY <1>3, <2>1, NotifyBrokenType DEF CallBroken
<1>4. CASE CreateSocket(t)
  <2>1. tcp.id < MaxSockets => tcp.id + 1 \in Sockets
    BY ConnectionAssumption DEF TcpStates, Sockets, NoSocket
  <2>2. platform' \in PlatformStates
    BY <1>4, <2>1 DEF CreateSocket, PlatformStates
  <2>3. tcp' \in TcpStates
    BY <1>4, <2>1, SocketType DEF CreateSocket
  <2>4. call' \in [Threads -> CallStates]
    BY <1>4, GotoType DEF CreateSocket, CallSteps
  <2>. QED BY <1>4, <2>2, <2>3, <2>4 DEF CreateSocket
<1>5. CASE Establish(t)
  <2>1. tcp' \in TcpStates
    BY <1>5 DEF Establish, TcpStates
  <2>2. call' \in [Threads -> CallStates]
    BY <1>5, GotoType DEF Establish, CallSteps
  <2>. QED BY <1>5, <2>1, <2>2 DEF Establish
<1>6. CASE GiveUp(t)
  BY <1>6, DisconnectedType, ClosedType, GotoType DEF GiveUp
<1>7. CASE MakeNonBlocking(t)
  <2>1. tcp' \in TcpStates
    BY <1>7 DEF MakeNonBlocking, TcpStates
  <2>. QED BY <1>7, <2>1, GotoType DEF MakeNonBlocking
<1>8. CASE Spawn(t)
  <2>1. platform' \in PlatformStates
    <3>1. Clear(platform.signal) \in Signals
      BY SignalOperations DEF PlatformStates
    <3>. QED BY <1>8, <3>1 DEF PlatformStates, Spawn
  <2>2. loop' \in LoopStates
    BY <1>8 DEF Spawn, LoopStates, LoopSteps, NoLoop
  <2>3. call' \in [Threads -> CallStates]
    BY <1>8, GotoType DEF Spawn, CallSteps
  <2>4. log' \in Histories
    BY <1>8 DEF Spawn, Histories, TcpStates
  <2>. QED BY <1>8, <2>1, <2>2, <2>3, <2>4 DEF Spawn
<1>9. CASE AssignProcessor(t)
  <2>1. platform' \in PlatformStates
    BY <1>9 DEF PlatformStates, AssignProcessor
  <2>2. log' \in Histories
    BY <1>9 DEF Histories, AssignProcessor, PlatformStates
  <2>. QED BY <1>9, <2>1, <2>2, GotoType DEF AssignProcessor
<1>10. CASE Release(t)
  <2>1. platform' \in PlatformStates
    BY <1>10 DEF PlatformStates, Release
  <2>. QED BY <1>10, <2>1, GotoType DEF Release
<1>. QED
  BY <1>1, <1>2, <1>3, <1>4, <1>5, <1>6, <1>7, <1>8, <1>9, <1>10 DEF Continue

(* BreakAbruptly, wherever in the loop it happens.                          *)
LEMMA BreakAbruptlyType ==
  ASSUME TypeOK, BreakAbruptly
  PROVE  /\ platform' \in PlatformStates /\ tcp' \in TcpStates /\ log' \in Histories
         /\ loop' \in LoopStates /\ processingMutex' \in {NoThread, Processor}
<1>. USE DEF TypeOK
<1>1. CASE Connected
  <2>1. platform.sock \in Sockets
    BY <1>1 DEF Connected, PlatformStates
  <2>2. platform' \in PlatformStates /\ tcp' \in TcpStates /\ log' \in Histories
    BY <1>1, <2>1, DisconnectedType, ClosedType, OweType DEF BreakAbruptly
  <2>3. CASE platform.delegates
    BY <1>1, <2>1, <2>2, <2>3, DropForDelegateType DEF BreakAbruptly
  <2>4. CASE ~platform.delegates
    <3>1. Step("exit") /\ UNCHANGED processingMutex
      BY <1>1, <2>4 DEF BreakAbruptly
    <3>. QED BY <2>2, <3>1, StepType DEF LoopSteps
  <2>. QED BY <2>3, <2>4
<1>2. CASE ~Connected
  <2>1. Step("exit") /\ UNCHANGED <<platform, processingMutex, tcp, log>>
    BY <1>2 DEF BreakAbruptly
  <2>. QED BY <2>1, StepType DEF LoopSteps
<1>. QED BY <1>1, <1>2

(* The processor thread.                                                    *)
LEMMA ProcessorStepType ==
  ASSUME IInv, ProcessorStep \/ SelectFails
  PROVE  TypeOK'
<1>. USE DEF TypeOK, object, IInv
<1>1. CASE Enter
  BY <1>1, StepType DEF Enter, ProcessorLocks, LoopSteps
<1>2. CASE TestLoop
  <2>1. loop' \in LoopStates
    BY <1>2 DEF TestLoop, Step, LoopStates, LoopSteps, WantsToWrite
  <2>. QED BY <1>2, <2>1 DEF TestLoop, Unlock
<1>3. CASE SelectReturns
  <2>1. IsSet(platform.signal) \in BOOLEAN
    BY DEF IsSet
  <2>2. loop' \in LoopStates
    BY <1>3, <2>1 DEF SelectReturns, LoopStates, LoopSteps
  <2>. QED BY <1>3, <2>2 DEF SelectReturns
<1>4. CASE SelectFails
  <2>1. loop' \in LoopStates
    BY <1>4 DEF SelectFails, LoopStates, LoopSteps
  <2>. QED BY <1>4, <2>1 DEF SelectFails
<1>5. CASE Relock
  <2>1. Clear(platform.signal) \in Signals
    BY SignalOperations DEF PlatformStates
  <2>2. platform' \in PlatformStates
    BY <1>5, <2>1 DEF Relock, PlatformStates
  <2>. QED BY <1>5, <2>2, StepType DEF Relock, ProcessorLocks, LoopSteps
<1>6. CASE RecvFails \/ SendFails
  BY <1>6, BreakAbruptlyType DEF RecvFails, SendFails
<1>7. CASE ReceiveMessage
  <2>1. tcp' \in TcpStates
    <3>1. (IF tcp.unread <= ReadSize THEN 0 ELSE tcp.unread - ReadSize) \in Nat
      BY ConnectionAssumption DEF TcpStates
    <3>. QED BY <1>7, <3>1 DEF ReceiveMessage, TcpStates
  <2>2. loop' \in LoopStates /\ processingMutex' = NoThread
    BY <1>7, DropForDelegateType DEF ReceiveMessage, PlatformStates
  <2>. QED BY <1>7, <2>1, <2>2 DEF ReceiveMessage
<1>8. CASE ReceiveEndOfStream
  <2>1. platform' \in PlatformStates
    BY <1>8 DEF ReceiveEndOfStream, EndOfStreamSeen, PlatformStates
  <2>2. loop' \in LoopStates /\ processingMutex' = NoThread
    BY <1>8, DropForDelegateType DEF ReceiveEndOfStream, ReportEndOfStream, PlatformStates
  <2>. QED BY <1>8, <2>1, <2>2 DEF ReceiveEndOfStream
<1>9. CASE ReceiveNothing
  <2>1. loop' \in LoopStates
    BY <1>9 DEF ReceiveNothing, LoopStates, LoopSteps
  <2>. QED BY <1>9, <2>1 DEF ReceiveNothing
<1>10. CASE CallDelegate
  <2>1. log' \in Histories
    <3>1. CASE loop.kind = "message"
      BY <1>10, <3>1 DEF CallDelegate, Histories
    <3>2. CASE loop.kind = "peerClosed"
      <4>1. loop.about \in Sockets
        BY <1>10 DEF CallDelegate, SocketsInv, LoopAndSockets
      <4>. QED BY <1>10, <3>2, <4>1 DEF CallDelegate, Histories
    <3>3. CASE loop.kind \notin {"message", "peerClosed"}
      BY <1>10, <3>3, NotifyBrokenType DEF CallDelegate
    <3>. QED BY <3>1, <3>2, <3>3
  <2>. QED BY <1>10, <2>1, StepType DEF CallDelegate, LoopSteps
<1>11. CASE DelegateReturns
  BY <1>11, StepType DEF DelegateReturns, LoopSteps
<1>12. CASE Resume
  <2>1. loop' \in LoopStates
    BY <1>12, StepType DEF Resume, ProcessorLocks, LoopSteps
  <2>. QED BY <1>12, <2>1 DEF Resume, ProcessorLocks
<1>13. CASE SendNothing \/ SendBlocked
  <2>1. Step("exit") \/ Step("finish")
    BY <1>13 DEF SendNothing, SendBlocked
  <2>2. loop' \in LoopStates
    BY <2>1, StepType DEF LoopSteps
  <2>. QED BY <1>13, <2>2 DEF SendNothing, SendBlocked
<1>14. CASE SendSome
  <2>. DEFINE queue == platform.outputQueue
              offered == IF Len(queue) < WriteSize THEN Len(queue) ELSE WriteSize
  <2>1. PICK sent \in 1 .. offered :
          /\ tcp' = [tcp EXCEPT !.sendBuf = @ \o SubSeq(queue, 1, sent)]
          /\ platform' = [platform EXCEPT !.outputQueue = SubSeq(queue, sent + 1, Len(queue))]
          /\ loop' = [loop EXCEPT !.pc = "finish",
                        !.wait = @ /\ ~(sent = offered /\ sent < Len(queue))]
    BY <1>14 DEF SendSome, WithoutSent
  <2>2. queue \in Seq(1 .. MaxBytes) /\ tcp.sendBuf \in Seq(1 .. MaxBytes)
    BY DEF PlatformStates, TcpStates
  <2>3. sent \in 0 .. Len(queue)
    BY <2>2, LenProperties, ConnectionAssumption
  <2>4. /\ SubSeq(queue, sent + 1, Len(queue)) \in Seq(1 .. MaxBytes)
        /\ SubSeq(queue, 1, sent) \in Seq(1 .. MaxBytes)
    BY <2>2, <2>3, QueueParts
  <2>5. tcp.sendBuf \o SubSeq(queue, 1, sent) \in Seq(1 .. MaxBytes)
    BY <2>2, <2>4, ConcatProperties
  <2>. HIDE DEF queue, offered
  <2>6. platform' \in PlatformStates
    BY <2>1, <2>4 DEF PlatformStates
  <2>7. tcp' \in TcpStates
    BY <2>1, <2>5 DEF TcpStates
  <2>8. loop' \in LoopStates
    BY <2>1 DEF LoopStates, LoopSteps
  <2>. QED BY <1>14, <2>6, <2>7, <2>8 DEF SendSome
<1>15. CASE FinishLoop
  <2>. DEFINE fin  == [tcp EXCEPT !.finSent = @ \/ (Live /\ ~platform.shutdownSent)]
              down == [platform EXCEPT !.shutdownSent = TRUE]
  <2>1. fin \in TcpStates /\ down \in PlatformStates
    BY DEF TcpStates, PlatformStates
  <2>2. Disconnected(down) \in PlatformStates /\ Closed(fin) \in TcpStates
    BY <2>1, DisconnectedType, ClosedType
  <2>3. platform.sock \in Sockets
    BY <1>15 DEF FinishLoop, SocketsInv, LoopAndSockets, Connected, PlatformStates
  <2>4. Len(tcp.sendBuf) \in Nat
    BY LenProperties DEF TcpStates
  <2>5. [Owe(log, platform.sock) EXCEPT !.undelivered = @ + Len(tcp.sendBuf)] \in Histories
    <3>1. Owe(log, platform.sock) \in Histories
      BY <2>3, OweType
    <3>. QED BY <2>4, <3>1, UndeliveredType
  <2>6. platform' \in PlatformStates /\ tcp' \in TcpStates /\ log' \in Histories
    BY <1>15, <2>1, <2>2, <2>5 DEF FinishLoop
  <2>7. /\ loop' \in LoopStates
        /\ processingMutex' \in {NoThread, Processor}
    <3>1. \/ Step("test") /\ UNCHANGED processingMutex
          \/ DropForDelegate("graceful", platform.sock, loop.wait)
      BY <1>15 DEF FinishLoop
    <3>2. CASE Step("test") /\ UNCHANGED processingMutex
      BY <3>2, StepType DEF LoopSteps
    <3>3. CASE DropForDelegate("graceful", platform.sock, loop.wait)
      <4>1. loop.wait \in BOOLEAN
        BY DEF LoopStates
      <4>. QED BY <2>3, <3>3, <4>1, DropForDelegateType
    <3>. QED BY <3>1, <3>2, <3>3
  <2>. HIDE DEF fin, down
  <2>. QED BY <1>15, <2>6, <2>7 DEF FinishLoop
<1>16. CASE Exit
  <2>1. platform' \in PlatformStates
    BY <1>16 DEF Exit, PlatformStates
  <2>2. loop' \in LoopStates
    BY <1>16, StepType DEF Exit, LoopSteps
  <2>. QED BY <1>16, <2>1, <2>2 DEF Exit, Unlock
<1>. QED
  BY <1>1, <1>2, <1>3, <1>4, <1>5, <1>6, <1>7, <1>8, <1>9, <1>10, <1>11, <1>12,
     <1>13, <1>14, <1>15, <1>16 DEF ProcessorStep

(* The peer and the network.                                                *)
LEMMA PeerType ==
  ASSUME TypeOK, Peer
  PROVE  TypeOK'
<1>. USE DEF TypeOK, object
<1>1. CASE PeerSends
  <2>1. tcp' \in TcpStates
    <3>1. tcp.unread + 1 \in Nat /\ tcp.peerSent + 1 \in Nat
      BY DEF TcpStates
    <3>. QED BY <1>1, <3>1 DEF PeerSends, TcpStates
  <2>. QED BY <1>1, <2>1 DEF PeerSends
<1>2. CASE PeerReceives
  <2>1. tcp.sendBuf \in Seq(1 .. MaxBytes) /\ tcp.peerGot \in Seq(1 .. MaxBytes)
    BY DEF TcpStates
  <2>2. Tail(tcp.sendBuf) \in Seq(1 .. MaxBytes)
    BY <1>2, <2>1, HeadTailProperties DEF PeerReceives
  <2>3. Append(tcp.peerGot, Head(tcp.sendBuf)) \in Seq(1 .. MaxBytes)
    BY <1>2, <2>1, HeadTailProperties, AppendProperties DEF PeerReceives
  <2>4. tcp' \in TcpStates
    BY <1>2, <2>2, <2>3 DEF PeerReceives, TcpStates
  <2>. QED BY <1>2, <2>4 DEF PeerReceives
<1>3. CASE PeerShutsDown
  <2>1. tcp' \in TcpStates
    BY <1>3 DEF PeerShutsDown, TcpStates
  <2>. QED BY <1>3, <2>1 DEF PeerShutsDown
<1>4. CASE PeerResets
  <2>1. tcp' \in TcpStates
    BY <1>4, EmptySeq DEF PeerResets, TcpStates
  <2>. QED BY <1>4, <2>1 DEF PeerResets
<1>. QED BY <1>1, <1>2, <1>3, <1>4 DEF Peer

-----------------------------------------------------------------------------
(* CallsInv.                                                                *)

(* No call is in progress at the start.                                     *)
LEMMA CallsInit == Init => CallsInv
BY DEF Init, CallsInv, StepsMatch, OneLifecycleCall, DestroyIsLast, OneProcessor,
       StepsOf, Idle, LifecycleOps, NoLoop, ProcessorRunning

(* A step that moves a call on within its method, or returns from it, but   *)
(* neither starts the processor nor stores its handle.                      *)
LEMMA CallMoves ==
  ASSUME TypeOK, CallsInv, NEW t \in Threads, NEW c \in CallStates,
         call' = [call EXCEPT ![t] = c],
         c = Idle \/ (c.op = call[t].op /\ c.op # "none" /\ c.pc \in StepsOf(c.op)),
         call[t].pc \notin {"idle", "spawn", "assign"},
         c.pc \notin {"spawn", "assign"},
         loop'.pc = loop.pc, lifetime' = lifetime, platform'.joinable = platform.joinable
  PROVE  CallsInv'
<1>. USE DEF CallsInv
<1>1. \A u \in Threads : call'[u] = IF u = t THEN c ELSE call[u]
  BY DEF TypeOK
<1>2. StepsMatch'
  <2>1. Idle.pc \in StepsOf(Idle.op)
    BY DEF StepsOf, Idle
  <2>2. c.pc \in StepsOf(c.op) /\ (c.op = "none" => c = Idle)
    BY <2>1
  <2>. QED BY <1>1, <2>2 DEF StepsMatch
<1>3. OneLifecycleCall'
  BY <1>1 DEF OneLifecycleCall, LifecycleOps, Idle
<1>4. call[t] # Idle
  BY DEF Idle
<1>5. DestroyIsLast'
  BY <1>1, <1>4 DEF DestroyIsLast, Idle
<1>6. OneProcessor'
  BY <1>1 DEF OneProcessor, ProcessorRunning
<1>. QED BY <1>2, <1>3, <1>5, <1>6

(* A call going on to another step of its own method keeps CallsInv.        *)
LEMMA GotoMoves ==
  ASSUME TypeOK, CallsInv, NEW t \in Threads, NEW pc \in CallSteps \ {"spawn", "assign"},
         Goto(t, pc), pc \in StepsOf(call[t].op), call[t].op # "none",
         call[t].pc \notin {"idle", "spawn", "assign"},
         loop'.pc = loop.pc, lifetime' = lifetime, platform'.joinable = platform.joinable
  PROVE  CallsInv'
<1>. DEFINE c == [call[t] EXCEPT !.pc = pc]
<1>1. c \in CallStates /\ c.pc = pc /\ c.op = call[t].op
  BY DEF TypeOK, CallStates
<1>2. call' = [call EXCEPT ![t] = c]
  BY DEF Goto, TypeOK, CallStates
<1>. HIDE DEF c
<1>. QED BY <1>1, <1>2, CallMoves

(* The same of a step that begins a call.                                   *)
LEMMA CallBegins ==
  ASSUME TypeOK, CallsInv, NEW t \in Threads, NEW op \in CallOps, NEW pc \in CallSteps,
         Begin(t, op, pc), MayCall(t), pc \in StepsOf(op), op # "none",
         op \in LifecycleOps => \A u \in Threads : call[u].op \notin LifecycleOps,
         op = "destroy" => \A u \in Threads : call[u] = Idle,
         op = "process" => ~platform.joinable /\ pc = "spawn",
         loop'.pc = loop.pc, lifetime' = lifetime, platform'.joinable = platform.joinable
  PROVE  CallsInv'
<1>. USE DEF CallsInv
<1>. DEFINE c == [pc |-> pc, op |-> op, about |-> NoSocket]
<1>1. \A u \in Threads : call'[u] = IF u = t THEN c ELSE call[u]
  BY DEF TypeOK, Begin
<1>2. StepsMatch'
  BY <1>1 DEF StepsMatch
<1>3. OneLifecycleCall'
  BY <1>1 DEF OneLifecycleCall
<1>4. lifetime = "owned" /\ \A u \in Threads : call[u].op # "destroy"
  BY DEF MayCall
<1>5. DestroyIsLast'
  BY <1>1, <1>4 DEF DestroyIsLast
<1>6. call[t].pc = "idle"
  BY DEF MayCall, Idle
<1>7. pc = "spawn" => op = "process"
  BY DEF StepsOf, CallOps
<1>8. (op = "process") => loop.pc = "none"
  <2>1. \A u \in Threads : call[u].pc = "assign" => call[u].op = "process"
    BY DEF StepsMatch, StepsOf, TypeOK, CallStates, CallOps
  <2>. QED BY <1>4, <2>1 DEF OneProcessor, LifecycleOps
<1>9. OneProcessor'
  BY <1>1, <1>4, <1>6, <1>7, <1>8 DEF OneProcessor, ProcessorRunning
<1>. QED BY <1>2, <1>3, <1>5, <1>9

(* A call that begins keeps CallsInv.                                       *)
LEMMA NewCallCalls ==
  ASSUME TypeOK, CallsInv, NEW t \in Threads, NewCall(t)
  PROVE  CallsInv'
<1>1. CASE SendMessage(t) \/ CloseGracefully(t)
  <2>1. UNCHANGED <<call, loop, lifetime, platform.joinable>>
    BY <1>1 DEF SendMessage, Queued, CloseGracefully, ToClose, TypeOK, PlatformStates
  <2>. QED
    BY <2>1 DEF CallsInv, StepsMatch, OneLifecycleCall, DestroyIsLast, OneProcessor, ProcessorRunning
<1>2. ASSUME NEW op \in {"close", "connect", "destroy"}, MayCall(t), BeginClose(t, op),
             op # "close" => MayCallLifecycle(t),
             op = "destroy" => \A u \in Threads : call[u] = Idle
      PROVE  CallsInv'
  <2>1. PICK pc \in {"wake", "lock"} : Begin(t, op, pc)
    BY <1>2 DEF BeginClose
  <2>2. UNCHANGED <<loop, lifetime, platform.joinable>>
    BY <1>2 DEF BeginClose, TypeOK, PlatformStates
  <2>3. op \in CallOps /\ pc \in CallSteps /\ pc \in StepsOf(op)
    BY DEF CallOps, CallSteps, StepsOf
  <2>4. op \in LifecycleOps => \A u \in Threads : call[u].op \notin LifecycleOps
    BY <1>2 DEF MayCallLifecycle, LifecycleOps
  <2>. QED BY <1>2, <2>1, <2>2, <2>3, <2>4, CallBegins
<1>3. CASE Process(t)
  <2>1. MayCall(t) /\ \A u \in Threads : call[u].op \notin LifecycleOps
    BY <1>3 DEF Process, MayCallLifecycle, LifecycleOps
  <2>2. UNCHANGED <<loop, lifetime, platform.joinable>>
    BY <1>3 DEF Process, TypeOK, PlatformStates
  <2>3. CASE UNCHANGED call
    BY <2>2, <2>3 DEF CallsInv, StepsMatch, OneLifecycleCall, DestroyIsLast, OneProcessor, ProcessorRunning
  <2>4. CASE Begin(t, "process", "spawn") /\ ~platform.joinable
    <3>1. "process" \in CallOps /\ "spawn" \in CallSteps /\ "spawn" \in StepsOf("process")
      BY DEF CallOps, CallSteps, StepsOf
    <3>. QED BY <2>1, <2>2, <2>4, <3>1, CallBegins
  <2>. QED BY <1>3, <2>3, <2>4 DEF Process
<1>. QED
  BY <1>1, <1>2, <1>3
  DEF NewCall, CloseAbruptly, Connect, Destroy, MayCallLifecycle

(* A call that goes on keeps CallsInv.                                      *)
LEMMA ContinueCalls ==
  ASSUME TypeOK, CallsInv, NEW t \in Threads, Continue(t)
  PROVE  CallsInv'
<1>1. call[t] \in CallStates /\ AfterClose(call[t]) \in CallStates /\ Idle \in CallStates
  BY AfterCloseType DEF TypeOK, CallStates, CallSteps, CallOps, Idle, NoSocket
<1>2. call[t].pc \in StepsOf(call[t].op)
  BY DEF CallsInv, StepsMatch
<1>3. ASSUME NEW pc \in CallSteps
      PROVE  /\ [call[t] EXCEPT !.pc = pc] \in CallStates
             /\ [call[t] EXCEPT !.pc = pc].pc = pc
             /\ [call[t] EXCEPT !.pc = pc].op = call[t].op
             /\ Goto(t, pc) => call' = [call EXCEPT ![t] = [call[t] EXCEPT !.pc = pc]]
  BY <1>1 DEF CallStates, Goto, TypeOK
<1>4. CASE Wake(t)
  <2>1. call[t].pc = "wake" /\ Goto(t, "lock") /\ UNCHANGED <<loop, lifetime, platform.joinable>>
    BY <1>4 DEF Wake, Woken, TypeOK, PlatformStates
  <2>2. call[t].op # "none" /\ "lock" \in StepsOf(call[t].op) /\ "lock" \in CallSteps
    BY <1>1, <1>2, <2>1 DEF StepsOf, CallStates, CallOps, CallSteps
  <2>. QED BY <2>1, <2>2, GotoMoves
<1>5. CASE LockAndClose(t)
  <2>1. call[t].pc = "lock" /\ UNCHANGED <<loop, lifetime, platform.joinable>>
    BY <1>5 DEF LockAndClose, Disconnected, TypeOK, PlatformStates
  <2>2. CASE call' = [call EXCEPT ![t] = AfterClose(call[t])]
    <3>. DEFINE c == AfterClose(call[t])
    <3>1. /\ c = Idle \/ (c.op = call[t].op /\ c.op # "none" /\ c.pc \in StepsOf(c.op))
          /\ c.pc \notin {"spawn", "assign"}
      BY <1>1, <1>2, <2>1 DEF AfterClose, StepsOf, CallStates, CallOps, Idle
    <3>. HIDE DEF c
    <3>. QED BY <1>1, <2>1, <2>2, <3>1, CallMoves DEF c
  <2>3. CASE call' = [call EXCEPT ![t].pc = "broken", ![t].about = platform.sock]
    <3>. DEFINE c == [call[t] EXCEPT !.pc = "broken", !.about = platform.sock]
    <3>1. call' = [call EXCEPT ![t] = c]
      BY <1>1, <2>3 DEF TypeOK, CallStates
    <3>2. c \in CallStates /\ c.op = call[t].op /\ c.pc = "broken"
      BY <1>1 DEF TypeOK, PlatformStates, CallStates, CallSteps
    <3>3. c.op # "none" /\ c.pc \in StepsOf(c.op)
      BY <1>1, <1>2, <2>1, <3>2 DEF StepsOf, CallStates, CallOps
    <3>. HIDE DEF c
    <3>. QED BY <2>1, <3>1, <3>2, <3>3, CallMoves
  <2>. QED BY <1>5, <2>2, <2>3 DEF LockAndClose
<1>6. CASE CallBroken(t)
  <2>. DEFINE c == AfterClose(call[t])
  <2>1. /\ call[t].pc = "broken" /\ UNCHANGED <<loop, lifetime, platform.joinable>>
        /\ call' = [call EXCEPT ![t] = c]
    BY <1>6 DEF CallBroken, object
  <2>2. /\ c = Idle \/ (c.op = call[t].op /\ c.op # "none" /\ c.pc \in StepsOf(c.op))
        /\ c.pc \notin {"spawn", "assign"}
    BY <1>1, <1>2, <2>1 DEF AfterClose, StepsOf, CallStates, CallOps, Idle
  <2>3. c \in CallStates
    BY <1>1
  <2>. HIDE DEF c
  <2>. QED BY <2>1, <2>2, <2>3, CallMoves
<1>7. CASE CreateSocket(t) \/ Establish(t) \/ GiveUp(t) \/ MakeNonBlocking(t)
  <2>1. /\ call[t].pc \in {"socket", "connecting", "giveUp", "nonblock"}
        /\ UNCHANGED <<loop, lifetime, platform.joinable>>
    BY <1>7 DEF CreateSocket, Establish, GiveUp, MakeNonBlocking, Disconnected, object,
                TypeOK, PlatformStates
  <2>2. call[t].op = "connect"
    BY <1>1, <1>2, <2>1 DEF StepsOf, CallStates, CallOps
  <2>3. ASSUME NEW pc \in {"connecting", "nonblock", "giveUp"}, Goto(t, pc) PROVE CallsInv'
    <3>1. pc \in CallSteps /\ pc \in StepsOf("connect")
      BY DEF CallSteps, StepsOf
    <3>. QED BY <2>1, <2>2, <2>3, <3>1, GotoMoves
  <2>4. ASSUME Return(t) PROVE CallsInv'
    <3>1. Idle.pc = "idle"
      BY DEF Idle
    <3>. QED BY <1>1, <2>1, <2>4, <3>1, CallMoves DEF Return
  <2>. QED BY <1>7, <2>3, <2>4 DEF CreateSocket, Establish, GiveUp, MakeNonBlocking
<1>8. ASSUME Spawn(t) \/ AssignProcessor(t)
      PROVE  /\ call[t].op = "process" /\ lifetime = "owned"
             /\ \A u \in Threads : u # t => call[u].op \notin LifecycleOps
             /\ \A u \in Threads : u # t => call[u].pc \notin {"spawn", "assign"}
  <2>1. call[t].pc \in {"spawn", "assign"}
    BY <1>8 DEF Spawn, AssignProcessor
  <2>2. call[t].op = "process"
    BY <1>1, <1>2, <2>1 DEF StepsOf, CallStates, CallOps
  <2>3. lifetime = "owned"
    BY <2>1 DEF CallsInv, DestroyIsLast, Idle
  <2>4. \A u \in Threads : u # t => call[u].op \notin LifecycleOps
    BY <2>2 DEF CallsInv, OneLifecycleCall, LifecycleOps
  <2>5. \A u \in Threads : u # t => call[u].pc \notin {"spawn", "assign"}
    BY <2>4 DEF CallsInv, StepsMatch, StepsOf, TypeOK, CallStates, CallOps, LifecycleOps
  <2>. QED BY <2>2, <2>3, <2>4, <2>5
<1>9. CASE Spawn(t)
  <2>. DEFINE c == [call[t] EXCEPT !.pc = "assign"]
  <2>1. /\ loop'.pc = "enter" /\ lifetime' = lifetime
        /\ call' = [call EXCEPT ![t] = c]
        /\ c.pc = "assign" /\ c.op = "process"
    BY <1>3, <1>8, <1>9 DEF Spawn, NoLoop, CallSteps
  <2>. HIDE DEF c
  <2>2. \A u \in Threads : call'[u] = IF u = t THEN c ELSE call[u]
    BY <2>1 DEF TypeOK
  <2>3. StepsMatch'
    <3>1. c.pc \in StepsOf(c.op) /\ c.op # "none"
      BY <2>1 DEF StepsOf
    <3>. QED BY <2>2, <3>1 DEF CallsInv, StepsMatch
  <2>4. OneLifecycleCall' /\ DestroyIsLast'
    BY <1>8, <1>9, <2>1, <2>2 DEF CallsInv, OneLifecycleCall, DestroyIsLast, LifecycleOps, Idle
  <2>5. OneProcessor'
    BY <1>8, <1>9, <2>1, <2>2 DEF OneProcessor
  <2>. QED BY <2>3, <2>4, <2>5 DEF CallsInv
<1>10. CASE AssignProcessor(t)
  <2>1. /\ loop' = loop /\ lifetime' = lifetime /\ platform'.joinable
        /\ \A u \in Threads : call'[u] = IF u = t THEN Idle ELSE call[u]
    BY <1>10 DEF AssignProcessor, Return, TypeOK, PlatformStates
  <2>2. StepsMatch'
    <3>1. Idle.pc \in StepsOf(Idle.op)
      BY DEF StepsOf, Idle
    <3>. QED BY <2>1, <3>1 DEF CallsInv, StepsMatch
  <2>3. OneLifecycleCall' /\ DestroyIsLast'
    BY <1>8, <1>10, <2>1 DEF CallsInv, OneLifecycleCall, DestroyIsLast, LifecycleOps, Idle
  <2>4. OneProcessor'
    BY <1>8, <1>10, <2>1 DEF OneProcessor, Idle
  <2>. QED BY <2>2, <2>3, <2>4 DEF CallsInv
<1>11. CASE Release(t)
  <2>1. /\ call[t].pc = "release" /\ loop' = loop
        /\ \A u \in Threads : call'[u] = IF u = t THEN Idle ELSE call[u]
        /\ lifetime' # "owned"
        /\ lifetime' = "destroyed" => ~ProcessorRunning
    BY <1>11 DEF Release, Return, ThreadKeepsImpl, TypeOK
  <2>2. call[t].op = "destroy"
    BY <1>1, <1>2, <2>1 DEF StepsOf, CallStates, CallOps
  <2>3. \A u \in Threads : call'[u] = Idle
    BY <2>1, <2>2 DEF CallsInv, DestroyIsLast
  <2>4. StepsMatch'
    <3>1. Idle.pc \in StepsOf(Idle.op)
      BY DEF StepsOf, Idle
    <3>. QED BY <2>3, <3>1 DEF StepsMatch
  <2>5. OneLifecycleCall' /\ DestroyIsLast'
    BY <2>3 DEF OneLifecycleCall, DestroyIsLast, LifecycleOps, Idle
  <2>6. OneProcessor'
    BY <2>1, <2>3 DEF OneProcessor, Idle, ProcessorRunning
  <2>. QED BY <2>4, <2>5, <2>6 DEF CallsInv
<1>. QED BY <1>4, <1>5, <1>6, <1>7, <1>9, <1>10, <1>11 DEF Continue

(* The processor takes and drops the mutex where its loop enters and leaves *)
(* the stretches that need it, ends only by leaving the loop, and drops its *)
(* reference to the object only then.                                       *)
LEMMA LoopMoves ==
  ASSUME TypeOK, LockDiscipline, ProcessorStep \/ SelectFails
  PROVE  /\ LockDiscipline'
         /\ loop.pc \notin {"none", "done"} /\ loop'.pc # "none"
         /\ \/ UNCHANGED <<lifetime, platform.joinable>>
            \/ lifetime = "released" /\ lifetime' = "destroyed" /\ loop'.pc = "done"
         /\ loop'.pc = "done" => lifetime # "released" \/ lifetime' = "destroyed"
         /\ call' = call
<1>. USE ConnectionAssumption
     DEF LockDiscipline, LockedSteps, object, TypeOK, LoopStates, Step, Unlock, Threads
<1>1. CASE Enter
  BY <1>1 DEF Enter, ProcessorLocks
<1>2. CASE TestLoop
  <2>1. \/ loop'.pc \in {"exit", "recv"} /\ UNCHANGED processingMutex
        \/ loop'.pc = "select" /\ processingMutex' = NoThread
    BY <1>2 DEF TestLoop
  <2>2. loop.pc = "test" /\ UNCHANGED <<platform, lifetime, call>>
    BY <1>2 DEF TestLoop
  <2>. QED BY <2>1, <2>2
<1>3. CASE SelectReturns \/ SelectFails
  <2>1. loop.pc = "select" /\ loop'.pc = "relock"
    BY <1>3 DEF SelectReturns, SelectFails
  <2>2. UNCHANGED <<processingMutex, platform, lifetime, call>>
    BY <1>3 DEF SelectReturns, SelectFails
  <2>. QED BY <2>1, <2>2
<1>4. CASE Relock
  BY <1>4 DEF Relock, ProcessorLocks, PlatformStates
<1>5. CASE RecvFails \/ SendFails
  <2>1. loop.pc \in {"recv", "send"} /\ BreakAbruptly /\ UNCHANGED <<lifetime, call>>
    BY <1>5 DEF RecvFails, SendFails
  <2>2. \/ loop'.pc = "unlocked" /\ processingMutex' = NoThread
        \/ loop'.pc = "exit" /\ UNCHANGED processingMutex
    BY <2>1 DEF BreakAbruptly, DropForDelegate
  <2>3. platform'.joinable = platform.joinable
    BY <2>1 DEF BreakAbruptly, Disconnected, PlatformStates
  <2>. QED BY <2>1, <2>2, <2>3
<1>6. CASE ReceiveMessage
  BY <1>6 DEF ReceiveMessage, DropForDelegate
<1>7. CASE ReceiveEndOfStream
  BY <1>7 DEF ReceiveEndOfStream, ReportEndOfStream, EndOfStreamSeen, DropForDelegate, PlatformStates
<1>8. CASE ReceiveNothing
  BY <1>8 DEF ReceiveNothing
<1>9. CASE CallDelegate \/ DelegateReturns
  BY <1>9 DEF CallDelegate, DelegateReturns
<1>10. CASE Resume
  BY <1>10 DEF Resume, ProcessorLocks
<1>11. CASE SendNothing \/ SendBlocked
  BY <1>11 DEF SendNothing, SendBlocked
<1>12. CASE SendSome
  BY <1>12 DEF SendSome, PlatformStates
<1>13. CASE FinishLoop
  <2>1. loop.pc = "finish" /\ UNCHANGED <<lifetime, call>>
    BY <1>13 DEF FinishLoop
  <2>2. \/ loop'.pc = "unlocked" /\ processingMutex' = NoThread
        \/ loop'.pc = "test" /\ UNCHANGED processingMutex
    BY <1>13 DEF FinishLoop, DropForDelegate
  <2>3. platform'.joinable = platform.joinable
    BY <1>13 DEF FinishLoop, Disconnected, PlatformStates
  <2>. QED BY <2>1, <2>2, <2>3
<1>14. CASE Exit
  BY <1>14 DEF Exit
<1>. QED
  BY <1>1, <1>2, <1>3, <1>4, <1>5, <1>6, <1>7, <1>8, <1>9, <1>10, <1>11, <1>12,
     <1>13, <1>14 DEF ProcessorStep

(* A step of the processor keeps CallsInv.                                  *)
LEMMA ProcessorStepCalls ==
  ASSUME TypeOK, CallsInv, LockDiscipline, ProcessorStep \/ SelectFails
  PROVE  CallsInv'
<1>1. StepsMatch' /\ OneLifecycleCall' /\ DestroyIsLast'
  BY LoopMoves DEF CallsInv, StepsMatch, OneLifecycleCall, DestroyIsLast
<1>2. OneProcessor'
  BY LoopMoves DEF CallsInv, OneProcessor, DestroyIsLast, Idle, ProcessorRunning
<1>. QED BY <1>1, <1>2 DEF CallsInv

(* Nothing else touches the mutex; Process starts the processor only when   *)
(* there is none, which therefore does not hold it.                         *)
LEMMA CallLocks ==
  ASSUME TypeOK, CallsInv, LockDiscipline, NEW t \in Threads, NewCall(t) \/ Continue(t)
  PROVE  LockDiscipline'
<1>1. CASE Spawn(t)
  <2>1. loop.pc = "none" /\ loop'.pc = "enter" /\ processingMutex' = processingMutex
    BY <1>1 DEF Spawn, NoLoop, CallsInv, OneProcessor
  <2>. QED BY <2>1 DEF LockDiscipline, LockedSteps
<1>2. CASE ~Spawn(t)
  <2>1. UNCHANGED <<loop, processingMutex>>
    BY <1>2 DEF NewCall, SendMessage, CloseGracefully, CloseAbruptly, Connect, Process,
         Destroy, BeginClose, Continue, Wake, LockAndClose, CallBroken, CreateSocket,
         Establish, GiveUp, MakeNonBlocking, AssignProcessor, Release, object
  <2>. QED BY <2>1 DEF LockDiscipline
<1>. QED BY <1>1, <1>2

-----------------------------------------------------------------------------
(* SocketsInv and BrokenExactlyOnce.                                        *)

(* There is no socket at the start, and nobody owes a report.               *)
LEMMA SocketsInit == Init => SocketsInv /\ BrokenExactlyOnce
<1>1. ASSUME Init PROVE SocketsInv
  BY <1>1 DEF Init, SocketsInv, LatestSocket, CallsAndSockets, LoopAndSockets,
              BetweenSockets, ReportedSocketsAreClosed, Socket, Idle, NoLoop
<1>2. ASSUME Init PROVE BrokenExactlyOnce
  BY <1>2 DEF Init, BrokenExactlyOnce, Reporting, ProcessorReporting, Idle, NoLoop
<1>. QED BY <1>1, <1>2

(* No thread starts or stops reporting a socket.                            *)
SameReports ==
  /\ \A t \in Threads : /\ call'[t].pc = "broken" <=> call[t].pc = "broken"
                        /\ call[t].pc = "broken" => call'[t].about = call[t].about
  /\ \A s \in Sockets : ProcessorReporting(s)' <=> ProcessorReporting(s)

(* What the processor's own variables must satisfy after a step.            *)
LoopStays ==
  /\ loop'.pc = "finish" => platform'.sock # NoSocket
  /\ loop'.pc = "unlocked" => loop'.kind # "none" /\ loop'.about \in Sockets

(* Who reports a socket depends on what SameReports leaves alone.           *)
LEMMA ReportingSame ==
  ASSUME SameReports, NEW s \in Sockets
  PROVE  Reporting(s)' = Reporting(s) /\ (ProcessorReporting(s)' <=> ProcessorReporting(s))
BY DEF SameReports, Reporting

(* A step that opens, closes and reports nothing.                           *)
LEMMA QuietStep ==
  ASSUME SocketsInv, BrokenExactlyOnce, SameReports, LoopStays,
         UNCHANGED <<platform.sock, tcp.id, log.owed, log.broken>>,
         \A t \in Threads : BetweenSockets(call'[t]) => BetweenSockets(call[t]) \/ ~Connected
  PROVE  SocketsInv' /\ BrokenExactlyOnce'
<1>1. LatestSocket'
  BY DEF SocketsInv, LatestSocket, ReportedSocketsAreClosed
<1>2. CallsAndSockets'
  BY DEF SocketsInv, CallsAndSockets, SameReports, Connected
<1>3. LoopAndSockets'
  BY DEF LoopStays, LoopAndSockets, Connected
<1>4. BrokenExactlyOnce'
  BY ReportingSame DEF BrokenExactlyOnce
<1>. QED BY <1>1, <1>2, <1>3, <1>4 DEF SocketsInv

(* A step that closes the descriptor without owing anyone a report.         *)
LEMMA SilentDisconnect ==
  ASSUME TypeOK, SocketsInv, BrokenExactlyOnce, SameReports, LoopStays,
         platform'.sock = NoSocket, UNCHANGED <<tcp.id, log.owed, log.broken>>
  PROVE  SocketsInv' /\ BrokenExactlyOnce'
<1>1. LatestSocket'
  BY DEF SocketsInv, LatestSocket, ReportedSocketsAreClosed, TypeOK, Histories, Sockets, NoSocket
<1>2. CallsAndSockets'
  BY DEF SocketsInv, CallsAndSockets, SameReports, Connected
<1>3. LoopAndSockets'
  BY DEF LoopStays, LoopAndSockets, Connected
<1>4. BrokenExactlyOnce'
  BY ReportingSame DEF BrokenExactlyOnce
<1>. QED BY <1>1, <1>2, <1>3, <1>4 DEF SocketsInv

(* The open socket has been neither reported nor promised a report: so when *)
(* it is closed there is none but the one its closing obliges to.           *)
LEMMA OpenSocketUnreported ==
  ASSUME TypeOK, SocketsInv, BrokenExactlyOnce, Connected
  PROVE  /\ platform.sock \in Sockets /\ platform.sock = tcp.id
         /\ platform.sock \notin log.owed
         /\ log.broken[platform.sock] = 0
         /\ Reporting(platform.sock) = {}
         /\ ~ProcessorReporting(platform.sock)
<1>1. platform.sock \in Sockets /\ platform.sock = tcp.id
  BY DEF Connected, TypeOK, PlatformStates, SocketsInv, LatestSocket
<1>2. platform.sock \notin log.owed
  BY DEF SocketsInv, LatestSocket, ReportedSocketsAreClosed
<1>3. log.broken[platform.sock] \in Nat
  BY <1>1 DEF TypeOK, Histories
<1>4. /\ log.broken[platform.sock] <= 1 /\ log.broken[platform.sock] # 1
      /\ Reporting(platform.sock) = {}
      /\ ~ProcessorReporting(platform.sock)
  BY <1>1, <1>2 DEF BrokenExactlyOnce
<1>. QED BY <1>1, <1>2, <1>3, <1>4

(* A step that closes the descriptor and makes one thread, or the           *)
(* processor, its reporter.                                                 *)
LEMMA OwingDisconnect ==
  ASSUME TypeOK, SocketsInv, BrokenExactlyOnce, LoopStays, Connected,
         NEW s \in Sockets, s = platform.sock,
         platform'.sock = NoSocket, UNCHANGED <<tcp.id, log.broken>>,
         log'.owed = log.owed \cup {s},
         \A r \in Sockets : r # s =>
           Reporting(r)' = Reporting(r) /\ (ProcessorReporting(r)' <=> ProcessorReporting(r)),
         \/ Reporting(s)' = {} /\ ProcessorReporting(s)'
         \/ ~ProcessorReporting(s)' /\ \E t \in Threads : Reporting(s)' = {t},
         \A t \in Threads : call'[t].pc = "broken" => call'[t].about \in Sockets
  PROVE  SocketsInv' /\ BrokenExactlyOnce'
<1>1. LatestSocket'
  BY OpenSocketUnreported
  DEF SocketsInv, LatestSocket, ReportedSocketsAreClosed, TypeOK, Histories, Sockets, NoSocket
<1>2. CallsAndSockets'
  BY DEF CallsAndSockets, Connected
<1>3. LoopAndSockets'
  BY DEF LoopStays, LoopAndSockets, Connected
<1>4. log.broken[s] = 0
  BY OpenSocketUnreported
<1>5. BrokenExactlyOnce'
  BY <1>4 DEF BrokenExactlyOnce
<1>. QED BY <1>1, <1>2, <1>3, <1>5 DEF SocketsInv

(* A step by which the one who owes a report of socket s makes it.          *)
LEMMA ReportStep ==
  ASSUME TypeOK, SocketsInv, BrokenExactlyOnce, LoopStays, NEW s \in Sockets,
         UNCHANGED <<platform.sock, tcp.id, log.owed>>,
         log' = NotifyBroken(log, s),
         Reporting(s) # {} \/ ProcessorReporting(s),
         Reporting(s)' = {}, ~ProcessorReporting(s)',
         \A r \in Sockets : r # s =>
           Reporting(r)' = Reporting(r) /\ (ProcessorReporting(r)' <=> ProcessorReporting(r)),
         \A t \in Threads : BetweenSockets(call'[t]) => BetweenSockets(call[t]) \/ ~Connected,
         \A t \in Threads : call'[t].pc = "broken" => call'[t].about \in Sockets
  PROVE  SocketsInv' /\ BrokenExactlyOnce'
<1>1. LatestSocket'
  BY DEF SocketsInv, LatestSocket, ReportedSocketsAreClosed
<1>2. CallsAndSockets'
  BY DEF SocketsInv, CallsAndSockets, Connected
<1>3. LoopAndSockets'
  BY DEF LoopStays, LoopAndSockets, Connected
<1>4. log.broken[s] = 0
  <2>1. log.broken[s] \in Nat
    BY DEF TypeOK, Histories
  <2>. QED BY <2>1 DEF BrokenExactlyOnce
<1>5. \A r \in Sockets : log'.broken[r] = IF r = s THEN 1 ELSE log.broken[r]
  BY <1>4 DEF NotifyBroken, TypeOK, Histories
<1>6. s \in log.owed
  BY DEF BrokenExactlyOnce
<1>7. BrokenExactlyOnce'
  BY <1>5, <1>6 DEF BrokenExactlyOnce
<1>. QED BY <1>1, <1>2, <1>3, <1>7 DEF SocketsInv

(* The application's calls: a call begins without touching the sockets.     *)
LEMMA NewCallSockets ==
  ASSUME TypeOK, SocketsInv, BrokenExactlyOnce, NEW t \in Threads, NewCall(t)
  PROVE  SocketsInv' /\ BrokenExactlyOnce'
<1>. USE DEF object
<1>1. /\ UNCHANGED <<platform.sock, tcp, log.owed, log.broken, loop>>
  <2>1. CASE SendMessage(t) \/ CloseGracefully(t)
    BY <2>1 DEF SendMessage, Queued, CloseGracefully, ToClose, TypeOK, PlatformStates, Histories
  <2>2. CASE CloseAbruptly(t) \/ Connect(t) \/ Destroy(t)
    BY <2>2 DEF CloseAbruptly, Connect, Destroy, BeginClose, TypeOK, PlatformStates
  <2>3. CASE Process(t)
    BY <2>3 DEF Process, TypeOK, PlatformStates, Histories
  <2>. QED BY <2>1, <2>2, <2>3 DEF NewCall
<1>2. call[t] = Idle
  BY DEF NewCall, SendMessage, CloseGracefully, CloseAbruptly, Connect, Destroy, Process,
         MayCallLifecycle, MayCall
<1>3. \A u \in Threads :
        call'[u].pc \in {"broken", "socket"} \/ call[u].pc \in {"broken", "socket"}
          => call'[u] = call[u]
  <2>1. ASSUME NEW op, NEW pc \in {"wake", "lock", "spawn"}, Begin(t, op, pc)
        PROVE  \A u \in Threads : \/ call'[u] = call[u]
                                  \/ u = t /\ call'[u].pc = pc
    BY <2>1 DEF Begin, TypeOK
  <2>2. CASE SendMessage(t) \/ CloseGracefully(t)
    BY <2>2 DEF SendMessage, CloseGracefully
  <2>3. CASE CloseAbruptly(t) \/ Connect(t) \/ Destroy(t)
    <3>1. \E op : BeginClose(t, op)
      BY <2>3 DEF CloseAbruptly, Connect, Destroy
    <3>. QED BY <1>2, <2>1, <3>1 DEF BeginClose, Idle
  <2>4. CASE Process(t)
    <3>1. call' = call \/ Begin(t, "process", "spawn")
      BY <2>4 DEF Process
    <3>. QED BY <1>2, <2>1, <3>1 DEF Idle
  <2>. QED BY <2>2, <2>3, <2>4 DEF NewCall
<1>4. SameReports
  BY <1>1, <1>3 DEF SameReports, ProcessorReporting
<1>5. LoopStays
  BY <1>1 DEF LoopStays, SocketsInv, LoopAndSockets, Connected
<1>6. \A u \in Threads : BetweenSockets(call'[u]) => BetweenSockets(call[u]) \/ ~Connected
  BY <1>3 DEF BetweenSockets
<1>. QED BY <1>1, <1>4, <1>5, <1>6, QuietStep

(* A call goes on.                                                          *)
LEMMA ContinueSockets ==
  ASSUME IInv, NEW t \in Threads, Continue(t)
  PROVE  SocketsInv' /\ BrokenExactlyOnce'
<1>. USE DEF object, IInv
<1>1. ASSUME NEW c \in CallStates, call' = [call EXCEPT ![t] = c]
      PROVE  \A u \in Threads : call'[u] = IF u = t THEN c ELSE call[u]
  BY <1>1 DEF TypeOK
<1>2. ASSUME loop' = loop
      PROVE  \A s \in Sockets : ProcessorReporting(s)' <=> ProcessorReporting(s)
  BY <1>2 DEF ProcessorReporting
<1>3. ASSUME loop' = loop, platform'.sock = platform.sock \/ loop.pc # "finish"
      PROVE  LoopStays
  BY <1>3 DEF LoopStays, SocketsInv, LoopAndSockets, Connected
<1>4. processingMutex = NoThread => loop.pc # "finish"
  BY ConnectionAssumption DEF LockDiscipline, LockedSteps
<1>5. CASE Wake(t) \/ Establish(t) \/ MakeNonBlocking(t) \/ AssignProcessor(t) \/ Release(t)
  <2>1. UNCHANGED <<platform.sock, tcp.id, log.owed, log.broken, loop>>
    BY <1>5 DEF Wake, Woken, Establish, MakeNonBlocking, AssignProcessor, Release,
                TypeOK, PlatformStates, TcpStates, Histories
  <2>2. /\ call[t].pc \notin {"broken", "socket"}
        /\ \A u \in Threads : \/ call'[u] = call[u]
                              \/ u = t /\ call'[u].pc \notin {"broken", "socket"}
    BY <1>5 DEF Wake, Establish, MakeNonBlocking, AssignProcessor, Release, Goto, Return, Idle,
                TypeOK, CallStates
  <2>3. SameReports
    BY <1>2, <2>1, <2>2 DEF SameReports
  <2>4. \A u \in Threads : BetweenSockets(call'[u]) => BetweenSockets(call[u])
    BY <2>2 DEF BetweenSockets
  <2>. QED BY <1>3, <2>1, <2>3, <2>4, QuietStep
<1>6. CASE Spawn(t)
  <2>1. /\ UNCHANGED <<platform.sock, tcp.id, log.owed, log.broken>>
        /\ loop.pc = "none" /\ loop'.pc = "enter"
    BY <1>6 DEF Spawn, NoLoop, CallsInv, OneProcessor, TypeOK, PlatformStates
  <2>2. /\ call[t].pc \notin {"broken", "socket"}
        /\ \A u \in Threads : \/ call'[u] = call[u]
                              \/ u = t /\ call'[u].pc \notin {"broken", "socket"}
    BY <1>6 DEF Spawn, Goto, TypeOK, CallStates
  <2>3. SameReports /\ LoopStays
    BY <2>1, <2>2 DEF SameReports, LoopStays, ProcessorReporting
  <2>4. \A u \in Threads : BetweenSockets(call'[u]) => BetweenSockets(call[u])
    BY <2>2 DEF BetweenSockets
  <2>. QED BY <2>1, <2>3, <2>4, QuietStep
<1>7. CASE LockAndClose(t)
  <2>1. /\ call[t].pc = "lock" /\ loop' = loop /\ LoopStays
        /\ \A s \in Sockets : ProcessorReporting(s)' <=> ProcessorReporting(s)
    BY <1>2, <1>3, <1>4, <1>7 DEF LockAndClose
  <2>. DEFINE c == AfterClose(call[t])
              b == [call[t] EXCEPT !.pc = "broken", !.about = platform.sock]
  <2>2. c \in CallStates /\ c.pc # "broken"
    BY AfterCloseType DEF AfterClose, Idle, TypeOK, CallStates
  <2>3. b \in CallStates /\ b.pc = "broken" /\ b.about = platform.sock
    BY DEF TypeOK, PlatformStates, CallStates, CallSteps
  <2>4. CASE ~Connected
    <3>1. UNCHANGED <<platform, tcp, log>> /\ call' = [call EXCEPT ![t] = c]
      BY <1>7, <2>4 DEF LockAndClose
    <3>. HIDE DEF c
    <3>2. SameReports
      BY <1>1, <2>1, <2>2, <3>1 DEF SameReports
    <3>. QED BY <2>1, <2>4, <3>1, <3>2, QuietStep
  <2>5. CASE Connected /\ ~platform.delegates
    <3>1. platform'.sock = NoSocket /\ UNCHANGED <<tcp.id, log>> /\ call' = [call EXCEPT ![t] = c]
      BY <1>7, <2>5 DEF LockAndClose, MustReport, Owe, Disconnected, Closed, TypeOK, PlatformStates, TcpStates
    <3>. HIDE DEF c
    <3>2. SameReports
      BY <1>1, <2>1, <2>2, <3>1 DEF SameReports
    <3>. QED BY <2>1, <3>1, <3>2, SilentDisconnect
  <2>6. CASE Connected /\ platform.delegates
    <3>0. PICK s \in Sockets : s = platform.sock
      BY <2>6, OpenSocketUnreported
    <3>1. /\ platform'.sock = NoSocket /\ tcp'.id = tcp.id
          /\ log'.broken = log.broken /\ log'.owed = log.owed \cup {s}
      BY <1>7, <2>6, <3>0
      DEF LockAndClose, Owe, Disconnected, Closed, TypeOK, PlatformStates, TcpStates, Histories
    <3>2. call' = [call EXCEPT ![t] = b]
      BY <1>7, <2>6 DEF LockAndClose, MustReport, TypeOK, CallStates
    <3>3. b.about = s
      BY <2>3, <3>0
    <3>4. Reporting(s) = {} /\ ~ProcessorReporting(s)
      BY <2>6, <3>0, OpenSocketUnreported
    <3>. HIDE DEF b
    <3>5. \A u \in Threads : call'[u] = IF u = t THEN b ELSE call[u]
      BY <1>1, <2>3, <3>2
    <3>6. \A r \in Sockets : r # s => Reporting(r)' = Reporting(r)
      BY <2>1, <2>3, <3>3, <3>5 DEF Reporting
    <3>7. Reporting(s)' = {t}
      <4>1. \A u \in Threads : ~(call[u].pc = "broken" /\ call[u].about = s)
        BY <3>4 DEF Reporting
      <4>2. \A u \in Threads : call'[u].pc = "broken" /\ call'[u].about = s <=> u = t
        BY <2>3, <3>3, <3>5, <4>1
      <4>. QED BY <4>2 DEF Reporting
    <3>8. ~ProcessorReporting(s)'
      BY <2>1, <3>4
    <3>9. \A u \in Threads : call'[u].pc = "broken" => call'[u].about \in Sockets
      BY <2>3, <3>3, <3>5 DEF SocketsInv, CallsAndSockets
    <3>. QED BY <2>1, <2>6, <3>0, <3>1, <3>6, <3>7, <3>8, <3>9, OwingDisconnect
  <2>. QED BY <2>4, <2>5, <2>6
<1>8. CASE CallBroken(t)
  <2>. DEFINE c == AfterClose(call[t])
  <2>0. PICK s \in Sockets : s = call[t].about
    BY <1>8 DEF CallBroken, SocketsInv, CallsAndSockets
  <2>1. /\ call[t].pc = "broken" /\ UNCHANGED <<platform, tcp, loop>>
        /\ log' = NotifyBroken(log, s) /\ call' = [call EXCEPT ![t] = c]
    BY <1>8, <2>0 DEF CallBroken
  <2>2. c \in CallStates /\ c.pc # "broken"
    BY AfterCloseType DEF AfterClose, Idle, TypeOK, CallStates
  <2>3. BetweenSockets(c) => BetweenSockets(call[t])
    BY <2>1 DEF AfterClose, BetweenSockets, Idle, TypeOK, CallStates
  <2>4. t \in Reporting(s)
    BY <2>0, <2>1 DEF Reporting
  <2>. HIDE DEF c
  <2>5. \A u \in Threads : call'[u] = IF u = t THEN c ELSE call[u]
    BY <1>1, <2>1, <2>2
  <2>6. /\ Reporting(s)' = {} /\ ~ProcessorReporting(s)
        /\ \A r \in Sockets : r # s => Reporting(r)' = Reporting(r)
    <3>1. Reporting(s) = {t} /\ ~ProcessorReporting(s)
      BY <2>4 DEF BrokenExactlyOnce
    <3>2. call[t].about = s
      BY <2>4 DEF Reporting
    <3>. QED BY <2>2, <2>5, <3>1, <3>2 DEF Reporting
  <2>7. \A u \in Threads : call'[u].pc = "broken" => call'[u].about \in Sockets
    BY <2>2, <2>5 DEF SocketsInv, CallsAndSockets
  <2>8. \A u \in Threads : BetweenSockets(call'[u]) => BetweenSockets(call[u])
    BY <2>3, <2>5
  <2>9. /\ LoopStays /\ \A r \in Sockets : ProcessorReporting(r)' <=> ProcessorReporting(r)
        /\ UNCHANGED <<platform.sock, tcp.id, log.owed>>
    BY <1>2, <1>3, <2>1 DEF NotifyBroken, TypeOK, Histories
  <2>. QED BY <2>1, <2>4, <2>6, <2>7, <2>8, <2>9, ReportStep
<1>9. CASE GiveUp(t)
  <2>1. /\ call[t].pc = "giveUp" /\ loop' = loop /\ LoopStays
        /\ \A s \in Sockets : ProcessorReporting(s)' <=> ProcessorReporting(s)
    BY <1>2, <1>3, <1>4, <1>9 DEF GiveUp
  <2>2. \A u \in Threads : \/ call'[u] = call[u]
                           \/ u = t /\ call'[u].pc = "idle"
    BY <1>9 DEF GiveUp, Return, Idle, TypeOK
  <2>3. SameReports
    BY <2>1, <2>2 DEF SameReports
  <2>4. platform'.sock = NoSocket /\ UNCHANGED <<tcp.id, log>>
    BY <1>9 DEF GiveUp, Connected, Disconnected, Closed, TypeOK, PlatformStates, TcpStates
  <2>. QED BY <2>1, <2>3, <2>4, SilentDisconnect
<1>10. CASE CreateSocket(t)
  <2>1. /\ call[t].pc = "socket" /\ UNCHANGED <<loop, log>>
        /\ \/ /\ tcp.id < MaxSockets /\ platform'.sock = tcp.id + 1 /\ tcp'.id = tcp.id + 1
           \/ platform'.sock = NoSocket /\ tcp' = tcp
    BY <1>10 DEF CreateSocket, Socket, TypeOK, PlatformStates
  <2>2. ~Connected
    BY <2>1 DEF SocketsInv, CallsAndSockets, BetweenSockets
  <2>3. \A u \in Threads : \/ u # t /\ call'[u] = call[u]
                           \/ u = t /\ call'[u].pc \in {"idle", "connecting"}
    BY <1>10 DEF CreateSocket, Goto, Return, Idle, TypeOK, CallStates
  <2>4. SameReports
    BY <1>2, <2>1, <2>3 DEF SameReports
  <2>5. call[t].op = "connect"
    BY <2>1 DEF CallsInv, StepsMatch, StepsOf, TypeOK, CallStates, CallOps
  <2>6. \A u \in Threads : ~BetweenSockets(call'[u])
    <3>1. \A u \in Threads : BetweenSockets(call[u]) => call[u].op = "connect"
      BY DEF BetweenSockets, CallsInv, StepsMatch, StepsOf, TypeOK, CallStates, CallOps
    <3>2. \A u \in Threads : u # t => ~BetweenSockets(call[u])
      BY <2>5, <3>1 DEF CallsInv, OneLifecycleCall, LifecycleOps
    <3>. QED BY <2>3, <3>2 DEF BetweenSockets
  <2>7. LatestSocket'
    BY <2>1, <2>2, SMTT(30)
    DEF SocketsInv, LatestSocket, ReportedSocketsAreClosed, Connected, TypeOK, TcpStates,
        Histories, Sockets, NoSocket
  <2>8. CallsAndSockets'
    BY <2>4, <2>6 DEF SocketsInv, CallsAndSockets, SameReports
  <2>9. LoopAndSockets'
    BY <2>1, <2>2 DEF SocketsInv, LoopAndSockets
  <2>10. BrokenExactlyOnce'
    BY <2>1, <2>4, ReportingSame DEF BrokenExactlyOnce
  <2>. QED BY <2>7, <2>8, <2>9, <2>10 DEF SocketsInv
<1>. QED BY <1>5, <1>6, <1>7, <1>8, <1>9, <1>10 DEF Continue

(* The processor closes the socket, after an error or gracefully: it will   *)
(* report it if there is a delegate, and nobody will if there is none.      *)
LEMMA ProcessorDisconnects ==
  ASSUME TypeOK, SocketsInv, BrokenExactlyOnce, Connected, call' = call,
         loop.pc # "unlocked", platform'.sock = NoSocket, tcp'.id = tcp.id,
         \/ /\ platform.delegates
            /\ log'.broken = log.broken /\ log'.owed = log.owed \cup {platform.sock}
            /\ loop'.pc = "unlocked" /\ loop'.kind \in {"abrupt", "graceful"}
            /\ loop'.about = platform.sock
         \/ /\ ~platform.delegates
            /\ UNCHANGED <<log.owed, log.broken>>
            /\ loop'.pc \in {"exit", "test"}
  PROVE  SocketsInv' /\ BrokenExactlyOnce'
<1>1. PICK s \in Sockets : s = platform.sock
  BY OpenSocketUnreported
<1>2. CASE platform.delegates
  <2>1. /\ ProcessorReporting(s)'
        /\ \A r \in Sockets : r # s => ~ProcessorReporting(r)' /\ ~ProcessorReporting(r)
    BY <1>1, <1>2 DEF ProcessorReporting
  <2>2. \A r \in Sockets : Reporting(r)' = Reporting(r)
    BY DEF Reporting
  <2>3. Reporting(s) = {}
    BY <1>1, OpenSocketUnreported
  <2>4. LoopStays
    BY <1>1, <1>2 DEF LoopStays
  <2>5. \A t \in Threads : call'[t].pc = "broken" => call'[t].about \in Sockets
    BY DEF SocketsInv, CallsAndSockets
  <2>. QED BY <1>1, <1>2, <2>1, <2>2, <2>3, <2>4, <2>5, OwingDisconnect
<1>3. CASE ~platform.delegates
  <2>1. SameReports /\ LoopStays
    BY <1>3 DEF SameReports, ProcessorReporting, LoopStays
  <2>. QED BY <1>3, <2>1, SilentDisconnect
<1>. QED BY <1>2, <1>3

(* A step of the processor keeps SocketsInv.                                *)
LEMMA ProcessorStepSockets ==
  ASSUME IInv, ProcessorStep \/ SelectFails
  PROVE  SocketsInv' /\ BrokenExactlyOnce'
<1>. USE DEF object, IInv
<1>1. call' = call
  BY LoopMoves
<1>2. ASSUME UNCHANGED <<platform.sock, tcp.id, log.owed, log.broken>>,
             loop.pc # "unlocked" \/ loop.kind \in {"message", "peerClosed"},
             \/ loop'.pc \notin {"unlocked", "finish"}
             \/ loop'.pc = "finish" /\ Connected
             \/ /\ loop'.pc = "unlocked" /\ loop'.kind \in {"message", "peerClosed"}
                /\ loop'.about = platform.sock /\ Connected
      PROVE  SocketsInv' /\ BrokenExactlyOnce'
  <2>1. SameReports
    BY <1>1, <1>2 DEF SameReports, ProcessorReporting
  <2>2. LoopStays
    BY <1>2 DEF LoopStays, Connected, TypeOK, PlatformStates
  <2>. QED BY <1>1, <1>2, <2>1, <2>2, QuietStep
<1>3. CASE Enter \/ SelectReturns \/ SelectFails \/ Relock
  BY <1>2, <1>3 DEF Enter, SelectReturns, SelectFails, Relock, ProcessorLocks, Step,
                    TypeOK, LoopStates, PlatformStates
<1>4. CASE TestLoop
  <2>1. loop'.pc \in {"exit", "select", "recv"} /\ loop.pc = "test"
    BY <1>4 DEF TestLoop, Step, TypeOK, LoopStates
  <2>. QED BY <1>2, <1>4, <2>1 DEF TestLoop
<1>5. CASE RecvFails \/ SendFails
  <2>1. loop.pc \in {"recv", "send"} /\ BreakAbruptly
    BY <1>5 DEF RecvFails, SendFails
  <2>2. CASE ~Connected
    <3>1. UNCHANGED <<platform, tcp, log>> /\ loop'.pc = "exit"
      BY <2>1, <2>2 DEF BreakAbruptly, Step, TypeOK, LoopStates
    <3>. QED BY <1>2, <2>1, <3>1
  <2>3. CASE Connected
    <3>1. platform'.sock = NoSocket /\ tcp'.id = tcp.id /\ log' = Owe(log, platform.sock)
      BY <2>1, <2>3 DEF BreakAbruptly, Disconnected, Closed, TypeOK, PlatformStates, TcpStates
    <3>2. CASE platform.delegates
      <4>1. DropForDelegate("abrupt", platform.sock, TRUE)
        BY <2>1, <2>3, <3>2 DEF BreakAbruptly
      <4>2. /\ loop'.pc = "unlocked" /\ loop'.kind = "abrupt" /\ loop'.about = platform.sock
        BY <4>1 DEF DropForDelegate, TypeOK, LoopStates
      <4>3. log'.broken = log.broken /\ log'.owed = log.owed \cup {platform.sock}
        BY <3>1, <3>2 DEF Owe, TypeOK, Histories
      <4>. QED BY <1>1, <2>1, <2>3, <3>1, <3>2, <4>2, <4>3, ProcessorDisconnects
    <3>3. CASE ~platform.delegates
      <4>1. loop'.pc = "exit" /\ log' = log
        BY <2>1, <2>3, <3>1, <3>3 DEF BreakAbruptly, Step, Owe, TypeOK, LoopStates
      <4>. QED BY <1>1, <2>1, <2>3, <3>1, <3>3, <4>1, ProcessorDisconnects
    <3>. QED BY <3>2, <3>3
  <2>. QED BY <2>2, <2>3
<1>6. CASE ReceiveMessage
  <2>1. /\ loop.pc = "recv" /\ Connected /\ loop'.pc = "unlocked" /\ loop'.kind = "message"
        /\ loop'.about = platform.sock /\ UNCHANGED <<platform, tcp.id, log>>
    BY <1>6 DEF ReceiveMessage, DropForDelegate, TypeOK, LoopStates, TcpStates
  <2>. QED BY <1>2, <2>1
<1>7. CASE ReceiveEndOfStream
  <2>1. /\ loop.pc = "recv" /\ Connected /\ loop'.pc = "unlocked" /\ loop'.kind = "peerClosed"
        /\ loop'.about = platform.sock /\ UNCHANGED <<platform.sock, tcp.id, log>>
    BY <1>7 DEF ReceiveEndOfStream, ReportEndOfStream, EndOfStreamSeen, DropForDelegate,
                TypeOK, LoopStates, PlatformStates
  <2>. QED BY <1>2, <2>1
<1>8. CASE ReceiveNothing \/ DelegateReturns
  BY <1>2, <1>8 DEF ReceiveNothing, DelegateReturns, Step, TypeOK, LoopStates
<1>9. CASE CallDelegate
  <2>1. loop.pc = "unlocked" /\ loop'.pc = "delegate" /\ UNCHANGED <<platform, tcp>>
    BY <1>9 DEF CallDelegate, Step, TypeOK, LoopStates
  <2>2. CASE loop.kind \in {"message", "peerClosed"}
    <3>1. UNCHANGED <<log.owed, log.broken>>
      BY <1>9, <2>2 DEF CallDelegate, TypeOK, Histories
    <3>. QED BY <1>2, <2>1, <2>2, <3>1
  <2>3. CASE loop.kind \notin {"message", "peerClosed"}
    <3>1. PICK s \in Sockets : s = loop.about
      BY <2>1 DEF SocketsInv, LoopAndSockets
    <3>2. log' = NotifyBroken(log, s) /\ log'.owed = log.owed
      BY <1>9, <2>3, <3>1 DEF CallDelegate, NotifyBroken, TypeOK, Histories
    <3>3. ProcessorReporting(s)
      BY <2>1, <2>3, <3>1 DEF ProcessorReporting, SocketsInv, LoopAndSockets, TypeOK, LoopStates
    <3>4. \A r \in Sockets : Reporting(r)' = Reporting(r) /\ ~ProcessorReporting(r)'
      BY <1>1, <2>1 DEF Reporting, ProcessorReporting
    <3>5. \A r \in Sockets : r # s => ~ProcessorReporting(r)
      BY <3>1 DEF ProcessorReporting
    <3>6. Reporting(s) = {}
      BY <3>3 DEF BrokenExactlyOnce
    <3>7. LoopStays
      BY <2>1 DEF LoopStays
    <3>8. \A t \in Threads : call'[t].pc = "broken" => call'[t].about \in Sockets
      BY <1>1 DEF SocketsInv, CallsAndSockets
    <3>. QED BY <1>1, <2>1, <3>2, <3>3, <3>4, <3>5, <3>6, <3>7, <3>8, ReportStep
  <2>. QED BY <2>2, <2>3
<1>10. CASE Resume
  <2>1. loop'.pc \in {"exit", "test", "send"} /\ loop.pc = "resume"
    BY <1>10 DEF Resume, ProcessorLocks, Step, TypeOK, LoopStates
  <2>. QED BY <1>2, <1>10, <2>1 DEF Resume
<1>11. CASE SendNothing \/ SendBlocked
  <2>1. loop.pc = "send" /\ (loop'.pc = "exit" \/ (loop'.pc = "finish" /\ Connected))
    BY <1>11 DEF SendNothing, SendBlocked, Step, TypeOK, LoopStates
  <2>. QED BY <1>2, <1>11, <2>1 DEF SendNothing, SendBlocked
<1>12. CASE SendSome
  <2>1. /\ loop.pc = "send" /\ loop'.pc = "finish" /\ Connected
        /\ UNCHANGED <<platform.sock, tcp.id, log>>
    BY <1>12 DEF SendSome, TypeOK, LoopStates, PlatformStates, TcpStates
  <2>. QED BY <1>2, <2>1
<1>13. CASE FinishLoop
  <2>1. loop.pc = "finish" /\ Connected
    BY <1>13 DEF FinishLoop, SocketsInv, LoopAndSockets
  <2>2. CASE ~(platform.outputQueue = << >> /\ platform.closing) \/ ~platform.peerClosed
    <3>1. loop'.pc = "test" /\ UNCHANGED <<platform.sock, tcp.id, log>>
      BY <1>13, <2>2 DEF FinishLoop, Step, TypeOK, LoopStates, PlatformStates, TcpStates
    <3>. QED BY <1>2, <2>1, <3>1
  <2>3. CASE platform.outputQueue = << >> /\ platform.closing /\ platform.peerClosed
    <3>1. platform'.sock = NoSocket /\ tcp'.id = tcp.id
      BY <1>13, <2>3 DEF FinishLoop, Disconnected, Closed, TypeOK, PlatformStates, TcpStates
    <3>2. log' = [Owe(log, platform.sock) EXCEPT !.undelivered = @ + Len(tcp.sendBuf)]
      BY <1>13, <2>3 DEF FinishLoop
    <3>3. CASE platform.delegates
      <4>1. DropForDelegate("graceful", platform.sock, loop.wait)
        BY <1>13, <2>3, <3>3 DEF FinishLoop
      <4>2. loop'.pc = "unlocked" /\ loop'.kind = "graceful" /\ loop'.about = platform.sock
        BY <4>1 DEF DropForDelegate, TypeOK, LoopStates
      <4>3. log'.broken = log.broken /\ log'.owed = log.owed \cup {platform.sock}
        BY <3>2, <3>3 DEF Owe, TypeOK, Histories
      <4>. QED BY <1>1, <2>1, <3>1, <3>3, <4>2, <4>3, ProcessorDisconnects
    <3>4. CASE ~platform.delegates
      <4>1. loop'.pc = "test" /\ UNCHANGED <<log.owed, log.broken>>
        BY <1>13, <2>3, <3>2, <3>4 DEF FinishLoop, Step, Owe, TypeOK, LoopStates, Histories
      <4>. QED BY <1>1, <2>1, <3>1, <3>4, <4>1, ProcessorDisconnects
    <3>. QED BY <3>3, <3>4
  <2>. QED BY <2>2, <2>3
<1>14. CASE Exit
  <2>1. /\ loop.pc = "exit" /\ loop'.pc = "done" /\ UNCHANGED <<platform.sock, tcp, log>>
    BY <1>14 DEF Exit, Step, TypeOK, LoopStates, PlatformStates
  <2>. QED BY <1>2, <2>1
<1>. QED
  BY <1>3, <1>4, <1>5, <1>6, <1>7, <1>8, <1>9, <1>10, <1>11, <1>12, <1>13, <1>14
  DEF ProcessorStep

-----------------------------------------------------------------------------
(* The peer touches none of what the invariant is about but its own socket. *)
LEMMA PeerPreserves ==
  ASSUME IInv, Peer
  PROVE  IInv'
<1>1. UNCHANGED <<object, loop, call, calls, log, tcp.id>>
  BY DEF Peer, PeerSends, PeerReceives, PeerShutsDown, PeerResets, IInv, TypeOK, TcpStates
<1>2. CallsInv' /\ LockDiscipline'
  BY <1>1 DEF IInv, object, CallsInv, StepsMatch, OneLifecycleCall, DestroyIsLast,
              OneProcessor, ProcessorRunning, LockDiscipline
<1>3. SameReports /\ LoopStays
  BY <1>1 DEF object, SameReports, ProcessorReporting, LoopStays, IInv, SocketsInv,
              LoopAndSockets, Connected
<1>4. SocketsInv' /\ BrokenExactlyOnce'
  BY <1>1, <1>3, QuietStep DEF object, IInv
<1>. QED BY <1>2, <1>4, PeerType DEF IInv

(* A stutter keeps IInv.                                                    *)
LEMMA StutterPreserves ==
  ASSUME IInv, UNCHANGED vars
  PROVE  IInv'
<1>1. SameReports /\ LoopStays
  BY DEF vars, object, SameReports, ProcessorReporting, LoopStays, IInv, SocketsInv,
         LoopAndSockets, Connected
<1>2. SocketsInv' /\ BrokenExactlyOnce'
  BY <1>1, QuietStep DEF vars, object, IInv
<1>3. TypeOK' /\ CallsInv' /\ LockDiscipline'
  BY DEF vars, object, IInv, TypeOK, CallsInv, StepsMatch, OneLifecycleCall, DestroyIsLast,
         OneProcessor, ProcessorRunning, LockDiscipline
<1>. QED BY <1>2, <1>3 DEF IInv

(* IInv is an invariant, for any number of application threads, calls,      *)
(* sockets and bytes.                                                       *)
THEOREM Invariance == Spec => []IInv
<1>1. Init => IInv
  <2>1. Init => LockDiscipline
    BY ConnectionAssumption DEF Init, LockDiscipline, LockedSteps, NoLoop, Threads
  <2>. QED BY <2>1, TypeInit, CallsInit, SocketsInit DEF IInv
<1>2. IInv /\ [Next]_vars => IInv'
  <2>1. ASSUME IInv, NEW t \in Threads, NewCall(t) PROVE IInv'
    BY <2>1, NewCallType, NewCallCalls, CallLocks, NewCallSockets DEF IInv
  <2>2. ASSUME IInv, NEW t \in Threads, Continue(t) PROVE IInv'
    BY <2>2, ContinueType, ContinueCalls, CallLocks, ContinueSockets DEF IInv
  <2>3. ASSUME IInv, ProcessorStep \/ SelectFails PROVE IInv'
    BY <2>3, ProcessorStepType, ProcessorStepCalls, LoopMoves, ProcessorStepSockets DEF IInv
  <2>. QED BY <2>1, <2>2, <2>3, PeerPreserves, StutterPreserves DEF Next
<1>. QED BY <1>1, <1>2, PTL DEF Spec

(* Every reachable state is well typed: no signal counts beyond its pipe,   *)
(* no queue holds a byte that was not queued.                               *)
THEOREM TypeCorrect == Spec => []TypeOK
BY Invariance, PTL DEF IInv

(* The mutex is held in exactly the stretches of the loop that need it, and *)
(* never during select() or a delegate.                                     *)
THEOREM MutexNeverHeldOutside == Spec => []LockDiscipline
BY Invariance, PTL DEF IInv

(* However Close, Connect and the destructor race with the processor,       *)
(* brokenDelegate is called once for every socket closed under a delegate.  *)
THEOREM BrokenIsReportedOnce == Spec => []BrokenExactlyOnce
BY Invariance, PTL DEF IInv

(* A socket reported broken, or about to be, is not the open one.           *)
THEOREM BrokenMeansClosed == Spec => []ReportedSocketsAreClosed
<1>1. IInv => ReportedSocketsAreClosed
  BY DEF IInv, SocketsInv, LatestSocket
<1>. QED BY <1>1, Invariance, PTL

(* Impl is destroyed only when the processor has left its loop and no call  *)
(* is in progress.                                                          *)
THEOREM ImplDestroyedLast == Spec => []ImplOutlivesItsThreads
<1>1. IInv => ImplOutlivesItsThreads
  BY DEF IInv, CallsInv, DestroyIsLast, OneProcessor, ImplOutlivesItsThreads
<1>. QED BY <1>1, Invariance, PTL

-----------------------------------------------------------------------------
(* What the users of a NetworkConnection get from it: the processor does    *)
(* not sleep through a wake-up, bytes are sent once and in order, and       *)
(* nothing follows the end of the stream.  Each has an inductive invariant  *)
(* of its own, beside IInv, which they all lean on:                         *)
(*   WakeInv    what a token in the signal, or a wake-up under way, stands  *)
(*              for while the processor sleeps, and on its way to sleep;    *)
(*   StreamInv  the end of the stream has been seen before it is reported;  *)
(*   BytesInv   a socket carries nothing until Connect has established it.  *)

(* The pipe exists from before the thread is started.  Close(true) made     *)
(* before that is early; made after, it is followed by a token until the    *)
(* loop has come past the shutdown.  So are data queued, and a request to   *)
(* stop, while the loop sleeps.                                             *)
SignalExists ==
  ProcessorRunning \/ (\E t \in Threads : call[t].pc = "spawn")
    => platform.signal # NoPipe

CloseNoticed ==
  /\ platform.closing /\ loop.pc = "none" => log.early
  /\ loop.pc \in {"unlocked", "delegate", "resume"} /\ loop.kind = "graceful"
       => platform.shutdownSent
  /\ /\ loop.pc \in {"enter", "test", "select"}
     /\ platform.closing /\ platform.outputQueue = << >> /\ ~log.early
     => platform.shutdownSent \/ platform.signal > 0

SleepWatched ==
  loop.pc = "select" =>
    /\ platform.outputQueue # << >> => loop.wantWrite \/ platform.signal > 0
    /\ platform.processorStop =>
         platform.signal > 0 \/ \E t \in Threads : call[t].pc = "wake"

WakeInv == SignalExists /\ CloseNoticed /\ SleepWatched

(* The end of the stream is remembered, and nothing is received after it.   *)
StreamInv ==
  /\ EndOfStreamIsLast
  /\ log.eof # {} => platform.peerClosed
  /\ loop.pc = "unlocked" /\ loop.kind \in {"message", "peerClosed"} => log.eof = {}
  /\ loop.pc = "unlocked" /\ loop.kind = "peerClosed" => platform.peerClosed

(* A socket that Connect has created carries nothing before connect() has   *)
(* succeeded.                                                               *)
SocketFresh ==
  /\ tcp.state = "unconnected" => tcp.peerGot = << >> /\ tcp.sendBuf = << >>
  /\ \A t \in Threads : Connected =>
       /\ call[t].pc = "connecting" => tcp.state = "unconnected"
       /\ call[t].pc = "nonblock" => tcp.state = "blocking"

BytesInv == SentInOrder /\ SocketFresh

-----------------------------------------------------------------------------
(* Wake-ups.                                                                *)

(* Set leaves a token in any pipe that exists, and no operation loses the   *)
(* pipe.                                                                    *)
LEMMA SignalTokens ==
  ASSUME NEW signal \in Signals
  PROVE  /\ signal # NoPipe => Set(signal) > 0 /\ Clear(signal) # NoPipe
         /\ signal > 0 => Set(signal) > 0
         /\ Set(signal) # NoPipe <=> signal # NoPipe
         /\ Initialize(signal) # NoPipe
         /\ Initialize(signal) > 0 <=> signal > 0
BY PipeCapacityAssumption DEF Set, Clear, Initialize, Signals, NoPipe

(* A call begins: what queues data, closes gracefully or asks the processor *)
(* to stop also leaves a token.                                             *)
LEMMA WakeNewCall ==
  ASSUME IInv, WakeInv, NEW t \in Threads, NewCall(t)
  PROVE  WakeInv'
<1>. USE DEF WakeInv, SignalExists, CloseNoticed, SleepWatched, ProcessorRunning,
             IInv, TypeOK, PlatformStates, Histories
<1>1. CASE SendMessage(t)
  <2>1. /\ platform'.signal = Set(platform.signal)
        /\ UNCHANGED <<platform.closing, platform.shutdownSent, platform.processorStop>>
        /\ UNCHANGED <<loop, call, log.early>>
    BY <1>1 DEF SendMessage, Queued
  <2>2. platform'.outputQueue = << >> => platform.outputQueue = << >>
    <3>1. PICK n \in MessageSizes :
            /\ log.queued + n <= MaxBytes
            /\ platform'.outputQueue = platform.outputQueue \o [i \in 1 .. n |-> log.queued + i]
      BY <1>1 DEF SendMessage, Queued
    <3>2. [i \in 1 .. n |-> log.queued + i] \in Seq(1 .. MaxBytes)
      BY <3>1, NumberedBytes, ConnectionAssumption
    <3>3. platform.outputQueue \in Seq(1 .. MaxBytes)
      OBVIOUS
    <3>. QED BY <3>1, <3>2, <3>3, ConcatEqualIffEmpty
  <2>. QED BY <2>1, <2>2, SignalTokens
<1>2. CASE CloseGracefully(t)
  BY <1>2, SignalTokens, ConnectionAssumption DEF CloseGracefully, ToClose, Connected, LockDiscipline, LockedSteps
<1>3. ASSUME NEW op, BeginClose(t, op), MayCall(t) PROVE WakeInv'
  BY <1>3, SignalTokens DEF BeginClose, Begin, MayCall, Idle
<1>4. CASE Process(t)
  <2>1. /\ loop' = loop /\ log'.early = log.early
        /\ UNCHANGED <<platform.closing, platform.shutdownSent, platform.outputQueue>>
        /\ platform'.processorStop => platform.processorStop
        /\ platform'.signal \in {platform.signal, Initialize(platform.signal)}
    BY <1>4 DEF Process
  <2>2. call' = call \/ (Begin(t, "process", "spawn") /\ platform'.signal = Initialize(platform.signal))
    BY <1>4 DEF Process
  <2>3. \A u \in Threads : \/ call'[u] = call[u]
                           \/ /\ call[u].pc # "wake"
                              /\ platform'.signal = Initialize(platform.signal)
    BY <1>4, <2>2 DEF Process, MayCallLifecycle, MayCall, Begin, Idle
  <2>4. platform.signal # NoPipe => platform'.signal # NoPipe
    BY <2>1, SignalTokens
  <2>5. SignalExists'
    BY <2>1, <2>3, <2>4, SignalTokens
  <2>6. CloseNoticed'
    BY <2>1, SignalTokens
  <2>7. SleepWatched'
    <3>1. platform.signal > 0 => platform'.signal > 0
      BY <2>1, SignalTokens
    <3>2. \A u \in Threads : call[u].pc = "wake" => call'[u].pc = "wake"
      BY <2>3
    <3>. QED BY <2>1, <3>1, <3>2
  <2>. QED BY <2>5, <2>6, <2>7
<1>. QED BY <1>1, <1>2, <1>3, <1>4
  DEF NewCall, CloseAbruptly, Connect, Destroy, MayCallLifecycle

(* The steps of a call that has begun.                                      *)
LEMMA WakeContinue ==
  ASSUME IInv, WakeInv, NEW t \in Threads, Continue(t)
  PROVE  WakeInv'
<1>. USE DEF WakeInv, SignalExists, CloseNoticed, SleepWatched, ProcessorRunning,
             IInv, TypeOK, PlatformStates, Histories, object
<1>1. CASE Wake(t)
  <2>1. /\ call[t].pc = "wake" /\ UNCHANGED <<loop, log>>
        /\ platform'.signal = Set(platform.signal)
        /\ UNCHANGED <<platform.closing, platform.shutdownSent, platform.outputQueue>>
        /\ \A u \in Threads : call'[u].pc = IF u = t THEN "lock" ELSE call[u].pc
    BY <1>1 DEF Wake, Woken, Goto, CallStates
  <2>2. /\ platform'.signal # NoPipe <=> platform.signal # NoPipe
        /\ platform.signal > 0 => platform'.signal > 0
        /\ platform.signal # NoPipe => platform'.signal > 0
    BY <2>1, SignalTokens
  <2>3. SignalExists'
    BY <2>1, <2>2
  <2>4. CloseNoticed' /\ SleepWatched'
    BY <2>1, <2>2
  <2>. QED BY <2>3, <2>4
<1>2. CASE Spawn(t)
  <2>1. /\ call[t].pc = "spawn" /\ loop.pc = "none" /\ loop'.pc = "enter"
        /\ platform'.signal = Clear(platform.signal) /\ log'.early = log.early
        /\ platform'.closing = platform.closing
    BY <1>2 DEF Spawn, NoLoop, CallsInv, OneProcessor, TypeOK, Histories
  <2>. QED BY <2>1, SignalTokens
<1>3. ASSUME Continue(t), ~Wake(t), ~Spawn(t) PROVE WakeInv'
  <2>1. /\ UNCHANGED <<loop, log.early, platform.signal, platform.closing>>
        /\ UNCHANGED <<platform.shutdownSent, platform.processorStop, platform.outputQueue>>
    BY <1>3 DEF Continue, LockAndClose, CallBroken, CreateSocket, Establish, GiveUp,
         MakeNonBlocking, AssignProcessor, Release, Disconnected, Owe, NotifyBroken
  <2>2. /\ call[t].pc \notin {"wake", "spawn"}
        /\ \A u \in Threads : \/ call'[u] = call[u]
                              \/ u = t /\ call'[u].pc # "spawn"
    BY <1>3 DEF Continue, LockAndClose, CallBroken, CreateSocket, Establish, GiveUp,
         MakeNonBlocking, AssignProcessor, Release, AfterClose, Goto, Return, Idle, CallStates
  <2>. QED BY SMTT(30), <2>1, <2>2
<1>. QED BY <1>1, <1>2, <1>3

(* The steps of the processor.                                              *)
LEMMA WakeProcessor ==
  ASSUME IInv, WakeInv, ProcessorStep \/ SelectFails
  PROVE  WakeInv'
<1>. USE DEF WakeInv, SignalExists, CloseNoticed, SleepWatched, ProcessorRunning,
             IInv, TypeOK, PlatformStates, Histories, LoopStates, object, Step
<1>1. CASE Enter
  BY <1>1 DEF Enter, ProcessorLocks
<1>2. CASE TestLoop
  <2>1. /\ loop.pc = "test" /\ UNCHANGED <<platform, call, log>>
        /\ \/ loop'.pc \in {"exit", "recv"}
           \/ /\ loop'.pc = "select" /\ ~platform.processorStop
              /\ loop'.wantWrite = WantsToWrite
    BY <1>2 DEF TestLoop
  <2>2. platform' = platform /\ call' = call /\ log' = log
    BY <2>1
  <2>3. SignalExists' /\ SleepWatched'
    BY <2>1, <2>2 DEF WantsToWrite
  <2>4. CloseNoticed'
    BY <2>1, <2>2
  <2>. QED BY <2>3, <2>4
<1>3. CASE SelectReturns \/ SelectFails
  <2>1. /\ loop.pc = "select" /\ UNCHANGED <<platform, call, log>>
        /\ loop'.pc = "relock"
    BY <1>3 DEF SelectReturns, SelectFails
  <2>2. platform' = platform /\ call' = call /\ log' = log
    BY <2>1
  <2>3. SignalExists' /\ SleepWatched'
    BY <2>1, <2>2
  <2>4. CloseNoticed'
    BY <2>1, <2>2
  <2>. QED BY <2>3, <2>4
<1>4. CASE Relock
  BY <1>4, SignalTokens DEF Relock, ProcessorLocks
<1>5. CASE RecvFails \/ SendFails
  <2>1. BreakAbruptly /\ loop.pc \in {"recv", "send"} /\ call' = call
    BY <1>5 DEF RecvFails, SendFails
  <2>2. platform'.signal = platform.signal
    BY <2>1 DEF BreakAbruptly, Disconnected
  <2>3. loop'.pc = "exit" \/ (loop'.pc = "unlocked" /\ loop'.kind = "abrupt")
    BY ZenonT(30), <2>1 DEF BreakAbruptly, DropForDelegate
  <2>. QED BY <2>1, <2>2, <2>3
<1>6. CASE ReceiveMessage
  BY <1>6 DEF ReceiveMessage, DropForDelegate
<1>7. CASE ReceiveEndOfStream
  BY <1>7 DEF ReceiveEndOfStream, ReportEndOfStream, EndOfStreamSeen, DropForDelegate
<1>8. CASE ReceiveNothing
  BY <1>8 DEF ReceiveNothing
<1>9. CASE CallDelegate
  BY <1>9 DEF CallDelegate, NotifyBroken
<1>10. CASE DelegateReturns
  BY <1>10 DEF DelegateReturns
<1>11. CASE Resume
  BY <1>11 DEF Resume, ProcessorLocks
<1>12. CASE SendNothing \/ SendBlocked
  BY <1>12 DEF SendNothing, SendBlocked
<1>13. CASE SendSome
  <2>1. /\ loop'.pc = "finish" /\ platform'.signal = platform.signal /\ loop.pc = "send"
        /\ UNCHANGED call
    BY <1>13 DEF SendSome
  <2>. QED BY <2>1
<1>14. CASE FinishLoop
  <2>1. loop.pc = "finish" /\ call' = call
    BY <1>14 DEF FinishLoop
  <2>2. /\ platform'.signal = platform.signal
        /\ UNCHANGED <<platform.closing, platform.outputQueue>>
    BY ZenonT(30), <1>14 DEF FinishLoop, Disconnected
  <2>3. \/ loop'.pc = "test"
        \/ loop'.pc = "unlocked" /\ platform'.shutdownSent
    <3>1. \/ Step("test")
          \/ /\ platform' = Disconnected([platform EXCEPT !.shutdownSent = TRUE])
             /\ DropForDelegate("graceful", platform.sock, loop.wait)
      BY <1>14 DEF FinishLoop
    <3>. QED BY <3>1 DEF DropForDelegate, Disconnected
  <2>4. platform.outputQueue = << >> /\ platform.closing => platform'.shutdownSent
    BY <1>14 DEF FinishLoop, Disconnected
  <2>. QED BY <2>1, <2>2, <2>3, <2>4
<1>15. CASE Exit
  BY <1>15 DEF Exit
<1>. QED
  BY <1>1, <1>2, <1>3, <1>4, <1>5, <1>6, <1>7, <1>8, <1>9, <1>10, <1>11, <1>12,
     <1>13, <1>14, <1>15 DEF ProcessorStep

-----------------------------------------------------------------------------
(* The end of the stream.                                                   *)

(* The processor alone touches what StreamInv is about.                     *)
LEMMA StreamCall ==
  ASSUME IInv, StreamInv, NEW t \in Threads, NewCall(t) \/ Continue(t)
  PROVE  StreamInv'
<1>. USE DEF StreamInv, EndOfStreamIsLast, IInv, TypeOK, PlatformStates, Histories, object
<1>1. CASE Spawn(t)
  BY <1>1 DEF Spawn, NoLoop
<1>2. CASE ~Spawn(t)
  <2>1. loop' = loop
    BY <1>2 DEF NewCall, SendMessage, CloseGracefully, CloseAbruptly, Connect, Process,
         Destroy, BeginClose, Continue, Wake, LockAndClose, CallBroken, CreateSocket,
         Establish, GiveUp, MakeNonBlocking, AssignProcessor, Release
  <2>2. platform'.peerClosed = platform.peerClosed
    <3>1. CASE NewCall(t)
      BY <3>1 DEF NewCall, SendMessage, Queued, CloseGracefully, ToClose, CloseAbruptly,
           Connect, Process, Destroy, BeginClose
    <3>2. CASE Continue(t)
      BY <1>2, <3>2 DEF Continue, Wake, Woken, LockAndClose, Disconnected, CallBroken,
           CreateSocket, Establish, GiveUp, MakeNonBlocking, AssignProcessor, Release
    <3>. QED BY <3>1, <3>2
  <2>3. log'.eof = log.eof /\ log'.afterEof = log.afterEof
    <3>1. CASE NewCall(t)
      BY <3>1 DEF NewCall, SendMessage, CloseGracefully, CloseAbruptly,
           Connect, Process, Destroy, BeginClose
    <3>2. CASE Continue(t)
      BY <1>2, <3>2 DEF Continue, Wake, LockAndClose, Owe, CallBroken, NotifyBroken,
           CreateSocket, Establish, GiveUp, MakeNonBlocking, AssignProcessor, Release
    <3>. QED BY <3>1, <3>2
  <2>. QED BY <2>1, <2>2, <2>3
<1>. QED BY <1>1, <1>2

(* A step of the processor that does not report a message or the end of the *)
(* stream leaves the history of the stream alone.                           *)
LEMMA StreamProcessor ==
  ASSUME IInv, StreamInv, ProcessorStep \/ SelectFails
  PROVE  StreamInv'
<1>. USE DEF StreamInv, EndOfStreamIsLast, IInv, TypeOK, PlatformStates, Histories,
             LoopStates, object, Step
<1>1. CASE ReceiveMessage
  BY <1>1 DEF ReceiveMessage, DropForDelegate
<1>2. CASE ReceiveEndOfStream
  BY <1>2 DEF ReceiveEndOfStream, ReportEndOfStream, EndOfStreamSeen, DropForDelegate
<1>3. CASE CallDelegate
  BY <1>3 DEF CallDelegate, NotifyBroken
<1>4. ASSUME UNCHANGED <<log.eof, log.afterEof, platform.peerClosed>>,
             loop'.pc # "unlocked" \/ loop'.kind \in {"abrupt", "graceful"}
      PROVE  StreamInv'
  BY <1>4
<1>5. CASE RecvFails \/ SendFails
  <2>1. BreakAbruptly
    BY <1>5 DEF RecvFails, SendFails
  <2>2. loop'.pc = "exit" \/ loop'.kind = "abrupt"
    BY ZenonT(30), <2>1 DEF BreakAbruptly, DropForDelegate
  <2>3. UNCHANGED <<log.eof, log.afterEof, platform.peerClosed>>
    BY <2>1 DEF BreakAbruptly, Disconnected, Owe
  <2>. QED BY <1>4, <2>2, <2>3
<1>6. CASE FinishLoop
  <2>1. platform'.peerClosed = platform.peerClosed
    BY ZenonT(30), <1>6 DEF FinishLoop, Disconnected
  <2>2. UNCHANGED <<log.eof, log.afterEof>>
    <3>1. \/ log' = log
          \/ log' = [Owe(log, platform.sock) EXCEPT !.undelivered = @ + Len(tcp.sendBuf)]
      BY <1>6 DEF FinishLoop
    <3>. QED BY <3>1 DEF Owe
  <2>3. loop'.pc = "test" \/ loop'.kind = "graceful"
    <3>1. Step("test") \/ DropForDelegate("graceful", platform.sock, loop.wait)
      BY <1>6 DEF FinishLoop
    <3>. QED BY <3>1 DEF DropForDelegate
  <2>. QED BY <1>4, <2>1, <2>2, <2>3
<1>7. CASE Enter \/ TestLoop \/ SelectReturns \/ SelectFails
  BY ZenonT(30), <1>7 DEF Enter, TestLoop, SelectReturns, SelectFails, ProcessorLocks
<1>8. CASE Relock \/ ReceiveNothing \/ DelegateReturns
  BY ZenonT(30), <1>8 DEF Relock, ReceiveNothing, DelegateReturns, ProcessorLocks
<1>9. CASE Resume
  BY <1>9 DEF Resume, ProcessorLocks
<1>10. CASE SendNothing \/ SendSome \/ SendBlocked \/ Exit
  BY ZenonT(30), <1>10 DEF SendNothing, SendSome, SendBlocked, Exit
<1>. QED
  BY <1>1, <1>2, <1>3, <1>5, <1>6, <1>7, <1>8, <1>9, <1>10 DEF ProcessorStep

-----------------------------------------------------------------------------
(* Bytes in order: on sequences.                                            *)

EndsAt(s, n) == Consecutive(s) /\ (s # << >> => s[Len(s)] = n)

(* The parts of a run of consecutive numbers are such runs themselves.      *)
LEMMA ConsecutiveParts ==
  ASSUME NEW S, NEW s \in Seq(S), NEW u \in Seq(S), Consecutive(s \o u)
  PROVE  Consecutive(s) /\ Consecutive(u)
<1>1. /\ Len(s) \in Nat /\ Len(u) \in Nat
      /\ Len(s \o u) = Len(s) + Len(u)
      /\ \A i \in 1 .. Len(s) + Len(u) :
           (s \o u)[i] = IF i <= Len(s) THEN s[i] ELSE u[i - Len(s)]
  BY LenProperties, ConcatProperties
<1>2. ASSUME NEW i \in 1 .. Len(s) - 1
      PROVE  s[i + 1] = s[i] + 1
  <2>1. /\ i \in 1 .. Len(s \o u) - 1
        /\ (s \o u)[i] = s[i] /\ (s \o u)[i + 1] = s[i + 1]
    BY <1>1
  <2>. QED BY <2>1 DEF Consecutive
<1>3. ASSUME NEW i \in 1 .. Len(u) - 1
      PROVE  u[i + 1] = u[i] + 1
  <2>. DEFINE j == Len(s) + i
  <2>1. /\ j \in 1 .. Len(s \o u) - 1 /\ j > Len(s) /\ j + 1 > Len(s)
        /\ j - Len(s) = i /\ (j + 1) - Len(s) = i + 1
        /\ j \in 1 .. Len(s) + Len(u) /\ j + 1 \in 1 .. Len(s) + Len(u)
    BY <1>1
  <2>2. (s \o u)[j + 1] = (s \o u)[j] + 1
    BY <2>1 DEF Consecutive
  <2>. HIDE DEF j
  <2>. QED BY <1>1, <2>1, <2>2
<1>. QED BY <1>2, <1>3 DEF Consecutive

(* What is left of a queue ends where the queue did.                        *)
LEMMA SuffixEnds ==
  ASSUME NEW S, NEW s \in Seq(S), NEW u \in Seq(S), NEW n, EndsAt(s \o u, n)
  PROVE  EndsAt(u, n)
<1>1. /\ Len(s) \in Nat /\ Len(u) \in Nat
      /\ Len(s \o u) = Len(s) + Len(u)
      /\ \A i \in 1 .. Len(s) + Len(u) :
           (s \o u)[i] = IF i <= Len(s) THEN s[i] ELSE u[i - Len(s)]
  BY LenProperties, ConcatProperties
<1>2. ASSUME u # << >> PROVE u[Len(u)] = n
  <2>1. Len(u) > 0 /\ s \o u # << >>
    BY <1>1, <1>2, EmptySeq, ConcatEqualIffEmpty
  <2>2. (s \o u)[Len(s) + Len(u)] = u[(Len(s) + Len(u)) - Len(s)]
    BY <1>1, <2>1
  <2>3. (Len(s) + Len(u)) - Len(s) = Len(u)
    BY <1>1
  <2>. QED BY <1>1, <2>1, <2>2, <2>3 DEF EndsAt
<1>. QED BY <1>2, ConsecutiveParts DEF EndsAt

(* A message is numbered from where the queue ended.                        *)
LEMMA MessageEnds ==
  ASSUME NEW s \in Seq(1 .. MaxBytes), NEW k \in Nat, NEW n \in Nat,
         k + n <= MaxBytes, EndsAt(s, k)
  PROVE  EndsAt(s \o [i \in 1 .. n |-> k + i], k + n)
<1>. DEFINE m == [i \in 1 .. n |-> k + i]
<1>1. m \in Seq(1 .. MaxBytes) /\ Len(m) = n /\ \A i \in 1 .. n : m[i] = k + i
  BY NumberedBytes, ConnectionAssumption
<1>. HIDE DEF m
<1>2. /\ Len(s) \in Nat /\ s \o m \in Seq(1 .. MaxBytes)
      /\ Len(s \o m) = Len(s) + n
      /\ \A i \in 1 .. Len(s) + n :
           (s \o m)[i] = IF i <= Len(s) THEN s[i] ELSE m[i - Len(s)]
  BY <1>1, LenProperties, ConcatProperties
<1>3. ASSUME NEW i \in 1 .. Len(s) + n - 1
      PROVE  (s \o m)[i + 1] = (s \o m)[i] + 1
  <2>1. CASE i < Len(s)
    BY <1>2, <2>1 DEF EndsAt, Consecutive
  <2>2. CASE i = Len(s)
    <3>1. s[i] = k
      BY <2>2, EmptySeq DEF EndsAt
    <3>2. m[1] = k + 1
      BY <1>1, <2>2
    <3>. QED BY <1>2, <2>2, <3>1, <3>2
  <2>3. CASE i > Len(s)
    <3>1. /\ (s \o m)[i + 1] = m[(i + 1) - Len(s)] /\ (s \o m)[i] = m[i - Len(s)]
          /\ i - Len(s) \in 1 .. n /\ (i + 1) - Len(s) \in 1 .. n
      BY <1>2, <2>3
    <3>. QED BY <1>1, <1>2, <3>1
  <2>. QED BY SMTT(30), <1>2, <2>1, <2>2, <2>3
<1>4. Consecutive(s \o m)
  BY <1>2, <1>3 DEF Consecutive
<1>5. ASSUME s \o m # << >> PROVE (s \o m)[Len(s) + n] = k + n
  <2>1. CASE n = 0
    <3>1. m = << >>
      BY <1>1, <2>1, EmptySeq
    <3>2. s \o m = s
      BY <3>1, ConcatEmptySeq
    <3>. QED BY <1>2, <1>5, <2>1, <3>2 DEF EndsAt
  <2>2. CASE n > 0
    <3>1. (s \o m)[Len(s) + n] = m[(Len(s) + n) - Len(s)] /\ (Len(s) + n) - Len(s) = n
      BY <1>2, <2>2
    <3>. QED BY <1>1, <2>2, <3>1
  <2>3. n = 0 \/ n > 0
    OBVIOUS
  <2>. QED BY <2>1, <2>2, <2>3
<1>. QED BY <1>2, <1>4, <1>5 DEF EndsAt, m

(* The head of the kernel's bytes goes to the end of the peer's.            *)
LEMMA HeadMoves ==
  ASSUME NEW S, NEW s \in Seq(S), NEW u \in Seq(S), u # << >>
  PROVE  Append(s, Head(u)) \o Tail(u) = s \o u
<1>1. Head(u) \in S /\ Tail(u) \in Seq(S) /\ Len(u) \in Nat \ {0}
  BY HeadTailProperties, EmptySeq
<1>2. <<Head(u)>> \in Seq(S) /\ Head(u) = u[1]
  BY <1>1
<1>3. <<Head(u)>> \o Tail(u) = u
  <2>1. SubSeq(u, 1, Len(u)) = <<u[1]>> \o SubSeq(u, 1 + 1, Len(u))
    BY <1>1, SubSeqRecursiveFirst
  <2>. QED BY <1>2, <2>1, SubSeqFull, TailIsSubSeq
<1>4. Append(s, Head(u)) = s \o <<Head(u)>>
  BY <1>1, AppendIsConcat
<1>. QED BY <1>1, <1>2, <1>3, <1>4, ConcatAssociative

(* Under a name of its own, so that the provers do not look into \o.        *)
Joined(s, u) == s \o u

(* The order in which sequences are joined does not matter.                 *)
LEMMA Regroup ==
  ASSUME NEW S, NEW s \in Seq(S), NEW u \in Seq(S), NEW v \in Seq(S)
  PROVE  Joined(Joined(s, u), v) = Joined(s, Joined(u, v))
BY SMTT(30), ConcatAssociative DEF Joined

(* The bytes the kernel accepts leave the queue and come next.              *)
LEMMA PrefixMoves ==
  ASSUME NEW S, NEW s \in Seq(S), NEW queue \in Seq(S), NEW n \in 1 .. Len(queue)
  PROVE  (s \o SubSeq(queue, 1, n)) \o SubSeq(queue, n + 1, Len(queue)) = s \o queue
<1>1. Len(queue) \in Nat
  BY LenProperties
<1>2. n \in 0 .. Len(queue)
  BY <1>1
<1>3. /\ SubSeq(queue, n + 1, Len(queue)) \in Seq(S)
      /\ SubSeq(queue, 1, n) \in Seq(S)
  BY <1>2, QueueParts
<1>4. SubSeq(queue, 1, n) \o SubSeq(queue, n + 1, Len(queue)) = SubSeq(queue, 1, Len(queue))
  BY <1>1, ConcatAdjacentSubSeq
<1>. DEFINE sent == SubSeq(queue, 1, n)
            rest == SubSeq(queue, n + 1, Len(queue))
<1>5. sent \o rest = queue
  BY <1>4, SubSeqFull
<1>6. sent \in Seq(S) /\ rest \in Seq(S)
  BY <1>3
<1>. HIDE DEF sent, rest
<1>7. (s \o sent) \o rest = s \o queue
  <2>1. Joined(Joined(s, sent), rest) = Joined(s, Joined(sent, rest))
    BY <1>6, Regroup
  <2>. QED BY <1>5, <2>1 DEF Joined
<1>. QED BY <1>7 DEF sent, rest

-----------------------------------------------------------------------------
(* Bytes in order: the steps.                                               *)

(* The queue, what the kernel holds and what the peer has are sequences of  *)
(* bytes, and so is what they make together.                                *)
LEMMA BytesTypes ==
  ASSUME IInv
  PROVE  /\ platform.outputQueue \in Seq(1 .. MaxBytes)
         /\ tcp.peerGot \in Seq(1 .. MaxBytes) /\ tcp.sendBuf \in Seq(1 .. MaxBytes)
         /\ tcp.peerGot \o tcp.sendBuf \in Seq(1 .. MaxBytes)
         /\ log.queued \in Nat /\ MaxBytes \in Nat
<1>1. /\ platform.outputQueue \in Seq(1 .. MaxBytes)
      /\ tcp.peerGot \in Seq(1 .. MaxBytes) /\ tcp.sendBuf \in Seq(1 .. MaxBytes)
      /\ log.queued \in Nat /\ MaxBytes \in Nat
  BY ConnectionAssumption DEF IInv, TypeOK, PlatformStates, TcpStates, Histories
<1>. QED BY <1>1, ConcatProperties

(* A step that queues nothing and moves no byte, but may throw away what    *)
(* the kernel holds.                                                        *)
LEMMA BytesKept ==
  ASSUME IInv, BytesInv,
         UNCHANGED <<platform.outputQueue, log.queued, tcp.peerGot>>,
         \/ tcp'.sendBuf = tcp.sendBuf /\ (Live' => Live)
         \/ tcp'.sendBuf = << >> /\ ~Live',
         tcp'.state = "unconnected" => tcp.state = "unconnected",
         platform'.sock # NoSocket => platform.sock # NoSocket /\ tcp'.state = tcp.state,
         \A t \in Threads :
           call'[t].pc \in {"connecting", "nonblock"} => call'[t].pc = call[t].pc
  PROVE  BytesInv'
<1>1. SocketFresh'
  BY DEF BytesInv, SocketFresh, Connected
<1>2. UpToLastQueued(platform.outputQueue)'
  BY DEF BytesInv, SentInOrder, UpToLastQueued
<1>3. CASE tcp'.sendBuf = tcp.sendBuf /\ (Live' => Live)
  <2>1. SentInOrder'
    BY <1>2, <1>3 DEF BytesInv, SentInOrder, UpToLastQueued
  <2>. QED BY <1>1, <2>1 DEF BytesInv
<1>4. CASE tcp'.sendBuf = << >> /\ ~Live'
  <2>1. Consecutive(tcp.peerGot)
    BY BytesTypes, ConsecutiveParts DEF BytesInv, SentInOrder
  <2>2. tcp'.peerGot \o tcp'.sendBuf = tcp.peerGot
    BY <1>4, BytesTypes, ConcatEmptySeq
  <2>3. Consecutive(tcp'.peerGot \o tcp'.sendBuf)
    BY <2>1, <2>2
  <2>4. SentInOrder'
    BY <1>2, <1>4, <2>3 DEF SentInOrder, UpToLastQueued
  <2>. QED BY <1>1, <2>4 DEF BytesInv
<1>. QED BY <1>3, <1>4

(* SendMessage queues its bytes behind what is there.                       *)
LEMMA BytesNewCall ==
  ASSUME IInv, BytesInv, NEW t \in Threads, NewCall(t)
  PROVE  BytesInv'
<1>1. CASE SendMessage(t)
  <2>1. PICK n \in MessageSizes :
          /\ log.queued + n <= MaxBytes
          /\ platform' = Queued(platform, n)
          /\ log' = [log EXCEPT !.queued = @ + n]
    BY <1>1 DEF SendMessage
  <2>. DEFINE message == [i \in 1 .. n |-> log.queued + i]
  <2>2. /\ platform'.outputQueue = platform.outputQueue \o message
        /\ platform'.sock = platform.sock
        /\ log'.queued = log.queued + n /\ UNCHANGED <<tcp, call>>
    BY <1>1, <2>1 DEF SendMessage, Queued, IInv, TypeOK, PlatformStates, Histories
  <2>3. n \in Nat /\ log.queued \in Nat
    BY BytesTypes, ConnectionAssumption
  <2>4. message \in Seq(1 .. MaxBytes)
    BY <2>1, <2>3, NumberedBytes, ConnectionAssumption
  <2>5. ASSUME NEW s \in Seq(1 .. MaxBytes), EndsAt(s, log.queued)
        PROVE  EndsAt(s \o message, log.queued + n)
    BY <2>1, <2>3, <2>5, MessageEnds
  <2>. HIDE DEF message
  <2>6. EndsAt(platform'.outputQueue, log'.queued)
    BY <2>2, <2>5, BytesTypes DEF BytesInv, SentInOrder, UpToLastQueued, EndsAt
  <2>7. ASSUME Live
        PROVE  EndsAt((tcp.peerGot \o tcp.sendBuf) \o platform'.outputQueue, log'.queued)
    <3>. DEFINE s == tcp.peerGot \o tcp.sendBuf
    <3>1. s \in Seq(1 .. MaxBytes) /\ platform.outputQueue \in Seq(1 .. MaxBytes)
      BY BytesTypes
    <3>2. EndsAt(s \o platform.outputQueue, log.queued)
      BY <2>7 DEF BytesInv, SentInOrder, UpToLastQueued, EndsAt
    <3>. HIDE DEF s
    <3>3. s \o platform.outputQueue \in Seq(1 .. MaxBytes)
      BY <3>1, ConcatProperties
    <3>4. EndsAt((s \o platform.outputQueue) \o message, log.queued + n)
      BY <2>5, <3>2, <3>3
    <3>5. (s \o platform.outputQueue) \o message = s \o (platform.outputQueue \o message)
      <4>1. Joined(Joined(s, platform.outputQueue), message)
              = Joined(s, Joined(platform.outputQueue, message))
        BY <2>4, <3>1, Regroup
      <4>. QED BY <4>1 DEF Joined
    <3>. QED BY <2>2, <3>4, <3>5 DEF s
  <2>8. SentInOrder'
    BY <2>2, <2>6, <2>7 DEF BytesInv, SentInOrder, UpToLastQueued, EndsAt, Live
  <2>9. SocketFresh'
    BY <2>2 DEF BytesInv, SocketFresh, Connected
  <2>. QED BY <2>8, <2>9 DEF BytesInv
<1>2. CASE ~SendMessage(t)
  <2>1. /\ UNCHANGED <<platform.outputQueue, platform.sock, log.queued, tcp>>
    BY <1>2 DEF NewCall, CloseGracefully, ToClose, CloseAbruptly, Connect, Process, Destroy,
         BeginClose, IInv, TypeOK, PlatformStates, Histories
  <2>2. ASSUME NEW u \in Threads
        PROVE  call'[u] = call[u] \/ call'[u].pc \in {"wake", "lock", "spawn"}
    BY <1>2 DEF NewCall, CloseGracefully, CloseAbruptly, Connect, Process, Destroy,
         BeginClose, Begin, IInv, TypeOK
  <2>3. \A u \in Threads : call'[u].pc \in {"connecting", "nonblock"} => call'[u].pc = call[u].pc
    BY <2>2
  <2>. QED BY <2>1, <2>3, BytesKept DEF Live
<1>. QED BY <1>1, <1>2

(* A new socket begins with nothing, in front of what is queued already.    *)
LEMMA BytesContinue ==
  ASSUME IInv, BytesInv, NEW t \in Threads, Continue(t)
  PROVE  BytesInv'
<1>1. CASE CreateSocket(t)
  <2>1. /\ UNCHANGED <<platform.outputQueue, log>>
        /\ \/ tcp' = Socket(tcp.id + 1, "unconnected")
           \/ tcp' = tcp /\ platform'.sock = NoSocket
    BY <1>1 DEF CreateSocket, IInv, TypeOK, PlatformStates
  <2>2. \A u \in Threads : \/ u # t /\ call'[u] = call[u]
                           \/ u = t /\ call'[u].pc \in {"idle", "connecting"}
    BY <1>1 DEF CreateSocket, Goto, Return, Idle, IInv, TypeOK, CallStates
  <2>3. CASE tcp' = tcp /\ platform'.sock = NoSocket
    BY <2>1, <2>3 DEF BytesInv, SentInOrder, UpToLastQueued, Live, SocketFresh, Connected
  <2>4. CASE tcp' = Socket(tcp.id + 1, "unconnected")
    <3>1. /\ tcp'.peerGot = << >> /\ tcp'.sendBuf = << >> /\ tcp'.state = "unconnected"
          /\ ~Live'
      BY <2>4 DEF Socket, Live
    <3>2. Consecutive(<< >> \o << >>)
      BY DEF Consecutive
    <3>3. SentInOrder'
      BY <2>1, <3>1, <3>2 DEF BytesInv, SentInOrder, UpToLastQueued
    <3>4. call[t].op = "connect"
      BY <1>1 DEF CreateSocket, IInv, CallsInv, StepsMatch, StepsOf, TypeOK, CallStates, CallOps
    <3>5. \A u \in Threads : u # t => call[u].pc # "nonblock"
      BY <3>4 DEF IInv, CallsInv, StepsMatch, StepsOf, OneLifecycleCall, LifecycleOps,
           TypeOK, CallStates, CallOps
    <3>6. SocketFresh'
      BY <2>2, <3>1, <3>5 DEF SocketFresh
    <3>. QED BY <3>3, <3>6 DEF BytesInv
  <2>. QED BY <2>1, <2>3, <2>4
<1>2. CASE Establish(t)
  <2>1. /\ UNCHANGED <<platform, log, tcp.peerGot, tcp.sendBuf, tcp.id>>
        /\ call[t].pc = "connecting"
        /\ \/ Connected /\ tcp'.state = "blocking" /\ Goto(t, "nonblock")
           \/ tcp' = tcp /\ Goto(t, "giveUp")
    BY <1>2 DEF Establish, object, IInv, TypeOK, TcpStates
  <2>2. CASE Connected /\ tcp'.state = "blocking" /\ Goto(t, "nonblock")
    <3>1. tcp.peerGot = << >> /\ tcp.sendBuf = << >> /\ tcp.state = "unconnected"
      BY <2>1, <2>2 DEF BytesInv, SocketFresh
    <3>2. << >> \o << >> \o platform.outputQueue = platform.outputQueue
      BY BytesTypes, ConcatEmptySeq, EmptySeq
    <3>3. SentInOrder'
      BY <2>1, <3>1, <3>2 DEF BytesInv, SentInOrder, UpToLastQueued
    <3>4. call[t].op = "connect"
      BY <2>1 DEF IInv, CallsInv, StepsMatch, StepsOf, TypeOK, CallStates, CallOps
    <3>5. \A u \in Threads : u # t => call[u].pc \notin {"connecting", "nonblock"}
      BY <3>4 DEF IInv, CallsInv, StepsMatch, StepsOf, OneLifecycleCall, LifecycleOps,
           TypeOK, CallStates, CallOps
    <3>6. \A u \in Threads : \/ u # t /\ call'[u] = call[u]
                             \/ u = t /\ call'[u].pc = "nonblock"
      BY <2>2 DEF Goto, IInv, TypeOK, CallStates
    <3>7. SocketFresh'
      BY <2>2, <3>5, <3>6 DEF SocketFresh
    <3>. QED BY <3>3, <3>7 DEF BytesInv
  <2>3. CASE tcp' = tcp /\ Goto(t, "giveUp")
    <3>1. \A u \in Threads : call'[u] = call[u] \/ call'[u].pc = "giveUp"
      BY <2>3 DEF Goto, IInv, TypeOK, CallStates
    <3>. QED BY <2>1, <2>3, <3>1, BytesKept DEF Live
  <2>. QED BY <2>1, <2>2, <2>3
<1>3. CASE MakeNonBlocking(t)
  <2>1. /\ UNCHANGED <<platform, log, tcp.peerGot, tcp.sendBuf, tcp.reset>>
        /\ call[t].pc = "nonblock" /\ Return(t)
        /\ tcp'.state = IF Connected THEN "open" ELSE tcp.state
    BY <1>3 DEF MakeNonBlocking, object, IInv, TypeOK, TcpStates
  <2>2. Live' => Live
    BY <2>1 DEF BytesInv, SocketFresh, Live
  <2>3. SentInOrder'
    BY <2>1, <2>2 DEF BytesInv, SentInOrder, UpToLastQueued
  <2>4. call[t].op = "connect"
    BY <2>1 DEF IInv, CallsInv, StepsMatch, StepsOf, TypeOK, CallStates, CallOps
  <2>5. \A u \in Threads : u # t => call[u].pc \notin {"connecting", "nonblock"}
    BY <2>4 DEF IInv, CallsInv, StepsMatch, StepsOf, OneLifecycleCall, LifecycleOps,
         TypeOK, CallStates, CallOps
  <2>6. \A u \in Threads : \/ u # t /\ call'[u] = call[u]
                           \/ u = t /\ call'[u].pc = "idle"
    BY <2>1 DEF Return, Idle, IInv, TypeOK, CallStates
  <2>7. SocketFresh'
    BY <2>1, <2>5, <2>6 DEF BytesInv, SocketFresh
  <2>. QED BY <2>3, <2>7 DEF BytesInv
<1>4. ASSUME Continue(t), ~CreateSocket(t), ~Establish(t), ~MakeNonBlocking(t)
      PROVE  BytesInv'
  <2>1. UNCHANGED <<platform.outputQueue, log.queued>>
    BY <1>4 DEF Continue, Wake, Woken, LockAndClose, Disconnected, Owe, CallBroken,
         NotifyBroken, GiveUp, Spawn, AssignProcessor, Release, object,
         IInv, TypeOK, PlatformStates, Histories
  <2>2. \/ tcp' = tcp /\ platform'.sock = platform.sock
        \/ tcp' = Closed(tcp) /\ platform'.sock = NoSocket
    BY <1>4 DEF Continue, Wake, Woken, LockAndClose, Disconnected, CallBroken,
         GiveUp, Spawn, AssignProcessor, Release, object, IInv, TypeOK, PlatformStates
  <2>3. \/ UNCHANGED <<platform.sock, tcp>>
        \/ /\ tcp'.peerGot = tcp.peerGot /\ tcp'.sendBuf = << >>
           /\ tcp'.state = "closed" /\ platform'.sock = NoSocket
    BY <2>2 DEF Closed, IInv, TypeOK, TcpStates
  <2>4. ASSUME NEW u \in Threads
        PROVE  call'[u] = call[u] \/ call'[u].pc \notin {"connecting", "nonblock"}
    BY <1>4 DEF Continue, Wake, LockAndClose, CallBroken, GiveUp, Spawn, AssignProcessor,
         Release, AfterClose, Goto, Return, Idle, IInv, TypeOK, CallStates
  <2>5. \A u \in Threads : call'[u].pc \in {"connecting", "nonblock"} => call'[u].pc = call[u].pc
    BY <2>4
  <2>. QED BY <2>1, <2>3, <2>5, BytesKept DEF Live
<1>. QED BY <1>1, <1>2, <1>3, <1>4

(* What the kernel accepts of a queue goes behind what it holds already.    *)
LEMMA BytesProcessor ==
  ASSUME IInv, BytesInv, ProcessorStep \/ SelectFails
  PROVE  BytesInv'
<1>1. call' = call
  BY LoopMoves DEF IInv
<1>2. CASE SendSome
  <2>. DEFINE queue == platform.outputQueue
              got == tcp.peerGot \o tcp.sendBuf
  <2>1. PICK sent \in 1 .. Len(queue) :
          /\ tcp'.sendBuf = tcp.sendBuf \o SubSeq(queue, 1, sent)
          /\ platform'.outputQueue = SubSeq(queue, sent + 1, Len(queue))
          /\ UNCHANGED <<platform.sock, log, tcp.peerGot, tcp.state, tcp.reset>>
    <3>1. Len(queue) \in Nat
      BY BytesTypes, LenProperties
    <3>2. PICK sent \in 1 .. (IF Len(queue) < WriteSize THEN Len(queue) ELSE WriteSize) :
            /\ tcp' = [tcp EXCEPT !.sendBuf = @ \o SubSeq(queue, 1, sent)]
            /\ platform' = [platform EXCEPT !.outputQueue = SubSeq(queue, sent + 1, Len(queue))]
            /\ log' = log
      BY <1>2 DEF SendSome, WithoutSent
    <3>3. sent \in 1 .. Len(queue)
      BY <3>1, ConnectionAssumption
    <3>. QED BY <3>2, <3>3 DEF IInv, TypeOK, PlatformStates, TcpStates
  <2>2. Live
    BY <1>2 DEF SendSome, Live
  <2>3. /\ queue \in Seq(1 .. MaxBytes) /\ got \in Seq(1 .. MaxBytes)
        /\ tcp.peerGot \in Seq(1 .. MaxBytes) /\ tcp.sendBuf \in Seq(1 .. MaxBytes)
    BY BytesTypes
  <2>4. EndsAt(got \o queue, log.queued) /\ EndsAt(queue, log.queued)
    BY <2>2 DEF BytesInv, SentInOrder, UpToLastQueued, EndsAt
  <2>. DEFINE first == SubSeq(queue, 1, sent)
              rest == SubSeq(queue, sent + 1, Len(queue))
  <2>5. first \in Seq(1 .. MaxBytes) /\ rest \in Seq(1 .. MaxBytes)
    <3>1. sent \in 0 .. Len(queue)
      BY <2>3, LenProperties
    <3>. QED BY <2>3, <3>1, QueueParts
  <2>6. (got \o first) \o rest = got \o queue
    BY <2>3, PrefixMoves
  <2>7. first \o rest = queue
    <3>1. Len(queue) \in Nat
      BY <2>3, LenProperties
    <3>2. first \o rest = SubSeq(queue, 1, Len(queue))
      BY <2>3, <3>1, ConcatAdjacentSubSeq
    <3>. QED BY <2>3, <3>2, SubSeqFull
  <2>8. tcp'.peerGot \o tcp'.sendBuf = got \o first
    <3>1. tcp'.peerGot = tcp.peerGot /\ tcp'.sendBuf = tcp.sendBuf \o first
      BY <2>1
    <3>2. (tcp.peerGot \o tcp.sendBuf) \o first = tcp.peerGot \o (tcp.sendBuf \o first)
      <4>. HIDE DEF first
      <4>1. Joined(Joined(tcp.peerGot, tcp.sendBuf), first)
              = Joined(tcp.peerGot, Joined(tcp.sendBuf, first))
        BY <2>3, <2>5, Regroup
      <4>. QED BY <4>1 DEF Joined
    <3>. QED BY <3>1, <3>2
  <2>9. platform'.outputQueue = rest
    BY <2>1
  <2>. HIDE DEF queue, got, first, rest
  <2>10. EndsAt(rest, log.queued)
    BY <2>4, <2>5, <2>7, SuffixEnds
  <2>11. got \o first \in Seq(1 .. MaxBytes)
    BY <2>3, <2>5, ConcatProperties
  <2>12. Consecutive(got \o first)
    <3>1. Consecutive((got \o first) \o rest)
      BY <2>4, <2>6 DEF EndsAt
    <3>. QED BY <2>5, <2>11, <3>1, ConsecutiveParts
  <2>13. EndsAt((got \o first) \o rest, log.queued)
    BY <2>4, <2>6
  <2>14. SentInOrder'
    BY <2>1, <2>8, <2>9, <2>10, <2>12, <2>13 DEF SentInOrder, UpToLastQueued, EndsAt
  <2>15. SocketFresh'
    BY <1>1, <2>1, <2>2 DEF BytesInv, SocketFresh, Connected, Live
  <2>. QED BY <2>14, <2>15 DEF BytesInv
<1>3. CASE FinishLoop
  <2>1. UNCHANGED <<platform.outputQueue, log.queued>>
    <3>1. platform'.outputQueue = platform.outputQueue
      BY <1>3 DEF FinishLoop, Disconnected, IInv, TypeOK, PlatformStates
    <3>2. \/ log' = log
          \/ log' = [Owe(log, platform.sock) EXCEPT !.undelivered = @ + Len(tcp.sendBuf)]
      BY <1>3 DEF FinishLoop
    <3>. QED BY <3>1, <3>2 DEF Owe, IInv, TypeOK, Histories
  <2>2. \/ /\ platform'.sock = platform.sock
           /\ UNCHANGED <<tcp.peerGot, tcp.sendBuf, tcp.state, tcp.reset>>
        \/ /\ tcp'.peerGot = tcp.peerGot /\ tcp'.sendBuf = << >>
           /\ tcp'.state = "closed" /\ platform'.sock = NoSocket
    BY ZenonT(30), <1>3 DEF FinishLoop, Disconnected, Closed, IInv, TypeOK, PlatformStates, TcpStates
  <2>. QED BY <1>1, <2>1, <2>2, BytesKept DEF Live
<1>4. CASE RecvFails \/ SendFails
  <2>1. BreakAbruptly
    BY <1>4 DEF RecvFails, SendFails
  <2>2. UNCHANGED <<platform.outputQueue, log.queued>>
    BY <2>1 DEF BreakAbruptly, Disconnected, Owe, IInv, TypeOK, PlatformStates, Histories
  <2>3. \/ UNCHANGED <<platform.sock, tcp>>
        \/ /\ tcp'.peerGot = tcp.peerGot /\ tcp'.sendBuf = << >>
           /\ tcp'.state = "closed" /\ platform'.sock = NoSocket
    BY <2>1 DEF BreakAbruptly, Disconnected, Closed, IInv, TypeOK, PlatformStates, TcpStates
  <2>. QED BY <1>1, <2>2, <2>3, BytesKept DEF Live
<1>5. CASE Enter \/ TestLoop \/ SelectReturns \/ SelectFails
  BY <1>1, <1>5, BytesKept DEF Enter, TestLoop, SelectReturns, SelectFails, object, Live
<1>6. CASE Relock \/ ReceiveNothing \/ DelegateReturns \/ Resume
  BY <1>1, <1>6, BytesKept
  DEF Relock, ReceiveNothing, DelegateReturns, Resume, object, Live, IInv, TypeOK, PlatformStates
<1>7. CASE ReceiveMessage \/ ReceiveEndOfStream
  BY <1>1, <1>7, BytesKept
  DEF ReceiveMessage, ReceiveEndOfStream, EndOfStreamSeen, Live,
      IInv, TypeOK, PlatformStates, TcpStates
<1>8. CASE CallDelegate
  BY <1>1, <1>8, BytesKept DEF CallDelegate, NotifyBroken, object, Live, IInv, TypeOK, Histories
<1>9. CASE SendNothing \/ SendBlocked \/ Exit
  BY <1>1, <1>9, BytesKept
  DEF SendNothing, SendBlocked, Exit, object, Live, IInv, TypeOK, PlatformStates
<1>. QED
  BY <1>2, <1>3, <1>4, <1>5, <1>6, <1>7, <1>8, <1>9 DEF ProcessorStep

(* The network moves the kernel's first byte to the peer, or loses them all.*)
LEMMA BytesPeer ==
  ASSUME IInv, BytesInv, Peer
  PROVE  BytesInv'
<1>1. CASE PeerReceives
  <2>1. /\ UNCHANGED <<platform, log, call, tcp.state, tcp.reset>> /\ Live
        /\ tcp.sendBuf # << >>
        /\ tcp'.sendBuf = Tail(tcp.sendBuf)
        /\ tcp'.peerGot = Append(tcp.peerGot, Head(tcp.sendBuf))
    BY <1>1 DEF PeerReceives, object, IInv, TypeOK, TcpStates
  <2>2. tcp'.peerGot \o tcp'.sendBuf = tcp.peerGot \o tcp.sendBuf
    BY <2>1, BytesTypes, HeadMoves
  <2>3. SentInOrder'
    BY <2>1, <2>2 DEF BytesInv, SentInOrder, UpToLastQueued, Live
  <2>4. SocketFresh'
    BY <2>1 DEF BytesInv, SocketFresh, Connected, Live
  <2>. QED BY <2>3, <2>4 DEF BytesInv
<1>2. CASE PeerSends \/ PeerShutsDown \/ PeerResets
  BY <1>2, BytesKept
  DEF PeerSends, PeerShutsDown, PeerResets, object, Live, IInv, TypeOK, TcpStates
<1>. QED BY <1>1, <1>2 DEF Peer

-----------------------------------------------------------------------------
(* The theorems.                                                            *)

(* The three invariants hold at the beginning.                              *)
LEMMA DeliveryInit == Init => WakeInv /\ StreamInv /\ BytesInv
<1>1. ASSUME Init PROVE WakeInv
  BY <1>1 DEF Init, WakeInv, SignalExists, CloseNoticed, SleepWatched, ProcessorRunning,
              NoLoop, Idle
<1>2. ASSUME Init PROVE StreamInv
  BY <1>2 DEF Init, StreamInv, EndOfStreamIsLast, NoLoop
<1>3. ASSUME Init PROVE BytesInv
  <2>1. /\ tcp.peerGot = << >> /\ tcp.sendBuf = << >> /\ platform.outputQueue = << >>
        /\ tcp.state # "unconnected" /\ \A t \in Threads : call[t].pc = "idle"
    BY <1>3 DEF Init, Socket, Idle
  <2>2. << >> \o << >> = << >> /\ Consecutive(<< >>)
    BY DEF Consecutive
  <2>. QED BY <2>1, <2>2 DEF BytesInv, SentInOrder, UpToLastQueued, SocketFresh
<1>. QED BY <1>1, <1>2, <1>3

(* Every step keeps what makes the processor wake up.                       *)
LEMMA WakeNext == IInv /\ WakeInv /\ [Next]_vars => WakeInv'
<1>1. ASSUME WakeInv, UNCHANGED <<platform, loop, call, log>> PROVE WakeInv'
  BY <1>1 DEF WakeInv, SignalExists, CloseNoticed, SleepWatched, ProcessorRunning
<1>2. Peer \/ UNCHANGED vars => UNCHANGED <<platform, loop, call, log>>
  BY DEF Peer, PeerSends, PeerReceives, PeerShutsDown, PeerResets, vars, object
<1>. QED BY <1>1, <1>2, WakeNewCall, WakeContinue, WakeProcessor DEF Next

(* Every step keeps what is known about the end of the stream.              *)
LEMMA StreamNext == IInv /\ StreamInv /\ [Next]_vars => StreamInv'
<1>1. ASSUME StreamInv, UNCHANGED <<platform, loop, log>> PROVE StreamInv'
  BY <1>1 DEF StreamInv, EndOfStreamIsLast
<1>2. Peer \/ UNCHANGED vars => UNCHANGED <<platform, loop, log>>
  BY DEF Peer, PeerSends, PeerReceives, PeerShutsDown, PeerResets, vars, object
<1>. QED BY <1>1, <1>2, StreamCall, StreamProcessor DEF Next

(* Every step keeps the order of the bytes.                                 *)
LEMMA BytesNext == IInv /\ BytesInv /\ [Next]_vars => BytesInv'
<1>1. ASSUME IInv, BytesInv, UNCHANGED vars PROVE BytesInv'
  BY <1>1, BytesKept DEF vars, object, Live
<1>. QED BY <1>1, BytesNewCall, BytesContinue, BytesProcessor, BytesPeer DEF Next

(* So the three hold in every reachable state.                               *)
LEMMA Delivery == Spec => [](WakeInv /\ StreamInv /\ BytesInv)
BY DeliveryInit, WakeNext, StreamNext, BytesNext, Invariance, PTL DEF Spec

(* The processor never sleeps through queued data, a request to stop or a   *)
(* graceful close made while it runs.                                       *)
THEOREM WakeupsArrive == Spec => []NoLostWakeup
<1>1. WakeInv => NoLostWakeup
  BY DEF WakeInv, CloseNoticed, SleepWatched, NoLostWakeup, Asleep
<1>. QED BY <1>1, Delivery, PTL

(* Nothing is received after the end of the stream was reported, nor is it  *)
(* reported again.                                                          *)
THEOREM NothingAfterEndOfStream == Spec => []EndOfStreamIsLast
<1>1. StreamInv => EndOfStreamIsLast
  BY DEF StreamInv
<1>. QED BY <1>1, Delivery, PTL

(* Whatever part of each send() the kernel accepts, bytes are sent once and *)
(* in the order queued, and none is left out.                               *)
THEOREM ByteOrder == Spec => []SentInOrder
<1>1. BytesInv => SentInOrder
  BY DEF BytesInv
<1>. QED BY <1>1, Delivery, PTL
-----------------------------------------------------------------------------
(* A connection that Process has returned true for is served if its own     *)
(* Process started the thread.                                              *)

(* The loop is leaving, has left or has been told to.                       *)
Abandoned ==
  \/ platform.processorStop
  \/ loop.pc \in {"exit", "done"}
  \/ loop.pc \in {"unlocked", "delegate", "resume"} /\ loop.kind \in {"abrupt", "graceful"}

(* Before it is started nothing of the processor exists, and it is started  *)
(* at most once: for a socket, and while that one is open whoever told the  *)
(* processor to stop has yet to close it.                                   *)
ServedInv ==
  /\ \/ loop.pc # "none"
     \/ /\ ~platform.joinable /\ ~platform.processorStop /\ log.spawned = NoSocket
        /\ \A t \in Threads : call[t].pc # "assign"
  /\ log.spawned <= tcp.id
  /\ Abandoned /\ platform.sock # NoSocket /\ platform.sock = log.spawned
       => \E t \in Threads : call[t].pc \in {"wake", "lock"}

(* The loop leaves only when it was told to or the socket is gone.          *)
LEMMA LoopServed ==
  ASSUME TypeOK, ProcessorStep \/ SelectFails
  PROVE  /\ UNCHANGED <<call, platform.processorStop, tcp.id, log.spawned>>
         /\ platform'.joinable => platform.joinable
         /\ loop.pc # "none" /\ loop'.pc # "none"
         /\ platform'.sock \in {NoSocket, platform.sock}
         /\ Abandoned' /\ platform'.sock # NoSocket => Abandoned
<1>. USE DEF TypeOK, LoopStates, Abandoned, object, NoSocket
<1>1. CASE Enter \/ TestLoop \/ SelectReturns \/ SelectFails
  BY <1>1 DEF Enter, TestLoop, SelectReturns, SelectFails, ProcessorLocks, Step, Connected
<1>2. CASE Relock
  BY <1>2 DEF Relock, ProcessorLocks, Step, PlatformStates
<1>3. CASE RecvFails \/ SendFails
  <2>1. /\ BreakAbruptly /\ call' = call /\ loop.pc \in {"recv", "send"}
    BY <1>3 DEF RecvFails, SendFails
  <2>2. platform'.sock = NoSocket /\ loop'.pc \in {"unlocked", "exit"}
    BY <2>1 DEF BreakAbruptly, Connected, Disconnected, DropForDelegate, Step, PlatformStates
  <2>3. /\ UNCHANGED <<platform.processorStop, platform.joinable, tcp.id, log.spawned>>
    BY ZenonT(30), <2>1 DEF BreakAbruptly, Disconnected, Closed, Owe, PlatformStates, TcpStates, Histories
  <2>. QED BY <2>1, <2>2, <2>3
<1>4. CASE ReceiveMessage \/ ReceiveEndOfStream \/ ReceiveNothing
  <2>1. /\ loop.pc = "recv"
        /\ \/ loop'.pc = "unlocked" /\ loop'.kind \in {"message", "peerClosed"}
           \/ loop'.pc = "send"
    BY <1>4 DEF ReceiveMessage, ReceiveEndOfStream, ReceiveNothing, ReportEndOfStream,
         DropForDelegate
  <2>2. /\ UNCHANGED <<call, log, platform.processorStop, platform.joinable, platform.sock>>
        /\ tcp'.id = tcp.id
    BY <1>4 DEF ReceiveMessage, ReceiveEndOfStream, ReceiveNothing, EndOfStreamSeen,
         PlatformStates, TcpStates
  <2>. QED BY <2>1, <2>2
<1>5. CASE CallDelegate
  <2>1. log'.spawned = log.spawned
    BY <1>5 DEF CallDelegate, NotifyBroken, Histories
  <2>. QED BY <1>5, <2>1 DEF CallDelegate, Step
<1>6. CASE DelegateReturns \/ Resume
  BY <1>6 DEF DelegateReturns, Resume, ProcessorLocks, Step
<1>7. CASE SendNothing \/ SendBlocked
  BY <1>7 DEF SendNothing, SendBlocked, Step, Connected
<1>8. CASE SendSome
  <2>1. UNCHANGED <<call, log, platform.processorStop, platform.joinable, platform.sock, tcp.id>>
    BY <1>8 DEF SendSome, PlatformStates, TcpStates
  <2>2. loop.pc = "send" /\ loop'.pc = "finish"
    BY <1>8 DEF SendSome
  <2>. QED BY <2>1, <2>2
<1>9. CASE FinishLoop
  <2>1. /\ call' = call /\ loop.pc = "finish" /\ loop'.pc \in {"test", "unlocked"}
        /\ loop'.pc = "unlocked" => platform'.sock = NoSocket
        /\ platform'.sock \in {NoSocket, platform.sock}
        /\ UNCHANGED <<platform.processorStop, platform.joinable>>
    BY <1>9 DEF FinishLoop, DropForDelegate, Step, Disconnected, PlatformStates
  <2>2. UNCHANGED <<tcp.id, log.spawned>>
    BY <1>9 DEF FinishLoop, Closed, Owe, TcpStates, Histories
  <2>. QED BY <2>1, <2>2
<1>10. CASE Exit
  BY <1>10 DEF Exit, Step, PlatformStates
<1>. QED BY <1>1, <1>2, <1>3, <1>4, <1>5, <1>6, <1>7, <1>8, <1>9, <1>10 DEF ProcessorStep

(* Every step keeps ServedInv.                                              *)
LEMMA ServedStep == IInv /\ ServedInv /\ [Next]_vars => ServedInv'
<1>. SUFFICES ASSUME IInv, ServedInv, [Next]_vars PROVE ServedInv'
  OBVIOUS
<1>. USE DEF NoSocket
<1>0. /\ TypeOK /\ platform \in PlatformStates /\ tcp \in TcpStates /\ log \in Histories
      /\ call \in [Threads -> CallStates] /\ loop \in LoopStates
  BY DEF IInv, TypeOK
<1>1. tcp.id \in Nat /\ platform.sock \in {0, tcp.id}
  BY <1>0 DEF IInv, SocketsInv, LatestSocket, TcpStates, Sockets
<1>11. log.spawned \in Nat
  BY <1>0 DEF Histories, Sockets
<1>. USE <1>11 DEF ServedInv, Abandoned
<1>2. ASSUME NEW t \in Threads,
             SendMessage(t) \/ CloseGracefully(t) \/ Wake(t) \/ CallBroken(t) \/ Release(t)
      PROVE  ServedInv'
  <2>1. /\ UNCHANGED <<loop, tcp, platform.sock, platform.processorStop, log.spawned>>
        /\ platform'.joinable => platform.joinable
    BY ZenonT(30), <1>0, <1>2 DEF SendMessage, Queued, CloseGracefully, ToClose, Wake, Woken, CallBroken,
         NotifyBroken, Release, object, PlatformStates, Histories
  <2>2. \A u \in Threads :
          \/ call'[u] = call[u]
          \/ call[u].pc = "wake" /\ call'[u].pc = "lock"
          \/ call[u].pc \in {"broken", "release"} /\ call'[u].pc \in {"idle", "socket", "release"}
    BY <1>0, <1>2 DEF SendMessage, CloseGracefully, Wake, CallBroken, Release, AfterClose, Goto,
         Return, Idle, CallStates
  <2>. QED BY <2>1, <2>2
<1>3. ASSUME NEW t \in Threads, CloseAbruptly(t) \/ Connect(t) \/ Destroy(t)
      PROVE  ServedInv'
  <2>1. PICK op : BeginClose(t, op)
    BY <1>3 DEF CloseAbruptly, Connect, Destroy
  <2>2. call[t].pc = "idle"
    BY <1>3 DEF CloseAbruptly, Connect, Destroy, MayCallLifecycle, MayCall, Idle
  <2>3. /\ UNCHANGED <<loop, tcp, log, platform.sock, platform.joinable>>
        /\ platform'.processorStop = (platform.processorStop \/ platform.joinable)
    BY <1>0, <2>1 DEF BeginClose, PlatformStates
  <2>4. \A u \in Threads :
          call'[u].pc = IF u = t THEN (IF platform.joinable THEN "wake" ELSE "lock")
                                 ELSE call[u].pc
    BY <1>0, <2>1 DEF BeginClose, Begin
  <2>. QED BY <2>2, <2>3, <2>4
<1>4. ASSUME NEW t \in Threads, LockAndClose(t) \/ GiveUp(t)
      PROVE  ServedInv'
  <2>1. /\ UNCHANGED <<loop, tcp.id, platform.joinable, platform.processorStop, log.spawned>>
        /\ platform'.sock = NoSocket
    BY ZenonT(30), <1>0, <1>4 DEF LockAndClose, GiveUp, Connected, Disconnected, Closed, Owe,
         PlatformStates, TcpStates, Histories
  <2>2. \A u \in Threads :
          call'[u] = call[u] \/ call'[u].pc \in {"broken", "idle", "socket", "release"}
    BY <1>0, <1>4 DEF LockAndClose, GiveUp, AfterClose, Return, Idle, CallStates
  <2>. QED BY <2>1, <2>2
<1>5. ASSUME NEW t \in Threads, CreateSocket(t)
      PROVE  ServedInv'
  <2>1. /\ UNCHANGED <<loop, log, platform.joinable, platform.processorStop>>
        /\ \/ platform'.sock = tcp.id + 1 /\ tcp'.id = tcp.id + 1
           \/ platform'.sock = NoSocket /\ tcp' = tcp
    BY <1>0, <1>5 DEF CreateSocket, Socket, PlatformStates
  <2>2. \A u \in Threads :
          \/ call'[u] = call[u]
          \/ call'[u].pc \in {"connecting", "idle"}
    BY <1>0, <1>5 DEF CreateSocket, Goto, Return, Idle, CallStates
  <2>. QED BY <1>1, <2>1, <2>2
<1>6. ASSUME NEW t \in Threads, Establish(t) \/ MakeNonBlocking(t)
      PROVE  ServedInv'
  <2>1. UNCHANGED <<loop, log, platform, tcp.id>>
    BY <1>0, <1>6 DEF Establish, MakeNonBlocking, object, TcpStates
  <2>2. \A u \in Threads :
          \/ call'[u] = call[u]
          \/ /\ call[u].pc \in {"connecting", "nonblock"}
             /\ call'[u].pc \in {"nonblock", "giveUp", "idle"}
    BY <1>0, <1>6 DEF Establish, MakeNonBlocking, Goto, Return, Idle, CallStates
  <2>. QED BY <2>1, <2>2
<1>7. ASSUME NEW t \in Threads, Process(t)
      PROVE  ServedInv'
  <2>1. /\ UNCHANGED <<loop, tcp, platform.sock, platform.joinable>>
        /\ platform'.processorStop => platform.processorStop
        /\ log'.spawned = log.spawned
    BY <1>0, <1>7 DEF Process, PlatformStates, Histories
  <2>2. \A u \in Threads :
          \/ call'[u] = call[u]
          \/ /\ call[u].pc = "idle" /\ call'[u].pc = "spawn" /\ Connected
    BY <1>0, <1>7 DEF Process, MayCallLifecycle, MayCall, Begin, Idle
  <2>. QED BY <1>1, <2>1, <2>2 DEF Connected
<1>8. ASSUME NEW t \in Threads, Spawn(t) \/ AssignProcessor(t)
      PROVE  ServedInv'
  <2>1. /\ UNCHANGED <<tcp, platform.sock, platform.processorStop>>
        /\ \/ /\ call[t].pc = "spawn" /\ loop'.pc = "enter" /\ loop.pc = "none"
              /\ log'.spawned = tcp.id
           \/ /\ call[t].pc = "assign" /\ loop' = loop
              /\ log'.spawned = log.spawned
    BY <1>0, <1>8 DEF Spawn, AssignProcessor, NoLoop, PlatformStates, Histories,
         IInv, CallsInv, OneProcessor
  <2>2. \A u \in Threads :
          \/ call'[u] = call[u]
          \/ u = t /\ call'[u].pc = (IF call[t].pc = "spawn" THEN "assign" ELSE "idle")
    BY <1>0, <1>8 DEF Spawn, AssignProcessor, Goto, Return, Idle, CallStates
  <2>3. CASE call[t].pc = "spawn"
    <3>1. loop'.pc = "enter" /\ log'.spawned <= tcp'.id
      BY <1>1, <2>1, <2>3
    <3>2. ~platform'.processorStop
      BY <2>1, <2>3
    <3>. QED BY <3>1, <3>2
  <2>4. CASE call[t].pc = "assign"
    <3>1. loop.pc # "none" /\ loop' = loop
      BY <2>1, <2>4
    <3>2. \A u \in Threads : call[u].pc \in {"wake", "lock"} => call'[u] = call[u]
      BY <2>2, <2>4
    <3>. QED BY <2>1, <2>4, <3>1, <3>2
  <2>. QED BY <2>1, <2>3, <2>4
<1>9. ASSUME ProcessorStep \/ SelectFails PROVE ServedInv'
  <2>. HIDE DEF Abandoned
  <2>. QED BY <1>0, <1>9, LoopServed
<1>10. ASSUME Peer \/ UNCHANGED vars PROVE ServedInv'
  BY <1>0, <1>10 DEF Peer, PeerSends, PeerReceives, PeerShutsDown, PeerResets, vars, object, TcpStates
<1>. QED BY <1>2, <1>3, <1>4, <1>5, <1>6, <1>7, <1>8, <1>9, <1>10 DEF Next, NewCall, Continue

(* ServedInv holds at the beginning.                                        *)
LEMMA ServedInit == Init => ServedInv
BY DEF Init, ServedInv, Abandoned, NoLoop, Idle, Socket, NoSocket

(* A connection whose Process started the processor thread and returned     *)
(* true has a thread that serves it, unless somebody is closing it; one     *)
(* whose Process found an earlier connection's thread object joinable may   *)
(* be left without (line 127 of NetworkConnectionPosix.cpp).                *)
THEOREM ProcessedConnectionsAreServed == Spec => []ServedUnlessReconnected
<1>1. ASSUME IInv, ServedInv PROVE ServedUnlessReconnected
  <2>1. SUFFICES ASSUME Processed, log.spawned = platform.sock PROVE Served
    BY DEF ServedUnlessReconnected
  <2>2. platform.sock # NoSocket
    BY <2>1 DEF Processed
  <2>3. \A t \in Threads : call[t].pc \notin {"wake", "lock"}
    BY <1>1, <2>1 DEF IInv, TypeOK, CallsInv, StepsMatch, StepsOf, CallStates, CallOps, Processed
  <2>. QED BY <1>1, <2>1, <2>2, <2>3 DEF ServedInv, Abandoned, Served, ProcessorRunning
<1>. QED BY <1>1, Invariance, ServedInit, ServedStep, PTL DEF Spec
=============================================================================
