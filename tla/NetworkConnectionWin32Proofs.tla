-------------------- MODULE NetworkConnectionWin32Proofs --------------------
(***************************************************************************)
(* What holds of the Windows implementation of NetworkConnection, for any  *)
(* number of application threads, calls, sockets and bytes: what holds of  *)
(* the POSIX one (IInv, StreamInv and BytesInv of NetworkConnectionProofs, *)
(* whose lemmas serve for the steps the two share), and that events set    *)
(* once and then not again leave nothing asleep.  The latter is carried by *)
(* WinInv, which says of the socket tied to the event that whatever has    *)
(* happened to it is still to be noticed, has been noticed and not yet     *)
(* consumed, or is being acted upon:                                       *)
(*   Sleepy     a request to stop is followed by a token, and only a thread *)
(*              that is to wait does;                                       *)
(*   Beginning  what the socket is like before there is a processor;       *)
(*   Latest     the tied socket is never newer than the latest one;        *)
(*   Enabled    what Winsock will notice is not true yet;                  *)
(*   Incoming, Ending, Outgoing, Stopping                                  *)
(*              what stands for data, an end of the connection, queued     *)
(*              data and a graceful close, stretch by stretch of the loop. *)
(***************************************************************************)
EXTENDS NetworkConnectionWin32, NetworkConnectionProofs

(* The open socket is the one tied to the event.                            *)
Tied == Connected /\ winsock.socket = platform.sock

Ended == tcp.peerFin \/ tcp.reset

(* One of the two events is set.                                            *)
Told == winsock.signaled \/ platform.signal > 0

Sleepy ==
  /\ SignalExists
  /\ loop.pc = "select" /\ platform.processorStop
       => platform.signal > 0 \/ \E t \in Threads : call[t].pc = "wake"
  /\ loop.pc = "select" => loop.wait

Establishing == \E t \in Threads : call[t].pc \in {"connecting", "giveUp"}

Beginning ==
  /\ loop.pc = "none" => ~platform.peerClosed /\ loop.wait /\ tcp.sendBuf = << >>
  /\ Connected => tcp.state # "closed" /\ (tcp.state = "unconnected" => Establishing)

(* The processor has closed the socket it is about to report.               *)
Breaking == /\ loop.pc \in {"unlocked", "delegate", "resume"}
            /\ loop.kind \in {"abrupt", "graceful"}

Latest == winsock.socket <= tcp.id /\ (Breaking => ~Tied)

Enabled ==
  /\ tcp.state = "open"
  /\ loop.pc = "none" => \E t \in Threads : call[t].pc = "spawn"
  /\ winsock.read => tcp.unread = 0
  /\ winsock.write => Len(tcp.sendBuf) = SendBuffer
  /\ winsock.close <=> ~Ended
  /\ platform.peerClosed => tcp.peerFin /\ tcp.unread = 0

Incoming ==
  loop.pc \notin {"relock", "recv"} => winsock.read \/ winsock.signaled \/ platform.peerClosed

Ending ==
  loop.pc \notin {"relock", "recv"} /\ loop.wait
    => winsock.close \/ winsock.signaled \/ platform.peerClosed

Outgoing ==
  /\ loop.pc \in {"none", "enter", "test", "select", "finish"} /\ loop.wait
  /\ platform.outputQueue # << >>
  => winsock.write \/ winsock.partial \/ Told

Stopping ==
  /\ loop.pc \in {"none", "enter", "test", "select"}
  /\ platform.closing /\ platform.outputQueue = << >>
  => platform.shutdownSent \/ Told

Watched == Enabled /\ Incoming /\ Ending /\ Outgoing /\ Stopping

WinInv ==
  /\ winsock \in WinsockStates
  /\ Sleepy /\ Beginning /\ Latest
  /\ Tied => Watched

-----------------------------------------------------------------------------
(* What the two implementations share, and what they do not.                *)

(* All but three of the steps of a call are those of the POSIX one.         *)
LEMMA SharedCalls ==
  ASSUME NEW t \in Threads, NewCallWin32(t) \/ ContinueWin32(t)
  PROVE  \/ NewCall(t) \/ Continue(t)
         \/ ProcessWin32(t) \/ FinishConnect(t) \/ SpawnWin32(t)
BY DEF NewCallWin32, ContinueWin32, SendMessageWin32, CloseWin32, ConnectWin32, DestroyWin32,
       FinishCloseWin32, AssignProcessorWin32, NewCall, Continue

(* And all but four of those of the processor.                              *)
LEMMA SharedSteps ==
  ASSUME ProcessorStepWin32
  PROVE  \/ ProcessorStep
         \/ TestLoopWin32 \/ WaitReturns \/ RelockWin32 \/ ReceiveEndOfStreamWin32
BY DEF ProcessorStepWin32, RecvFailsWin32, ReceiveMessageWin32, ReceiveNothingWin32,
       CallDelegateWin32, SendNothingWin32, SendFailsWin32, SendSomeWin32, SendBlockedWin32,
       FinishLoopWin32, ExitWin32, ProcessorStep

(* Process changes nothing but the signal, the delegates, processorStop and *)
(* the mode of the socket.                                                  *)
LEMMA ProcessEffect ==
  ASSUME TypeOK, NEW t \in Threads, ProcessWin32(t)
  PROVE  /\ UNCHANGED <<processingMutex, lifetime, loop>>
         /\ platform' \in PlatformStates /\ tcp' \in TcpStates /\ log' \in Histories
         /\ UNCHANGED <<platform.sock, platform.peerClosed, platform.closing>>
         /\ UNCHANGED <<platform.shutdownSent, platform.joinable, platform.outputQueue>>
         /\ platform'.processorStop => platform.processorStop
         /\ platform'.signal \in {platform.signal, Initialize(platform.signal)}
         /\ UNCHANGED <<tcp.id, tcp.unread, tcp.peerFin, tcp.reset, tcp.sendBuf, tcp.peerGot>>
         /\ tcp'.state = tcp.state \/ (tcp.state = "blocking" /\ tcp'.state = "open")
         /\ UNCHANGED <<log.owed, log.broken, log.eof, log.afterEof, log.queued>>
         /\ \/ UNCHANGED <<call, tcp, winsock>> /\ calls' = [calls EXCEPT ![t] = @ + 1]
            \/ /\ Begin(t, "process", "spawn") /\ ~platform.joinable /\ Connected
               /\ platform'.signal = Initialize(platform.signal)
               /\ tcp'.state = IF tcp.state = "blocking" THEN "open" ELSE tcp.state
               /\ winsock' = Notice(Selected(winsock, tcp.id), tcp')
<1>. USE DEF TypeOK
<1>1. UNCHANGED <<processingMutex, lifetime, loop>>
  BY DEF ProcessWin32
<1>2. Initialize(platform.signal) \in Signals
  BY SignalOperations DEF PlatformStates
<1>3. /\ platform' \in PlatformStates
      /\ UNCHANGED <<platform.sock, platform.peerClosed, platform.closing>>
      /\ UNCHANGED <<platform.shutdownSent, platform.joinable, platform.outputQueue>>
      /\ platform'.processorStop => platform.processorStop
      /\ platform'.signal \in {platform.signal, Initialize(platform.signal)}
  <2>1. \/ platform' = [platform EXCEPT !.delegates = TRUE]
        \/ \E signal \in {platform.signal, Initialize(platform.signal)} :
             platform' = [[[platform EXCEPT !.delegates = TRUE]
                             EXCEPT !.processorStop = FALSE] EXCEPT !.signal = signal]
    BY DEF ProcessWin32, PlatformStates
  <2>. QED BY ZenonT(30), <1>2, <2>1 DEF PlatformStates
<1>4. /\ tcp' \in TcpStates
      /\ UNCHANGED <<tcp.id, tcp.unread, tcp.peerFin, tcp.reset, tcp.sendBuf, tcp.peerGot>>
      /\ tcp'.state = tcp.state \/ (tcp.state = "blocking" /\ tcp'.state = "open")
  BY DEF ProcessWin32, TcpStates
<1>5. /\ log' \in Histories
      /\ UNCHANGED <<log.owed, log.broken, log.eof, log.afterEof, log.queued>>
  BY DEF ProcessWin32, Histories, PlatformStates
<1>6. \/ UNCHANGED <<call, tcp, winsock>> /\ calls' = [calls EXCEPT ![t] = @ + 1]
      \/ /\ Begin(t, "process", "spawn") /\ ~platform.joinable /\ Connected
         /\ platform'.signal = Initialize(platform.signal)
         /\ tcp'.state = IF tcp.state = "blocking" THEN "open" ELSE tcp.state
         /\ winsock' = Notice(Selected(winsock, tcp.id), tcp')
  BY DEF ProcessWin32, TcpStates, PlatformStates
<1>. QED BY <1>1, <1>3, <1>4, <1>5, <1>6

(* Process keeps the invariant: it starts the thread only when there is none. *)
LEMMA ProcessWin32Keeps ==
  ASSUME IInv, NEW t \in Threads, ProcessWin32(t)
  PROVE  IInv'
<1>. USE DEF IInv
<1>. DEFINE began == Begin(t, "process", "spawn") /\ ~platform.joinable
<1>1. /\ UNCHANGED <<processingMutex, lifetime, loop>>
      /\ platform' \in PlatformStates /\ tcp' \in TcpStates /\ log' \in Histories
      /\ UNCHANGED <<platform.sock, platform.joinable, tcp.id, log.owed, log.broken>>
      /\ (UNCHANGED call /\ calls' = [calls EXCEPT ![t] = @ + 1]) \/ began
  BY ProcessEffect
<1>2. "process" \in CallOps /\ "spawn" \in CallSteps /\ "spawn" \in StepsOf("process")
  BY DEF CallOps, CallSteps, StepsOf
<1>3. call' \in [Threads -> CallStates] /\ calls' \in [Threads -> Nat]
  BY <1>1, <1>2, BeginType DEF TypeOK
<1>4. TypeOK'
  BY <1>1, <1>3 DEF TypeOK
<1>5. MayCall(t) /\ \A u \in Threads : call[u].op \notin LifecycleOps
  BY DEF ProcessWin32, MayCallLifecycle, LifecycleOps
<1>6. CallsInv'
  <2>1. CASE UNCHANGED call
    BY <1>1, <2>1 DEF CallsInv, StepsMatch, OneLifecycleCall, DestroyIsLast, OneProcessor, ProcessorRunning
  <2>2. CASE began
    BY <1>1, <1>2, <1>5, <2>2, CallBegins
  <2>. QED BY <1>1, <2>1, <2>2
<1>7. LockDiscipline'
  BY <1>1 DEF LockDiscipline
<1>8. \A u \in Threads : call'[u] = call[u] \/ (call[u] = Idle /\ call'[u].pc = "spawn")
  BY <1>1, <1>5 DEF Begin, MayCall, TypeOK
<1>9. SameReports
  BY <1>1, <1>8 DEF SameReports, ProcessorReporting, Idle
<1>10. LoopStays
  BY <1>1 DEF LoopStays, SocketsInv, LoopAndSockets, Connected
<1>11. \A u \in Threads : BetweenSockets(call'[u]) => BetweenSockets(call[u]) \/ ~Connected
  BY <1>8 DEF BetweenSockets
<1>12. SocketsInv' /\ BrokenExactlyOnce'
  BY <1>1, <1>9, <1>10, <1>11, QuietStep
<1>. QED BY <1>4, <1>6, <1>7, <1>12

(* So does the return of Connect.                                          *)
LEMMA FinishConnectKeeps ==
  ASSUME IInv, NEW t \in Threads, FinishConnect(t)
  PROVE  IInv'
<1>. USE DEF IInv, object
<1>1. /\ call[t].pc = "nonblock" /\ Return(t)
      /\ UNCHANGED <<platform, processingMutex, lifetime, loop, calls, tcp, log>>
  BY DEF FinishConnect
<1>2. TypeOK'
  BY <1>1, GotoType DEF TypeOK
<1>3. CallsInv'
  <2>1. Idle \in CallStates /\ Idle.pc = "idle"
    BY DEF CallStates, CallSteps, CallOps, Idle, NoSocket
  <2>. QED BY <1>1, <2>1, CallMoves DEF Return
<1>4. LockDiscipline'
  BY <1>1 DEF LockDiscipline
<1>5. \A u \in Threads : \/ call'[u] = call[u]
                         \/ u = t /\ call'[u].pc = "idle"
  BY <1>1 DEF Return, Idle, TypeOK
<1>6. SameReports /\ LoopStays
  BY <1>1, <1>5 DEF SameReports, ProcessorReporting, LoopStays, SocketsInv, LoopAndSockets, Connected
<1>7. \A u \in Threads : BetweenSockets(call'[u]) => BetweenSockets(call[u])
  BY <1>5 DEF BetweenSockets
<1>8. SocketsInv' /\ BrokenExactlyOnce'
  BY <1>1, <1>6, <1>7, QuietStep
<1>. QED BY <1>2, <1>3, <1>4, <1>8

(* So does the start of the thread.                                        *)
LEMMA SpawnWin32Keeps ==
  ASSUME IInv, NEW t \in Threads, SpawnWin32(t)
  PROVE  IInv'
<1>. USE DEF IInv, object
<1>1. /\ call[t].pc = "spawn" /\ Goto(t, "assign")
      /\ loop' = [NoLoop EXCEPT !.pc = "enter"] /\ loop'.pc = "enter"
      /\ UNCHANGED <<platform, processingMutex, lifetime, calls, tcp>>
      /\ log' = [log EXCEPT !.spawned = tcp.id]
  BY DEF SpawnWin32, NoLoop
<1>2. loop.pc = "none" /\ ~platform.joinable
  BY <1>1 DEF CallsInv, OneProcessor
<1>3. TypeOK'
  <2>1. loop' \in LoopStates
    BY <1>1 DEF LoopStates, LoopSteps, NoLoop
  <2>2. log' \in Histories
    BY <1>1 DEF TypeOK, Histories, TcpStates
  <2>. QED BY <1>1, <2>1, <2>2, GotoType DEF TypeOK, CallSteps
<1>4. call[t] \in CallStates /\ call[t].pc \in StepsOf(call[t].op)
  BY DEF TypeOK, CallsInv, StepsMatch
<1>5. call[t].op = "process"
  BY <1>1, <1>4 DEF StepsOf, CallStates, CallOps
<1>6. /\ lifetime = "owned"
      /\ \A u \in Threads : u # t => call[u].op \notin LifecycleOps
  BY <1>1, <1>5 DEF CallsInv, DestroyIsLast, OneLifecycleCall, LifecycleOps, Idle
<1>7. \A u \in Threads : u # t => call[u].pc \notin {"spawn", "assign"}
  BY <1>6 DEF CallsInv, StepsMatch, StepsOf, TypeOK, CallStates, CallOps, LifecycleOps
<1>8. \A u \in Threads :
        IF u = t THEN call'[u].pc = "assign" /\ call'[u].op = "process" ELSE call'[u] = call[u]
  BY <1>1, <1>4, <1>5 DEF Goto, TypeOK, CallStates
<1>9. StepsMatch'
  <2>1. "assign" \in StepsOf("process")
    BY DEF StepsOf
  <2>. QED BY <1>8, <2>1 DEF CallsInv, StepsMatch
<1>10. OneLifecycleCall' /\ DestroyIsLast'
  BY <1>1, <1>6, <1>8 DEF CallsInv, OneLifecycleCall, DestroyIsLast, LifecycleOps, Idle
<1>11. OneProcessor'
  BY <1>1, <1>6, <1>7, <1>8 DEF OneProcessor
<1>12. LockDiscipline'
  BY <1>1, <1>2 DEF LockDiscipline, LockedSteps
<1>13. SameReports /\ LoopStays
  BY <1>1, <1>2, <1>8 DEF SameReports, LoopStays, ProcessorReporting
<1>14. \A u \in Threads : BetweenSockets(call'[u]) => BetweenSockets(call[u])
  BY <1>8 DEF BetweenSockets
<1>15. SocketsInv' /\ BrokenExactlyOnce'
  BY <1>1, <1>13, <1>14, QuietStep
<1>. QED BY <1>3, <1>9, <1>10, <1>11, <1>12, <1>15 DEF CallsInv

(* The steps of the processor that differ move it on in its loop, and take  *)
(* or drop the mutex where that is due.                                     *)
OwnStep ==
  TestLoopWin32 \/ WaitReturns \/ RelockWin32 \/ ReceiveEndOfStreamWin32

(* What such a step leaves alone and where it leads.                        *)
LEMMA OwnStepEffect ==
  ASSUME IInv, OwnStep
  PROVE  /\ UNCHANGED <<lifetime, call, calls, tcp, log>>
         /\ platform' \in PlatformStates /\ loop' \in LoopStates
         /\ processingMutex' \in {NoThread, Processor}
         /\ UNCHANGED <<platform.sock, platform.joinable, platform.outputQueue>>
         /\ UNCHANGED <<platform.closing, platform.shutdownSent, platform.processorStop>>
         /\ platform'.signal \in {platform.signal, Clear(platform.signal)}
         /\ \/ /\ loop'.pc \in {"exit", "select", "relock", "recv"} /\ loop'.wait = loop.wait
               /\ platform'.peerClosed = platform.peerClosed
            \/ /\ loop'.pc = "unlocked" /\ loop'.kind = "peerClosed" /\ loop.pc = "recv"
               /\ loop'.about = platform.sock /\ Connected /\ ~platform.peerClosed
               /\ platform'.peerClosed
         /\ loop.pc \in {"test", "select", "relock", "recv"}
         /\ LockDiscipline'
<1>. USE ConnectionAssumption
     DEF IInv, LockDiscipline, LockedSteps, TypeOK, LoopStates, LoopSteps, Step, Unlock, Threads
<1>1. CASE TestLoopWin32
  <2>1. /\ loop.pc = "test" /\ UNCHANGED <<platform, lifetime, call, calls, tcp, log>>
        /\ \/ Step("exit") /\ UNCHANGED processingMutex
           \/ Step("select") /\ Unlock
           \/ Step("recv") /\ UNCHANGED processingMutex
    BY <1>1 DEF TestLoopWin32
  <2>. QED BY <2>1
<1>2. CASE WaitReturns
  <2>1. Clear(platform.signal) \in Signals
    BY SignalOperations DEF PlatformStates
  <2>2. /\ platform' \in PlatformStates /\ UNCHANGED <<platform.sock, platform.joinable>>
        /\ UNCHANGED <<platform.outputQueue, platform.closing, platform.shutdownSent>>
        /\ UNCHANGED <<platform.processorStop, platform.peerClosed>>
        /\ platform'.signal \in {platform.signal, Clear(platform.signal)}
    BY ZenonT(30), <1>2, <2>1 DEF WaitReturns, PlatformStates
  <2>3. /\ loop.pc = "select" /\ Step("relock")
        /\ UNCHANGED <<processingMutex, lifetime, call, calls, tcp, log>>
    BY <1>2 DEF WaitReturns
  <2>. QED BY <2>2, <2>3
<1>3. CASE RelockWin32
  <2>1. /\ loop.pc = "relock" /\ Step("recv") /\ processingMutex' = Processor
        /\ UNCHANGED <<platform, lifetime, call, calls, tcp, log>>
    BY <1>3 DEF RelockWin32, ProcessorLocks
  <2>. QED BY <2>1
<1>4. CASE ReceiveEndOfStreamWin32
  <2>1. /\ platform' \in PlatformStates /\ UNCHANGED <<platform.sock, platform.joinable>>
        /\ UNCHANGED <<platform.outputQueue, platform.closing, platform.shutdownSent>>
        /\ UNCHANGED <<platform.processorStop, platform.signal>>
        /\ platform'.peerClosed
    BY <1>4 DEF ReceiveEndOfStreamWin32, EndOfStreamSeen, PlatformStates
  <2>2. /\ loop.pc = "recv" /\ Connected /\ ~platform.peerClosed
        /\ DropForDelegate("peerClosed", platform.sock, loop.wait)
        /\ UNCHANGED <<lifetime, call, calls, tcp, log>>
    BY <1>4 DEF ReceiveEndOfStreamWin32
  <2>3. loop' \in LoopStates /\ processingMutex' = NoThread
    <3>1. platform.sock \in {NoSocket} \cup Sockets /\ loop.wait \in BOOLEAN
      BY DEF PlatformStates
    <3>. QED BY <2>2, <3>1, DropForDelegateType
  <2>4. loop'.pc = "unlocked" /\ loop'.kind = "peerClosed" /\ loop'.about = platform.sock
    BY <2>2 DEF DropForDelegate
  <2>. QED BY <2>1, <2>2, <2>3, <2>4
<1>. QED BY <1>1, <1>2, <1>3, <1>4 DEF OwnStep

(* They keep the invariant.                                                 *)
LEMMA OwnStepKeeps ==
  ASSUME IInv, OwnStep
  PROVE  IInv'
<1>. USE DEF IInv
<1>1. TypeOK' /\ LockDiscipline'
  BY OwnStepEffect DEF TypeOK
<1>2. CallsInv'
  <2>1. UNCHANGED <<call, lifetime, platform.joinable>> /\ loop.pc \notin {"none", "done"}
    BY OwnStepEffect
  <2>2. loop'.pc \notin {"none", "done"}
    BY OwnStepEffect
  <2>. QED
    BY <2>1, <2>2 DEF CallsInv, StepsMatch, OneLifecycleCall, DestroyIsLast, OneProcessor, ProcessorRunning
<1>3. SameReports /\ LoopStays
  <2>1. platform.sock # NoSocket => platform.sock \in Sockets
    BY DEF TypeOK, PlatformStates
  <2>. QED BY <2>1, OwnStepEffect DEF SameReports, ProcessorReporting, LoopStays, Connected
<1>4. SocketsInv' /\ BrokenExactlyOnce'
  BY <1>3, OwnStepEffect, QuietStep
<1>. QED BY <1>1, <1>2, <1>4

(* So IInv holds on Windows as it does on POSIX.                            *)
LEMMA Win32Keeps == IInv /\ [NextWin32]_winVars => IInv'
<1>1. ASSUME IInv, NEW t \in Threads, NewCallWin32(t) \/ ContinueWin32(t) PROVE IInv'
  <2>1. CASE NewCall(t)
    BY <1>1, <2>1, NewCallType, NewCallCalls, CallLocks, NewCallSockets DEF IInv
  <2>2. CASE Continue(t)
    BY <1>1, <2>2, ContinueType, ContinueCalls, CallLocks, ContinueSockets DEF IInv
  <2>. QED
    BY <1>1, <2>1, <2>2, SharedCalls, ProcessWin32Keeps, FinishConnectKeeps, SpawnWin32Keeps
<1>2. ASSUME IInv, ProcessorStepWin32 PROVE IInv'
  <2>1. CASE ProcessorStep
    BY <1>2, <2>1, ProcessorStepType, ProcessorStepCalls, LoopMoves, ProcessorStepSockets DEF IInv
  <2>. QED BY <1>2, <2>1, SharedSteps, OwnStepKeeps DEF OwnStep
<1>. QED BY <1>1, <1>2, PeerPreserves, StutterPreserves DEF NextWin32, PeerWin32, winVars

-----------------------------------------------------------------------------
(* The end of the stream, and the order of the bytes.                       *)

(* The steps that differ keep what is known of the end of the stream.       *)
LEMMA Win32Stream == IInv /\ StreamInv /\ [NextWin32]_winVars => StreamInv'
<1>. USE DEF StreamInv, EndOfStreamIsLast
<1>1. ASSUME StreamInv, UNCHANGED <<platform.peerClosed, loop, log.eof, log.afterEof>>
      PROVE  StreamInv'
  BY <1>1
<1>2. ASSUME IInv, StreamInv, NEW t \in Threads, NewCallWin32(t) \/ ContinueWin32(t)
      PROVE  StreamInv'
  <2>1. CASE ProcessWin32(t)
    BY <1>1, <1>2, <2>1, ProcessEffect DEF IInv
  <2>2. CASE FinishConnect(t)
    BY <1>1, <1>2, <2>2 DEF FinishConnect, object
  <2>3. CASE SpawnWin32(t)
    BY <1>2, <2>3 DEF SpawnWin32, NoLoop, object, IInv, TypeOK, Histories
  <2>. QED BY <1>2, <2>1, <2>2, <2>3, SharedCalls, StreamCall
<1>3. ASSUME IInv, StreamInv, OwnStep PROVE StreamInv'
  <2>1. log' = log
    BY <1>3, OwnStepEffect
  <2>2. \/ loop'.pc # "unlocked" /\ platform'.peerClosed = platform.peerClosed
        \/ loop'.pc = "unlocked" /\ ~platform.peerClosed /\ platform'.peerClosed
    BY <1>3, OwnStepEffect
  <2>. QED BY <1>3, <2>1, <2>2
<1>4. Peer \/ UNCHANGED vars => UNCHANGED <<platform, loop, log>>
  BY DEF Peer, PeerSends, PeerReceives, PeerShutsDown, PeerResets, vars, object
<1>5. ASSUME StreamInv, Peer \/ UNCHANGED vars PROVE StreamInv'
  BY <1>1, <1>4, <1>5
<1>. QED
  BY <1>2, <1>3, <1>5, SharedSteps, StreamProcessor DEF NextWin32, PeerWin32, winVars, OwnStep

(* And the order of the bytes: Process makes the socket non-blocking only   *)
(* when no Connect is under way.                                            *)
LEMMA Win32Bytes == IInv /\ BytesInv /\ [NextWin32]_winVars => BytesInv'
<1>1. ASSUME IInv, BytesInv, NEW t \in Threads, ProcessWin32(t) PROVE BytesInv'
  <2>1. \A u \in Threads : call[u].op # "connect"
    BY <1>1 DEF ProcessWin32, MayCallLifecycle
  <2>2. \A u \in Threads : call[u].pc \notin {"connecting", "nonblock"}
    BY <1>1, <2>1 DEF IInv, CallsInv, StepsMatch, StepsOf, TypeOK, CallStates, CallOps
  <2>3. \A u \in Threads : call'[u] = call[u] \/ call'[u].pc = "spawn"
    BY <1>1, ProcessEffect DEF IInv, Begin, TypeOK
  <2>4. /\ UNCHANGED <<platform.outputQueue, log.queued, tcp.peerGot, tcp.sendBuf, tcp.reset>>
        /\ tcp'.state = tcp.state \/ (tcp.state = "blocking" /\ tcp'.state = "open")
    BY <1>1, ProcessEffect DEF IInv
  <2>5. Live' <=> Live
    BY <2>4 DEF Live
  <2>6. SentInOrder'
    BY <1>1, <2>4, <2>5 DEF BytesInv, SentInOrder, UpToLastQueued
  <2>7. SocketFresh'
    BY <1>1, <2>2, <2>3, <2>4 DEF BytesInv, SocketFresh
  <2>. QED BY <2>6, <2>7 DEF BytesInv
<1>2. ASSUME IInv, BytesInv,
             UNCHANGED <<platform.outputQueue, platform.sock, tcp, log.queued>>,
             \A t \in Threads : call'[t].pc \in {"connecting", "nonblock"} => call'[t].pc = call[t].pc
      PROVE  BytesInv'
  BY <1>2, BytesKept DEF Live
<1>3. ASSUME IInv, BytesInv, NEW t \in Threads, FinishConnect(t) \/ SpawnWin32(t) PROVE BytesInv'
  <2>1. \A u \in Threads : call'[u] = call[u] \/ call'[u].pc \in {"idle", "assign"}
    BY <1>3 DEF FinishConnect, SpawnWin32, Goto, Return, Idle, IInv, TypeOK, CallStates
  <2>2. UNCHANGED <<platform.outputQueue, platform.sock, tcp, log.queued>>
    BY <1>3 DEF FinishConnect, SpawnWin32, object, IInv, TypeOK, Histories
  <2>. QED BY <1>2, <1>3, <2>1, <2>2
<1>4. ASSUME IInv, BytesInv, OwnStep PROVE BytesInv'
  BY <1>2, <1>4, OwnStepEffect
<1>5. ASSUME IInv, BytesInv, UNCHANGED vars PROVE BytesInv'
  BY <1>2, <1>5 DEF vars, object
<1>6. ASSUME IInv, BytesInv, NEW t \in Threads, NewCallWin32(t) \/ ContinueWin32(t)
      PROVE  BytesInv'
  BY <1>1, <1>3, <1>6, SharedCalls, BytesNewCall, BytesContinue
<1>7. ASSUME IInv, BytesInv, ProcessorStepWin32 PROVE BytesInv'
  BY <1>4, <1>7, SharedSteps, BytesProcessor DEF OwnStep
<1>. QED BY <1>5, <1>6, <1>7, BytesPeer DEF NextWin32, PeerWin32, winVars
-----------------------------------------------------------------------------
(* Nothing is left asleep.                                                  *)

(* What a look at the open socket does to each part of what Winsock knows.  *)
LEMMA NoticeParts ==
  ASSUME NEW w \in WinsockStates, NEW socket \in TcpStates,
         w.socket = socket.id, socket.state = "open"
  PROVE  /\ Notice(w, socket) \in WinsockStates
         /\ Notice(w, socket).socket = w.socket /\ Notice(w, socket).partial = w.partial
         /\ Notice(w, socket).read <=> w.read /\ ~(socket.unread > 0)
         /\ Notice(w, socket).write <=> w.write /\ ~(Len(socket.sendBuf) < SendBuffer)
         /\ Notice(w, socket).close <=> w.close /\ ~(socket.peerFin \/ socket.reset)
         /\ Notice(w, socket).signaled <=>
              \/ w.signaled \/ (w.read /\ socket.unread > 0)
              \/ (w.write /\ Len(socket.sendBuf) < SendBuffer)
              \/ (w.close /\ (socket.peerFin \/ socket.reset))
<1>. DEFINE readable == socket.unread > 0
            writable == Len(socket.sendBuf) < SendBuffer
            ended    == socket.peerFin \/ socket.reset
            signaled == \/ w.signaled \/ (w.read /\ readable)
                        \/ (w.write /\ writable) \/ (w.close /\ ended)
            read     == w.read /\ ~readable
            write    == w.write /\ ~writable
            close    == w.close /\ ~ended
<1>1. /\ signaled \in BOOLEAN /\ read \in BOOLEAN /\ write \in BOOLEAN /\ close \in BOOLEAN
  OBVIOUS
<1>2. Notice(w, socket)
        = [w EXCEPT !.signaled = signaled, !.read = read, !.write = write, !.close = close]
  BY DEF Notice, WinsockStates
<1>. HIDE DEF signaled, read, write, close
<1>3. /\ Notice(w, socket) \in WinsockStates
      /\ Notice(w, socket).socket = w.socket /\ Notice(w, socket).partial = w.partial
      /\ Notice(w, socket).read = read /\ Notice(w, socket).write = write
      /\ Notice(w, socket).close = close /\ Notice(w, socket).signaled = signaled
  BY <1>1, <1>2 DEF WinsockStates
<1>. QED BY <1>3 DEF signaled, read, write, close

(* What Winsock notices it notes within its types.                          *)
LEMMA NoticeType ==
  ASSUME NEW w \in WinsockStates, NEW socket \in TcpStates
  PROVE  Notice(w, socket) \in WinsockStates
<1>1. CASE w.socket = socket.id /\ socket.state = "open"
  BY <1>1, NoticeParts
<1>2. CASE ~(w.socket = socket.id /\ socket.state = "open")
  BY <1>2 DEF Notice
<1>. QED BY <1>1, <1>2

(* After it has looked at the open socket, what it will still notice is not *)
(* true, and what was to be noticed and is true has set the event.          *)
LEMMA NoticeEffect ==
  ASSUME NEW w \in WinsockStates, NEW socket \in TcpStates,
         w.socket = socket.id, socket.state = "open"
  PROVE  /\ Notice(w, socket).socket = w.socket /\ Notice(w, socket).partial = w.partial
         /\ w.signaled => Notice(w, socket).signaled
         /\ Notice(w, socket).read => socket.unread = 0
         /\ w.read => Notice(w, socket).read \/ Notice(w, socket).signaled
         /\ Notice(w, socket).write => w.write /\ ~(Len(socket.sendBuf) < SendBuffer)
         /\ w.write => Notice(w, socket).write \/ Notice(w, socket).signaled
         /\ Notice(w, socket).close <=> w.close /\ ~(socket.peerFin \/ socket.reset)
         /\ w.close => Notice(w, socket).close \/ Notice(w, socket).signaled
<1>1. socket.unread \in Nat
  BY DEF TcpStates
<1>. QED BY <1>1, NoticeParts

(* A step of a call that neither opens nor closes a socket: what it leaves  *)
(* for the processor to find it also signals.                               *)
PlainCall(t) ==
  \/ SendMessage(t) \/ CloseGracefully(t) \/ CloseAbruptly(t) \/ Connect(t) \/ Destroy(t)
  \/ Wake(t) \/ CallBroken(t) \/ AssignProcessor(t) \/ Release(t)

(* What such a step, or the end of Connect, leaves alone, and its wake-up.  *)
LEMMA PlainCallEffect ==
  ASSUME IInv, NEW t \in Threads, PlainCall(t) \/ FinishConnect(t)
  PROVE  /\ UNCHANGED <<loop, tcp, platform.sock, platform.peerClosed, platform.shutdownSent>>
         /\ platform.signal > 0 => platform'.signal > 0
         /\ platform.signal # NoPipe => platform'.signal # NoPipe
         /\ \/ UNCHANGED <<platform.outputQueue, platform.closing>>
            \/ platform.signal # NoPipe => platform'.signal > 0
         /\ platform'.processorStop =>
              platform.processorStop \/ call'[t].pc = "wake"
         /\ \A u \in Threads :
              /\ call[u].pc = "spawn" <=> call'[u].pc = "spawn"
              /\ call[u].pc \in {"connecting", "giveUp"} <=> call'[u].pc \in {"connecting", "giveUp"}
              /\ call[u].pc = "wake" =>
                   call'[u].pc = "wake" \/ (platform.signal # NoPipe => platform'.signal > 0)
<1>. USE DEF IInv, TypeOK, PlatformStates, object
<1>1. CASE SendMessage(t)
  <2>1. /\ UNCHANGED <<loop, tcp, call, platform.sock, platform.peerClosed>>
        /\ UNCHANGED <<platform.shutdownSent, platform.processorStop>>
        /\ platform'.signal = Set(platform.signal)
    BY <1>1 DEF SendMessage, Queued
  <2>. QED BY <2>1, SignalTokens
<1>2. CASE CloseGracefully(t)
  <2>1. /\ UNCHANGED <<loop, tcp, call, platform.sock, platform.peerClosed>>
        /\ UNCHANGED <<platform.shutdownSent, platform.processorStop, platform.outputQueue>>
        /\ \/ platform'.signal = Set(platform.signal)
           \/ UNCHANGED <<platform.signal, platform.closing>>
    BY <1>2 DEF CloseGracefully, ToClose
  <2>. QED BY <2>1, SignalTokens
<1>3. CASE CloseAbruptly(t) \/ Connect(t) \/ Destroy(t)
  <2>1. PICK op : BeginClose(t, op)
    BY <1>3 DEF CloseAbruptly, Connect, Destroy
  <2>2. call[t].pc = "idle"
    BY <1>3 DEF CloseAbruptly, Connect, Destroy, MayCallLifecycle, MayCall, Idle
  <2>3. /\ UNCHANGED <<loop, tcp, platform.sock, platform.peerClosed, platform.signal>>
        /\ UNCHANGED <<platform.shutdownSent, platform.outputQueue, platform.closing>>
        /\ platform'.processorStop = (platform.processorStop \/ platform.joinable)
    BY <2>1 DEF BeginClose
  <2>4. \A u \in Threads :
          call'[u].pc = IF u = t THEN (IF platform.joinable THEN "wake" ELSE "lock")
                                 ELSE call[u].pc
    BY <2>1 DEF BeginClose, Begin
  <2>. QED BY <2>2, <2>3, <2>4
<1>4. CASE Wake(t)
  <2>1. /\ call[t].pc = "wake"
        /\ UNCHANGED <<loop, tcp, platform.sock, platform.peerClosed, platform.shutdownSent>>
        /\ UNCHANGED <<platform.outputQueue, platform.closing, platform.processorStop>>
        /\ platform'.signal = Set(platform.signal)
        /\ \A u \in Threads : call'[u].pc = IF u = t THEN "lock" ELSE call[u].pc
    BY <1>4 DEF Wake, Woken, Goto, CallStates
  <2>. QED BY <2>1, SignalTokens
<1>5. CASE CallBroken(t) \/ AssignProcessor(t) \/ Release(t) \/ FinishConnect(t)
  <2>1. /\ UNCHANGED <<loop, tcp, platform.sock, platform.peerClosed, platform.shutdownSent>>
        /\ UNCHANGED <<platform.outputQueue, platform.closing, platform.processorStop>>
        /\ platform'.signal = platform.signal
    BY <1>5 DEF CallBroken, AssignProcessor, Release, FinishConnect
  <2>2. \A u \in Threads :
          \/ call'[u] = call[u]
          \/ /\ call[u].pc \notin {"spawn", "connecting", "giveUp", "wake"}
             /\ call'[u].pc \in {"idle", "socket", "release"}
    BY <1>5 DEF CallBroken, AssignProcessor, Release, FinishConnect, AfterClose, Return, Idle, CallStates
  <2>. QED BY <2>1, <2>2
<1>. QED BY <1>1, <1>2, <1>3, <1>4, <1>5 DEF PlainCall

(* Such a step leaves nothing asleep.                                       *)
LEMMA PlainCallWatched ==
  ASSUME IInv, WinInv, NEW t \in Threads, PlainCall(t) \/ FinishConnect(t), winsock' = winsock
  PROVE  WinInv'
<1>. USE DEF WinInv
<1>1. Sleepy'
  <2>1. SignalExists'
    BY PlainCallEffect DEF Sleepy, SignalExists, ProcessorRunning
  <2>2. ASSUME loop'.pc = "select", platform'.processorStop
        PROVE  platform'.signal > 0 \/ \E u \in Threads : call'[u].pc = "wake"
    <3>1. loop.pc = "select" /\ platform.signal # NoPipe
      BY <2>2, PlainCallEffect DEF Sleepy, SignalExists, ProcessorRunning
    <3>2. platform.processorStop \/ call'[t].pc = "wake"
      BY <2>2, PlainCallEffect
    <3>. QED BY <3>1, <3>2, PlainCallEffect DEF Sleepy
  <2>3. loop' = loop
    BY PlainCallEffect
  <2>. QED BY <2>1, <2>2, <2>3 DEF Sleepy
<1>2. Beginning' /\ Latest'
  BY PlainCallEffect DEF Beginning, Establishing, Latest, Breaking, Tied, Connected
<1>3. ASSUME Tied' PROVE Watched'
  <2>1. Tied /\ Watched
    BY <1>3, PlainCallEffect DEF Tied, Connected
  <2>2. Enabled'
    BY <2>1, PlainCallEffect DEF Watched, Enabled, Ended
  <2>3. Incoming' /\ Ending'
    BY <2>1, PlainCallEffect DEF Watched, Incoming, Ending
  <2>4. loop.pc # "done" => platform.signal # NoPipe
    BY <2>1 DEF Watched, Enabled, Sleepy, SignalExists, ProcessorRunning
  <2>5. Told => Told'
    BY PlainCallEffect DEF Told
  <2>6. platform.signal # NoPipe =>
          Told' \/ UNCHANGED <<platform.outputQueue, platform.closing>>
    BY PlainCallEffect DEF Told
  <2>7. Outgoing'
    BY <2>1, <2>4, <2>5, <2>6, PlainCallEffect DEF Watched, Outgoing
  <2>8. Stopping'
    BY <2>1, <2>4, <2>5, <2>6, PlainCallEffect DEF Watched, Stopping
  <2>. QED BY <2>2, <2>3, <2>7, <2>8 DEF Watched
<1>. QED BY <1>1, <1>2, <1>3
(* A step after which the open socket is not the tied one leaves nothing    *)
(* that the event should have been set for.                                 *)
LEMMA UntiedWatched ==
  ASSUME WinInv, winsock' = winsock, ~Tied', loop' = loop, tcp'.id >= tcp.id, tcp.id \in Int,
         tcp'.id \in Int,
         UNCHANGED <<platform.signal, platform.processorStop, platform.peerClosed>>,
         tcp'.sendBuf = tcp.sendBuf \/ tcp'.sendBuf = << >>,
         platform'.sock # NoSocket =>
           tcp'.state # "closed" /\ (tcp'.state = "unconnected" => Establishing'),
         \A t \in Threads : /\ call[t].pc = "spawn" <=> call'[t].pc = "spawn"
                            /\ call[t].pc = "wake" => call'[t].pc = "wake"
  PROVE  WinInv'
<1>. USE DEF WinInv
<1>1. winsock.socket \in Int
  BY DEF WinsockStates, Sockets, NoSocket
<1>2. Sleepy'
  BY DEF Sleepy, SignalExists, ProcessorRunning
<1>3. Beginning'
  BY DEF Beginning, Connected
<1>4. Latest'
  BY <1>1 DEF Latest
<1>. QED BY <1>2, <1>3, <1>4

(* Close, Connect and the destructor close the socket or find it closed.    *)
LEMMA DisconnectWatched ==
  ASSUME IInv, WinInv, NEW t \in Threads, LockAndClose(t) \/ GiveUp(t), winsock' = winsock
  PROVE  WinInv'
<1>. USE DEF IInv, TypeOK, PlatformStates, TcpStates
<1>1. /\ platform'.sock = NoSocket /\ loop' = loop /\ tcp'.id = tcp.id
      /\ UNCHANGED <<platform.signal, platform.processorStop, platform.peerClosed>>
      /\ tcp'.sendBuf = tcp.sendBuf \/ tcp'.sendBuf = << >>
  BY DEF LockAndClose, GiveUp, Disconnected, Closed, Connected
<1>2. call[t].pc \in {"lock", "giveUp"}
  BY DEF LockAndClose, GiveUp
<1>3. \A u \in Threads :
        \/ call'[u] = call[u]
        \/ u = t /\ call'[u].pc \notin {"spawn", "wake"}
  BY DEF LockAndClose, GiveUp, AfterClose, Return, Idle, CallStates
<1>4. tcp.id \in Int
  BY DEF Sockets, NoSocket
<1>5. \A u \in Threads : /\ call[u].pc = "spawn" <=> call'[u].pc = "spawn"
                         /\ call[u].pc = "wake" => call'[u].pc = "wake"
  BY <1>2, <1>3
<1>6. ~Tied' /\ tcp'.id >= tcp.id /\ tcp'.id \in Int
  BY <1>1, <1>4 DEF Tied, Connected
<1>. QED BY ONLY WinInv, winsock' = winsock, <1>1, <1>4, <1>5, <1>6, UntiedWatched

(* Connect stores a newer socket than any that was tied.                    *)
LEMMA CreateSocketWatched ==
  ASSUME IInv, WinInv, NEW t \in Threads, CreateSocket(t), winsock' = winsock
  PROVE  WinInv'
<1>. USE DEF IInv, TypeOK, PlatformStates, TcpStates
<1>1. tcp.id \in Int /\ winsock.socket \in Int /\ winsock.socket <= tcp.id
  BY DEF WinInv, Latest, WinsockStates, Sockets, NoSocket
<1>2. /\ call[t].pc = "socket" /\ loop' = loop
      /\ UNCHANGED <<platform.signal, platform.processorStop, platform.peerClosed>>
      /\ \/ /\ platform'.sock = tcp.id + 1 /\ tcp'.id = tcp.id + 1
            /\ tcp'.sendBuf = << >> /\ tcp'.state = "unconnected" /\ Goto(t, "connecting")
         \/ /\ platform'.sock = NoSocket /\ tcp' = tcp /\ Return(t)
  BY DEF CreateSocket, Socket
<1>3. \A u \in Threads :
        \/ call'[u] = call[u]
        \/ u = t /\ call'[u].pc \in {"connecting", "idle"}
  BY <1>2 DEF Goto, Return, Idle, CallStates
<1>4. Goto(t, "connecting") => Establishing'
  BY DEF Goto, Establishing, CallStates
<1>5. ~Tied'
  BY <1>1, <1>2 DEF Tied, Connected
<1>6. \A u \in Threads : /\ call[u].pc = "spawn" <=> call'[u].pc = "spawn"
                         /\ call[u].pc = "wake" => call'[u].pc = "wake"
  BY <1>2, <1>3
<1>7. platform'.sock # NoSocket =>
        tcp'.state # "closed" /\ (tcp'.state = "unconnected" => Establishing')
  BY <1>2, <1>4
<1>8. tcp'.id >= tcp.id /\ tcp'.id \in Int
  BY <1>1, <1>2
<1>. QED BY ONLY WinInv, winsock' = winsock, <1>1, <1>2, <1>5, <1>6, <1>7, <1>8, UntiedWatched

(* The socket connect() connects is not tied yet.                           *)
LEMMA EstablishWatched ==
  ASSUME IInv, BytesInv, WinInv, NEW t \in Threads, Establish(t), winsock' = winsock
  PROVE  WinInv'
<1>. USE DEF IInv, TypeOK, PlatformStates, TcpStates
<1>1. tcp.id \in Int
  BY DEF Sockets, NoSocket
<1>2. /\ call[t].pc = "connecting" /\ UNCHANGED <<platform, loop, tcp.id, tcp.sendBuf>>
      /\ \/ Connected /\ tcp'.state = "blocking" /\ Goto(t, "nonblock")
         \/ tcp'.state = tcp.state /\ Goto(t, "giveUp")
  BY DEF Establish, object
<1>3. \A u \in Threads :
        \/ call'[u] = call[u]
        \/ u = t /\ call'[u].pc \in {"nonblock", "giveUp"}
  BY <1>2 DEF Goto, CallStates
<1>4. Goto(t, "giveUp") => Establishing'
  BY DEF Goto, Establishing, CallStates
<1>5. ~Tied
  BY <1>2 DEF BytesInv, SocketFresh, WinInv, Watched, Enabled, Tied
<1>6. ~Tied'
  BY <1>2, <1>5 DEF Tied, Connected
<1>7. tcp.state # "closed" \/ ~Connected
  BY DEF WinInv, Beginning
<1>8. \A u \in Threads : /\ call[u].pc = "spawn" <=> call'[u].pc = "spawn"
                         /\ call[u].pc = "wake" => call'[u].pc = "wake"
  BY <1>2, <1>3
<1>9. platform'.sock # NoSocket =>
        tcp'.state # "closed" /\ (tcp'.state = "unconnected" => Establishing')
  BY <1>2, <1>4, <1>7 DEF Connected
<1>10. /\ loop' = loop /\ tcp'.id >= tcp.id /\ tcp'.id \in Int
       /\ UNCHANGED <<platform.signal, platform.processorStop, platform.peerClosed>>
       /\ tcp'.sendBuf = tcp.sendBuf
  BY <1>1, <1>2
<1>. QED BY ONLY WinInv, winsock' = winsock, <1>1, <1>6, <1>8, <1>9, <1>10, UntiedWatched

(* Process ties the open socket to the event, which Winsock sets at once:   *)
(* nothing has been sent yet, so there is room for data.                    *)
LEMMA ProcessWatched ==
  ASSUME IInv, WinInv, NEW t \in Threads, ProcessWin32(t)
  PROVE  WinInv'
<1>. USE DEF IInv, WinInv
<1>1. TypeOK
  OBVIOUS
<1>2. MayCall(t) /\ \A u \in Threads : call[u].op \notin LifecycleOps
  BY DEF ProcessWin32, MayCallLifecycle, LifecycleOps
<1>3. \A u \in Threads : call'[u] = call[u] \/ (u = t /\ call[u] = Idle /\ call'[u].pc = "spawn")
  BY <1>2, ProcessEffect DEF Begin, MayCall, TypeOK
<1>4. /\ UNCHANGED <<loop, platform.sock, platform.peerClosed, platform.outputQueue>>
      /\ UNCHANGED <<platform.closing, platform.shutdownSent>>
      /\ platform'.processorStop => platform.processorStop
      /\ UNCHANGED <<tcp.id, tcp.unread, tcp.peerFin, tcp.reset, tcp.sendBuf>>
      /\ tcp' \in TcpStates
  BY ProcessEffect
<1>5. platform.signal \in Signals
  BY DEF TypeOK, PlatformStates
<1>6. /\ platform.signal > 0 => platform'.signal > 0
      /\ platform.signal # NoPipe => platform'.signal # NoPipe
      /\ (\E u \in Threads : call'[u] # call[u]) => platform'.signal # NoPipe
  BY <1>5, ProcessEffect, SignalTokens
<1>7. \A u \in Threads : call[u].pc = "wake" => call'[u].pc = "wake"
  BY <1>3 DEF Idle
<1>8. Sleepy'
  <2>1. SignalExists'
    BY <1>3, <1>4, <1>6 DEF Sleepy, SignalExists, ProcessorRunning
  <2>. QED BY <1>4, <1>6, <1>7, <2>1 DEF Sleepy
<1>9. tcp'.state = tcp.state \/ (tcp.state = "blocking" /\ tcp'.state = "open")
  BY ProcessEffect
<1>10. Beginning'
  <2>1. Establishing => Establishing'
    BY <1>3 DEF Establishing, Idle
  <2>. QED BY <1>4, <1>9, <2>1 DEF Beginning, Connected
<1>11. CASE UNCHANGED <<call, tcp, winsock>>
  <2>1. Latest'
    BY <1>4, <1>11 DEF Latest, Breaking, Tied, Connected
  <2>2. Told => Told'
    BY <1>6, <1>11 DEF Told
  <2>3. Tied' => Tied
    BY <1>4, <1>11 DEF Tied, Connected
  <2>4. ASSUME Tied' PROVE Watched'
    BY <1>4, <1>11, <2>2, <2>3, <2>4
    DEF Watched, Enabled, Ended, Incoming, Ending, Outgoing, Stopping
  <2>. QED BY <1>8, <1>10, <1>11, <2>1, <2>4
<1>12. CASE /\ Begin(t, "process", "spawn") /\ ~platform.joinable /\ Connected
            /\ tcp'.state = IF tcp.state = "blocking" THEN "open" ELSE tcp.state
            /\ winsock' = Notice(Selected(winsock, tcp.id), tcp')
  <2>. DEFINE w == Selected(winsock, tcp.id)
  <2>1. \A u \in Threads : call[u].pc \notin {"assign", "connecting", "giveUp"}
    BY <1>2 DEF CallsInv, StepsMatch, StepsOf, TypeOK, CallStates, CallOps, LifecycleOps
  <2>2. loop.pc = "none"
    BY <1>2, <1>12, <2>1 DEF CallsInv, OneProcessor, MayCall
  <2>3. tcp'.state = "open"
    BY <1>12, <2>1 DEF Beginning, Establishing, TypeOK, TcpStates
  <2>4. /\ w \in WinsockStates /\ w.socket = tcp'.id
        /\ w.read /\ w.write /\ w.close
    BY <1>4 DEF Selected, WinsockStates, TypeOK, TcpStates
  <2>5. tcp.sendBuf = << >> /\ loop.wait /\ ~platform.peerClosed
    BY <2>2 DEF Beginning
  <2>6. Len(tcp'.sendBuf) < SendBuffer
    BY <1>4, <2>5, EmptySeq, ConnectionAssumption
  <2>. HIDE DEF w
  <2>7. winsock' = Notice(w, tcp') /\ winsock' \in WinsockStates
    BY <1>4, <1>12, <2>4, NoticeType DEF w
  <2>8. /\ winsock'.socket = tcp'.id /\ winsock'.signaled /\ ~winsock'.write
        /\ winsock'.read => tcp'.unread = 0
        /\ winsock'.close <=> ~Ended'
    BY <1>4, <2>3, <2>4, <2>6, <2>7, NoticeEffect DEF Ended
  <2>9. Latest'
    BY <1>4, <2>2, <2>8 DEF Latest, Breaking, TypeOK, TcpStates, Sockets, NoSocket
  <2>10. call'[t].pc = "spawn"
    BY <1>12 DEF Begin, TypeOK
  <2>11. Watched'
    BY <1>4, <2>2, <2>3, <2>5, <2>8, <2>10
    DEF Watched, Enabled, Incoming, Ending, Outgoing, Stopping, Told
  <2>. QED BY <1>8, <1>10, <2>7, <2>9, <2>11
<1>. QED BY <1>1, <1>11, <1>12, ProcessEffect

(* The thread starts with all that was to be noticed still so.              *)
LEMMA SpawnWatched ==
  ASSUME IInv, WinInv, NEW t \in Threads, SpawnWin32(t)
  PROVE  WinInv'
<1>. USE DEF IInv, WinInv, object
<1>1. /\ call[t].pc = "spawn" /\ Goto(t, "assign")
      /\ loop'.pc = "enter" /\ loop'.wait
      /\ UNCHANGED <<platform, tcp, winsock>>
  BY DEF SpawnWin32, NoLoop
<1>2. loop.pc = "none"
  BY <1>1 DEF CallsInv, OneProcessor
<1>3. \A u \in Threads : \/ call'[u] = call[u]
                         \/ u = t /\ call'[u].pc = "assign"
  BY <1>1 DEF Goto, TypeOK, CallStates
<1>4. Sleepy'
  BY <1>1 DEF Sleepy, SignalExists
<1>5. Beginning'
  <2>1. Establishing => Establishing'
    BY <1>1, <1>3 DEF Establishing
  <2>. QED BY <1>1, <2>1 DEF Beginning, Connected
<1>6. Latest'
  BY <1>1 DEF Latest, Breaking
<1>7. Tied' => Tied
  BY <1>1 DEF Tied, Connected
<1>8. ASSUME Tied' PROVE Watched'
  <2>1. loop.wait
    BY <1>2 DEF Beginning
  <2>. QED BY <1>1, <1>2, <1>7, <1>8, <2>1
       DEF Watched, Enabled, Ended, Incoming, Ending, Outgoing, Stopping, Told
<1>. QED BY <1>1, <1>4, <1>5, <1>6, <1>8
(* A step of the processor, which leaves the socket as it is or closes it,  *)
(* keeps WinInv if it keeps what is said of the tied socket.                *)
LEMMA LoopFrame ==
  ASSUME IInv, WinInv, call' = call, loop.pc \notin {"none", "done"}, loop'.pc # "none",
         platform'.signal \in {platform.signal, Clear(platform.signal)},
         loop'.pc = "select" => ~platform'.processorStop /\ loop'.wait,
         tcp'.id = tcp.id,
         platform'.sock \in {NoSocket, platform.sock},
         platform'.sock # NoSocket => tcp'.state = tcp.state,
         winsock' \in WinsockStates, winsock'.socket = winsock.socket,
         Breaking' => Breaking \/ ~Tied',
         Tied' => Watched'
  PROVE  WinInv'
<1>. USE DEF WinInv
<1>1. Sleepy'
  <2>1. platform.signal \in Signals /\ platform.signal # NoPipe
    BY DEF Sleepy, SignalExists, ProcessorRunning, IInv, TypeOK, PlatformStates
  <2>. QED BY <2>1, SignalTokens DEF Sleepy, SignalExists
<1>2. Beginning'
  BY DEF Beginning, Establishing, Connected
<1>3. Latest'
  BY DEF Latest, Tied, Connected
<1>. QED BY <1>1, <1>2, <1>3

(* The loop's steps on the way to sleep and back.                           *)
LEMMA WaitWatched ==
  ASSUME IInv, WinInv, \/ Enter /\ winsock' = winsock
                       \/ TestLoopWin32 \/ WaitReturns \/ RelockWin32
  PROVE  WinInv'
<1>. USE DEF WinInv
<1>1. /\ winsock' \in WinsockStates /\ winsock'.socket = winsock.socket
      /\ UNCHANGED <<winsock.read, winsock.write, winsock.close, winsock.partial>>
      /\ loop.pc # "select" => winsock' = winsock
  BY DEF TestLoopWin32, WaitReturns, RelockWin32, WinsockStates, ProcessorLocks
<1>2. /\ UNCHANGED <<call, tcp, platform.sock, platform.peerClosed, platform.processorStop>>
      /\ UNCHANGED <<platform.outputQueue, platform.closing, platform.shutdownSent>>
      /\ platform'.signal \in {platform.signal, Clear(platform.signal)}
      /\ loop.pc # "select" => platform'.signal = platform.signal
  BY DEF Enter, TestLoopWin32, WaitReturns, RelockWin32, ProcessorLocks, IInv, TypeOK, PlatformStates
<1>3. /\ loop'.wait = loop.wait
      /\ \/ loop.pc = "enter" /\ loop'.pc = "test"
         \/ loop.pc = "test" /\ loop'.pc \in {"exit", "recv"}
         \/ loop.pc = "test" /\ loop'.pc = "select" /\ ~platform.processorStop /\ loop.wait
         \/ loop.pc = "select" /\ loop'.pc = "relock"
         \/ loop.pc = "relock" /\ loop'.pc = "recv"
  BY DEF Enter, TestLoopWin32, WaitReturns, RelockWin32, ProcessorLocks, Step, IInv, TypeOK, LoopStates
<1>4. ASSUME Tied' PROVE Watched'
  <2>1. Watched
    BY <1>1, <1>2, <1>4 DEF Tied, Connected
  <2>2. Enabled'
    BY <1>1, <1>2, <1>3, <2>1 DEF Watched, Enabled, Ended
  <2>3. Incoming' /\ Ending'
    BY <1>1, <1>2, <1>3, <2>1 DEF Watched, Incoming, Ending
  <2>4. Outgoing' /\ Stopping'
    BY <1>1, <1>2, <1>3, <2>1 DEF Watched, Outgoing, Stopping, Told
  <2>. QED BY <2>2, <2>3, <2>4 DEF Watched
<1>5. ~Breaking'
  BY <1>3 DEF Breaking
<1>. QED BY <1>1, <1>2, <1>3, <1>4, <1>5, LoopFrame

(* A step that ends with the socket closed.                                 *)
LEMMA BreakWatched ==
  ASSUME IInv, WinInv, winsock' = winsock, RecvFails \/ SendFails
  PROVE  WinInv'
<1>. USE DEF WinInv
<1>1. BreakAbruptly /\ loop.pc \in {"recv", "send"} /\ call' = call
  BY DEF RecvFails, SendFails
<1>2. /\ platform'.sock = NoSocket /\ tcp'.id = tcp.id
      /\ UNCHANGED <<platform.signal, platform.processorStop>>
  BY <1>1 DEF BreakAbruptly, Disconnected, Closed, Connected, IInv, TypeOK, PlatformStates, TcpStates
<1>3. loop'.pc \in {"unlocked", "exit"}
  BY <1>1 DEF BreakAbruptly, DropForDelegate, Step, IInv, TypeOK, LoopStates
<1>4. ~Tied'
  BY <1>2 DEF Tied, Connected
<1>. QED BY <1>1, <1>2, <1>3, <1>4, LoopFrame

(* The tied socket is the latest one.                                       *)
LEMMA TiedIsLatest ==
  ASSUME IInv, WinInv, Tied
  PROVE  winsock.socket = tcp.id /\ tcp.state = "open" /\ Watched /\ ~Breaking
BY DEF IInv, SocketsInv, LatestSocket, WinInv, Tied, Connected, Watched, Enabled, Latest

(* What recv() does to the events: it enables FD_READ, and what is true     *)
(* already sets the event.                                                  *)
LEMMA AfterRecvEffect ==
  ASSUME IInv, WinInv, AfterRecv, tcp' \in TcpStates
  PROVE  /\ winsock' \in WinsockStates /\ winsock'.socket = winsock.socket
         /\ Tied /\ tcp'.id = tcp.id /\ tcp'.state = tcp.state =>
              /\ winsock'.partial = winsock.partial
              /\ winsock.signaled => winsock'.signaled
              /\ winsock'.read => tcp'.unread = 0
              /\ winsock'.read \/ winsock'.signaled
              /\ winsock'.write => winsock.write
              /\ winsock'.close <=> winsock.close /\ ~(tcp'.peerFin \/ tcp'.reset)
              /\ winsock.close => winsock'.close \/ winsock'.signaled
<1>. DEFINE w == [winsock EXCEPT !.read = TRUE]
<1>1. /\ w \in WinsockStates /\ w.read /\ w.socket = winsock.socket
      /\ w.partial = winsock.partial /\ w.signaled = winsock.signaled
      /\ w.write = winsock.write /\ w.close = winsock.close
  BY DEF WinInv, WinsockStates
<1>2. winsock' = Notice(w, tcp')
  BY DEF AfterRecv
<1>. HIDE DEF w
<1>3. winsock' \in WinsockStates
  BY <1>1, <1>2, NoticeType
<1>4. winsock'.socket = winsock.socket
  <2>1. CASE w.socket = tcp'.id /\ tcp'.state = "open"
    BY <1>1, <1>2, <2>1, NoticeEffect
  <2>2. CASE ~(w.socket = tcp'.id /\ tcp'.state = "open")
    BY <1>1, <1>2, <2>2 DEF Notice
  <2>. QED BY <2>1, <2>2
<1>5. ASSUME Tied, tcp'.id = tcp.id, tcp'.state = tcp.state
      PROVE  w.socket = tcp'.id /\ tcp'.state = "open"
  BY <1>1, <1>5, TiedIsLatest
<1>. QED BY <1>1, <1>2, <1>3, <1>4, <1>5, NoticeEffect

(* The loop's receiving steps.                                              *)
LEMMA ReceiveMessageWatched ==
  ASSUME IInv, WinInv, ReceiveMessageWin32
  PROVE  WinInv'
<1>. USE DEF IInv, TypeOK
<1>1. /\ loop.pc = "recv" /\ ~platform.peerClosed /\ AfterRecv
      /\ loop'.pc = "unlocked" /\ ~loop'.wait /\ loop'.kind = "message"
      /\ UNCHANGED <<platform, call>>
  BY DEF ReceiveMessageWin32, ReceiveMessage, DropForDelegate, LoopStates
<1>2. /\ tcp' \in TcpStates /\ UNCHANGED <<tcp.id, tcp.state, tcp.sendBuf, tcp.peerFin, tcp.reset>>
  <2>1. (IF tcp.unread <= ReadSize THEN 0 ELSE tcp.unread - ReadSize) \in Nat
    BY ConnectionAssumption DEF TcpStates
  <2>. QED BY <2>1 DEF ReceiveMessageWin32, ReceiveMessage, TcpStates
<1>3. winsock' \in WinsockStates /\ winsock'.socket = winsock.socket
  BY <1>1, <1>2, AfterRecvEffect
<1>4. ASSUME Tied' PROVE Watched'
  <2>1. Tied /\ Watched
    BY <1>1, <1>3, <1>4 DEF WinInv, Tied, Connected
  <2>2. Enabled'
    BY <1>1, <1>2, <2>1, AfterRecvEffect DEF Watched, Enabled, Ended
  <2>3. Incoming' /\ Ending'
    BY <1>1, <1>2, <2>1, AfterRecvEffect DEF Incoming, Ending
  <2>. QED BY <1>1, <2>2, <2>3 DEF Watched, Outgoing, Stopping
<1>5. ~Breaking'
  BY <1>1 DEF Breaking
<1>. QED BY <1>1, <1>2, <1>3, <1>4, <1>5, LoopFrame

(* The end of the stream is remembered.                                     *)
LEMMA ReceiveEndWatched ==
  ASSUME IInv, WinInv, ReceiveEndOfStreamWin32
  PROVE  WinInv'
<1>. USE DEF IInv, TypeOK
<1>1. /\ loop.pc = "recv" /\ tcp.peerFin /\ tcp.unread = 0 /\ AfterRecv
      /\ loop'.pc = "unlocked" /\ loop'.kind = "peerClosed"
      /\ platform'.peerClosed
      /\ UNCHANGED <<platform.sock, platform.signal, call, tcp>>
  BY DEF ReceiveEndOfStreamWin32, EndOfStreamSeen, DropForDelegate, LoopStates, PlatformStates
<1>2. winsock' \in WinsockStates /\ winsock'.socket = winsock.socket
  BY <1>1, AfterRecvEffect
<1>3. ASSUME Tied' PROVE Watched'
  <2>1. Tied /\ Watched
    BY <1>1, <1>2, <1>3 DEF WinInv, Tied, Connected
  <2>2. Enabled'
    BY <1>1, <2>1, AfterRecvEffect DEF Watched, Enabled, Ended
  <2>. QED BY <1>1, <2>2 DEF Watched, Incoming, Ending, Outgoing, Stopping
<1>4. ~Breaking'
  BY <1>1 DEF Breaking
<1>. QED BY <1>1, <1>2, <1>3, <1>4, LoopFrame

(* recv() finds nothing, and what is to come will be noticed.               *)
LEMMA ReceiveNothingWatched ==
  ASSUME IInv, WinInv, ReceiveNothingWin32
  PROVE  WinInv'
<1>. USE DEF IInv, TypeOK
<1>1. /\ loop.pc = "recv" /\ loop'.pc = "send" /\ UNCHANGED <<platform, call, tcp>>
      /\ \/ platform.peerClosed /\ winsock' = winsock
         \/ ~platform.peerClosed /\ ~Ended /\ AfterRecv
  BY DEF ReceiveNothingWin32, ReceiveNothing, LoopStates, object, Ended
<1>2. winsock' \in WinsockStates /\ winsock'.socket = winsock.socket
  BY <1>1, AfterRecvEffect DEF WinInv
<1>3. ASSUME Tied' PROVE Watched'
  <2>1. Tied /\ Watched
    BY <1>1, <1>2, <1>3 DEF WinInv, Tied, Connected
  <2>2. CASE platform.peerClosed /\ winsock' = winsock
    BY <1>1, <2>1, <2>2 DEF Watched, Enabled, Ended, Incoming, Ending, Outgoing, Stopping
  <2>3. CASE ~platform.peerClosed /\ ~Ended /\ AfterRecv
    <3>1. Enabled'
      BY <1>1, <2>1, <2>3, AfterRecvEffect DEF Watched, Enabled, Ended
    <3>2. winsock.close
      BY <2>1, <2>3 DEF Watched, Enabled
    <3>. QED BY <1>1, <2>1, <2>3, <3>1, <3>2, AfterRecvEffect
         DEF Watched, Incoming, Ending, Outgoing, Stopping
  <2>. QED BY <1>1, <2>2, <2>3
<1>4. ~Breaking'
  BY <1>1 DEF Breaking
<1>. QED BY <1>1, <1>2, <1>3, <1>4, LoopFrame
(* The delegates are called and return.  After a break the open socket, if  *)
(* there is one, is not the tied one, and the loop goes on only to end.     *)
LEMMA DelegateWatched ==
  ASSUME IInv, WinInv, CallDelegate \/ DelegateReturns \/ Resume, winsock' = winsock
  PROVE  WinInv'
<1>. USE DEF IInv, TypeOK
<1>1. UNCHANGED <<platform, call, tcp>> /\ loop'.wait = loop.wait /\ loop'.kind = loop.kind
  BY DEF CallDelegate, DelegateReturns, Resume, ProcessorLocks, Step, LoopStates, object
<1>2. \/ loop.pc = "unlocked" /\ loop'.pc = "delegate"
      \/ loop.pc = "delegate" /\ loop'.pc = "resume"
      \/ loop.pc = "resume" /\ loop'.pc = "send"
      \/ loop.pc = "resume" /\ Breaking /\ loop'.pc \in {"exit", "test"}
  BY DEF CallDelegate, DelegateReturns, Resume, ProcessorLocks, Step, LoopStates, Breaking
<1>3. ASSUME Tied' PROVE Watched'
  <2>1. Tied
    BY <1>1, <1>3 DEF Tied, Connected
  <2>2. Watched /\ ~Breaking
    BY <2>1, TiedIsLatest
  <2>3. \/ loop.pc = "unlocked" /\ loop'.pc = "delegate"
        \/ loop.pc = "delegate" /\ loop'.pc = "resume"
        \/ loop.pc = "resume" /\ loop'.pc = "send"
    BY <1>2, <2>2
  <2>. QED BY <1>1, <2>2, <2>3 DEF Watched, Enabled, Ended, Incoming, Ending, Outgoing, Stopping
<1>4. Breaking' => Breaking
  BY <1>1, <1>2 DEF Breaking
<1>5. winsock' \in WinsockStates
  BY DEF WinInv
<1>. QED BY <1>1, <1>2, <1>3, <1>4, <1>5, LoopFrame

(* The loop's sending steps: what is left in the queue waits for a refused  *)
(* send() to be possible again, except after one that took only a part.     *)
LEMMA SendWatched ==
  ASSUME IInv, WinInv, \/ SendNothing /\ winsock' = winsock
                       \/ SendSomeWin32 \/ SendBlockedWin32
  PROVE  WinInv'
<1>. USE DEF IInv, TypeOK
<1>1. CASE SendNothing /\ winsock' = winsock
  <2>1. /\ UNCHANGED <<platform, call, tcp>> /\ loop'.wait = loop.wait
        /\ loop.pc = "send" /\ (loop'.pc = "exit" \/ (loop'.pc = "finish" /\ platform.outputQueue = << >>))
    BY <1>1 DEF SendNothing, Step, LoopStates, object
  <2>2. ASSUME Tied' PROVE Watched'
    <3>1. Tied /\ Watched
      BY <1>1, <2>1, <2>2 DEF WinInv, Tied, Connected
    <3>. QED BY <1>1, <2>1, <3>1 DEF Watched, Enabled, Ended, Incoming, Ending, Outgoing, Stopping
  <2>3. ~Breaking' /\ winsock' \in WinsockStates
    BY <1>1, <2>1 DEF Breaking, WinInv
  <2>. QED BY <1>1, <2>1, <2>2, <2>3, LoopFrame
<1>2. CASE SendSomeWin32
  <2>. DEFINE offered == IF Len(platform.outputQueue) < WriteSize
                         THEN Len(platform.outputQueue) ELSE WriteSize
  <2>1. PICK sent \in 1 .. offered :
          /\ Len(tcp.sendBuf) + sent <= SendBuffer
          /\ tcp' = [tcp EXCEPT !.sendBuf = @ \o SubSeq(platform.outputQueue, 1, sent)]
          /\ platform' = [platform EXCEPT !.outputQueue = WithoutSent(platform.outputQueue, sent, offered)]
          /\ loop' = [loop EXCEPT !.pc = "finish",
                        !.wait = @ /\ ~(sent = offered /\ sent < Len(platform.outputQueue))]
    BY <1>2 DEF SendSomeWin32, SendSome
  <2>2. Len(platform.outputQueue) \in Nat /\ Len(tcp.sendBuf) \in Nat
    BY LenProperties DEF PlatformStates, TcpStates
  <2>3. sent \in Nat \ {0} /\ Len(tcp.sendBuf) # SendBuffer
    BY SMTT(30), <2>1, <2>2, ConnectionAssumption
  <2>. HIDE DEF offered
  <2>4. /\ loop.pc = "send" /\ loop'.pc = "finish" /\ (loop'.wait => loop.wait)
        /\ UNCHANGED <<call, tcp.id, tcp.state, tcp.unread, tcp.peerFin, tcp.reset>>
        /\ UNCHANGED <<platform.sock, platform.signal, platform.peerClosed>>
    BY <1>2, <2>1 DEF SendSomeWin32, SendSome, LoopStates, TcpStates, PlatformStates
  <2>5. /\ winsock' \in WinsockStates
        /\ UNCHANGED <<winsock.socket, winsock.signaled, winsock.read, winsock.write, winsock.close>>
        /\ winsock'.partial = (loop'.wait /\ platform'.outputQueue # << >>)
    <3>1. (loop'.wait /\ platform'.outputQueue # << >>) \in BOOLEAN
      OBVIOUS
    <3>. QED BY <1>2, <3>1 DEF SendSomeWin32, WinInv, WinsockStates
  <2>6. ASSUME Tied' PROVE Watched'
    <3>1. Tied /\ Watched
      BY <2>4, <2>5, <2>6 DEF WinInv, Tied, Connected
    <3>2. Enabled'
      BY <2>3, <2>4, <2>5, <3>1 DEF Watched, Enabled, Ended
    <3>3. Incoming' /\ Ending'
      BY <2>4, <2>5, <3>1 DEF Watched, Incoming, Ending
    <3>4. Outgoing' /\ Stopping'
      BY <2>4, <2>5 DEF Outgoing, Stopping
    <3>. QED BY <3>2, <3>3, <3>4 DEF Watched
  <2>7. ~Breaking'
    BY <2>4 DEF Breaking
  <2>. QED BY <2>4, <2>5, <2>6, <2>7, LoopFrame
<1>3. CASE SendBlockedWin32
  <2>1. /\ loop.pc = "send" /\ loop'.pc = "finish" /\ loop'.wait = loop.wait
        /\ UNCHANGED <<platform, call, tcp>> /\ Len(tcp.sendBuf) = SendBuffer
    BY <1>3 DEF SendBlockedWin32, SendBlocked, Step, LoopStates, object
  <2>2. /\ winsock' \in WinsockStates /\ winsock'.write
        /\ UNCHANGED <<winsock.socket, winsock.signaled, winsock.read, winsock.close>>
    BY <1>3 DEF SendBlockedWin32, WinInv, WinsockStates
  <2>3. ASSUME Tied' PROVE Watched'
    <3>1. Tied /\ Watched
      BY <2>1, <2>2, <2>3 DEF WinInv, Tied, Connected
    <3>. QED BY <2>1, <2>2, <3>1 DEF Watched, Enabled, Ended, Incoming, Ending, Outgoing, Stopping
  <2>4. ~Breaking'
    BY <2>1 DEF Breaking
  <2>. QED BY <2>1, <2>2, <2>3, <2>4, LoopFrame
<1>. QED BY <1>1, <1>2, <1>3

(* The end of a round, which shuts down a drained connection or closes it,  *)
(* and the end of the loop.                                                 *)
LEMMA FinishWatched ==
  ASSUME IInv, WinInv, FinishLoop \/ Exit, winsock' = winsock
  PROVE  WinInv'
<1>. USE DEF IInv, TypeOK
<1>. DEFINE drained == platform.outputQueue = << >> /\ platform.closing
            fin == [tcp EXCEPT !.finSent = @ \/ (Live /\ ~platform.shutdownSent)]
            down == [platform EXCEPT !.shutdownSent = TRUE]
<1>0. /\ tcp.id = fin.id /\ fin.state = tcp.state /\ fin.unread = tcp.unread
      /\ fin.sendBuf = tcp.sendBuf /\ fin.peerFin = tcp.peerFin /\ fin.reset = tcp.reset
      /\ Closed(fin).id = tcp.id
      /\ down.sock = platform.sock /\ down.signal = platform.signal /\ down.shutdownSent
      /\ down.outputQueue = platform.outputQueue /\ down.closing = platform.closing
      /\ down.peerClosed = platform.peerClosed
      /\ Disconnected(down).sock = NoSocket /\ Disconnected(down).signal = platform.signal
  BY DEF Closed, Disconnected, TcpStates, PlatformStates
<1>1. \/ /\ FinishLoop /\ loop'.pc = "test" /\ loop'.wait = loop.wait
         /\ ~drained /\ UNCHANGED <<platform, tcp>>
      \/ /\ FinishLoop /\ loop'.pc = "test" /\ loop'.wait = loop.wait
         /\ platform' = down /\ tcp' = fin
      \/ /\ FinishLoop /\ loop'.pc \in {"test", "unlocked"}
         /\ platform' = Disconnected(down) /\ tcp' = Closed(fin)
      \/ /\ Exit /\ loop'.pc = "done" /\ loop'.wait = loop.wait /\ UNCHANGED tcp
         /\ \/ UNCHANGED platform
            \/ platform' = [platform EXCEPT !.joinable = FALSE]
  BY DEF FinishLoop, Exit, DropForDelegate, Step, LoopStates
<1>2. /\ call' = call /\ tcp'.id = tcp.id /\ platform'.signal = platform.signal
      /\ loop.pc \in {"finish", "exit"} /\ loop'.pc \in {"test", "unlocked", "done"}
      /\ \/ /\ loop.pc = "finish" /\ loop'.pc = "test" /\ loop'.wait = loop.wait
            /\ platform'.sock = platform.sock /\ platform'.peerClosed = platform.peerClosed
            /\ UNCHANGED <<platform.outputQueue, platform.closing>>
            /\ drained => platform'.shutdownSent
            /\ UNCHANGED <<tcp.state, tcp.unread, tcp.sendBuf, tcp.peerFin, tcp.reset>>
         \/ platform'.sock = NoSocket
         \/ /\ loop'.pc = "done" /\ loop'.wait = loop.wait /\ platform'.sock = platform.sock
            /\ platform'.peerClosed = platform.peerClosed /\ UNCHANGED tcp
  <2>1. CASE FinishLoop
    <3>1. call' = call /\ loop.pc = "finish"
      BY <2>1 DEF FinishLoop
    <3>. QED BY <1>0, <1>1, <2>1, <3>1 DEF Exit
  <2>2. CASE Exit
    <3>1. call' = call /\ loop.pc = "exit"
      BY <2>2 DEF Exit
    <3>. QED BY <1>1, <2>2, <3>1 DEF FinishLoop, PlatformStates
  <2>. QED BY <2>1, <2>2
<1>3. ASSUME Tied' PROVE Watched'
  <2>1. platform'.sock # NoSocket
    BY <1>3 DEF Tied, Connected
  <2>2. Tied /\ Watched
    BY <1>2, <1>3, <2>1 DEF WinInv, Tied, Connected
  <2>. HIDE DEF fin, down
  <2>3. Enabled'
    BY <1>2, <2>1, <2>2 DEF Watched, Enabled, Ended
  <2>4. Incoming' /\ Ending'
    BY <1>2, <2>1, <2>2 DEF Watched, Incoming, Ending
  <2>5. Outgoing'
    BY <1>2, <2>1, <2>2 DEF Watched, Outgoing, Told
  <2>6. Stopping'
    BY <1>2, <2>1, <2>2 DEF Watched, Stopping, Told
  <2>. QED BY <2>3, <2>4, <2>5, <2>6 DEF Watched
<1>4. Breaking' => ~Tied'
  BY <1>2 DEF Breaking, Tied, Connected
<1>5. winsock' \in WinsockStates
  BY DEF WinInv
<1>. QED BY <1>2, <1>3, <1>4, <1>5, LoopFrame

(* Whatever the peer does to the tied socket, Winsock notices it.           *)
LEMMA PeerWatched ==
  ASSUME IInv, WinInv, PeerWin32
  PROVE  WinInv'
<1>. USE DEF IInv, TypeOK
<1>1. UNCHANGED <<platform, loop, call>> /\ tcp' \in TcpStates /\ winsock' = Notice(winsock, tcp')
  BY PeerType DEF PeerWin32, Peer, PeerSends, PeerReceives, PeerShutsDown, PeerResets, object
<1>2. /\ UNCHANGED <<tcp.id, tcp.state>>
      /\ tcp.peerFin => tcp'.peerFin /\ tcp'.unread = tcp.unread
      /\ tcp.reset => tcp'.reset
      /\ tcp'.sendBuf = tcp.sendBuf \/ tcp'.sendBuf = << >>
           \/ (tcp.sendBuf # << >> /\ tcp'.sendBuf = Tail(tcp.sendBuf))
  BY DEF PeerWin32, Peer, PeerSends, PeerReceives, PeerShutsDown, PeerResets, TcpStates
<1>3. winsock \in WinsockStates /\ winsock' \in WinsockStates
  BY <1>1, NoticeType DEF WinInv
<1>4. winsock'.socket = winsock.socket
  <2>1. CASE winsock.socket = tcp'.id /\ tcp'.state = "open"
    BY <1>1, <1>3, <2>1, NoticeEffect
  <2>2. CASE ~(winsock.socket = tcp'.id /\ tcp'.state = "open")
    BY <1>1, <2>2 DEF Notice
  <2>. QED BY <2>1, <2>2
<1>5. Sleepy'
  BY <1>1 DEF WinInv, Sleepy, SignalExists, ProcessorRunning
<1>6. Beginning'
  BY <1>1, <1>2 DEF WinInv, Beginning, Establishing, Connected
<1>7. Latest' /\ (Tied' <=> Tied)
  BY <1>1, <1>2, <1>4 DEF WinInv, Latest, Breaking, Tied, Connected
<1>8. ASSUME Tied PROVE Watched'
  <2>1. winsock.socket = tcp'.id /\ tcp'.state = "open" /\ Watched
    BY <1>2, <1>8, TiedIsLatest
  <2>2. /\ winsock'.partial = winsock.partial
        /\ winsock.signaled => winsock'.signaled
        /\ winsock'.read => tcp'.unread = 0
        /\ winsock.read => winsock'.read \/ winsock'.signaled
        /\ winsock'.write => winsock.write /\ ~(Len(tcp'.sendBuf) < SendBuffer)
        /\ winsock.write => winsock'.write \/ winsock'.signaled
        /\ winsock'.close <=> winsock.close /\ ~(tcp'.peerFin \/ tcp'.reset)
        /\ winsock.close => winsock'.close \/ winsock'.signaled
    BY <1>1, <1>3, <2>1, NoticeEffect
  <2>3. winsock'.write => Len(tcp'.sendBuf) = SendBuffer
    <3>1. tcp.sendBuf # << >> => Len(Tail(tcp.sendBuf)) = Len(tcp.sendBuf) - 1
      BY HeadTailProperties DEF TcpStates
    <3>2. Len(tcp.sendBuf) \in Nat /\ Len(<< >>) = 0
      BY LenProperties, EmptySeq DEF TcpStates
    <3>3. winsock.write => Len(tcp.sendBuf) = SendBuffer
      BY <2>1 DEF Watched, Enabled
    <3>4. \/ tcp'.sendBuf = tcp.sendBuf
          \/ Len(tcp'.sendBuf) = 0
          \/ Len(tcp'.sendBuf) = Len(tcp.sendBuf) - 1
      BY <1>2, <3>1, <3>2
    <3>. QED BY ONLY <2>2, <3>2, <3>3, <3>4, ConnectionAssumption
  <2>4. Enabled'
    BY <1>1, <1>2, <2>1, <2>2, <2>3 DEF Watched, Enabled, Ended
  <2>5. Incoming' /\ Ending'
    BY <1>1, <2>1, <2>2 DEF Watched, Incoming, Ending
  <2>6. Outgoing' /\ Stopping'
    BY <1>1, <2>1, <2>2 DEF Watched, Outgoing, Stopping, Told
  <2>. QED BY <2>4, <2>5, <2>6 DEF Watched
<1>. QED BY <1>3, <1>5, <1>6, <1>7, <1>8 DEF WinInv

-----------------------------------------------------------------------------
(* The theorems.                                                            *)

(* The invariants hold at the beginning.                                    *)
LEMMA Win32Init == InitWin32 => IInv /\ StreamInv /\ BytesInv /\ WinInv
<1>1. ASSUME InitWin32 PROVE IInv /\ StreamInv /\ BytesInv
  <2>1. LockDiscipline
    BY <1>1, ConnectionAssumption DEF InitWin32, Init, LockDiscipline, LockedSteps, NoLoop, Threads
  <2>. QED BY <1>1, <2>1, TypeInit, CallsInit, SocketsInit, DeliveryInit DEF InitWin32, IInv
<1>2. ASSUME InitWin32 PROVE WinInv
  <2>1. winsock \in WinsockStates /\ winsock.socket = NoSocket
    BY <1>2 DEF InitWin32, WinsockStates
  <2>2. tcp.id \in {0, 1} /\ (Connected => tcp.state = "open") /\ tcp.sendBuf = << >>
    BY <1>2 DEF InitWin32, Init, Socket, NoSocket, Connected
  <2>3. loop.pc = "none" /\ loop.wait /\ ~platform.peerClosed /\ \A t \in Threads : call[t].pc = "idle"
    BY <1>2 DEF InitWin32, Init, NoLoop, Idle
  <2>4. Sleepy
    BY <2>3 DEF Sleepy, SignalExists, ProcessorRunning
  <2>5. Beginning /\ Latest
    BY <2>1, <2>2, <2>3 DEF Beginning, Latest, Breaking, NoSocket
  <2>. QED BY <2>1, <2>4, <2>5 DEF WinInv, Tied, Connected
<1>. QED BY <1>1, <1>2

(* Every step leaves nothing asleep.                                        *)
LEMMA Win32Watched == IInv /\ BytesInv /\ WinInv /\ [NextWin32]_winVars => WinInv'
<1>1. ASSUME IInv, BytesInv, WinInv, NEW t \in Threads, NewCallWin32(t) \/ ContinueWin32(t)
      PROVE  WinInv'
  <2>1. \/ (PlainCall(t) \/ FinishConnect(t)) /\ winsock' = winsock
        \/ (LockAndClose(t) \/ GiveUp(t)) /\ winsock' = winsock
        \/ CreateSocket(t) /\ winsock' = winsock
        \/ Establish(t) /\ winsock' = winsock
        \/ ProcessWin32(t) \/ SpawnWin32(t)
    BY <1>1 DEF NewCallWin32, ContinueWin32, SendMessageWin32, CloseWin32, ConnectWin32,
         DestroyWin32, FinishCloseWin32, AssignProcessorWin32, PlainCall, FinishConnect
  <2>. QED BY <1>1, <2>1, PlainCallWatched, DisconnectWatched, CreateSocketWatched,
              EstablishWatched, ProcessWatched, SpawnWatched
<1>2. ASSUME IInv, WinInv, ProcessorStepWin32
      PROVE  WinInv'
  <2>1. \/ (Enter /\ winsock' = winsock) \/ TestLoopWin32 \/ WaitReturns \/ RelockWin32
        \/ (RecvFails \/ SendFails) /\ winsock' = winsock
        \/ ReceiveMessageWin32 \/ ReceiveEndOfStreamWin32 \/ ReceiveNothingWin32
        \/ (CallDelegate \/ DelegateReturns \/ Resume) /\ winsock' = winsock
        \/ (SendNothing /\ winsock' = winsock) \/ SendSomeWin32 \/ SendBlockedWin32
        \/ (FinishLoop \/ Exit) /\ winsock' = winsock
    BY <1>2 DEF ProcessorStepWin32, RecvFailsWin32, SendFailsWin32, CallDelegateWin32,
         SendNothingWin32, FinishLoopWin32, ExitWin32
  <2>. QED BY <1>2, <2>1, WaitWatched, BreakWatched, ReceiveMessageWatched, ReceiveEndWatched,
              ReceiveNothingWatched, DelegateWatched, SendWatched, FinishWatched
<1>3. ASSUME WinInv, UNCHANGED winVars PROVE WinInv'
  BY <1>3 DEF winVars, vars, object, WinInv, Sleepy, SignalExists, ProcessorRunning, Beginning,
       Establishing, Latest, Breaking, Tied, Connected, Watched, Enabled, Ended, Incoming,
       Ending, Outgoing, Stopping, Told
<1>. QED BY <1>1, <1>2, <1>3, PeerWatched DEF NextWin32

(* All of it holds in every reachable state.                                *)
LEMMA Win32Invariance == FairSpecWin32 => [](IInv /\ StreamInv /\ BytesInv /\ WinInv)
BY Win32Init, Win32Keeps, Win32Stream, Win32Bytes, Win32Watched, PTL DEF FairSpecWin32

(* The state, and what Winsock has to notice, keep their types on Windows.  *)
THEOREM Win32TypeCorrect == FairSpecWin32 => [](TypeOK /\ winsock \in WinsockStates)
<1>1. IInv /\ WinInv => TypeOK /\ winsock \in WinsockStates
  BY DEF IInv, WinInv
<1>. QED BY <1>1, Win32Invariance, PTL

(* What POSIX promises of the mutex, of closed sockets, of the end of the   *)
(* stream and of the bytes sent, Windows promises too.                      *)
THEOREM Win32KeepsThePromises ==
  FairSpecWin32 => [](/\ LockDiscipline /\ BrokenExactlyOnce /\ ImplOutlivesItsThreads
                      /\ EndOfStreamIsLast /\ SentInOrder)
<1>1. IInv /\ StreamInv /\ BytesInv =>
        /\ LockDiscipline /\ BrokenExactlyOnce /\ ImplOutlivesItsThreads
        /\ EndOfStreamIsLast /\ SentInOrder
  BY DEF IInv, StreamInv, BytesInv, CallsInv, DestroyIsLast, OneProcessor, ImplOutlivesItsThreads
<1>. QED BY <1>1, Win32Invariance, PTL

(* With events that are set once and then not again until asked for, the    *)
(* processor never sleeps while there is something it should do: data or    *)
(* the end of the connection to receive, data to send, a graceful close to  *)
(* go on with, or a request to stop.                                        *)
THEOREM NothingIsLeftAsleep == FairSpecWin32 => []NothingLeftAsleep
<1>1. IInv /\ WinInv => NothingLeftAsleep
  <2>1. SUFFICES ASSUME IInv, WinInv, Asleep, ~winsock.signaled, Tied
                 PROVE  /\ ~platform.processorStop
                        /\ tcp.unread = 0 /\ (tcp.peerFin \/ tcp.reset => platform.peerClosed)
                        /\ platform.outputQueue # << >> => winsock.write \/ winsock.partial
                        /\ platform.closing /\ platform.outputQueue = << >> => platform.shutdownSent
    BY DEF NothingLeftAsleep, Tied
  <2>2. /\ loop.pc = "select" /\ platform.signal = 0 /\ ~Told
        /\ \A t \in Threads : call[t].pc # "wake"
    BY <2>1 DEF Asleep, Told
  <2>3. ~platform.processorStop
    BY <2>1, <2>2 DEF WinInv, Sleepy
  <2>4. Watched
    BY <2>1 DEF WinInv
  <2>5. loop.wait
    BY <2>1, <2>2 DEF WinInv, Sleepy
  <2>. QED BY <2>1, <2>2, <2>3, <2>4, <2>5
       DEF Watched, Enabled, Ended, Incoming, Ending, Outgoing, Stopping
<1>. QED BY <1>1, Win32Invariance, PTL
=============================================================================
