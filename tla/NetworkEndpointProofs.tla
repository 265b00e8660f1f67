------------------------ MODULE NetworkEndpointProofs ------------------------
(***************************************************************************)
(* What holds of NetworkEndpoint for any number of threads, opens, packets *)
(* and arrivals.  Open and Close work without a lock because they stop and *)
(* join the processor first; EndpointInv says so step by step, and carries *)
(* the safety properties of the model:                                     *)
(*   Stages     what Open and Close may assume at each of their steps;     *)
(*   Attached   what a running processor may assume;                       *)
(*   Released   what is left of a closed endpoint.                         *)
(*                                                                         *)
(* The second half is about the Windows endpoint.  AutoResetAssumption is  *)
(* for its model only: no proof of either half cites it.                   *)
(***************************************************************************)
EXTENDS NetworkEndpointWin32, SequenceTheorems, TLAPS

(* The steps of each public method.                                         *)
StepsOf(op) ==
  CASE op = "none"    -> {"idle"}
    [] op = "open"    -> {"stop", "wake", "join", "close", "socket", "signal", "start"}
    [] op = "close"   -> {"stop", "wake", "join", "close"}
    [] op = "destroy" -> {"stop", "wake", "join", "close", "destroyed"}

Stages ==
  /\ call.pc \in StepsOf(call.op)
  /\ call.pc \in {"close", "socket", "signal", "start"} => ~platform.joinable
  /\ call.pc \in {"signal", "start"} =>
       platform.sock = log.opens /\ platform.sock # NoSocket
  /\ call.pc = "start" => platform.signal # NoPipe
  /\ call.op = "open" => log.opens > 0 /\ ~log.closed
  /\ call.pc = "destroyed" => log.closed

Attached ==
  /\ platform.sock = kernel.id
  /\ impl.delegates = log.opens
  /\ ProcessorRunning =>
       /\ platform.joinable
       /\ platform.sock = loop.sock /\ loop.sock # NoSocket
       /\ platform.signal # NoPipe
       /\ loop.sock = log.opens \/ log.opens \in log.reopened

Released == log.closed => ~platform.joinable /\ platform.sock = NoSocket

EndpointInv ==
  /\ TypeOK /\ Stages /\ Attached /\ Released
  /\ NoLostWakeup /\ SentInOrder /\ ReportedToItsOpener
-----------------------------------------------------------------------------
(* Lemmas on the operators the actions are built from.                      *)

(* The operations of PipeSignal keep a signal within the pipe's capacity;   *)
(* only Initialize gives a signal its pipe, and a signal with a pipe is set *)
(* by Set.                                                                  *)
LEMMA SignalOperations ==
  ASSUME NEW signal \in Signals
  PROVE  /\ Set(signal) \in Signals /\ Clear(signal) \in Signals
         /\ Clear(Initialize(signal)) \in Signals
         /\ Clear(Initialize(signal)) # NoPipe
         /\ signal # NoPipe => /\ Set(signal) # NoPipe /\ Clear(signal) # NoPipe
                               /\ IsSet(Set(signal))
         /\ IsSet(signal) => IsSet(Set(signal))
BY PipeCapacityAssumption DEF Set, Clear, Initialize, IsSet, Signals, NoPipe

(* SendPacket keeps the type of struct Platform, ...                        *)
LEMMA QueuedType ==
  ASSUME platform \in Platforms, log.queued \in 0 .. MaxPackets,
         log.queued < MaxPackets
  PROVE  Queued(platform) \in Platforms
<1>1. Append(platform.outputQueue, log.queued + 1) \in Seq(Packets)
  BY EndpointAssumption, AppendProperties DEF Platforms, Packets
<1>2. Set(platform.signal) \in Signals
  BY SignalOperations DEF Platforms
<1>. QED BY <1>1, <1>2 DEF Queued, Platforms

(* ... and of the history.                                                  *)
LEMMA HistoryOfOneMore ==
  ASSUME log \in Histories, log.queued + 1 \in 0 .. MaxPackets,
         log' = [log EXCEPT !.queued = @ + 1]
  PROVE  log' \in Histories /\ log'.arrived = log.arrived
BY DEF Histories

(* So do closing the socket ...                                             *)
LEMMA WithoutSocketType ==
  ASSUME NEW p \in Platforms
  PROVE  WithoutSocket(p) \in Platforms
BY DEF Platforms, WithoutSocket, SocketIds

(* ... and waking the processor.                                            *)
LEMMA WokenType ==
  ASSUME NEW p \in Platforms
  PROVE  Woken(p) \in Platforms
<1>1. Set(p.signal) \in Signals
  BY SignalOperations DEF Platforms
<1>. QED BY <1>1 DEF Platforms, Woken

(* A closed socket has nothing waiting.                                     *)
LEMMA ClosedSocketType ==
  ASSUME kernel \in Kernels
  PROVE  /\ ClosedSocket \in Kernels
         /\ ClosedSocket.pending = 0 /\ ClosedSocket.id = NoSocket
<1>1. NoSocket \in SocketIds /\ 0 \in 0 .. MaxArrivals
  BY EndpointAssumption DEF SocketIds
<1>. QED BY <1>1 DEF Kernels, ClosedSocket

-----------------------------------------------------------------------------
(* Types.                                                                   *)

(* The processor's locals keep their types.                                 *)
LEMMA LoopTypes ==
  ASSUME loop \in Loops, NEW pc \in LoopSteps, NEW b \in BOOLEAN
  PROVE  /\ [loop EXCEPT !.pc = pc] \in Loops
         /\ [loop EXCEPT !.pc = pc, !.wantWrite = b] \in Loops
         /\ [loop EXCEPT !.pc = pc, !.wait = b] \in Loops
BY DEF Loops

(* The state at the beginning.                                              *)
LEMMA InitTypes == Init => TypeOK
<1>. SUFFICES ASSUME Init PROVE TypeOK
  OBVIOUS
<1>1. << >> \in Seq(Packets)
  BY EmptySeq
<1>2. impl \in Impls /\ loop \in Loops /\ call \in Calls /\ kernel \in Kernels
  BY EndpointAssumption
  DEF Init, Impls, Loops, Calls, Kernels, SocketIds, LoopSteps, CallSteps, Idle
<1>3. platform \in Platforms
  BY <1>1 DEF Init, Platforms, SocketIds, Signals
<1>4. log \in Histories
  BY <1>1, EndpointAssumption DEF Init, Histories
<1>. QED BY <1>2, <1>3, <1>4, EndpointAssumption DEF TypeOK, Init

(* A step that SendPacket, the owner's calls or the environment take.       *)
LEMMA CallTypes ==
  ASSUME TypeOK, Stages,
         CallGoesOn \/ NewCall \/ Arrive \/ Drain
  PROVE  TypeOK'
<1>. USE EndpointAssumption DEF TypeOK
<1>1. ASSUME NEW t, SendPacket(t) PROVE TypeOK'
  <2>1. platform' \in Platforms
    BY <1>1, QueuedType DEF SendPacket, Histories
  <2>2. log.queued + 1 \in 0 .. MaxPackets
    BY <1>1 DEF SendPacket, Histories
  <2>3. log' \in Histories /\ log'.arrived = log.arrived
    BY <1>1, <2>2, HistoryOfOneMore DEF SendPacket
  <2>. QED BY <1>1, <2>1, <2>3 DEF SendPacket
<1>2. CASE Open
  <2>1. PICK mode \in Modes : impl' = [mode |-> mode, delegates |-> log.opens + 1]
    BY <1>2 DEF Open
  <2>2. log.opens + 1 \in Opens
    BY <1>2 DEF Open, Histories, Opens
  <2>3. impl' \in Impls
    BY <2>1, <2>2 DEF Impls, SocketIds
  <2>4. log' \in Histories /\ log'.arrived = log.arrived
    <3>1. (IF log.closed THEN log.reopened ELSE log.reopened \cup {log.opens + 1})
            \in SUBSET Opens
      BY <2>2 DEF Histories
    <3>2. log.opens + 1 \in 0 .. MaxOpens
      BY <2>2 DEF Opens
    <3>. QED BY <1>2, <3>1, <3>2 DEF Open, Histories
  <2>5. call' \in Calls
    BY <1>2 DEF Open, Calls, CallSteps
  <2>. QED BY <1>2, <2>3, <2>4, <2>5 DEF Open
<1>3. CASE Close \/ Destroy
  <2>1. call' \in Calls
    BY <1>3 DEF Close, Destroy, Calls, CallSteps
  <2>. QED BY <1>3, <2>1 DEF Close, Destroy
<1>4. CASE StopProcessor
  <2>1. platform.processorStop \/ platform.joinable \in BOOLEAN
    BY DEF Platforms
  <2>2. platform' \in Platforms
    BY <1>4, <2>1 DEF StopProcessor, Platforms
  <2>3. call' \in Calls
    BY <1>4 DEF StopProcessor, Calls, CallSteps
  <2>. QED BY <1>4, <2>2, <2>3 DEF StopProcessor
<1>5. CASE Wake
  <2>1. platform' \in Platforms
    BY <1>5, WokenType DEF Wake
  <2>2. call' \in Calls
    BY <1>5 DEF Wake, Calls, CallSteps
  <2>. QED BY <1>5, <2>1, <2>2 DEF Wake
<1>6. CASE Join
  <2>1. platform' \in Platforms /\ call' \in Calls
    BY <1>6 DEF Join, Platforms, Calls, CallSteps
  <2>. QED BY <1>6, <2>1 DEF Join
<1>7. CASE CloseSocket
  <2>1. platform' \in Platforms
    BY <1>7, WithoutSocketType DEF CloseSocket
  <2>2. call.op \in {"open", "close", "destroy"}
    BY <1>7 DEF CloseSocket, Calls, Stages, StepsOf
  <2>6. call' \in Calls
    BY <1>7, <2>2 DEF CloseSocket, Calls, CallSteps, Idle
  <2>3. kernel' \in Kernels /\ kernel'.pending = 0
    BY <1>7, ClosedSocketType DEF CloseSocket
  <2>4. log' \in Histories
    BY <1>7 DEF CloseSocket, Histories
  <2>5. 0 <= log'.arrived
    BY <2>4 DEF Histories
  <2>. QED BY <1>7, <2>1, <2>3, <2>4, <2>5, <2>6 DEF CloseSocket
<1>8. CASE CreateSocket
  <2>1. log.opens \in SocketIds
    BY DEF Histories, SocketIds, Opens, NoSocket
  <2>2. platform' \in Platforms
    BY <1>8, <2>1 DEF CreateSocket, Platforms
  <2>3. call' \in Calls
    BY <1>8 DEF CreateSocket, Calls, CallSteps, Idle
  <2>4. kernel' \in Kernels /\ kernel'.pending = kernel.pending
    BY <1>8, <2>1 DEF CreateSocket, Kernels, Impls
  <2>. QED BY <1>8, <2>2, <2>3, <2>4 DEF CreateSocket
<1>9. CASE PrepareSignal
  <2>1. platform' \in Platforms
    BY <1>9, SignalOperations DEF PrepareSignal, Platforms
  <2>2. call' \in Calls
    BY <1>9 DEF PrepareSignal, Calls, CallSteps, Idle
  <2>. QED BY <1>9, <2>1, <2>2 DEF PrepareSignal
<1>10. CASE StartProcessor
  <2>1. platform' \in Platforms
    BY <1>10 DEF StartProcessor, Platforms
  <2>2. platform.sock \in SocketIds /\ "lock" \in LoopSteps
    BY DEF Platforms, LoopSteps
  <2>3. loop' \in Loops
    BY <1>10, <2>2 DEF StartProcessor, Loops
  <2>4. call' \in Calls
    BY <1>10 DEF StartProcessor, Calls, CallSteps, Idle
  <2>. QED BY <1>10, <2>1, <2>3, <2>4 DEF StartProcessor
<1>11. CASE Arrive
  <2>1. kernel.pending + 1 \in 0 .. MaxArrivals /\ kernel.pending + 1 <= log.arrived + 1
    BY <1>11 DEF Arrive, Kernels, Histories
  <2>2. kernel' \in Kernels /\ kernel'.pending = kernel.pending + 1
    BY <1>11, <2>1 DEF Arrive, Kernels
  <2>3. log.arrived + 1 \in 0 .. MaxArrivals
    BY <1>11 DEF Arrive, Histories
  <2>4. log' \in Histories /\ log'.arrived = log.arrived + 1
    BY <1>11, <2>3 DEF Arrive, Histories
  <2>. QED BY <1>11, <2>1, <2>2, <2>4 DEF Arrive
<1>12. CASE Drain
  <2>1. kernel' \in Kernels /\ kernel'.pending = kernel.pending
    BY <1>12 DEF Drain, Kernels
  <2>. QED BY <1>12, <2>1 DEF Drain
<1>. QED
  BY <1>1, <1>2, <1>3, <1>4, <1>5, <1>6, <1>7, <1>8, <1>9, <1>10, <1>11, <1>12
  DEF CallGoesOn, NewCall

(* A step that the processor takes.                                         *)
LEMMA ProcessorTypes ==
  ASSUME TypeOK, ProcessorStep
  PROVE  TypeOK'
<1>. USE EndpointAssumption DEF TypeOK
<1>1. CASE TakeMutex
  <2>1. platform' \in Platforms
    BY <1>1, SignalOperations DEF TakeMutex, Platforms
  <2>2. loop' \in Loops
    BY <1>1 DEF TakeMutex, Goto, Loops, LoopSteps
  <2>. QED BY <1>1, <2>1, <2>2 DEF TakeMutex
<1>2. CASE TestLoop
  <2>1. WantsToWrite \in BOOLEAN
    BY DEF WantsToWrite
  <2>2. loop' \in Loops
    BY <1>2, <2>1, LoopTypes DEF TestLoop, Exit, Goto, LoopSteps
  <2>3. processingMutex' \in {NoThread, Processor}
    BY <1>2 DEF TestLoop, Exit
  <2>. QED BY <1>2, <2>2, <2>3 DEF TestLoop
<1>3. CASE Select
  <2>1. (kernel.pending > 0) \in BOOLEAN /\ IsSet(platform.signal) \in BOOLEAN
    BY DEF IsSet
  <2>2. loop' \in Loops
    BY <1>3, <2>1 DEF Select, Loops, LoopSteps
  <2>. QED BY <1>3, <2>2 DEF Select
<1>4. CASE Receive \/ ReceiveNothing
  <2>1. loop' \in Loops
    BY <1>4 DEF Receive, ReceiveNothing, Goto, Loops, LoopSteps
  <2>2. kernel.pending > 0 => kernel.pending - 1 \in 0 .. MaxArrivals
    BY DEF Kernels
  <2>3. kernel' \in Kernels /\ kernel'.pending <= kernel.pending
    BY <1>4, <2>2 DEF Receive, ReceiveNothing, Kernels
  <2>4. kernel'.pending <= log.arrived
    BY <2>3 DEF Kernels, Histories
  <2>. QED BY <1>4, <2>1, <2>3, <2>4 DEF Receive, ReceiveNothing
<1>5. CASE ReceiveFails \/ SendFails
  <2>1. platform' \in Platforms
    BY <1>5, WithoutSocketType DEF ReceiveFails, SendFails, GiveUp
  <2>2. kernel' \in Kernels /\ kernel'.pending = 0
    BY <1>5, ClosedSocketType DEF ReceiveFails, SendFails, GiveUp
  <2>3. loop' \in Loops
    BY <1>5 DEF ReceiveFails, SendFails, GiveUp, Exit, Loops, LoopSteps
  <2>4. 0 <= log.arrived
    BY DEF Histories
  <2>. QED BY <1>5, <2>1, <2>2, <2>3, <2>4 DEF ReceiveFails, SendFails, GiveUp, Exit
<1>6. CASE CallDelegate
  <2>1. [from |-> loop.sock, to |-> impl.delegates] \in [from : SocketIds, to : SocketIds]
    BY DEF Loops, Impls
  <2>2. log' \in Histories /\ log'.arrived = log.arrived
    BY <1>6, <2>1 DEF CallDelegate, Histories
  <2>3. loop' \in Loops
    BY <1>6 DEF CallDelegate, Goto, Loops, LoopSteps
  <2>. QED BY <1>6, <2>2, <2>3 DEF CallDelegate
<1>7. CASE DelegateReturns \/ SendNothing
  <2>1. loop' \in Loops
    BY <1>7, LoopTypes DEF DelegateReturns, SendNothing, Goto, LoopSteps
  <2>. QED BY <1>7, <2>1 DEF DelegateReturns, SendNothing
<1>8. CASE Send
  <2>1. /\ Head(platform.outputQueue) \in Packets
        /\ Tail(platform.outputQueue) \in Seq(Packets)
    BY <1>8, HeadTailProperties DEF Send, Platforms
  <2>2. platform' \in Platforms
    BY <1>8, <2>1 DEF Send, Platforms
  <2>3. Append(log.sent, Head(platform.outputQueue)) \in Seq(Packets)
    BY <2>1, AppendProperties DEF Histories
  <2>4. log' \in Histories /\ log'.arrived = log.arrived
    BY <1>8, <2>3 DEF Send, Histories
  <2>5. kernel' \in Kernels /\ kernel'.pending = kernel.pending
    BY <1>8 DEF Send, Kernels
  <2>6. (Tail(platform.outputQueue) = << >>) \in BOOLEAN
    OBVIOUS
  <2>7. loop' \in Loops
    BY <1>8, <2>6, LoopTypes DEF Send, LoopSteps
  <2>. QED BY <1>8, <2>2, <2>4, <2>5, <2>7 DEF Send
<1>9. CASE SendBlocked
  <2>1. loop' \in Loops
    BY <1>9 DEF SendBlocked, Loops, LoopSteps
  <2>. QED BY <1>9, <2>1 DEF SendBlocked, WithUnsent
<1>. QED
  BY <1>1, <1>2, <1>3, <1>4, <1>5, <1>6, <1>7, <1>8, <1>9 DEF ProcessorStep

-----------------------------------------------------------------------------
(* Open and Close against the processor.                                    *)

(* What a pass of the loop's test leaves.                                   *)
LEMMA TestLoopEffect ==
  ASSUME loop \in Loops, TestLoop
  PROVE  /\ loop'.sock = loop.sock
         /\ loop'.pc \in {"done", "select", "receive"}
         /\ loop'.pc = "select" =>
              ~platform.processorStop /\ loop'.wantWrite = WantsToWrite
BY DEF TestLoop, Exit, Goto, Loops

(* What socket() and its options leave: nothing, or the socket of this Open.*)
LEMMA CreateSocketEffect ==
  ASSUME platform \in Platforms, kernel \in Kernels, CreateSocket
  PROVE  \/ call' = Idle /\ UNCHANGED <<platform, kernel>>
         \/ /\ call' = [call EXCEPT !.pc = "signal"]
            /\ platform'.sock = log.opens /\ kernel'.id = log.opens
            /\ platform'.joinable = platform.joinable
            /\ platform'.processorStop = platform.processorStop
            /\ platform'.signal = platform.signal
            /\ platform'.outputQueue = platform.outputQueue
BY DEF CreateSocket, Platforms, Kernels

(* What starting the thread leaves, when listen() does not fail.            *)
LEMMA StartProcessorEffect ==
  ASSUME platform \in Platforms, loop \in Loops, StartProcessor
  PROVE  \/ UNCHANGED <<platform, loop>>
         \/ /\ loop'.pc = "lock" /\ loop'.sock = platform.sock
            /\ platform'.joinable /\ ~platform'.processorStop
            /\ platform'.sock = platform.sock
            /\ platform'.signal = platform.signal
BY DEF StartProcessor, Platforms, Loops

(* Every step keeps what is known of threads, sockets, wake-ups and reports.*)
LEMMA LifecycleStep ==
  ASSUME EndpointInv, Next
  PROVE  Stages' /\ Attached' /\ Released' /\ NoLostWakeup' /\ ReportedToItsOpener'
<1>. USE EndpointAssumption
     DEF EndpointInv, TypeOK, Stages, Attached, Released, NoLostWakeup,
         ReportedToItsOpener, ProcessorRunning, StepsOf,
         Impls, Platforms, Loops, Calls, Kernels, Histories
<1>1. ASSUME NEW t, SendPacket(t)
      PROVE  Stages' /\ Attached' /\ Released' /\ NoLostWakeup' /\ ReportedToItsOpener'
  BY <1>1, SignalOperations DEF SendPacket, Queued
<1>2. CASE Open
  BY <1>2, SignalOperations DEF Open, Idle, Opens
<1>3. CASE Close
  BY <1>3, SignalOperations DEF Close, Idle
<1>4. CASE Destroy
  BY <1>4, SignalOperations DEF Destroy, Idle
<1>5. CASE StopProcessor
  BY <1>5, SignalOperations DEF StopProcessor
<1>6. CASE Wake
  BY <1>6, SignalOperations DEF Wake, Woken
<1>7. CASE Join
  BY <1>7, SignalOperations DEF Join, ProcessorEnded
<1>8. CASE CloseSocket
  BY <1>8, SignalOperations DEF CloseSocket, WithoutSocket, ClosedSocket, Idle
<1>9. CASE CreateSocket
  <2>1. log.opens > 0 /\ log.opens # NoSocket /\ ~log.closed /\ ~platform.joinable
    BY <1>9 DEF CreateSocket, NoSocket
  <2>. QED BY <1>9, <2>1, CreateSocketEffect DEF CreateSocket, Idle
<1>10. CASE PrepareSignal
  BY <1>10, SignalOperations DEF PrepareSignal, Idle
<1>11. CASE StartProcessor
  <2>1. platform.sock # NoSocket /\ platform.signal # NoPipe /\ platform.sock = log.opens
    BY <1>11 DEF StartProcessor
  <2>. QED BY <1>11, <2>1, StartProcessorEffect DEF StartProcessor, Idle
<1>12. CASE Arrive
  BY <1>12, SignalOperations DEF Arrive
<1>13. CASE Drain
  BY <1>13, SignalOperations DEF Drain
<1>14. CASE TakeMutex
  BY <1>14, SignalOperations DEF TakeMutex, Goto
<1>15. CASE TestLoop
  <2>1. WantsToWrite <=> platform.outputQueue # << >>
    BY DEF WantsToWrite
  <2>. QED BY <1>15, <2>1, TestLoopEffect DEF TestLoop
<1>16. CASE Select
  BY <1>16, SignalOperations DEF Select
<1>17. CASE Receive
  BY <1>17, SignalOperations DEF Receive, Goto
<1>18. CASE ReceiveNothing
  BY <1>18, SignalOperations DEF ReceiveNothing, Goto
<1>19. CASE ReceiveFails
  BY <1>19, SignalOperations DEF ReceiveFails, GiveUp, Exit, WithoutSocket, ClosedSocket
<1>20. CASE CallDelegate
  BY <1>20, SignalOperations DEF CallDelegate, Goto
<1>21. CASE DelegateReturns
  BY <1>21, SignalOperations DEF DelegateReturns, Goto
<1>22. CASE SendNothing
  BY <1>22, SignalOperations DEF SendNothing
<1>23. CASE Send
  BY <1>23, SignalOperations DEF Send
<1>24. CASE SendBlocked
  BY <1>24, SignalOperations DEF SendBlocked, WithUnsent
<1>25. CASE SendFails
  BY <1>25, SignalOperations DEF SendFails, GiveUp, Exit, WithoutSocket, ClosedSocket
<1>. QED
  BY <1>1, <1>2, <1>3, <1>4, <1>5, <1>6, <1>7, <1>8, <1>9, <1>10, <1>11, <1>12,
     <1>13, <1>14, <1>15, <1>16, <1>17, <1>18, <1>19, <1>20, <1>21, <1>22, <1>23, <1>24, <1>25
  DEF Next, ProcessorStep, CallGoesOn, NewCall

-----------------------------------------------------------------------------
(* The queue of packets.                                                    *)

Counted(n) == [i \in 1 .. n |-> i]

(* What is queued last comes last in the two sequences together.            *)
LEMMA AppendAfter ==
  ASSUME NEW S, NEW s \in Seq(S), NEW u \in Seq(S), NEW e \in S
  PROVE  s \o Append(u, e) = Append(s \o u, e)
<1>1. <<e>> \in Seq(S)
  OBVIOUS
<1>2. s \o u \in Seq(S)
  BY ConcatProperties
<1>3. Append(u, e) = u \o <<e>> /\ Append(s \o u, e) = (s \o u) \o <<e>>
  BY <1>2, AppendIsConcat
<1>. QED BY <1>1, <1>3, ConcatAssociative

(* Moving the head of one sequence to the end of another changes nothing    *)
(* about the two of them together.                                          *)
LEMMA MoveHead ==
  ASSUME NEW S, NEW s \in Seq(S), NEW u \in Seq(S), u # << >>
  PROVE  Append(s, Head(u)) \o Tail(u) = s \o u
<1>1. Head(u) \in S /\ Tail(u) \in Seq(S)
  BY HeadTailProperties
<1>2. <<Head(u)>> \in Seq(S)
  BY <1>1
<1>3. Append(s, Head(u)) = s \o <<Head(u)>>
  BY <1>1, AppendIsConcat
<1>4. Append(s, Head(u)) \o Tail(u) = s \o (<<Head(u)>> \o Tail(u))
  BY <1>1, <1>2, <1>3, ConcatAssociative, SMTT(30)
<1>5. <<Head(u)>> \o Tail(u) = u
  <2>1. /\ Len(u) \in Nat \ {0} /\ Len(Tail(u)) = Len(u) - 1
        /\ \A i \in 1 .. Len(Tail(u)) : Tail(u)[i] = u[i + 1]
    BY HeadTailProperties, EmptySeq
  <2>2. Len(<<Head(u)>>) = 1 /\ <<Head(u)>>[1] = u[1]
    OBVIOUS
  <2>3. /\ <<Head(u)>> \o Tail(u) \in Seq(S)
        /\ Len(<<Head(u)>> \o Tail(u)) = Len(u)
        /\ \A i \in 1 .. Len(u) : (<<Head(u)>> \o Tail(u))[i] =
             IF i <= 1 THEN <<Head(u)>>[i] ELSE Tail(u)[i - 1]
    BY <1>1, <1>2, <2>1, <2>2, ConcatProperties
  <2>4. ASSUME NEW i \in 1 .. Len(u)
        PROVE  (<<Head(u)>> \o Tail(u))[i] = u[i]
    <3>1. CASE i = 1
      BY <2>2, <2>3, <3>1
    <3>2. CASE i # 1
      <4>1. i - 1 \in 1 .. Len(Tail(u)) /\ (i - 1) + 1 = i
        BY <2>1, <3>2
      <4>. QED BY <2>1, <2>3, <3>2, <4>1
    <3>. QED BY <3>1, <3>2
  <2>. QED BY <2>3, <2>4, SeqEqual
<1>. QED BY <1>4, <1>5

(* Packets are numbered in the order queued.                                *)
LEMMA CountOneMore ==
  ASSUME NEW n \in Nat
  PROVE  Append(Counted(n), n + 1) = Counted(n + 1)
<1>1. Counted(n) \in Seq(Nat) /\ Len(Counted(n)) = n
  BY DEF Counted
<1>2. Counted(n + 1) \in Seq(Nat) /\ Len(Counted(n + 1)) = n + 1
  BY DEF Counted
<1>3. /\ Append(Counted(n), n + 1) \in Seq(Nat)
      /\ Len(Append(Counted(n), n + 1)) = n + 1
      /\ \A i \in 1 .. n : Append(Counted(n), n + 1)[i] = Counted(n)[i]
      /\ Append(Counted(n), n + 1)[n + 1] = n + 1
  BY <1>1, AppendProperties
<1>4. ASSUME NEW i \in 1 .. n + 1
      PROVE  Append(Counted(n), n + 1)[i] = Counted(n + 1)[i]
  BY <1>3 DEF Counted
<1>. QED BY <1>2, <1>3, <1>4, SeqEqual

(* SendPacket and Send, on the packets sent and the packets queued.         *)
LEMMA PacketQueued ==
  ASSUME NEW sent \in Seq(Packets), NEW queue \in Seq(Packets), NEW n \in Nat,
         n + 1 \in Packets, sent \o queue = Counted(n)
  PROVE  sent \o Append(queue, n + 1) = Counted(n + 1)
<1>1. ASSUME NEW e \in Packets
      PROVE  sent \o Append(queue, e) = Append(sent \o queue, e)
  BY AppendAfter
<1>2. sent \o Append(queue, n + 1) = Append(sent \o queue, n + 1)
  BY <1>1
<1>. QED BY <1>2, CountOneMore

(* The first packet of the queue becomes the last of those sent.            *)
LEMMA PacketSent ==
  ASSUME NEW sent \in Seq(Packets), NEW queue \in Seq(Packets), queue # << >>
  PROVE  Append(sent, Head(queue)) \o Tail(queue) = sent \o queue
BY MoveHead

(* Packets leave the queue only by being sent, and enter it at its end.     *)
LEMMA QueueStep ==
  ASSUME TypeOK, SentInOrder, Next
  PROVE  SentInOrder'
<1>1. log.sent \o platform.outputQueue = Counted(log.queued)
  BY DEF SentInOrder, Counted
<1>2. log.sent \in Seq(Packets) /\ platform.outputQueue \in Seq(Packets)
  BY DEF TypeOK, Platforms, Histories
<1>3. ASSUME NEW t, SendPacket(t)
      PROVE  log'.sent \o platform'.outputQueue = Counted(log'.queued)
  <2>1. /\ platform'.outputQueue = Append(platform.outputQueue, log.queued + 1)
        /\ log'.sent = log.sent /\ log'.queued = log.queued + 1
    BY <1>3 DEF SendPacket, Queued, TypeOK, Platforms, Histories
  <2>2. log.queued + 1 \in Packets /\ log.queued \in Nat
    BY <1>3, EndpointAssumption DEF SendPacket, Packets, TypeOK, Histories
  <2>3. log.sent \o Append(platform.outputQueue, log.queued + 1) = Counted(log.queued + 1)
    BY <1>1, <1>2, <2>2, PacketQueued
  <2>. QED BY <2>1, <2>3
<1>4. ASSUME Send
      PROVE  log'.sent \o platform'.outputQueue = Counted(log'.queued)
  <2>1. /\ platform'.outputQueue = Tail(platform.outputQueue)
        /\ log'.sent = Append(log.sent, Head(platform.outputQueue))
        /\ log'.queued = log.queued /\ platform.outputQueue # << >>
    BY <1>4 DEF Send, TypeOK, Platforms, Histories
  <2>2. Append(log.sent, Head(platform.outputQueue)) \o Tail(platform.outputQueue)
          = log.sent \o platform.outputQueue
    BY <1>2, <2>1, PacketSent
  <2>. QED BY <1>1, <2>1, <2>2
<1>5. ASSUME Next, ~Send, \A t : ~SendPacket(t)
      PROVE  log'.sent \o platform'.outputQueue = Counted(log'.queued)
  <2>1. /\ platform'.outputQueue = platform.outputQueue
        /\ log'.sent = log.sent /\ log'.queued = log.queued
    <3>1. CASE Open \/ Close \/ Destroy
      BY <3>1 DEF Open, Close, Destroy,
           TypeOK, Platforms, Histories
    <3>2. CASE StopProcessor \/ Wake \/ Join
      BY <3>2 DEF StopProcessor, Wake, Woken, Join,
           TypeOK, Platforms, Histories
    <3>3. CASE CloseSocket \/ ReceiveFails \/ SendFails
      BY <3>3 DEF CloseSocket, ReceiveFails, SendFails, GiveUp, WithoutSocket,
           TypeOK, Platforms, Histories
    <3>4. CASE CreateSocket \/ PrepareSignal \/ StartProcessor
      BY <3>4 DEF CreateSocket, PrepareSignal, StartProcessor,
           TypeOK, Platforms, Histories
    <3>5. CASE Arrive \/ Drain \/ CallDelegate
      BY <3>5 DEF Arrive, Drain, CallDelegate,
           TypeOK, Platforms, Histories
    <3>6. CASE TakeMutex \/ TestLoop \/ Select \/ Receive \/ ReceiveNothing
      BY <3>6 DEF TakeMutex, TestLoop, Select, Receive, ReceiveNothing,
           TypeOK, Platforms, Histories
    <3>7. CASE DelegateReturns \/ SendNothing \/ SendBlocked
      BY <3>7 DEF DelegateReturns, SendNothing, SendBlocked, WithUnsent,
           TypeOK, Platforms, Histories
    <3>. QED BY <1>5, <3>1, <3>2, <3>3, <3>4, <3>5, <3>6, <3>7
      DEF Next, ProcessorStep, CallGoesOn, NewCall
  <2>. QED BY <1>1, <2>1
<1>6. log'.sent \o platform'.outputQueue = Counted(log'.queued)
  BY <1>3, <1>4, <1>5
<1>. QED BY <1>6 DEF SentInOrder, Counted

-----------------------------------------------------------------------------
(* The theorems.                                                            *)

(* EndpointInv holds at the beginning.                                      *)
LEMMA InitInv == Init => EndpointInv
<1>. SUFFICES ASSUME Init PROVE EndpointInv
  OBVIOUS
<1>1. TypeOK
  BY InitTypes
<1>2. Stages /\ Attached /\ Released
  BY DEF Init, Stages, StepsOf, Attached, Released, ProcessorRunning, Idle, NoSocket
<1>3. NoLostWakeup /\ ReportedToItsOpener
  BY DEF Init, NoLostWakeup, ReportedToItsOpener
<1>4. << >> \o << >> = Counted(0)
  BY ConcatEmptySeq, EmptySeq DEF Counted
<1>5. SentInOrder
  BY <1>4 DEF Init, SentInOrder, Counted
<1>. QED BY <1>1, <1>2, <1>3, <1>5 DEF EndpointInv

(* EndpointInv is kept by every step.                                       *)
LEMMA NextInv == EndpointInv /\ [Next]_vars => EndpointInv'
<1>1. ASSUME EndpointInv, Next PROVE EndpointInv'
  <2>1. TypeOK'
    BY <1>1, CallTypes, ProcessorTypes DEF EndpointInv, Next
  <2>2. SentInOrder'
    BY <1>1, QueueStep DEF EndpointInv
  <2>. QED BY <1>1, <2>1, <2>2, LifecycleStep DEF EndpointInv
<1>2. ASSUME EndpointInv, UNCHANGED vars PROVE EndpointInv'
  BY <1>2 DEF vars, EndpointInv, TypeOK, Stages, Attached, Released, NoLostWakeup,
       SentInOrder, ReportedToItsOpener, ProcessorRunning
<1>. QED BY <1>1, <1>2

(* EndpointInv is an invariant of the endpoint.                             *)
THEOREM Invariance == Spec => []EndpointInv
BY InitInv, NextInv, PTL DEF Spec

(* The state keeps its types; in particular the signal never counts beyond  *)
(* its pipe.                                                                *)
THEOREM TypeCorrect == Spec => []TypeOK
<1>1. EndpointInv => TypeOK
  BY DEF EndpointInv
<1>. QED BY <1>1, Invariance, PTL

(* The processor has its socket to itself until it ends, and Open replaces  *)
(* neither a thread that is joinable nor one that runs.                     *)
THEOREM SocketIsTheProcessors == Spec => []SocketOutlivesProcessor
<1>1. EndpointInv => SocketOutlivesProcessor
  BY DEF EndpointInv, Stages, Attached, SocketOutlivesProcessor
<1>. QED BY <1>1, Invariance, PTL

(* When Close has returned there is no thread and no socket.                *)
THEOREM CloseIsFinal == Spec => []ClosedIsQuiet
<1>1. EndpointInv => ClosedIsQuiet
  BY DEF EndpointInv, Attached, Released, ClosedIsQuiet
<1>. QED BY <1>1, Invariance, PTL

(* Packets are sent once and in the order queued, whatever is closed,       *)
(* reopened or fails in between.                                            *)
THEOREM PacketOrder == Spec => []SentInOrder
<1>1. EndpointInv => SentInOrder
  BY DEF EndpointInv
<1>. QED BY <1>1, Invariance, PTL

(* The processor never sleeps through a packet or a request to stop.        *)
THEOREM WakeupsArrive == Spec => []NoLostWakeup
<1>1. EndpointInv => NoLostWakeup
  BY DEF EndpointInv
<1>. QED BY <1>1, Invariance, PTL

(* Delegates hear of their own socket, unless Open replaced them early.     *)
THEOREM ReportsGoToTheOpener == Spec => []ReportedToItsOpener
<1>1. EndpointInv => ReportedToItsOpener
  BY DEF EndpointInv
<1>. QED BY <1>1, Invariance, PTL
-----------------------------------------------------------------------------
(***************************************************************************)
(* What holds of the Windows NetworkEndpoint for any number of threads,    *)
(* opens, packets and arrivals: its processor, which is woken once for     *)
(* each kind of thing and then not again until it asks, never sleeps       *)
(* through anything.  Stages, Attached and Released are those above; the   *)
(* rest of the invariant says what Winsock has still to notice:            *)
(*   ModeKnown   which mode the latest socket has;                         *)
(*   Tied        an event enabled is one that has not happened;            *)
(*   Incoming    an event not enabled is being handled, for what arrives;  *)
(*   Outgoing    and for packets in the queue, unless they are stranded;   *)
(*   Stopping    a request to stop is on its way to the processor.         *)
(***************************************************************************)

WinsockStates ==
  [signaled : BOOLEAN, socket : SocketIds, incoming : BOOLEAN, write : BOOLEAN,
   waiting : BOOLEAN]

(* The processor runs or is about to be started.                            *)
Serving == ProcessorRunning \/ call.pc = "start"

ModeKnown ==
  /\ kernel.id <= log.opens
  /\ kernel.id # NoSocket /\ kernel.id = log.opens => impl.mode = kernel.mode

Tied ==
  Serving =>
    /\ winsock.socket = kernel.id
    /\ winsock.incoming => kernel.pending = 0
    /\ winsock.write /\ kernel.mode # "connection" => kernel.full

Incoming ==
  Serving /\ kernel.id = log.opens /\ kernel.mode # "multicastSend" =>
    winsock.incoming \/ winsock.signaled \/ loop.pc \in {"relock", "receive"}

Outgoing ==
  Serving /\ kernel.mode # "connection" /\ platform.outputQueue # << >> =>
    \/ winsock.write \/ winsock.signaled \/ IsSet(platform.signal)
    \/ loop.pc \in {"relock", "receive", "received", "delegate", "send"}
    \/ loop.pc = "test" /\ ~loop.wait
    \/ Stranded

Stopping ==
  /\ ~loop.signaled
  /\ loop.pc = "select" /\ platform.processorStop =>
       call.pc = "wake" \/ IsSet(platform.signal)

WinInv ==
  /\ TypeOK /\ winsock \in WinsockStates
  /\ Stages /\ Attached /\ Released
  /\ ModeKnown /\ Tied /\ Incoming /\ Outgoing /\ Stopping

-----------------------------------------------------------------------------
(* What Winsock notices.                                                    *)

(* An event is noticed once, whatever it was enabled for, and none is lost. *)
LEMMA NoticeEffect ==
  ASSUME NEW w \in WinsockStates, NEW k \in Kernels
  PROVE  /\ Notice(w, k) \in WinsockStates
         /\ Notice(w, k).socket = w.socket /\ Notice(w, k).waiting = w.waiting
         /\ w.signaled => Notice(w, k).signaled
         /\ w.incoming => Notice(w, k).incoming \/ Notice(w, k).signaled
         /\ w.write => Notice(w, k).write \/ Notice(w, k).signaled
         /\ w.socket = k.id /\ k.id # NoSocket =>
              /\ Notice(w, k).incoming => k.pending = 0
              /\ Notice(w, k).write /\ k.mode # "connection" => k.full
<1>. DEFINE arrived == w.incoming /\ k.pending > 0
            room == w.write /\ k.mode # "connection" /\ ~k.full
            n == [w EXCEPT !.signaled = @ \/ arrived \/ room,
                           !.incoming = @ /\ ~arrived, !.write = @ /\ ~room]
<1>1. arrived \in BOOLEAN /\ room \in BOOLEAN /\ (k.pending > 0 <=> k.pending # 0)
  BY DEF WinsockStates, Kernels
<1>2. arrived = (w.incoming /\ k.pending > 0)
      /\ room = (w.write /\ k.mode # "connection" /\ ~k.full)
  OBVIOUS
<1>3. Notice(w, k) = IF w.socket = k.id /\ k.id # NoSocket THEN n ELSE w
  BY DEF Notice
<1>. HIDE DEF arrived, room
<1>4. /\ n \in WinsockStates /\ n.socket = w.socket /\ n.waiting = w.waiting
      /\ n.signaled = (w.signaled \/ arrived \/ room)
      /\ n.incoming = (w.incoming /\ ~arrived) /\ n.write = (w.write /\ ~room)
  BY <1>1 DEF WinsockStates
<1>. HIDE DEF n
<1>. QED BY <1>1, <1>2, <1>3, <1>4

(* The mask of WSAEventSelect says of each event whether it is asked for.   *)
LEMMA MasksAreBoolean ==
  ASSUME NEW mode
  PROVE  AsksForIncoming(mode) \in BOOLEAN /\ AsksForWrite(mode) \in BOOLEAN
BY DEF AsksForIncoming, AsksForWrite

(* What WSAEventSelect makes of Winsock's record.                           *)
LEMMA SelectedType ==
  ASSUME NEW w \in WinsockStates, NEW mode, kernel \in Kernels
  PROVE  /\ Selected(w, mode) \in WinsockStates
         /\ Selected(w, mode).socket = kernel.id
         /\ Selected(w, mode).incoming = AsksForIncoming(mode)
         /\ Selected(w, mode).write = AsksForWrite(mode)
BY MasksAreBoolean DEF Selected, WinsockStates, Kernels

-----------------------------------------------------------------------------
(* Types.                                                                   *)

(* Every step keeps the types: of the shared state as on POSIX, and Winsock's.*)
LEMMA Win32Types ==
  ASSUME WinInv, NextWin32
  PROVE  TypeOK' /\ winsock' \in WinsockStates
<1>. USE EndpointAssumption DEF WinInv
<1>1. CASE \/ BeginCallWin32 \/ CreateSocketWin32
           \/ \E t \in Users \cup {Processor} : SendPacketWin32(t)
  BY <1>1, CallTypes
  DEF BeginCallWin32, CreateSocketWin32, SendPacketWin32, CallGoesOn, NewCall
<1>2. CASE (StopProcessor \/ Wake \/ CloseSocket) /\ UNCHANGED winsock
  BY <1>2, CallTypes DEF CallGoesOn
<1>3. CASE TakeMutexWin32 \/ CallDelegateWin32 \/ SendWin32
  <2>1. TypeOK'
    BY <1>3, ProcessorTypes
    DEF TakeMutexWin32, CallDelegateWin32, SendWin32, ProcessorStep
  <2>2. winsock' \in WinsockStates
    BY <1>3 DEF TakeMutexWin32, CallDelegateWin32, SendWin32, WinsockStates
  <2>. QED BY <2>1, <2>2
<1>4. CASE SendBlockedWin32
  <2>1. winsock' \in WinsockStates
    BY <1>4, MasksAreBoolean DEF SendBlockedWin32, WinsockStates
  <2>2. TypeOK'
    BY <1>4, ProcessorTypes DEF SendBlockedWin32, ProcessorStep
  <2>. QED BY <2>1, <2>2
<1>5. CASE DrainWin32
  <2>1. TypeOK'
    BY <1>5, CallTypes DEF DrainWin32
  <2>2. kernel' \in Kernels
    BY <2>1 DEF TypeOK
  <2>. QED BY <1>5, <2>1, <2>2, NoticeEffect DEF DrainWin32
<1>6. CASE ArriveWin32
  <2>1. kernel.pending + 1 \in 0 .. MaxArrivals /\ kernel.pending + 1 <= log.arrived + 1
    BY <1>6 DEF ArriveWin32, Kernels, Histories, TypeOK
  <2>2. kernel' \in Kernels /\ kernel'.pending = kernel.pending + 1
    BY <1>6, <2>1 DEF ArriveWin32, Kernels, TypeOK
  <2>3. log.arrived + 1 \in 0 .. MaxArrivals
    BY <1>6 DEF ArriveWin32, Histories, TypeOK
  <2>4. log' \in Histories /\ log'.arrived = log.arrived + 1
    BY <1>6, <2>3 DEF ArriveWin32, Histories, TypeOK
  <2>5. winsock' \in WinsockStates
    BY <1>6, <2>2, NoticeEffect DEF ArriveWin32
  <2>. QED BY <1>6, <2>1, <2>2, <2>4, <2>5 DEF ArriveWin32, TypeOK
<1>7. CASE JoinWin32
  <2>1. platform' \in Platforms /\ call' \in Calls
    <3>1. << >> \in Seq(Packets)
      BY EmptySeq
    <3>. QED BY <1>7, <3>1
             DEF JoinWin32, QueueCleared, Platforms, Calls, CallSteps, TypeOK
  <2>. QED BY <1>7, <2>1 DEF JoinWin32, TypeOK
<1>8. CASE PrepareEvents
  <2>0. 0 \in Signals
    BY PipeCapacityAssumption DEF Signals
  <2>1. platform' \in Platforms
    <3>1. /\ platform \in Platforms
          /\ [platform EXCEPT !.signal = 0, !.processorStop = FALSE] \in Platforms
      BY <2>0 DEF Platforms, TypeOK
    <3>. QED BY <1>8, <3>1, WithoutSocketType DEF PrepareEvents
  <2>2. call' \in Calls
    BY <1>8 DEF PrepareEvents, Calls, CallSteps, Idle, TypeOK
  <2>3. kernel' \in Kernels /\ kernel'.pending <= log.arrived
    BY <1>8, ClosedSocketType DEF PrepareEvents, TypeOK, Histories
  <2>4. winsock' \in WinsockStates
    <3>1. (platform.outputQueue # << >>) \in BOOLEAN
      OBVIOUS
    <3>2. Notice(Selected(winsock, impl.mode), kernel) \in WinsockStates
      BY NoticeEffect, SelectedType DEF TypeOK
    <3>3. [Notice(Selected(winsock, impl.mode), kernel) EXCEPT
             !.waiting = platform.outputQueue # << >>] \in WinsockStates
      BY <3>1, <3>2 DEF WinsockStates
    <3>. QED BY <1>8, <3>3 DEF PrepareEvents
  <2>. QED BY <1>8, <2>1, <2>2, <2>3, <2>4 DEF PrepareEvents, TypeOK
<1>9. CASE StartProcessorWin32
  <2>1. platform' \in Platforms
    BY <1>9 DEF StartProcessorWin32, Platforms, TypeOK
  <2>2. platform.sock \in SocketIds /\ "lock" \in LoopSteps
    BY DEF Platforms, LoopSteps, TypeOK
  <2>3. loop' \in Loops
    BY <1>9, <2>2 DEF StartProcessorWin32, Loops, TypeOK
  <2>4. call' \in Calls
    BY <1>9 DEF StartProcessorWin32, Calls, CallSteps, Idle, TypeOK
  <2>. QED BY <1>9, <2>1, <2>3, <2>4 DEF StartProcessorWin32, TypeOK
<1>10. CASE TestLoopWin32
  <2>1. loop' \in Loops
    BY <1>10, LoopTypes DEF TestLoopWin32, Exit, Goto, LoopSteps, TypeOK
  <2>. QED BY <1>10, <2>1 DEF TestLoopWin32, Exit, TypeOK
<1>11. CASE WaitReturns
  <2>1. loop' \in Loops
    BY <1>11, LoopTypes DEF WaitReturns, Goto, LoopSteps, TypeOK
  <2>2. platform' \in Platforms
    BY <1>11, SignalOperations DEF WaitReturns, Platforms, TypeOK
  <2>3. winsock' \in WinsockStates
    BY <1>11 DEF WaitReturns, WinsockStates
  <2>. QED BY <1>11, <2>1, <2>2, <2>3 DEF WaitReturns, TypeOK
<1>12. CASE ReceiveWin32 \/ ReceiveNothingWin32
  <2>1. loop' \in Loops
    BY <1>12, LoopTypes DEF ReceiveWin32, ReceiveNothingWin32, Goto, LoopSteps, TypeOK
  <2>2. kernel.pending > 0 => kernel.pending - 1 \in 0 .. MaxArrivals
    BY DEF Kernels, TypeOK
  <2>3. kernel' \in Kernels /\ kernel'.pending <= kernel.pending
    BY <1>12, <2>2 DEF ReceiveWin32, ReceiveNothingWin32, Kernels, TypeOK
  <2>4. kernel'.pending <= log.arrived
    BY <2>3 DEF Kernels, Histories, TypeOK
  <2>5. Reenabled \in WinsockStates
    BY MasksAreBoolean DEF Reenabled, WinsockStates
  <2>6. winsock' \in WinsockStates
    BY <1>12, <2>3, <2>5, NoticeEffect DEF ReceiveWin32, ReceiveNothingWin32
  <2>. QED BY <1>12, <2>1, <2>3, <2>4, <2>6 DEF ReceiveWin32, ReceiveNothingWin32, TypeOK
<1>13. CASE ReceiveFailsWin32
  <2>1. platform' \in Platforms
    BY <1>13, WithoutSocketType DEF ReceiveFailsWin32, GiveUp, TypeOK
  <2>2. kernel' \in Kernels /\ kernel'.pending = 0
    BY <1>13, ClosedSocketType DEF ReceiveFailsWin32, GiveUp, TypeOK
  <2>3. loop' \in Loops
    BY <1>13 DEF ReceiveFailsWin32, GiveUp, Exit, Loops, LoopSteps, TypeOK
  <2>4. 0 <= log.arrived
    BY DEF Histories, TypeOK
  <2>. QED BY <1>13, <2>1, <2>2, <2>3, <2>4
       DEF ReceiveFailsWin32, GiveUp, Exit, TypeOK
<1>. QED
  BY <1>1, <1>2, <1>3, <1>4, <1>5, <1>6, <1>7, <1>8, <1>9, <1>10, <1>11, <1>12, <1>13
  DEF NextWin32, ProcessorStepWin32, CallGoesOnWin32, CloseWin32

-----------------------------------------------------------------------------
(* Open and Close against the processor.                                    *)

(* What preparing the events leaves: a signal to wait for, or no socket.    *)
PrepareEffect ==
  \/ /\ call' = [call EXCEPT !.pc = "start"] /\ kernel' = kernel
     /\ platform'.sock = platform.sock /\ platform'.signal = 0
     /\ platform'.joinable = platform.joinable
  \/ /\ call' = Idle /\ kernel' = ClosedSocket /\ platform'.sock = NoSocket
     /\ platform'.joinable = platform.joinable

(* No other outcome.                                                        *)
LEMMA PreparedEffect ==
  ASSUME platform \in Platforms, PrepareEvents
  PROVE  PrepareEffect
<1>. DEFINE p == [platform EXCEPT !.signal = 0, !.processorStop = FALSE]
<1>1. /\ p.sock = platform.sock /\ p.signal = 0 /\ p.joinable = platform.joinable
      /\ WithoutSocket(p).sock = NoSocket /\ WithoutSocket(p).joinable = platform.joinable
      /\ WithoutSocket(platform).sock = NoSocket
      /\ WithoutSocket(platform).joinable = platform.joinable
  BY DEF WithoutSocket, Platforms
<1>2. \/ platform' = p /\ kernel' = kernel /\ call' = [call EXCEPT !.pc = "start"]
      \/ /\ platform' \in {WithoutSocket(platform), WithoutSocket(p)}
         /\ kernel' = ClosedSocket /\ call' = Idle
  BY DEF PrepareEvents
<1>. HIDE DEF p
<1>. QED BY <1>1, <1>2 DEF PrepareEffect

(* The owner's steps.                                                       *)
LEMMA OwnerLifecycle ==
  ASSUME WinInv,
         \/ BeginCallWin32 \/ CallGoesOnWin32
         \/ \E t \in Users \cup {Processor} : SendPacketWin32(t)
  PROVE  Stages' /\ Attached' /\ Released'
<1>. USE EndpointAssumption
     DEF WinInv, TypeOK, Stages, Attached, Released, ProcessorRunning, StepsOf,
         Impls, Platforms, Loops, Calls, Kernels, Histories
<1>1. ASSUME NEW t, SendPacketWin32(t) PROVE Stages' /\ Attached' /\ Released'
  BY <1>1, SignalOperations DEF SendPacketWin32, SendPacket, Queued
<1>2. CASE Open
  BY <1>2 DEF Open, Idle, Opens
<1>3. CASE Close
  BY <1>3 DEF Close, Idle
<1>4. CASE Destroy
  BY <1>4 DEF Destroy, Idle
<1>5. CASE StopProcessor
  BY <1>5 DEF StopProcessor
<1>6. CASE Wake
  BY <1>6, SignalOperations DEF Wake, Woken
<1>7. CASE JoinWin32
  BY <1>7 DEF JoinWin32, QueueCleared, ProcessorEnded
<1>8. CASE CloseSocket
  BY <1>8 DEF CloseSocket, WithoutSocket, ClosedSocket, Idle
<1>9. CASE CreateSocketWin32
  <2>1. log.opens > 0 /\ log.opens # NoSocket /\ ~log.closed /\ ~platform.joinable
    BY <1>9 DEF CreateSocketWin32, CreateSocket, NoSocket
  <2>. QED BY <1>9, <2>1, CreateSocketEffect DEF CreateSocketWin32, CreateSocket, Idle
<1>10. CASE PrepareEvents
  <2>1. 0 # NoPipe /\ ClosedSocket.id = NoSocket
    BY ClosedSocketType DEF NoPipe
  <2>2. PrepareEffect
    BY <2>1, <1>10, PreparedEffect
  <2>3. call.pc = "signal" /\ impl' = impl /\ loop' = loop /\ log' = log
    BY <1>10 DEF PrepareEvents
  <2>. QED BY <2>1, <2>2, <2>3 DEF PrepareEffect, Idle
<1>11. CASE StartProcessorWin32
  BY <1>11 DEF StartProcessorWin32, Idle
<1>. QED
  BY <1>1, <1>2, <1>3, <1>4, <1>5, <1>6, <1>7, <1>8, <1>9, <1>10, <1>11
  DEF BeginCallWin32, CallGoesOnWin32, CloseWin32

(* The processor's steps and the environment's.                             *)
LEMMA WorkLifecycle ==
  ASSUME WinInv, ProcessorStepWin32 \/ ArriveWin32 \/ DrainWin32
  PROVE  Stages' /\ Attached' /\ Released'
<1>. USE EndpointAssumption
     DEF WinInv, TypeOK, Stages, Attached, Released, ProcessorRunning, StepsOf,
         Impls, Platforms, Loops, Calls, Kernels, Histories
<1>1. CASE ArriveWin32
  BY <1>1 DEF ArriveWin32
<1>2. CASE DrainWin32
  BY <1>2 DEF DrainWin32, Drain
<1>3. CASE TakeMutexWin32
  BY <1>3, SignalOperations DEF TakeMutexWin32, TakeMutex, Goto
<1>4. CASE TestLoopWin32
  BY <1>4 DEF TestLoopWin32, Exit, Goto
<1>5. CASE WaitReturns
  <2>1. /\ loop.pc = "select" /\ loop'.pc = "relock" /\ loop'.sock = loop.sock
        /\ UNCHANGED <<impl, call, kernel, log>>
    BY <1>5 DEF WaitReturns, Goto
  <2>2. platform' \in {platform, [platform EXCEPT !.signal = Clear(platform.signal)]}
    BY <1>5 DEF WaitReturns
  <2>3. /\ platform'.sock = platform.sock /\ platform'.joinable = platform.joinable
        /\ platform'.signal \in {platform.signal, Clear(platform.signal)}
    BY <2>2
  <2>4. platform.signal # NoPipe => platform'.signal # NoPipe
    BY <2>3, SignalOperations
  <2>. QED BY <2>1, <2>3, <2>4
<1>6. CASE ReceiveWin32
  BY <1>6 DEF ReceiveWin32, Goto
<1>7. CASE ReceiveNothingWin32
  BY <1>7 DEF ReceiveNothingWin32, Goto
<1>8. CASE ReceiveFailsWin32
  BY <1>8 DEF ReceiveFailsWin32, GiveUp, Exit, WithoutSocket, ClosedSocket
<1>9. CASE CallDelegateWin32
  <2>1. /\ loop.pc \in {"received", "delegate"} /\ loop'.pc \in {"delegate", "send"}
        /\ loop'.sock = loop.sock /\ UNCHANGED <<impl, platform, call, kernel>>
        /\ log'.opens = log.opens /\ log'.closed = log.closed
        /\ log'.reopened = log.reopened
    BY <1>9 DEF CallDelegateWin32, CallDelegate, DelegateReturns, Goto
  <2>. QED BY <2>1
<1>10. CASE SendNothing
  BY <1>10 DEF SendNothing
<1>11. CASE Send
  BY <1>11 DEF Send
<1>12. CASE SendFails
  BY <1>12 DEF SendFails, GiveUp, Exit, WithoutSocket, ClosedSocket
<1>13. CASE SendBlockedWin32
  BY <1>13 DEF SendBlockedWin32, SendBlocked, WithUnsent
<1>. QED
  BY <1>1, <1>2, <1>3, <1>4, <1>5, <1>6, <1>7, <1>8, <1>9, <1>10, <1>11, <1>12, <1>13
  DEF ProcessorStepWin32, SendWin32

-----------------------------------------------------------------------------
(* Wake-ups.                                                                *)

(* What is known of sockets, events and requests to stop.                   *)
Awake == ModeKnown /\ Tied /\ Incoming /\ Outgoing /\ Stopping

(* The owner's steps.                                                       *)
LEMMA OwnerWakes ==
  ASSUME WinInv,
         \/ BeginCallWin32 \/ CallGoesOnWin32
         \/ \E t \in Users \cup {Processor} : SendPacketWin32(t)
  PROVE  Awake'
<1>1. /\ platform \in Platforms /\ kernel \in Kernels /\ loop \in Loops
      /\ call \in Calls /\ log \in Histories /\ winsock \in WinsockStates
  BY DEF WinInv, TypeOK
<1>2. /\ log.opens \in Nat /\ kernel.id \in Nat /\ platform.signal \in Signals
      /\ kernel.pending \in Nat /\ NoSocket = 0
  BY <1>1, EndpointAssumption DEF Histories, Kernels, Platforms, SocketIds, Opens, NoSocket
<1>. USE DEF WinInv, Stages, Attached, StepsOf, ProcessorRunning,
         Awake, Serving, ModeKnown, Tied, Incoming, Outgoing, Stopping, Stranded
<1>3. ASSUME NEW t, SendPacketWin32(t) PROVE Awake'
  <2>1. /\ platform'.sock = platform.sock /\ platform'.joinable = platform.joinable
        /\ platform'.processorStop = platform.processorStop
        /\ platform'.signal = Set(platform.signal)
        /\ log'.opens = log.opens
        /\ UNCHANGED <<impl, loop, call, kernel, winsock>>
    BY <1>1, <1>3 DEF SendPacketWin32, SendPacket, Queued, Platforms, Histories
  <2>2. platform.signal # NoPipe => IsSet(Set(platform.signal))
    BY <1>2, SignalOperations
  <2>3. Serving => platform.signal # NoPipe
    OBVIOUS
  <2>4. IsSet(platform.signal) => IsSet(platform'.signal)
    BY <1>2, <2>1, SignalOperations
  <2>5. Serving' = Serving
    BY <2>1
  <2>6. ModeKnown' /\ Tied' /\ Incoming'
    BY <2>1
  <2>7. Outgoing'
    BY <2>1, <2>2, <2>3, <2>5
  <2>8. Stopping'
    BY <2>1, <2>4
  <2>. QED BY <2>6, <2>7, <2>8
<1>4. CASE Open /\ UNCHANGED winsock
  <2>1. /\ log'.opens = log.opens + 1 /\ call.pc = "idle" /\ call'.pc = "stop"
        /\ UNCHANGED <<platform, loop, kernel, winsock>>
    BY <1>1, <1>4 DEF Open, Idle, Histories
  <2>. QED BY <1>2, <2>1
<1>5. CASE (Close \/ Destroy) /\ UNCHANGED winsock
  <2>1. /\ call.pc = "idle" /\ call'.pc = "stop"
        /\ UNCHANGED <<impl, platform, loop, kernel, log, winsock>>
    BY <1>5 DEF Close, Destroy, Idle
  <2>. QED BY <2>1
<1>6. CASE StopProcessor /\ UNCHANGED winsock
  <2>1. /\ platform'.sock = platform.sock /\ platform'.joinable = platform.joinable
        /\ platform'.processorStop = (platform.processorStop \/ platform.joinable)
        /\ platform'.signal = platform.signal
        /\ platform'.outputQueue = platform.outputQueue
        /\ call.pc = "stop"
        /\ call'.pc = IF platform.joinable THEN "wake" ELSE "close"
        /\ UNCHANGED <<impl, loop, kernel, log, winsock>>
    BY <1>1, <1>6 DEF StopProcessor, Platforms, Calls
  <2>. QED BY <2>1
<1>7. CASE Wake /\ UNCHANGED winsock
  <2>1. /\ platform'.sock = platform.sock /\ platform'.joinable = platform.joinable
        /\ platform'.processorStop = platform.processorStop
        /\ platform'.signal = Set(platform.signal)
        /\ platform'.outputQueue = platform.outputQueue
        /\ call.pc = "wake" /\ call'.pc = "join"
        /\ UNCHANGED <<impl, loop, kernel, log, winsock>>
    BY <1>1, <1>7 DEF Wake, Woken, Platforms, Calls
  <2>2. /\ platform.signal # NoPipe => IsSet(Set(platform.signal))
        /\ IsSet(platform.signal) => IsSet(Set(platform.signal))
    BY <1>2, SignalOperations
  <2>. QED BY <2>1, <2>2
<1>8. CASE JoinWin32
  <2>1. /\ platform'.outputQueue = << >> /\ platform'.processorStop = platform.processorStop
        /\ call'.pc = "close" /\ loop.pc = "done"
        /\ UNCHANGED <<impl, loop, kernel, log, winsock>>
    BY <1>1, <1>8 DEF JoinWin32, QueueCleared, ProcessorEnded, Platforms, Calls
  <2>. QED BY <2>1
<1>9. CASE CloseSocket /\ UNCHANGED winsock
  <2>1. /\ ~ProcessorRunning /\ call'.pc # "start"
        /\ kernel'.id = NoSocket /\ log'.opens = log.opens
        /\ UNCHANGED <<impl, loop, winsock>>
    BY <1>1, <1>9, ClosedSocketType
    DEF CloseSocket, Idle, Calls, Histories
  <2>. QED BY <1>2, <2>1
<1>10. CASE CreateSocketWin32
  <2>1. ~ProcessorRunning /\ UNCHANGED <<impl, loop, log, winsock>>
    BY <1>10 DEF CreateSocketWin32, CreateSocket
  <2>2. call'.pc # "start"
    BY <1>1, <1>10 DEF CreateSocketWin32, CreateSocket, Idle, Calls
  <2>3. kernel' \in {kernel, [kernel EXCEPT !.id = log.opens, !.mode = impl.mode]}
    BY <1>10 DEF CreateSocketWin32, CreateSocket
  <2>4. \/ kernel'.id = log.opens /\ kernel'.mode = impl.mode
        \/ kernel' = kernel
    BY <1>1, <2>3 DEF Kernels
  <2>. QED BY <1>2, <2>1, <2>2, <2>4
<1>11. CASE PrepareEvents
  <2>1. ~ProcessorRunning /\ UNCHANGED <<impl, loop, log>>
    BY <1>11 DEF PrepareEvents
  <2>2. CASE call' = Idle
    <3>1. kernel' = ClosedSocket
      BY <1>11, <2>2 DEF PrepareEvents, Idle
    <3>2. kernel'.id = NoSocket /\ call'.pc # "start"
      BY <1>1, <2>2, <3>1, ClosedSocketType DEF Idle
    <3>. QED BY <1>2, <2>1, <3>2
  <2>3. CASE call' # Idle
    <3>. DEFINE selected == Selected(winsock, impl.mode)
                noticed == Notice(selected, kernel)
    <3>1. /\ winsock' = [noticed EXCEPT !.waiting = platform.outputQueue # << >>]
          /\ kernel' = kernel /\ platform'.outputQueue = platform.outputQueue
      BY <1>1, <1>11, <2>3 DEF PrepareEvents, Platforms
    <3>2. /\ kernel.id # NoSocket /\ kernel.id = log.opens /\ impl.mode = kernel.mode
      BY <1>11 DEF PrepareEvents
    <3>3. /\ selected \in WinsockStates
          /\ selected.socket = kernel.id
          /\ selected.incoming = (kernel.mode # "multicastSend")
          /\ selected.write = (kernel.mode \in {"datagram", "multicastSend"})
      BY <1>1, <3>2, SelectedType DEF AsksForIncoming, AsksForWrite
    <3>. HIDE DEF selected
    <3>4. /\ noticed \in WinsockStates /\ noticed.socket = kernel.id
          /\ noticed.incoming => kernel.pending = 0
          /\ noticed.write /\ kernel.mode # "connection" => kernel.full
          /\ selected.incoming => noticed.incoming \/ noticed.signaled
          /\ selected.write => noticed.write \/ noticed.signaled
      BY <1>1, <3>2, <3>3, NoticeEffect
    <3>. HIDE DEF noticed
    <3>5. /\ winsock'.socket = noticed.socket /\ winsock'.incoming = noticed.incoming
          /\ winsock'.write = noticed.write /\ winsock'.signaled = noticed.signaled
          /\ winsock'.waiting = (platform.outputQueue # << >>)
      BY <3>1, <3>4 DEF WinsockStates
    <3>6. kernel.mode \in {"connection", "datagram", "multicastSend", "multicastReceive"}
      BY <1>1, EndpointAssumption DEF Kernels
    <3>7. /\ winsock'.socket = kernel.id
          /\ winsock'.incoming => kernel.pending = 0
          /\ winsock'.write /\ kernel.mode # "connection" => kernel.full
          /\ kernel.mode # "multicastSend" => winsock'.incoming \/ winsock'.signaled
          /\ kernel.mode # "connection" /\ platform.outputQueue # << >>
               => winsock'.write \/ winsock'.signaled \/ Stranded'
      BY <3>1, <3>3, <3>4, <3>5, <3>6
    <3>. QED BY <2>1, <3>1, <3>7
  <2>. QED BY <2>2, <2>3
<1>12. CASE StartProcessorWin32
  <2>1. /\ call.pc = "start" /\ loop'.pc = "lock" /\ loop'.signaled = loop.signaled
        /\ platform'.signal = platform.signal
        /\ platform'.outputQueue = platform.outputQueue
        /\ call'.pc = "idle"
        /\ UNCHANGED <<impl, kernel, log, winsock>>
    BY <1>1, <1>12 DEF StartProcessorWin32, Platforms, Loops, Idle
  <2>2. ~ProcessorRunning
    BY <2>1
  <2>. QED BY <2>1, <2>2
<1>. QED
  BY <1>3, <1>4, <1>5, <1>6, <1>7, <1>8, <1>9, <1>10, <1>11, <1>12
  DEF BeginCallWin32, CallGoesOnWin32, CloseWin32

(* The processor's steps and the environment's.                             *)
LEMMA WorkWakes ==
  ASSUME WinInv, ProcessorStepWin32 \/ ArriveWin32 \/ DrainWin32
  PROVE  Awake'
<1>1. /\ platform \in Platforms /\ kernel \in Kernels /\ loop \in Loops
      /\ call \in Calls /\ log \in Histories /\ winsock \in WinsockStates
      /\ kernel' \in Kernels
  BY Win32Types DEF WinInv, TypeOK, NextWin32
<1>2. /\ log.opens \in Nat /\ kernel.id \in Nat /\ platform.signal \in Signals
      /\ kernel.pending \in Nat /\ NoSocket = 0
  BY <1>1, EndpointAssumption DEF Histories, Kernels, Platforms, SocketIds, Opens, NoSocket
<1>. USE DEF WinInv, Stages, Attached, StepsOf, ProcessorRunning,
         Awake, Serving, ModeKnown, Tied, Incoming, Outgoing, Stopping, Stranded
<1>3. ASSUME UNCHANGED <<impl, platform, loop, call>>, log'.opens = log.opens,
             kernel'.id = kernel.id, kernel'.mode = kernel.mode, kernel.id # NoSocket,
             winsock' = Notice(winsock, kernel')
      PROVE  Awake'
  <2>1. Serving => winsock.socket = kernel.id
    OBVIOUS
  <2>2. /\ winsock'.socket = winsock.socket /\ winsock'.waiting = winsock.waiting
        /\ winsock.signaled => winsock'.signaled
        /\ winsock.incoming => winsock'.incoming \/ winsock'.signaled
        /\ winsock.write => winsock'.write \/ winsock'.signaled
        /\ Serving =>
             /\ winsock'.incoming => kernel'.pending = 0
             /\ winsock'.write /\ kernel'.mode # "connection" => kernel'.full
    BY <1>1, <1>3, <2>1, NoticeEffect
  <2>. QED BY <1>3, <2>1, <2>2
<1>4. CASE ArriveWin32
  BY <1>1, <1>3, <1>4 DEF ArriveWin32, Kernels, Histories
<1>5. CASE DrainWin32
  <2>1. CASE kernel.id # NoSocket
    BY <1>1, <1>3, <1>5, <2>1 DEF DrainWin32, Drain, Kernels
  <2>2. CASE kernel.id = NoSocket
    <3>1. kernel'.id = NoSocket /\ UNCHANGED <<impl, platform, loop, call, log>>
      BY <1>1, <1>5, <2>2 DEF DrainWin32, Drain, Kernels
    <3>2. ~Serving
      BY <2>2
    <3>. QED BY <1>2, <3>1, <3>2
  <2>. QED BY <2>1, <2>2
<1>7. CASE TakeMutexWin32
  <2>1. /\ loop.pc \in {"lock", "relock"} /\ loop'.signaled = loop.signaled
        /\ loop'.wait = loop.wait
        /\ loop'.pc = IF loop.pc = "lock" THEN "test" ELSE "receive"
        /\ platform' = platform
        /\ UNCHANGED <<impl, call, kernel, log, winsock>>
    BY <1>1, <1>7 DEF TakeMutexWin32, TakeMutex, Goto, Loops, Platforms
  <2>. QED BY <2>1
<1>8. CASE TestLoopWin32
  <2>1. /\ loop.pc = "test" /\ loop'.signaled = loop.signaled
        /\ loop'.wait = loop.wait
        /\ \/ loop'.pc = "done"
           \/ loop'.pc = "select" /\ loop.wait /\ ~platform.processorStop
           \/ loop'.pc = "receive"
        /\ UNCHANGED <<impl, call, kernel, log, winsock, platform>>
    BY <1>1, <1>8 DEF TestLoopWin32, Exit, Goto, Loops
  <2>. QED BY <2>1
<1>9. CASE WaitReturns
  <2>1. /\ loop.pc = "select" /\ loop'.pc = "relock" /\ loop'.signaled = loop.signaled
        /\ platform'.outputQueue = platform.outputQueue
        /\ winsock'.socket = winsock.socket /\ winsock'.waiting = winsock.waiting
        /\ winsock'.incoming = winsock.incoming /\ winsock'.write = winsock.write
        /\ UNCHANGED <<impl, call, kernel, log>>
    BY <1>1, <1>9 DEF WaitReturns, Goto, Loops, Platforms, WinsockStates
  <2>. QED BY <2>1
<1>10. ASSUME loop.pc = "receive", winsock' = Notice(Reenabled, kernel'),
              kernel'.id = kernel.id, kernel'.mode = kernel.mode,
              kernel'.full = kernel.full, loop'.pc \in {"received", "send"},
              loop'.signaled = loop.signaled,
              UNCHANGED <<impl, platform, call, log>>
       PROVE  Awake'
  <2>1. /\ kernel'.id # NoSocket /\ winsock.socket = kernel'.id
    BY <1>10
  <2>2. /\ Reenabled \in WinsockStates
        /\ Reenabled.incoming = (kernel.mode # "multicastSend")
        /\ Reenabled.socket = kernel'.id
    BY <1>1, <2>1 DEF Reenabled, WinsockStates, AsksForIncoming
  <2>3. /\ winsock'.socket = kernel'.id
        /\ kernel.mode # "multicastSend" => winsock'.incoming \/ winsock'.signaled
        /\ winsock'.incoming => kernel'.pending = 0
        /\ winsock'.write /\ kernel'.mode # "connection" => kernel'.full
    BY <1>1, <1>10, <2>1, <2>2, NoticeEffect
  <2>. QED BY <1>10, <2>3
<1>11. CASE ReceiveWin32
  BY <1>1, <1>10, <1>11 DEF ReceiveWin32, Goto, Kernels, Loops
<1>12. CASE ReceiveNothingWin32
  <2>1. CASE winsock' = Notice(Reenabled, kernel')
    BY <1>1, <1>10, <1>12, <2>1 DEF ReceiveNothingWin32, Goto, Kernels, Loops
  <2>2. CASE ~(winsock' = Notice(Reenabled, kernel'))
    <3>1. /\ loop.pc = "receive" /\ loop'.pc = "send" /\ loop'.signaled = loop.signaled
          /\ \/ impl.mode = "multicastSend"
             \/ impl.mode = "connection" /\ kernel.mode # "connection"
          /\ UNCHANGED <<impl, platform, call, kernel, log, winsock>>
      BY <1>1, <1>12, <2>2 DEF ReceiveNothingWin32, Accepts, Goto, Loops
    <3>. QED BY <3>1
  <2>. QED BY <2>1, <2>2
<1>13. CASE ReceiveFailsWin32 \/ (SendFails /\ UNCHANGED winsock)
  <2>1. /\ loop'.pc = "done" /\ loop'.signaled = loop.signaled
        /\ kernel'.id = NoSocket /\ UNCHANGED <<impl, call, log>>
        /\ ProcessorRunning
    BY <1>1, <1>13, ClosedSocketType
    DEF ReceiveFailsWin32, SendFails, GiveUp, Exit, Loops
  <2>. QED BY <1>2, <2>1
<1>14. CASE CallDelegateWin32
  <2>1. /\ loop.pc \in {"received", "delegate"} /\ loop'.pc \in {"delegate", "send"}
        /\ loop'.signaled = loop.signaled /\ log'.opens = log.opens
        /\ UNCHANGED <<impl, platform, call, kernel, winsock>>
    BY <1>1, <1>14 DEF CallDelegateWin32, CallDelegate, DelegateReturns, Goto, Loops, Histories
  <2>. QED BY <2>1
<1>15. CASE SendNothing /\ UNCHANGED winsock
  <2>1. /\ loop.pc = "send" /\ loop'.pc = "test" /\ loop'.signaled = loop.signaled
        /\ platform.outputQueue = << >>
        /\ UNCHANGED <<impl, platform, call, kernel, log, winsock>>
    BY <1>1, <1>15 DEF SendNothing, Loops
  <2>. QED BY <2>1
<1>16. CASE Send /\ winsock' = [winsock EXCEPT !.waiting = FALSE]
  <2>1. /\ loop.pc = "send" /\ loop'.pc = "test" /\ loop'.signaled = loop.signaled
        /\ loop'.wait = (platform'.outputQueue = << >>)
        /\ kernel.mode # "connection" /\ ~kernel.full
        /\ kernel'.id = kernel.id /\ kernel'.mode = kernel.mode
        /\ kernel'.pending = kernel.pending
        /\ log'.opens = log.opens
        /\ winsock'.socket = winsock.socket /\ winsock'.signaled = winsock.signaled
        /\ winsock'.incoming = winsock.incoming /\ winsock'.write = winsock.write
        /\ UNCHANGED <<impl, call>>
    BY <1>1, <1>16 DEF Send, Writable, Loops, Kernels, Platforms, Histories, WinsockStates
  <2>. QED BY <2>1
<1>17. CASE SendBlockedWin32
  <2>1. /\ loop.pc = "send" /\ loop'.pc = "test" /\ loop'.signaled = loop.signaled
        /\ kernel.full /\ winsock'.socket = winsock.socket
        /\ winsock'.incoming = winsock.incoming /\ winsock'.waiting
        /\ winsock'.write = (kernel.mode \in {"datagram", "multicastSend"})
        /\ winsock'.signaled = winsock.signaled
        /\ UNCHANGED <<impl, platform, call, kernel, log>>
    BY <1>1, <1>17
    DEF SendBlockedWin32, SendBlocked, WithUnsent, Loops, WinsockStates, AsksForWrite
  <2>2. kernel.mode \in {"connection", "datagram", "multicastSend", "multicastReceive"}
    BY <1>1, EndpointAssumption DEF Kernels
  <2>. QED BY <2>1, <2>2
<1>. QED
  BY <1>4, <1>5, <1>7, <1>8, <1>9, <1>11, <1>12, <1>13, <1>14, <1>15, <1>16, <1>17
  DEF ProcessorStepWin32, SendWin32

-----------------------------------------------------------------------------
(* The theorems.                                                            *)

(* WinInv holds at the beginning.                                           *)
LEMMA InitWinInv == InitWin32 => WinInv
<1>. SUFFICES ASSUME InitWin32 PROVE WinInv
  OBVIOUS
<1>1. TypeOK
  BY InitTypes DEF InitWin32
<1>2. Stages /\ Attached /\ Released
  BY DEF InitWin32, Init, Stages, StepsOf, Attached, Released, ProcessorRunning, Idle, NoSocket
<1>3. winsock \in WinsockStates
  BY DEF InitWin32, WinsockStates, SocketIds
<1>4. ~Serving
  BY DEF InitWin32, Init, Serving, ProcessorRunning, Idle
<1>5. ModeKnown /\ Stopping
  BY DEF InitWin32, Init, ModeKnown, Stopping, NoSocket
<1>. QED BY <1>1, <1>2, <1>3, <1>4, <1>5 DEF WinInv, Tied, Incoming, Outgoing

(* WinInv is kept by every step.                                            *)
LEMMA NextWinInv == WinInv /\ [NextWin32]_winVars => WinInv'
<1>1. ASSUME WinInv, NextWin32 PROVE WinInv'
  <2>1. Stages' /\ Attached' /\ Released'
    BY <1>1, OwnerLifecycle, WorkLifecycle DEF NextWin32
  <2>2. Awake'
    BY <1>1, OwnerWakes, WorkWakes DEF NextWin32
  <2>3. TypeOK' /\ (winsock \in WinsockStates)'
    BY <1>1, Win32Types
  <2>. QED BY <2>1, <2>2, <2>3 DEF WinInv, Awake
<1>2. ASSUME WinInv, UNCHANGED winVars PROVE WinInv'
  BY <1>2 DEF winVars, vars, WinInv, TypeOK, Stages, Attached, Released, ProcessorRunning,
       Serving, ModeKnown, Tied, Incoming, Outgoing, Stopping, Stranded
<1>. QED BY <1>1, <1>2

(* The state keeps its types on Windows too.                                *)
THEOREM Win32TypeCorrect == FairSpecWin32 => [](TypeOK /\ winsock \in WinsockStates)
<1>1. WinInv => TypeOK /\ winsock \in WinsockStates
  BY DEF WinInv
<1>. QED BY <1>1, InitWinInv, NextWinInv, PTL DEF FairSpecWin32

(* With events that are set once and then not again until asked for, and    *)
(* one client, datagram or packet for each pass of the loop, the processor  *)
(* never sleeps while there is something it should do.                      *)
THEOREM NothingIsLeftAsleep == FairSpecWin32 => []NothingLeftAsleep
<1>1. WinInv => NothingLeftAsleep
  <2>. SUFFICES ASSUME WinInv, loop.pc = "select",
                       ~IsSet(platform.signal), ~winsock.signaled,
                       impl.delegates = loop.sock
                PROVE  /\ kernel.mode # "multicastSend" => kernel.pending = 0
                       /\ platform.outputQueue # << >> /\ kernel.mode # "connection"
                            => Stranded \/ (kernel.full /\ winsock.write)
                       /\ platform.processorStop => call.pc = "wake"
    BY DEF NothingLeftAsleep
  <2>1. Serving /\ kernel.id = log.opens
    BY DEF WinInv, Attached, Serving, ProcessorRunning
  <2>. QED BY <2>1 DEF WinInv, Tied, Incoming, Outgoing, Stopping
<1>. QED BY <1>1, InitWinInv, NextWinInv, PTL DEF FairSpecWin32

(* Open and Close never take the socket from a running processor nor        *)
(* replace a joinable thread; after Close there is neither thread nor       *)
(* socket.                                                                  *)
THEOREM Win32CloseIsFinal == FairSpecWin32 => [](SocketOutlivesProcessor /\ ClosedIsQuiet)
<1>1. WinInv => SocketOutlivesProcessor /\ ClosedIsQuiet
  BY DEF WinInv, Stages, Attached, Released, SocketOutlivesProcessor, ClosedIsQuiet
<1>. QED BY <1>1, InitWinInv, NextWinInv, PTL DEF FairSpecWin32
=============================================================================
