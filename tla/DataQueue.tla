----------------------------- MODULE DataQueue -----------------------------
(***************************************************************************)
(* DataQueue (src/DataQueue.cpp): the queue of bytes a NetworkConnection   *)
(* sends from.  The buffers passed to Enqueue are kept as elements, each   *)
(* with the number of its bytes already consumed, beside a running total.  *)
(* Dequeue, Peek and Drop are one loop over the elements with two flags;   *)
(* each pass of that loop is an action here.                               *)
(*                                                                         *)
(* The queue has no lock of its own: its owner makes one call at a time.   *)
(***************************************************************************)
EXTENDS Naturals, Sequences, SequencesExt

CONSTANTS
  BufferSizes,   \* sizes of the buffers passed to Enqueue
  MaxBytes,      \* bound: bytes passed to Enqueue, all calls together
  MaxBuffers,    \* bound: elements in the queue
  Requests       \* numbers of bytes asked for

ASSUME DataQueueAssumption ==
  BufferSizes \subseteq Nat /\ MaxBytes \in Nat /\ MaxBuffers \in Nat /\ Requests \subseteq Nat

VARIABLES
  elements,      \* std::deque of [data, consumed]
  totalBytes,    \* bytes in the queue not yet consumed
  running,       \* the call in the loop of Impl::Dequeue, or Idle
  returned,      \* the buffer the last call returned
  queued,        \* bytes enqueued so far, which numbers them
  before         \* the bytes that were in the queue when the call began

vars == <<elements, totalBytes, running, returned, queued, before>>

Idle == [returnData |-> FALSE, removeData |-> FALSE, left |-> 0,
         next |-> 0, buffer |-> << >>, busy |-> FALSE]

Smaller(m, n) == IF m < n THEN m ELSE n

Unconsumed(e) == SubSeq(e.data, e.consumed + 1, Len(e.data))

Content == FlattenSeq([i \in DOMAIN elements |-> Unconsumed(elements[i])])

Init ==
  /\ elements = << >> /\ totalBytes = 0
  /\ running = Idle /\ returned = << >>
  /\ queued = 0 /\ before = << >>

(* A buffer, which may be empty, becomes the last element.                  *)
Enqueue ==
  \E n \in BufferSizes :
    /\ ~running.busy
    /\ queued + n <= MaxBytes /\ Len(elements) < MaxBuffers
    /\ elements' = Append(elements, [data |-> [i \in 1 .. n |-> queued + i], consumed |-> 0])
    /\ totalBytes' = totalBytes + n
    /\ queued' = queued + n
    /\ returned' = << >>
    /\ before' = Content'
    /\ UNCHANGED running

Limited(n) == Smaller(n, totalBytes)

(* The entry of Impl::Dequeue, with the flags of Dequeue, Peek or Drop.     *)
Begin(n, returnData, removeData) ==
  /\ ~running.busy
  /\ running' = [returnData |-> returnData, removeData |-> removeData,
                 left |-> Limited(n), next |-> 1, buffer |-> << >>, busy |-> TRUE]
  /\ UNCHANGED <<elements, totalBytes, returned, queued, before>>

Dequeue(n) == Begin(n, TRUE, TRUE)
Peek(n)    == Begin(n, TRUE, FALSE)
Drop(n)    == Begin(n, FALSE, TRUE)

Element == elements[running.next]

(* The whole of an untouched element is exactly what is still wanted.       *)
WholeElement ==
  /\ Element.consumed = 0
  /\ Len(Element.data) = running.left
  /\ running.buffer = << >>

(* ... it is returned without being copied byte by byte.                    *)
TakeElement ==
  /\ running.busy /\ running.left > 0
  /\ WholeElement
  /\ running' = [running EXCEPT !.buffer = IF running.returnData THEN Element.data ELSE @,
                                !.left = 0]
  /\ IF running.removeData
     THEN /\ elements' = RemoveAt(elements, running.next)
          /\ totalBytes' = totalBytes - running.left
     ELSE UNCHANGED <<elements, totalBytes>>
  /\ UNCHANGED <<returned, queued, before>>

(* Otherwise bytes are copied out of the element: as many as it still has,  *)
(* and no more than are wanted.                                             *)
BytesHere == Smaller(running.left, Len(Element.data) - Element.consumed)

(* Faulty variant: the bytes consumed earlier are copied again.             *)
BytesFromStart(n) == SubSeq(Element.data, 1, n)

Bytes(n) == SubSeq(Element.data, Element.consumed + 1, Element.consumed + n)

UsedUp(n) == Element.consumed + n >= Len(Element.data)

(* Faulty variant: the total is not kept up to date.                        *)
ConsumeUncounted(n) ==
  /\ elements' = IF UsedUp(n)
                 THEN RemoveAt(elements, running.next)
                 ELSE [elements EXCEPT ![running.next].consumed = @ + n]
  /\ UNCHANGED totalBytes

(* Consumed bytes are counted; an element used up is erased.                *)
Consume(n) ==
  /\ elements' = IF UsedUp(n)
                 THEN RemoveAt(elements, running.next)
                 ELSE [elements EXCEPT ![running.next].consumed = @ + n]
  /\ totalBytes' = totalBytes - n

(* Peek consumes nothing and passes over an element used up.                *)
TakeBytes ==
  /\ running.busy /\ running.left > 0
  /\ ~WholeElement
  /\ running' = [running EXCEPT
       !.buffer = IF running.returnData THEN @ \o Bytes(BytesHere) ELSE @,
       !.left = @ - BytesHere,
       !.next = IF ~running.removeData /\ UsedUp(BytesHere) THEN @ + 1 ELSE @]
  /\ IF running.removeData
     THEN Consume(BytesHere)
     ELSE UNCHANGED <<elements, totalBytes>>
  /\ UNCHANGED <<returned, queued, before>>

(* The call returns its buffer.                                             *)
Finish ==
  /\ running.busy /\ running.left = 0
  /\ returned' = running.buffer
  /\ before' = Content
  /\ running' = Idle
  /\ UNCHANGED <<elements, totalBytes, queued>>

Next ==
  \/ Enqueue
  \/ \E n \in Requests : Dequeue(n) \/ Peek(n) \/ Drop(n)
  \/ TakeElement \/ TakeBytes \/ Finish

Spec == Init /\ [][Next]_vars

-----------------------------------------------------------------------------
(* The type invariant.                                                      *)
TypeOK ==
  /\ elements \in Seq([data : Seq(1 .. MaxBytes), consumed : 0 .. MaxBytes])
  /\ totalBytes \in 0 .. MaxBytes
  /\ running \in [returnData : BOOLEAN, removeData : BOOLEAN, left : 0 .. MaxBytes,
                  next : Nat, buffer : Seq(1 .. MaxBytes), busy : BOOLEAN]
  /\ returned \in Seq(1 .. MaxBytes) /\ before \in Seq(1 .. MaxBytes)
  /\ queued \in 0 .. MaxBytes

(* The running total, which bounds every loop, is at all times, also in the *)
(* middle of a call, the number of bytes not consumed in the elements.      *)
TotalIsContent == totalBytes = Len(Content)

(* The loop reads no element past the end of the deque, whatever empty      *)
(* buffers were queued and however the request falls across the elements.   *)
LoopStaysInside ==
  running.busy /\ running.left > 0 => running.next \in DOMAIN elements

(* The three together: what the loop assumes, at every one of its passes, of *)
(* elements, total and request.                                             *)
Consistent == TypeOK /\ TotalIsContent /\ LoopStaysInside

(* The queue is a first-in first-out queue of bytes: a call takes effect    *)
(* when it returns.                                                         *)
Queue == INSTANCE ByteQueue WITH
  content  <- before,
  Buffers  <- UNION {[1 .. n -> 1 .. MaxBytes] : n \in BufferSizes}

ImplementsByteQueue == Queue!Spec
=============================================================================
