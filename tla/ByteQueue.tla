----------------------------- MODULE ByteQueue -----------------------------
(***************************************************************************)
(* What DataQueue promises (include/SystemAbstractions/DataQueue.hpp): a   *)
(* first-in first-out queue of bytes.  How the bytes were divided into     *)
(* buffers when they were queued does not show when they are taken out.    *)
(***************************************************************************)
EXTENDS Naturals, Sequences

CONSTANTS
  Buffers,    \* what may be put in the queue: sequences of bytes
  Requests    \* numbers of bytes that may be asked for

VARIABLES
  content,    \* the bytes in the queue
  returned    \* the bytes the last call returned

Init == content = << >> /\ returned = << >>

Available(n) == IF n < Len(content) THEN n ELSE Len(content)

Front(n) == SubSeq(content, 1, Available(n))
Rest(n)  == SubSeq(content, Available(n) + 1, Len(content))

Enqueue(data) == content' = content \o data /\ returned' = << >>

Dequeue(n) == content' = Rest(n) /\ returned' = Front(n)

Peek(n) == content' = content /\ returned' = Front(n)

Drop(n) == content' = Rest(n) /\ returned' = << >>

Next ==
  \/ \E data \in Buffers : Enqueue(data)
  \/ \E n \in Requests : Dequeue(n) \/ Peek(n) \/ Drop(n)

Spec == Init /\ [][Next]_<<content, returned>>
=============================================================================
