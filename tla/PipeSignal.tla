----------------------------- MODULE PipeSignal -----------------------------
(***************************************************************************)
(* PipeSignal (src/Posix/PipeSignal.cpp): the object with which one thread *)
(* wakes another out of select().  It is a non-blocking pipe: Set writes   *)
(* one token, Clear reads one token, and the signal is set while at least  *)
(* one token is in the pipe.  A signal is therefore a token count, or      *)
(* NoPipe before Initialize has created the pipe.                          *)
(*                                                                         *)
(* Each call is a single system call on the pipe, so every operator below  *)
(* is one atomic change of the count.                                      *)
(***************************************************************************)
EXTENDS Integers

CONSTANT PipeCapacity   \* tokens the pipe can hold (64 KiB on Linux)

ASSUME PipeCapacityAssumption == PipeCapacity \in Nat \ {0}

NoPipe == -1            \* impl_->pipe = {-1, -1}

Signals == {NoPipe} \cup 0 .. PipeCapacity

(* Initialize succeeds at once when the pipe already exists, and leaves the *)
(* tokens in it alone.                                                      *)
Initialize(signal) == IF signal = NoPipe THEN 0 ELSE signal

(* The write of a full pipe fails with EAGAIN and the write of a pipe that  *)
(* does not exist with EBADF; Set ignores both.                             *)
Set(signal) == IF signal \in 0 .. PipeCapacity - 1 THEN signal + 1 ELSE signal

(* The read of an empty pipe fails with EAGAIN, which Clear ignores.        *)
Clear(signal) == IF signal > 0 THEN signal - 1 ELSE signal

(* What select() reports of the read end.                                   *)
IsSet(signal) == signal > 0
=============================================================================
