------------------------- MODULE MCDiagnosticsSender -------------------------
(* An instance of DiagnosticsSender for TLC: one sender chained to another. *)
EXTENDS DiagnosticsSender, TLC

CONSTANTS inner, outer

ChainedSenders == (inner :> outer) @@ (outer :> NoSender)

TwoInOne == (inner :> 2) @@ (outer :> 1)

AnyThread == Permutations(Threads)
=============================================================================
