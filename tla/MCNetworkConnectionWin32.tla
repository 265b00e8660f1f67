----------------------- MODULE MCNetworkConnectionWin32 -----------------------
(* An instance of NetworkConnectionWin32 for TLC.                           *)
EXTENDS NetworkConnectionWin32, TLC

CONSTANT main   \* the application thread

(* Calls enough to process, queue data and close, from the application.     *)
OneUserCalls == (Processor :> 1) @@ (main :> 3)
===============================================================================
