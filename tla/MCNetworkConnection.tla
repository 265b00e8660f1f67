------------------------ MODULE MCNetworkConnection ------------------------
(* Instances of NetworkConnection for TLC.                                  *)
EXTENDS NetworkConnection, TLC

CONSTANTS
  main,       \* the application thread that owns the object
  other       \* an application thread that only sends and closes

(* Calls enough to connect or process, send, close, and meet both another   *)
(* thread's call and one made from a delegate.                              *)
SharedCalls == [t \in Threads |-> IF t = main THEN 3 ELSE 1]

(* Calls enough to process, queue data and close, from the application.     *)
LivenessCalls == [t \in Threads |-> IF t = main THEN 3 ELSE 0]

(* Calls enough to process one connection, connect again and process that.  *)
ReconnectCalls == [t \in Threads |-> IF t = main THEN 4 ELSE 1]
============================================================================
