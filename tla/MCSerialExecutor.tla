-------------------------- MODULE MCSerialExecutor --------------------------
(* Small instances of SerialExecutor for TLC. *)
EXTENDS SerialExecutor, TLC

CONSTANTS t1

=============================================================================
