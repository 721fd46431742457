-------------------------- MODULE MCRealtimeResync --------------------------
(* Small instances of RealtimeResync for TLC. *)
EXTENDS RealtimeResync, TLC

CONSTANTS f1, f2

=============================================================================
