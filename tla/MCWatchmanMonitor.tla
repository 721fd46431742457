------------------------- MODULE MCWatchmanMonitor --------------------------
(* Small instances of WatchmanMonitor for TLC. *)
EXTENDS WatchmanMonitor, TLC

CONSTANTS s1, s2

=============================================================================
