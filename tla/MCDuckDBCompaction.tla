------------------------- MODULE MCDuckDBCompaction -------------------------
(* Small instances of DuckDBCompaction for TLC. *)
EXTENDS DuckDBCompaction, TLC

CONSTANTS w1, w2, w3

=============================================================================
