------------------------ MODULE MCRealtimePipeline ------------------------
(* Small instances of RealtimePipeline for TLC. *)
EXTENDS RealtimePipeline, TLC

CONSTANTS f1, f2, d1

\* One directory that holds f1; f2 lies outside it.
OneDir == (d1 :> {f1})

NoDirs == [d \in {} |-> {}]

=============================================================================
