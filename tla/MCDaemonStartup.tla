-------------------------- MODULE MCDaemonStartup --------------------------
(***************************************************************************)
(* DaemonStartup with named proxies and daemons for TLC.                   *)
(***************************************************************************)
EXTENDS DaemonStartup, TLC

CONSTANTS p1, p2, d1, d2

\* Proxies are alike, and so are daemons.
Symmetry == Permutations({p1, p2}) \cup Permutations({d1, d2})
=============================================================================
