---------------------------- MODULE DurableStore ----------------------------
(***************************************************************************)
(* What the database promises to its users, whatever happens to its files: *)
(* it holds exactly the writes that were acknowledged, and nothing but a   *)
(* write changes what it holds, until damage is reported.                  *)
(***************************************************************************)
EXTENDS Naturals

CONSTANT Writes

VARIABLES
  rows,      \* the writes the store holds
  acked,     \* the writes that returned to their caller
  damage     \* failures that were reported as damage

vars == <<rows, acked, damage>>

Init ==
  /\ rows = {}
  /\ acked = {}
  /\ damage = 0

\* A write takes effect and returns in one step.
Put(w) ==
  /\ damage = 0
  /\ w \notin acked
  /\ rows' = rows \cup {w}
  /\ acked' = acked \cup {w}
  /\ UNCHANGED damage

\* After damage was reported the store promises nothing.
Damage ==
  /\ damage' > 0
  /\ damage' >= damage

Next == (\E w \in Writes : Put(w)) \/ Damage

Spec == Init /\ [][Next]_vars
=============================================================================
