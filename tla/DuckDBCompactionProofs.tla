----------------------- MODULE DuckDBCompactionProofs -----------------------
(***************************************************************************)
(* No sequence of crashes and failing steps of a compaction loses a write  *)
(* before a restore fails, and the first one that fails leaves a complete  *)
(* copy, for every set of writes and every number of faults and crashes.   *)
(*                                                                         *)
(* The properties are inductive only together with StepInv, which says     *)
(* what each step of the swap leaves in the three files, and with          *)
(* BackupOrNothing: a backup is never older than the writes, because it is *)
(* gone whenever a write can run.                                          *)
(***************************************************************************)
EXTENDS DuckDBCompaction, TLAPS

BackupOrNothing == backup = NoFile \/ Complete(backup)

\* The live file is complete, or it is missing and the backup stands in.
Recoverable ==
  \/ Complete(live)
  \/ LiveMissing /\ (Complete(backup) \/ acked = {})

StepInv ==
  /\ pc # "unconnected"
  /\ pc \in {"open", "closed", "cleared", "swapped", "reopened"} => Complete(live)
  /\ pc \in {"moved", "copying", "copied"} => Complete(backup) /\ LiveMissing
  /\ pc = "copied" => Complete(staged)
  /\ pc = "restore" => Complete(live) \/ Complete(backup)
  /\ pc = "restored" => Complete(live)
  /\ pc \in {"recovered", "restored", "open"} => backup = NoFile /\ staged = NoFile
  /\ pc \in {"swapped", "reopened"} => staged = NoFile

\* What the files are, failed restores included.
KindInv ==
  /\ pc \in {"open", "closed", "cleared", "reopened"} => live.kind \in {"bare", "db"}
  /\ pc = "copied" => staged.kind = "db"

\* Where there is a live file and a backup they are the same database, and a
\* file that is not a database holds nothing: it does not matter which of the
\* two a start would serve.
AgreeInv ==
  /\ live.kind # "db" => live.rows = {}
  /\ ~LiveMissing /\ backup # NoFile => backup = live
  /\ pc = "copied" => staged = backup

Inv ==
  /\ TypeOK
  /\ KindInv
  /\ failedRestores = 0 => BackupOrNothing /\ Recoverable /\ StepInv /\ AgreeInv

-----------------------------------------------------------------------------
\* The invariant holds before the first start.
LEMMA InvInit == Init => Inv
  BY CompactionAssumption
  DEF Init, Inv, TypeOK, KindInv, File, States, BackupOrNothing, Recoverable, StepInv,
      AgreeInv, Complete, LiveMissing, NoFile

\* Every step keeps the invariant.
LEMMA InvStep == Inv /\ [Next]_vars => Inv'
<1> SUFFICES ASSUME Inv, [Next]_vars PROVE Inv'
  OBVIOUS
<1> USE CompactionAssumption
    DEF Inv, TypeOK, KindInv, File, States, CompactionSteps, BackupOrNothing, Recoverable,
        StepInv, AgreeInv, Complete, LiveMissing, NoFile, ZeroFile, BareDb, PartialDb, Db
<1>1. CASE Recover
  BY <1>1 DEF Recover
<1>2. CASE Connect
  BY <1>2 DEF Connect, OpenLive
<1>3. CASE ConnectForOperation
  \* Only a failed restore leaves the executor without a connection.
  BY <1>3 DEF ConnectForOperation
<1>4. ASSUME NEW w \in Writes, Write(w) PROVE Inv'
  BY <1>4 DEF Write
<1>5. CASE Compact
  <2>1. CASE CompactClose
    BY <2>1 DEF CompactClose, files
  <2>2. CASE CompactClear
    BY <2>2 DEF CompactClear
  <2>3. CASE CompactMove
    BY <2>3 DEF CompactMove
  <2>4. CASE CompactCopyBegins
    BY <2>4 DEF CompactCopyBegins
  <2>5. CASE CompactCopyEnds
    BY <2>5 DEF CompactCopyEnds
  <2>6. CASE CompactSwap
    BY <2>6 DEF CompactSwap
  <2>7. CASE CompactReopen
    BY <2>7 DEF CompactReopen, OpenLive
  <2>8. CASE CompactFinish
    BY <2>8 DEF CompactFinish
  <2> QED BY <1>5, <2>1, <2>2, <2>3, <2>4, <2>5, <2>6, <2>7, <2>8 DEF Compact
<1>6. CASE CompactFails
  BY <1>6 DEF CompactFails, files
<1>7. CASE RestoreMove
  BY <1>7 DEF RestoreMove
<1>8. CASE RestoreReopen
  BY <1>8 DEF RestoreReopen, OpenLive
<1>9. CASE RestoreFails
  BY <1>9 DEF RestoreFails, files
<1>10. CASE Crash
  BY <1>10 DEF Crash
<1>11. CASE UNCHANGED vars
  BY <1>11 DEF vars
<1> QED
  BY <1>1, <1>2, <1>3, <1>4, <1>5, <1>6, <1>7, <1>8, <1>9, <1>10, <1>11 DEF Next

\* The invariant holds of every reachable state.
LEMMA InvAlways == Spec => []Inv
<1> QED BY InvInit, InvStep, PTL DEF Spec

-----------------------------------------------------------------------------
\* Whenever the database is open it holds every acknowledged write, however
\* many compactions failed or were cut short by a crash
\* (_executor_compact_database, _recover_interrupted_compaction).
THEOREM WritesAlwaysSurvive == Spec => []WritesSurvive
<1>1. Inv => WritesSurvive
  BY DEF Inv, StepInv, WritesSurvive
<1> QED BY <1>1, InvAlways, PTL

\* At every moment the live file or its backup is complete: no rename or
\* unlink of _compact_prepare, _compact_finalize, _compact_restore or
\* _recover_interrupted_compaction removes the last complete copy.
THEOREM CompleteCopyAlwaysExists == Spec => []CompleteCopyExists
<1>1. Inv => CompleteCopyExists
  BY DEF Inv, Recoverable, CompleteCopyExists
<1> QED BY <1>1, InvAlways, PTL

\* No backup or staged file is left in normal operation, so no later failure
\* restores an outdated one.
THEOREM OpenAlwaysClean == Spec => []OpenIsClean
<1>1. Inv => OpenIsClean
  BY DEF Inv, StepInv, OpenIsClean
<1> QED BY <1>1, InvAlways, PTL

\* A restore that fails for the first time leaves a complete live file or a
\* complete backup to the user (_compact_restore).
THEOREM FirstFailedRestoreLeavesCopy == Spec => FailedRestoreLeavesCopy
<1>1. ASSUME Inv, [Next]_vars
      PROVE  [failedRestores = 0 /\ failedRestores' # 0
                => (Complete(live) \/ Complete(backup))']_vars
  <2> SUFFICES ASSUME failedRestores = 0, failedRestores' # 0
               PROVE  (Complete(live) \/ Complete(backup))'
    OBVIOUS
  <2>1. RestoreFails
    BY <1>1 DEF Next, Recover, Connect, ConnectForOperation, Write, Compact, CompactClose,
                CompactClear, CompactMove, CompactCopyBegins, CompactCopyEnds, CompactSwap,
                CompactReopen, CompactFinish, CompactFails, RestoreMove, RestoreReopen,
                Crash, vars
  <2> QED BY <1>1, <2>1 DEF Inv, StepInv, RestoreFails, Complete, files
<1> QED BY <1>1, InvAlways, PTL DEF Spec, FailedRestoreLeavesCopy

\* The three paths hold what they may hold at every step, failed restores
\* included: no file under construction ever stands under the live name.
THEOREM CompactionTypeCorrect == Spec => []TypeOK
<1>1. Inv => TypeOK
  BY DEF Inv
<1> QED BY <1>1, InvAlways, PTL

-----------------------------------------------------------------------------
(* The refinement of DurableStore.                                         *)

\* Failed restores are counted and never forgotten.
LEMMA FailedRestoresGrow ==
  [Next]_vars => UNCHANGED failedRestores \/ failedRestores' = failedRestores + 1
  BY DEF Next, Recover, Connect, ConnectForOperation, Write, Compact, CompactClose,
         CompactClear, CompactMove, CompactCopyBegins, CompactCopyEnds, CompactSwap,
         CompactReopen, CompactFinish, CompactFails, RestoreMove, RestoreReopen,
         RestoreFails, Crash, vars

\* A step of the compaction or of its recovery changes what a start would
\* serve by an acknowledged write only.
LEMMA StoreStep == Inv /\ [Next]_vars => [Store!Next]_Store!vars
<1> SUFFICES ASSUME Inv, [Next]_vars PROVE [Store!Next]_Store!vars
  OBVIOUS
<1>1. CASE failedRestores' # 0
  <2>1. failedRestores' \in Nat /\ failedRestores' >= failedRestores
    BY FailedRestoresGrow DEF Inv, TypeOK
  <2> QED BY <1>1, <2>1 DEF Store!Next, Store!Damage
<1>2. CASE failedRestores' = 0
  <2>1. failedRestores = 0
    BY <1>2, FailedRestoresGrow DEF Inv, TypeOK
  <2> USE <2>1, <1>2
      DEF Inv, TypeOK, KindInv, File, BackupOrNothing, Recoverable, StepInv, AgreeInv,
          Complete, LiveMissing, NoFile, ZeroFile, BareDb, PartialDb, Db, Served
  <2>2. ASSUME NEW w \in Writes, Write(w) PROVE Store!Put(w)
    BY <2>2 DEF Write, Store!Put
  <2>3. ASSUME \A w \in Writes : ~Write(w) PROVE UNCHANGED <<Served, acked>>
    <3>1. CASE Recover
      BY <3>1 DEF Recover
    <3>2. CASE Connect
      BY <3>2 DEF Connect, OpenLive
    <3>3. CASE ConnectForOperation
      BY <3>3 DEF ConnectForOperation
    <3>4. CASE Compact
      <4>1. CASE CompactClose \/ CompactClear \/ CompactFinish
        BY <4>1 DEF CompactClose, CompactClear, CompactFinish, files
      <4>2. CASE CompactMove
        BY <4>2 DEF CompactMove
      <4>3. CASE CompactCopyBegins \/ CompactCopyEnds
        BY <4>3 DEF CompactCopyBegins, CompactCopyEnds
      <4>4. CASE CompactSwap
        BY <4>4 DEF CompactSwap
      <4>5. CASE CompactReopen
        BY <4>5 DEF CompactReopen, OpenLive
      <4> QED BY <3>4, <4>1, <4>2, <4>3, <4>4, <4>5 DEF Compact
    <3>5. CASE CompactFails
      BY <3>5 DEF CompactFails, files
    <3>6. CASE RestoreMove
      BY <3>6 DEF RestoreMove
    <3>7. CASE RestoreReopen
      BY <3>7 DEF RestoreReopen, OpenLive
    <3>8. CASE RestoreFails
      BY <3>8 DEF RestoreFails
    <3>9. CASE Crash
      BY <3>9 DEF Crash
    <3>10. CASE UNCHANGED vars
      BY <3>10 DEF vars
    <3> QED
      BY <2>3, <3>1, <3>2, <3>3, <3>4, <3>5, <3>6, <3>7, <3>8, <3>9, <3>10 DEF Next
  <2> QED BY <2>2, <2>3 DEF Store!Next, Store!vars
<1> QED BY <1>1, <1>2

\* Compaction, restore, crash and recovery are invisible to the users of the
\* database (_executor_compact_database, _compact_restore and
\* _recover_interrupted_compaction implement DurableStore).
THEOREM CompactionImplementsStore == Spec => ImplementsStore
<1>1. Init => Store!Init
  BY DEF Init, Store!Init, Served, LiveMissing, NoFile
<1> QED BY <1>1, StoreStep, InvAlways, PTL DEF Spec, ImplementsStore, Store!Spec
=============================================================================
