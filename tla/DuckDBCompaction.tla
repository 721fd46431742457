-------------------------- MODULE DuckDBCompaction --------------------------
(***************************************************************************)
(* Compaction of the DuckDB database file and the recovery from a crash in *)
(* the middle of it (chunkhound/providers/database/duckdb_provider.py and  *)
(* duckdb/connection_manager.py).                                          *)
(*                                                                         *)
(* Compaction moves the live file aside, rebuilds it into a staged file    *)
(* and swaps that into place; every step can raise, which starts the       *)
(* restore, and the process can die between any two steps.  A database     *)
(* file is the set of committed writes it holds; the live file stands for  *)
(* itself and its WAL, which CHECKPOINT merges before the file is moved.   *)
(* The executor has one thread, so no write runs during a compaction.      *)
(***************************************************************************)
EXTENDS Naturals, FiniteSets

CONSTANTS
  Writes,          \* write operations
  MaxFaults,       \* bound: raising steps
  MaxCrashes       \* bound: crashes of the process

ASSUME CompactionAssumption ==
  /\ MaxFaults \in Nat
  /\ MaxCrashes \in Nat

VARIABLES
  live,      \* db_path
  backup,    \* db_path.compact_backup
  staged,    \* db_path.compact_new
  acked,     \* writes that returned to their caller
  pc,        \* where the process is
  faults,    \* raising steps so far
  crashes,   \* crashes so far
  failedRestores  \* restores that raised so far (history)

files == <<live, backup, staged>>
vars == <<live, backup, staged, acked, pc, faults, crashes, failedRestores>>

\* What a path holds: nothing, a file of size 0 whose creation was
\* interrupted, a database without a schema, one under construction, or a
\* database.
File == [kind : {"none", "zero", "bare", "partial", "db"}, rows : SUBSET Writes]

NoFile == [kind |-> "none", rows |-> {}]

ZeroFile == [kind |-> "zero", rows |-> {}]

BareDb == [kind |-> "bare", rows |-> {}]

PartialDb == [kind |-> "partial", rows |-> {}]

Db(rows) == [kind |-> "db", rows |-> rows]

\* The steps of a compaction, named by what has been done.
CompactionSteps == {"closed", "cleared", "moved", "copying", "copied", "swapped",
                    "reopened"}

States == {"down", "recovered", "open", "restore", "restored", "unconnected"}
            \cup CompactionSteps

\* A file under construction exists under the staged name only, and only a
\* live file can be of size 0.
TypeOK ==
  /\ live \in File /\ live.kind # "partial"
  /\ backup \in File /\ backup.kind \in {"none", "bare", "db"}
  /\ staged \in File /\ staged.kind \in {"none", "partial", "db"}
  /\ acked \subseteq Writes
  /\ pc \in States
  /\ faults \in Nat /\ crashes \in Nat /\ failedRestores \in Nat

Init ==
  /\ live = NoFile /\ backup = NoFile /\ staged = NoFile
  /\ acked = {}
  /\ pc = "down"
  /\ faults = 0 /\ crashes = 0 /\ failedRestores = 0

-----------------------------------------------------------------------------
(* connect.                                                                *)

\* live_missing_or_empty
LiveMissing == live.kind \in {"none", "zero"}

\* Mutant of Recover: the backup is taken for a leftover.
RecoverDropsBackup ==
  /\ pc = "down"
  /\ pc' = "recovered"
  /\ backup' = NoFile
  /\ staged' = NoFile
  /\ UNCHANGED <<live, acked, faults, crashes, failedRestores>>

\* Mutant of Recover: the staged file is left behind.
RecoverKeepsStaged ==
  /\ pc = "down"
  /\ pc' = "recovered"
  /\ live' = IF LiveMissing /\ backup # NoFile THEN backup ELSE live
  /\ backup' = NoFile
  /\ UNCHANGED <<staged, acked, faults, crashes, failedRestores>>

\* _recover_interrupted_compaction of a process that starts: the backup is
\* restored when the live file is missing or empty and dropped otherwise.
Recover ==
  /\ pc = "down"
  /\ pc' = "recovered"
  /\ live' = IF LiveMissing /\ backup # NoFile THEN backup ELSE live
  /\ backup' = NoFile
  /\ staged' = NoFile
  /\ UNCHANGED <<acked, faults, crashes, failedRestores>>

\* duckdb.connect creates a database where there is none, and
\* _executor_create_schema its tables.
OpenLive == live' = IF live.kind = "db" THEN live ELSE Db({})

\* _connect_with_wal_validation and the executor's connection
Connect ==
  /\ pc = "recovered"
  /\ pc' = "open"
  /\ OpenLive
  /\ UNCHANGED <<backup, staged, acked, faults, crashes, failedRestores>>

\* get_thread_local_connection: after a failed restore the next operation
\* connects again, without recovery and without a schema.
ConnectForOperation ==
  /\ pc = "unconnected"
  /\ pc' = "open"
  /\ live' = IF LiveMissing THEN BareDb ELSE live
  /\ UNCHANGED <<backup, staged, acked, faults, crashes, failedRestores>>

\* Mutant of Write: a write that raises leaves its rows.
WriteLeaks(w) ==
  /\ pc = "open"
  /\ live.kind = "db"
  /\ w \notin acked
  /\ live' = Db(live.rows \cup {w})
  /\ acked' \in {acked, acked \cup {w}}
  /\ UNCHANGED <<backup, staged, pc, faults, crashes, failedRestores>>

\* A write commits; it raises where the tables are missing.
Write(w) ==
  /\ pc = "open"
  /\ live.kind = "db"
  /\ w \notin acked
  /\ live' = Db(live.rows \cup {w})
  /\ acked' = acked \cup {w}
  /\ UNCHANGED <<backup, staged, pc, faults, crashes, failedRestores>>

-----------------------------------------------------------------------------
(* _executor_compact_database.                                             *)

\* _compact_prepare: CHECKPOINT, then both connections are closed.
CompactClose ==
  /\ pc = "open"
  /\ pc' = "closed"
  /\ UNCHANGED <<files, acked, faults, crashes, failedRestores>>

CompactClear ==
  /\ pc = "closed"
  /\ pc' = "cleared"
  /\ backup' = NoFile
  /\ staged' = NoFile
  /\ UNCHANGED <<live, acked, faults, crashes, failedRestores>>

CompactMove ==
  /\ pc = "cleared"
  /\ pc' = "moved"
  /\ backup' = live
  /\ live' = NoFile
  /\ UNCHANGED <<staged, acked, faults, crashes, failedRestores>>

\* _compact_copy_data: the staged file is created and filled.
CompactCopyBegins ==
  /\ pc = "moved"
  /\ pc' = "copying"
  /\ staged' = PartialDb
  /\ UNCHANGED <<live, backup, acked, faults, crashes, failedRestores>>

CompactCopyEnds ==
  /\ pc = "copying"
  /\ backup.kind = "db"
  /\ pc' = "copied"
  /\ staged' = backup
  /\ UNCHANGED <<live, backup, acked, faults, crashes, failedRestores>>

\* Mutant of CompactSwap: it does not wait for the copy.
CompactSwapEarly ==
  /\ pc \in {"copying", "copied"}
  /\ pc' = "swapped"
  /\ live' = staged
  /\ staged' = NoFile
  /\ UNCHANGED <<backup, acked, faults, crashes, failedRestores>>

\* _compact_finalize: the complete copy takes the place of the live file.
CompactSwap ==
  /\ pc = "copied"
  /\ pc' = "swapped"
  /\ live' = staged
  /\ staged' = NoFile
  /\ UNCHANGED <<backup, acked, faults, crashes, failedRestores>>

CompactReopen ==
  /\ pc = "swapped"
  /\ pc' = "reopened"
  /\ OpenLive
  /\ UNCHANGED <<backup, staged, acked, faults, crashes, failedRestores>>

CompactFinish ==
  /\ pc = "reopened"
  /\ pc' = "open"
  /\ backup' = NoFile
  /\ UNCHANGED <<live, staged, acked, faults, crashes, failedRestores>>

Compact ==
  \/ CompactClose \/ CompactClear \/ CompactMove
  \/ CompactCopyBegins \/ CompactCopyEnds
  \/ CompactSwap \/ CompactReopen \/ CompactFinish

\* A step raises: CHECKPOINT, a file operation, the copy or the reopening.
CompactFails ==
  /\ pc \in {"open"} \cup CompactionSteps
  /\ faults < MaxFaults
  /\ faults' = faults + 1
  /\ pc' = "restore"
  /\ UNCHANGED <<files, acked, crashes, failedRestores>>

-----------------------------------------------------------------------------
(* _compact_restore.                                                       *)

\* Mutant of RestoreMove: only the staged file is cleaned up.
RestoreUnlinksOnly ==
  /\ pc = "restore"
  /\ pc' = "restored"
  /\ staged' = NoFile
  /\ UNCHANGED <<live, backup, acked, faults, crashes, failedRestores>>

RestoreMove ==
  /\ pc = "restore"
  /\ pc' = "restored"
  /\ live' = IF backup # NoFile THEN backup ELSE live
  /\ backup' = NoFile
  /\ staged' = NoFile
  /\ UNCHANGED <<acked, faults, crashes, failedRestores>>

RestoreReopen ==
  /\ pc = "restored"
  /\ pc' = "open"
  /\ OpenLive
  /\ UNCHANGED <<backup, staged, acked, faults, crashes, failedRestores>>

\* Mutant of RestoreFails: the handler cleans up before it gives up.
RestoreFailsCleaned ==
  /\ pc \in {"restore", "restored"}
  /\ faults < MaxFaults
  /\ faults' = faults + 1
  /\ failedRestores' = failedRestores + 1
  /\ pc' = "unconnected"
  /\ backup' = NoFile
  /\ UNCHANGED <<live, staged, acked, crashes>>

\* The restore raises too: the error names the backup and the executor goes
\* on without a connection.
RestoreFails ==
  /\ pc \in {"restore", "restored"}
  /\ faults < MaxFaults
  /\ faults' = faults + 1
  /\ failedRestores' = failedRestores + 1
  /\ pc' = "unconnected"
  /\ UNCHANGED <<files, acked, crashes>>

-----------------------------------------------------------------------------
\* The process dies; it may be creating the live file.
Crash ==
  /\ pc # "down"
  /\ crashes < MaxCrashes
  /\ crashes' = crashes + 1
  /\ pc' = "down"
  /\ \/ UNCHANGED live
     \/ /\ pc \in {"recovered", "unconnected"}
        /\ live = NoFile
        /\ live' = ZeroFile
  /\ UNCHANGED <<backup, staged, acked, faults, failedRestores>>

Next ==
  \/ Recover \/ Connect \/ ConnectForOperation
  \/ \E w \in Writes : Write(w)
  \/ Compact \/ CompactFails
  \/ RestoreMove \/ RestoreReopen \/ RestoreFails
  \/ Crash

Spec == Init /\ [][Next]_vars

-----------------------------------------------------------------------------
(* Properties.                                                             *)

Complete(file) == file.kind = "db" /\ acked \subseteq file.rows

\* Whenever the database is open for operations it holds every write that
\* was acknowledged: neither a failing step nor a crash in the middle of the
\* swap, nor both in turn, loses one, as long as no restore fails.
WritesSurvive == failedRestores = 0 /\ pc = "open" => Complete(live)

\* Until a restore fails, the live file or the backup holds every
\* acknowledged write at every moment, so recovery and restore have something
\* to work from.
CompleteCopyExists ==
  failedRestores = 0 => acked = {} \/ Complete(live) \/ Complete(backup)

\* No artefact of an interrupted or failed compaction survives into normal
\* operation, where a later failure would restore it over newer writes.
OpenIsClean ==
  failedRestores = 0 /\ pc = "open" => backup = NoFile /\ staged = NoFile

\* When a restore fails for the first time, the live file or the backup that
\* the error message names is complete.
FailedRestoreLeavesCopy ==
  [][failedRestores = 0 /\ failedRestores' # 0 => (Complete(live) \/ Complete(backup))']_vars

\* What a start would serve: the live file, or the backup where recovery puts
\* it back.
Served == IF LiveMissing /\ backup # NoFile THEN backup.rows ELSE live.rows

Store == INSTANCE DurableStore WITH rows <- Served, damage <- failedRestores

\* Compaction, restore, crash and recovery are invisible to the users of the
\* database: what a start would serve changes by acknowledged writes only, at
\* no step of the swap and no crash point, until a restore fails.
ImplementsStore == Store!Spec

\* The backup that _executor_compact_database names after a failed restore is
\* kept while it is the only complete copy.
NamedBackupIsKept == acked = {} \/ Complete(live) \/ Complete(backup)
=============================================================================
