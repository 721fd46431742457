--------------------------- MODULE SerialExecutor ---------------------------
(***************************************************************************)
(* The single database thread and the hand-over of the database file to    *)
(* the Rust indexing pipeline (providers/database/serial_executor.py,      *)
(* duckdb_provider.py, services/rust_pipeline_runner.py), with the callers *)
(* that meet there:                                                        *)
(*   - the writer, a task of the event loop that stores one file in a      *)
(*     transaction of several operations, or removes it;                   *)
(*   - the scan, a coroutine of the same event loop that closes both       *)
(*     connections, lets Rust write, and connects again; its waits block   *)
(*     the event loop;                                                     *)
(*   - worker threads that store embeddings, sample a compaction or        *)
(*     connect for a tool, for whom testing the guard and submitting are   *)
(*     two steps.                                                          *)
(* The database holds one file: the version its record describes and the   *)
(* versions its chunks come from.                                          *)
(***************************************************************************)
EXTENDS Naturals, Sequences

CONSTANTS
  Versions,        \* contents of the file
  Threads,         \* worker threads
  MaxUpsets        \* bound: operations that raise, cancellations of the
                   \* writer and synchronous waits that time out

NoVersion == 0

ASSUME ExecutorAssumption ==
  /\ Versions \subseteq Nat /\ NoVersion \notin Versions
  /\ Threads \cap {"writer", "scan", "nobody"} = {}
  /\ MaxUpsets \in Nat

VARIABLES
  queue,           \* the executor's work queue; the head is running
  reply,           \* what each caller has got for its operation
  comp,            \* how far the running compaction is
  compFlag,        \* _compaction_in_progress
  rustFlag,        \* _rust_pipeline_in_progress
  execConn,        \* _executor_local.connection
  cmConn,          \* _connection_manager.connection
  tx,              \* the transaction of the executor's connection
  txFlag,          \* state["transaction_active"]
  disk,            \* what is committed
  work,            \* what the open transaction sees
  wpc,             \* the operation the writer is at
  wver,            \* the version it stores
  wseen,           \* existing_file
  wold,            \* existing_chunks
  scan,            \* where the scan is in the hand-over
  released,        \* outcome of release_for_rust_pipeline
  reconnect,       \* outcome of the scan's last connect()
  tpc,             \* where each worker thread is
  top,             \* its operation
  intruded,        \* a thread submitted during this hand-over (history)
  releaseFailed,   \* some release failed, or Rust was not reached after
                   \* one (history)
  faults, cancels, timeouts

db == <<disk, work, tx, txFlag>>
conns == <<execConn, cmConn>>
flags == <<compFlag, rustFlag>>
writer == <<wpc, wver, wseen, wold>>
scanner == <<scan, released, reconnect>>
workers == <<tpc, top>>
history == <<intruded, releaseFailed>>
bounds == <<faults, cancels, timeouts>>
vars == <<queue, reply, comp, flags, conns, db, writer, scanner, workers, history, bounds>>

Callers == {"writer", "scan"} \cup Threads

StoreOps == {"begin", "lookup", "record", "chunks", "delete", "insert", "commit"}

\* "skip" is a future that was cancelled before it ran.
Ops == StoreOps \cup {"rollback", "remove", "embed", "compact", "connect",
                      "disconnect", "skip"}

Rows == [rec : Versions \cup {NoVersion}, chunks : SUBSET Versions]

NoRows == [rec |-> NoVersion, chunks |-> {}]

Entry == [by : Callers \cup {"nobody"}, op : Ops,
          ver : Versions \cup {NoVersion}, gone : SUBSET Versions]

\* The steps of the scan during which it blocks the event loop.
Blocking == {"publish", "releasing", "close", "connect", "opening", "attach",
             "attaching"}

\* An open transaction is on record and has a connection.
TypeOK ==
  /\ queue \in Seq(Entry)
  /\ reply \in [Callers -> {"none", "wait", "ok", "error"}]
  /\ comp \in {"none", "closed", "reopened"}
  /\ compFlag \in {"clear", "set"} /\ rustFlag \in {"clear", "set"}
  /\ execConn \in {"closed", "open"} /\ cmConn \in {"closed", "open"}
  /\ tx \in {"none", "clean", "dirty"} /\ txFlag \in {"idle", "active"}
  /\ tx # "none" => txFlag = "active" /\ execConn = "open"
  /\ disk \in Rows /\ work \in Rows
  /\ wpc \in StoreOps \cup {"idle", "rollback", "remove", "compact"}
  /\ wver \in Versions \cup {NoVersion} /\ wseen \in {"new", "old"}
  /\ wold \subseteq Versions
  /\ scan \in Blocking \cup {"idle", "running", "finished"}
  /\ released \in {"ok", "failed"} /\ reconnect \in {"ok", "refused"}
  /\ tpc \in [Threads -> {"idle", "ready", "checked", "opening", "waiting"}]
  /\ top \in [Threads -> {"embed", "compact", "connect"}]
  /\ intruded \in {"no", "yes"} /\ releaseFailed \in {"no", "yes"}
  /\ faults \in Nat /\ cancels \in Nat /\ timeouts \in Nat

Init ==
  /\ queue = <<>>
  /\ reply = [c \in Callers |-> "none"]
  /\ comp = "none" /\ compFlag = "clear" /\ rustFlag = "clear"
  /\ execConn = "open" /\ cmConn = "open"
  /\ tx = "none" /\ txFlag = "idle"
  /\ disk = NoRows /\ work = NoRows
  /\ wpc = "idle" /\ wver = NoVersion /\ wseen = "new" /\ wold = {}
  /\ scan = "idle" /\ released = "ok" /\ reconnect = "ok"
  /\ tpc = [t \in Threads |-> "idle"] /\ top = [t \in Threads |-> "embed"]
  /\ intruded = "no" /\ releaseFailed = "no"
  /\ faults = 0 /\ cancels = 0 /\ timeouts = 0

\* Something may still go wrong.
MayUpset == faults + cancels + timeouts < MaxUpsets

-----------------------------------------------------------------------------
(* Submission.                                                             *)

\* _raise_if_db_unavailable_before_submit lets a caller through.
Guard == compFlag = "clear" /\ rustFlag = "clear"

Job(c, op, ver, gone) == [by |-> c, op |-> op, ver |-> ver, gone |-> gone]

Submit(c, op, ver, gone) ==
  /\ queue' = Append(queue, Job(c, op, ver, gone))
  /\ reply' = [reply EXCEPT ![c] = "wait"]

\* The caller stops waiting; the operation stays in the queue.
Abandoned(c) ==
  [i \in DOMAIN queue |->
     IF queue[i].by = c THEN [queue[i] EXCEPT !.by = "nobody"] ELSE queue[i]]

\* Future.cancel: the operation is skipped when its turn comes.
Cancelled(c) ==
  [i \in DOMAIN queue |->
     IF queue[i].by = c THEN Job("nobody", "skip", NoVersion, {}) ELSE queue[i]]

EventLoopFree == scan \notin Blocking

-----------------------------------------------------------------------------
(* The executor thread.                                                    *)

Running == queue[1]

Turn(op) == queue # <<>> /\ comp = "none" /\ Running.op = op

\* The head's future is resolved.
Answer(result) ==
  /\ queue' = Tail(queue)
  /\ reply' = IF Running.by \in Callers THEN [reply EXCEPT ![Running.by] = result] ELSE reply

\* get_thread_local_connection
Attached == execConn' = "open" /\ UNCHANGED cmConn

\* What a statement sees.
Visible == IF tx = "none" THEN disk ELSE work

\* A statement changes the rows, in the open transaction or for good.
Change(rows) ==
  \/ /\ tx = "none"
     /\ disk' = rows
     /\ UNCHANGED <<work, tx>>
  \/ /\ tx # "none"
     /\ work' = rows
     /\ tx' = "dirty"
     /\ UNCHANGED disk

\* The open transaction, if any, is gone.
NoTransaction == tx' = "none" /\ work' = NoRows

ExecSkip ==
  /\ Turn("skip")
  /\ Answer("ok")
  /\ UNCHANGED <<comp, flags, conns, db, writer, scanner, workers, history, bounds>>

ExecBegin ==
  /\ Turn("begin")
  /\ Attached
  /\ \/ /\ tx = "none"
        /\ tx' = "clean" /\ work' = disk /\ txFlag' = "active"
        /\ UNCHANGED disk
        /\ Answer("ok")
     \/ /\ tx # "none"
        /\ UNCHANGED db
        /\ Answer("error")
  /\ UNCHANGED <<comp, flags, writer, scanner, workers, history, bounds>>

\* get_file_by_path_async and get_chunks_by_file_id_async
ExecRead ==
  /\ Attached
  /\ \/ /\ Turn("lookup")
        /\ wseen' = IF Visible.rec # NoVersion /\ Running.by = "writer" THEN "old" ELSE "new"
        /\ UNCHANGED wold
     \/ /\ Turn("chunks")
        /\ wold' = IF Running.by = "writer" THEN Visible.chunks ELSE {}
        /\ UNCHANGED wseen
  /\ Answer("ok")
  /\ UNCHANGED <<wpc, wver, comp, flags, db, scanner, workers, history, bounds>>

ExecRecord ==
  /\ Turn("record")
  /\ Attached
  /\ Change([Visible EXCEPT !.rec = Running.ver])
  /\ Answer("ok")
  /\ UNCHANGED <<comp, flags, txFlag, writer, scanner, workers, history, bounds>>

ExecDelete ==
  /\ Turn("delete")
  /\ Attached
  /\ Change([Visible EXCEPT !.chunks = @ \ Running.gone])
  /\ Answer("ok")
  /\ UNCHANGED <<comp, flags, txFlag, writer, scanner, workers, history, bounds>>

\* A chunk refers to its file's record.
ExecInsert ==
  /\ Turn("insert")
  /\ Attached
  /\ \/ /\ Visible.rec # NoVersion
        /\ Change([Visible EXCEPT !.chunks = @ \cup {Running.ver}])
        /\ Answer("ok")
     \/ /\ Visible.rec = NoVersion
        /\ UNCHANGED <<disk, work, tx>>
        /\ Answer("error")
  /\ UNCHANGED <<comp, flags, txFlag, writer, scanner, workers, history, bounds>>

\* COMMIT raises without a transaction and leaves the flag as it is.
ExecCommit ==
  /\ Turn("commit")
  /\ Attached
  /\ \/ /\ tx # "none"
        /\ disk' = work
        /\ NoTransaction
        /\ txFlag' = "idle"
        /\ Answer("ok")
     \/ /\ tx = "none"
        /\ UNCHANGED db
        /\ Answer("error")
  /\ UNCHANGED <<comp, flags, writer, scanner, workers, history, bounds>>

\* Mutant of ExecRollback: the flag is reset but the transaction stays.
ExecRollbackOnRecord ==
  /\ Turn("rollback")
  /\ Attached
  /\ txFlag' = "idle"
  /\ UNCHANGED <<disk, work, tx>>
  /\ Answer("ok")
  /\ UNCHANGED <<comp, flags, writer, scanner, workers, history, bounds>>

\* ROLLBACK without a transaction is tolerated.
ExecRollback ==
  /\ Turn("rollback")
  /\ Attached
  /\ NoTransaction
  /\ txFlag' = "idle"
  /\ UNCHANGED disk
  /\ Answer("ok")
  /\ UNCHANGED <<comp, flags, writer, scanner, workers, history, bounds>>

\* delete_files_batch refuses to run while the flag is up.
ExecRemove ==
  /\ Turn("remove")
  /\ Attached
  /\ \/ /\ txFlag = "idle"
        /\ Change(NoRows)
        /\ Answer("ok")
     \/ /\ txFlag = "active"
        /\ UNCHANGED <<disk, work, tx>>
        /\ Answer("error")
  /\ UNCHANGED <<comp, flags, txFlag, writer, scanner, workers, history, bounds>>

\* insert_embeddings_batch joins the open transaction.
ExecEmbed ==
  /\ Turn("embed")
  /\ Attached
  /\ tx' = IF tx = "none" THEN "none" ELSE "dirty"
  /\ UNCHANGED <<disk, work, txFlag>>
  /\ Answer("ok")
  /\ UNCHANGED <<comp, flags, writer, scanner, workers, history, bounds>>

ExecConnect ==
  /\ Turn("connect")
  /\ Attached
  /\ Answer("ok")
  /\ UNCHANGED <<comp, flags, db, writer, scanner, workers, history, bounds>>

\* CHECKPOINT raises on local changes; the connection is closed either way
\* and transaction_active keeps its value.
ExecDisconnect ==
  /\ Turn("disconnect")
  /\ execConn' = "closed" /\ UNCHANGED cmConn
  /\ NoTransaction
  /\ UNCHANGED <<disk, txFlag, cancels, timeouts>>
  /\ \/ /\ tx # "dirty"
        /\ Answer("ok")
        /\ UNCHANGED faults
     \/ /\ tx = "dirty"
        /\ Answer("error")
        /\ UNCHANGED faults
     \/ /\ tx # "dirty" /\ MayUpset
        /\ Answer("error")
        /\ faults' = faults + 1
  /\ UNCHANGED <<comp, flags, writer, scanner, workers, history>>

\* Another operation raises and changes nothing.
ExecFails ==
  /\ queue # <<>> /\ comp = "none"
  /\ Running.op \notin {"skip", "compact", "disconnect"}
  /\ MayUpset
  /\ faults' = faults + 1
  /\ Attached
  /\ Answer("error")
  /\ UNCHANGED <<comp, flags, db, writer, scanner, workers, history, cancels, timeouts>>

\* compact_if_needed returns: a transaction is on record, or the file is not
\* fragmented.
CompactSkips ==
  /\ Turn("compact")
  /\ Attached
  /\ Answer("ok")
  /\ UNCHANGED <<comp, flags, db, writer, scanner, workers, history, bounds>>

\* The flag goes up and both connections are closed.
CompactBegins ==
  /\ Turn("compact")
  /\ txFlag = "idle"
  /\ comp' = "closed" /\ compFlag' = "set"
  /\ execConn' = "closed" /\ cmConn' = "closed"
  /\ NoTransaction
  /\ UNCHANGED <<queue, reply, rustFlag, disk, txFlag, writer, scanner, workers, history, bounds>>

\* _compact_finalize or _compact_restore reopens both, unless the restore
\* raises.
CompactReopens ==
  /\ comp = "closed"
  /\ comp' = "reopened"
  /\ \/ /\ execConn' = "open" /\ cmConn' = "open"
        /\ UNCHANGED faults
     \/ /\ MayUpset
        /\ faults' = faults + 1
        /\ UNCHANGED conns
  /\ UNCHANGED <<queue, reply, flags, db, writer, scanner, workers, history, cancels, timeouts>>

CompactEnds ==
  /\ comp = "reopened"
  /\ comp' = "none" /\ compFlag' = "clear"
  /\ Answer("ok")
  /\ UNCHANGED <<rustFlag, conns, db, writer, scanner, workers, history, bounds>>

Executor ==
  \/ ExecSkip \/ ExecBegin \/ ExecRead \/ ExecRecord \/ ExecDelete \/ ExecInsert
  \/ ExecCommit \/ ExecRollback \/ ExecRemove \/ ExecEmbed
  \/ ExecConnect \/ ExecDisconnect \/ ExecFails
  \/ CompactSkips \/ CompactBegins \/ CompactReopens \/ CompactEnds

-----------------------------------------------------------------------------
(* The writer: _store_parsed_results and _store_file_record for one file.  *)

\* Mutant of NextOp: the transaction ends before the chunks are stored.
NextOpCommitsEarly ==
  CASE wpc = "begin" -> "lookup"
    [] wpc = "lookup" -> "record"
    [] OTHER -> "commit"

\* The operation that follows; what has been read is kept while it is needed.
\* The chunks of an existing file are compared
\* with the new ones, and what is gone or changed is deleted before the rest
\* is inserted.
NextOp ==
  CASE wpc = "begin" -> "lookup"
    [] wpc = "lookup" -> "record"
    [] wpc = "record" -> IF wseen = "old" THEN "chunks" ELSE "insert"
    [] wpc = "chunks" /\ wold \ {wver} # {} -> "delete"
    [] wpc = "chunks" /\ wold \ {wver} = {} -> IF wver \in wold THEN "commit" ELSE "insert"
    [] wpc = "delete" -> IF wver \in wold THEN "commit" ELSE "insert"
    [] OTHER -> "commit"

\* process_file reaches the store; a refusal is raised before a transaction
\* exists.
StoreBegins(v) ==
  /\ wpc = "idle" /\ EventLoopFree /\ Guard
  /\ wpc' = "begin" /\ wver' = v
  /\ Submit("writer", "begin", NoVersion, {})
  /\ UNCHANGED <<comp, flags, conns, db, wseen, wold, scanner, workers, history, bounds>>

\* The local variables of the store go out of scope.
Forget == wver' = NoVersion /\ wold' = {} /\ wseen' = "new"

StoreContinues ==
  /\ wpc \in StoreOps \ {"commit"} /\ EventLoopFree /\ Guard
  /\ reply["writer"] = "ok"
  /\ wpc' = NextOp
  /\ Submit("writer", NextOp, IF NextOp \in {"record", "insert"} THEN wver ELSE NoVersion,
            IF NextOp = "delete" THEN wold \ {wver} ELSE {})
  /\ wseen' = IF NextOp = "record" THEN wseen ELSE "new"
  /\ wold' = IF NextOp = "delete" THEN wold ELSE {}
  /\ UNCHANGED <<comp, flags, conns, db, wver, scanner, workers, history, bounds>>

StoreEnds ==
  /\ wpc \in {"commit", "rollback", "compact"} /\ EventLoopFree
  /\ \/ reply["writer"] = "ok"
     \/ wpc # "commit" /\ reply["writer"] = "error"
  /\ wpc' = "idle"
  /\ Forget
  /\ reply' = [reply EXCEPT !["writer"] = "none"]
  /\ UNCHANGED <<queue, comp, flags, conns, db, scanner, workers, history, bounds>>

\* rollback_transaction_async is submitted behind the jobs, or refused like
\* any other operation; a refusal by a compaction may be over by then.
RollBack(jobs) ==
  /\ Forget
  /\ \/ /\ rustFlag = "clear"
        /\ wpc' = "rollback"
        /\ queue' = Append(jobs, Job("writer", "rollback", NoVersion, {}))
        /\ reply' = [reply EXCEPT !["writer"] = "wait"]
     \/ /\ ~ Guard
        /\ wpc' = "idle"
        /\ queue' = jobs
        /\ reply' = [reply EXCEPT !["writer"] = "none"]

\* An operation raised, or the next one is refused.
StoreFails ==
  /\ wpc \in StoreOps /\ EventLoopFree
  /\ \/ reply["writer"] = "error"
     \/ reply["writer"] = "ok" /\ wpc # "commit" /\ ~ Guard
  /\ RollBack(queue)
  /\ UNCHANGED <<comp, flags, conns, db, scanner, workers, history, bounds>>

\* The task is cancelled: an operation that has not started is skipped, one
\* that runs goes on.
StoreIsCancelled ==
  /\ wpc \in StoreOps /\ EventLoopFree
  /\ reply["writer"] \in {"wait", "ok"}
  /\ MayUpset
  /\ cancels' = cancels + 1
  /\ \/ RollBack(Cancelled("writer"))
     \/ /\ queue # <<>> /\ comp = "none" /\ Running.by = "writer"
        /\ RollBack(Abandoned("writer"))
  /\ UNCHANGED <<comp, flags, conns, db, scanner, workers, history, faults, timeouts>>

RemoveBegins ==
  /\ wpc = "idle" /\ EventLoopFree /\ Guard
  /\ wpc' = "remove"
  /\ Submit("writer", "remove", NoVersion, {})
  /\ UNCHANGED <<comp, flags, conns, db, wver, wseen, wold, scanner, workers, history, bounds>>

\* The deletion is over; it may be sampled for a compaction, whose failure is
\* swallowed.
RemoveEnds ==
  /\ wpc = "remove" /\ EventLoopFree
  /\ reply["writer"] \in {"ok", "error"}
  /\ \/ /\ reply["writer"] = "ok" /\ Guard
        /\ wpc' = "compact"
        /\ Submit("writer", "compact", NoVersion, {})
     \/ /\ wpc' = "idle"
        /\ reply' = [reply EXCEPT !["writer"] = "none"]
        /\ UNCHANGED queue
  /\ UNCHANGED <<comp, flags, conns, db, wver, wseen, wold, scanner, workers, history, bounds>>

WriterSteps == StoreContinues \/ StoreEnds \/ StoreFails \/ RemoveEnds

-----------------------------------------------------------------------------
(* The scan: run_rust_indexing_phase.                                      *)

\* run_rust_indexing_phase returns or raises.
ScanEnds(outcome) ==
  /\ scan' = "idle" /\ released' = "ok" /\ intruded' = "no"
  /\ reconnect' = outcome

\* "Rust owns the file" is published before the release starts.
ScanPublishes ==
  /\ scan = "idle"
  /\ scan' = "publish"
  /\ rustFlag' = "set"
  /\ UNCHANGED <<queue, reply, comp, compFlag, conns, db, writer, released, reconnect, workers,
                 history, bounds>>

\* release_for_rust_pipeline: the disconnect passes the Rust guard but not
\* the compaction's.
ScanReleases ==
  /\ scan = "publish"
  /\ \/ /\ compFlag = "clear"
        /\ scan' = "releasing"
        /\ Submit("scan", "disconnect", NoVersion, {})
        /\ UNCHANGED <<released, releaseFailed>>
     \/ /\ compFlag = "set"
        /\ scan' = "close"
        /\ released' = "failed" /\ releaseFailed' = "yes"
        /\ UNCHANGED <<queue, reply>>
  /\ UNCHANGED <<comp, flags, conns, db, writer, reconnect, workers, intruded, bounds>>

ScanReleased ==
  /\ scan = "releasing"
  /\ reply["scan"] \in {"ok", "error"}
  /\ scan' = "close"
  /\ reply' = [reply EXCEPT !["scan"] = "none"]
  /\ released' = IF reply["scan"] = "ok" THEN "ok" ELSE "failed"
  /\ releaseFailed' = IF reply["scan"] = "ok" THEN releaseFailed ELSE "yes"
  /\ UNCHANGED <<queue, comp, flags, conns, db, writer, reconnect, workers, intruded, bounds>>

\* Mutant of ScanCloses: Rust runs whatever became of the release.
ScanClosesAnyway ==
  /\ scan = "close"
  /\ cmConn' = "closed"
  /\ scan' = "running"
  /\ UNCHANGED <<queue, reply, comp, flags, execConn, db, writer, released, reconnect, workers,
                 history, bounds>>

\* Mutant of ScanCloses: a failed release is raised without the reconnect.
ScanClosesForGood ==
  /\ scan = "close"
  /\ cmConn' = "closed"
  /\ \/ /\ released = "ok"
        /\ scan' = "running"
        /\ UNCHANGED <<rustFlag, released, intruded, reconnect>>
     \/ /\ released = "failed"
        /\ ScanEnds("ok")
        /\ rustFlag' = "clear"
  /\ UNCHANGED <<queue, reply, comp, compFlag, execConn, db, writer, workers,
                 releaseFailed, bounds>>

\* The connection manager's connection is closed in any case; Rust runs only
\* after a clean release.
ScanCloses ==
  /\ scan = "close"
  /\ cmConn' = "closed"
  /\ \/ /\ released = "ok"
        /\ scan' = "running"
        /\ UNCHANGED rustFlag
     \/ /\ released = "failed"
        /\ scan' = "connect"
        /\ rustFlag' = "clear"
  /\ UNCHANGED <<queue, reply, comp, compFlag, execConn, db, writer, released, reconnect, workers,
                 history, bounds>>

\* run_rust_pipeline raises while it reads its configuration or resolves the
\* paths, before the try block whose every way out awaits: the release was
\* clean, but the writer has not been resumed and refused when the finally
\* block of the scan clears the flag.  It needs an instance in which something
\* may go wrong, and is not counted.
ScanRaises ==
  /\ scan = "close" /\ released = "ok" /\ MayUpset
  /\ cmConn' = "closed"
  /\ scan' = "connect"
  /\ rustFlag' = "clear"
  /\ releaseFailed' = "yes"
  /\ UNCHANGED <<queue, reply, comp, compFlag, execConn, db, writer, released, reconnect, workers,
                 intruded, bounds>>

\* The native pipeline stores the file, or fails before it.
RustFinishes ==
  /\ scan = "running"
  /\ scan' = "finished"
  /\ disk' \in {disk} \cup {[rec |-> v, chunks |-> {v}] : v \in Versions}
  /\ UNCHANGED <<queue, reply, comp, flags, conns, work, tx, txFlag, writer, released, reconnect,
                 workers, history, bounds>>

\* Mutant of ScanTakesBack: the flag stays up.
ScanKeepsFlag ==
  /\ scan = "finished"
  /\ reply["writer"] \notin {"ok", "error"}
  /\ scan' = "connect"
  /\ UNCHANGED <<queue, reply, comp, flags, conns, db, writer, released, reconnect,
                 workers, history, bounds>>

\* The finally block after Rust was awaited: the writer's operation had
\* completed before Rust started, so the event loop has resumed the writer
\* before the scan.
ScanTakesBack ==
  /\ scan = "finished"
  /\ reply["writer"] \notin {"ok", "error"}
  /\ scan' = "connect"
  /\ rustFlag' = "clear"
  /\ UNCHANGED <<queue, reply, comp, compFlag, conns, db, writer, released, reconnect,
                 workers, history, bounds>>

\* connect() tests the compaction flag ...
ScanConnects ==
  /\ scan = "connect"
  /\ \/ /\ compFlag = "clear"
        /\ scan' = "opening"
        /\ UNCHANGED <<released, reconnect, intruded>>
     \/ /\ compFlag = "set"
        /\ ScanEnds("refused")
  /\ UNCHANGED <<queue, reply, comp, flags, conns, db, writer, workers, releaseFailed, bounds>>

\* ... recovers and opens the connection manager's connection ...
ScanOpens ==
  /\ scan = "opening"
  /\ scan' = "attach"
  /\ cmConn' = "open"
  /\ UNCHANGED <<queue, reply, comp, flags, execConn, db, writer, released, reconnect, workers,
                 history, bounds>>

\* ... and the executor's.
ScanAttaches ==
  /\ scan = "attach"
  /\ \/ /\ Guard
        /\ scan' = "attaching"
        /\ Submit("scan", "connect", NoVersion, {})
        /\ UNCHANGED <<released, reconnect, intruded>>
     \/ /\ ~ Guard
        /\ ScanEnds("refused")
        /\ UNCHANGED <<queue, reply>>
  /\ UNCHANGED <<comp, flags, conns, db, writer, workers, releaseFailed, bounds>>

ScanAttached ==
  /\ scan = "attaching"
  /\ reply["scan"] \in {"ok", "error"}
  /\ ScanEnds("ok")
  /\ reply' = [reply EXCEPT !["scan"] = "none"]
  /\ UNCHANGED <<queue, comp, flags, conns, db, writer, workers, releaseFailed, bounds>>

\* future.result times out; the operation stays queued.
ScanTimesOut ==
  /\ scan \in {"releasing", "attaching"}
  /\ reply["scan"] = "wait"
  /\ MayUpset
  /\ timeouts' = timeouts + 1
  /\ queue' = Abandoned("scan")
  /\ reply' = [reply EXCEPT !["scan"] = "none"]
  /\ \/ /\ scan = "releasing"
        /\ scan' = "close"
        /\ released' = "failed" /\ releaseFailed' = "yes"
        /\ UNCHANGED <<reconnect, intruded>>
     \/ /\ scan = "attaching"
        /\ ScanEnds("ok")
        /\ UNCHANGED releaseFailed
  /\ UNCHANGED <<comp, flags, conns, db, writer, workers, faults, cancels>>

ScanSteps ==
  \/ ScanReleases \/ ScanReleased \/ ScanCloses \/ ScanRaises \/ RustFinishes
  \/ ScanTakesBack \/ ScanConnects \/ ScanOpens \/ ScanAttaches \/ ScanAttached

-----------------------------------------------------------------------------
(* Worker threads.                                                         *)

\* The guard is tested: for embeddings, for the compaction that follows them,
\* or by connect() for a tool that found no connection.
ThreadChecks(t) ==
  /\ Guard
  /\ \/ /\ tpc[t] = "idle"
        /\ \/ /\ top' = [top EXCEPT ![t] = "embed"]
              /\ tpc' = [tpc EXCEPT ![t] = "checked"]
           \/ /\ cmConn = "closed"
              /\ top' = [top EXCEPT ![t] = "connect"]
              /\ tpc' = [tpc EXCEPT ![t] = "opening"]
     \/ /\ tpc[t] = "ready"
        /\ tpc' = [tpc EXCEPT ![t] = "checked"]
        /\ UNCHANGED top
  /\ UNCHANGED <<queue, reply, comp, flags, conns, db, writer, scanner, history, bounds>>

ThreadEnds(t) ==
  /\ tpc' = [tpc EXCEPT ![t] = "idle"]
  /\ top' = [top EXCEPT ![t] = "embed"]

\* The sampled compaction, or the operation of connect(), is refused.
ThreadIsRefused(t) ==
  /\ ~ Guard
  /\ tpc[t] = "ready"
  /\ ThreadEnds(t)
  /\ UNCHANGED <<queue, reply, comp, flags, conns, db, writer, scanner, history, bounds>>

Intrudes == intruded' = IF scan = "idle" THEN intruded ELSE "yes"

\* connect() of a tool opens the connection manager's connection and goes on
\* to the executor's.
ThreadOpens(t) ==
  /\ tpc[t] = "opening"
  /\ cmConn' = "open"
  /\ tpc' = [tpc EXCEPT ![t] = "ready"]
  /\ Intrudes
  /\ UNCHANGED <<queue, reply, comp, flags, execConn, db, writer, scanner, top, releaseFailed,
                 bounds>>

\* Nothing is tested again between the guard and the queue.
ThreadSubmits(t) ==
  /\ tpc[t] = "checked"
  /\ tpc' = [tpc EXCEPT ![t] = "waiting"]
  /\ Submit(t, top[t], NoVersion, {})
  /\ Intrudes
  /\ UNCHANGED <<comp, flags, conns, db, writer, scanner, top, releaseFailed, bounds>>

\* Embeddings that were stored may be sampled for a compaction.
ThreadReturns(t) ==
  /\ tpc[t] = "waiting"
  /\ reply[t] \in {"ok", "error"}
  /\ reply' = [reply EXCEPT ![t] = "none"]
  /\ \/ ThreadEnds(t)
     \/ /\ reply[t] = "ok" /\ top[t] = "embed"
        /\ tpc' = [tpc EXCEPT ![t] = "ready"]
        /\ top' = [top EXCEPT ![t] = "compact"]
  /\ UNCHANGED <<queue, comp, flags, conns, db, writer, scanner, history, bounds>>

ThreadTimesOut(t) ==
  /\ tpc[t] = "waiting"
  /\ reply[t] = "wait"
  /\ MayUpset
  /\ timeouts' = timeouts + 1
  /\ queue' = Abandoned(t)
  /\ reply' = [reply EXCEPT ![t] = "none"]
  /\ ThreadEnds(t)
  /\ UNCHANGED <<comp, flags, conns, db, writer, scanner, history, faults, cancels>>

ThreadSteps(t) ==
  \/ ThreadChecks(t) \/ ThreadIsRefused(t) \/ ThreadOpens(t) \/ ThreadSubmits(t)
  \/ ThreadReturns(t) \/ ThreadTimesOut(t)

-----------------------------------------------------------------------------
Next ==
  \/ Executor
  \/ \E v \in Versions : StoreBegins(v)
  \/ WriterSteps \/ StoreIsCancelled \/ RemoveBegins
  \/ ScanPublishes \/ ScanSteps \/ ScanTimesOut
  \/ \E t \in Threads : ThreadSteps(t)

Spec == Init /\ [][Next]_vars

-----------------------------------------------------------------------------
(* Properties.                                                             *)

\* While Rust owns the file no connection of this process is open and no
\* compaction is moving the file, and connect() recovers an interrupted
\* compaction only where none is running, unless a worker thread acted
\* during the hand-over on a guard it had tested before or between the flag
\* and the reconnect.
RustOwnsFile ==
  intruded = "no" =>
    /\ scan = "running" => execConn = "closed" /\ cmConn = "closed" /\ queue = <<>>
    /\ scan = "opening" /\ released = "ok" => comp = "none" /\ compFlag = "clear"

\* Record and chunks of a file describe the same content.
Consistent(rows) ==
  rows.chunks = IF rows.rec = NoVersion THEN {} ELSE {rows.rec}

\* Whatever operation fails, is cancelled or refused, and wherever the
\* hand-over and a compaction fall between the operations of a store, the
\* database never shows half of it, as long as every hand-over has released the
\* database and awaited Rust.
StoreIsAtomic == releaseFailed = "no" => Consistent(disk)

\* A hand-over leaves the database connected whether or not the release or
\* Rust failed, unless a compaction refuses the reconnect or its own restore
\* fails.
HandoverReconnects ==
  scan = "idle" /\ comp = "none" /\ reconnect = "ok" /\ faults = 0 => cmConn = "open"

\* Callers are refused only while an owner of the database is at work: neither
\* a compaction nor a hand-over ends, in whichever way, with its flag up.
RefusalsHaveOwner ==
  /\ compFlag = "set" => comp # "none"
  /\ rustFlag = "set" => scan \in {"publish", "releasing", "close", "running", "finished"}

\* _store_parsed_results stores each file in a transaction of its own.
StoreIsAlwaysAtomic == Consistent(disk)
=============================================================================
