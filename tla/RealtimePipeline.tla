-------------------------- MODULE RealtimePipeline --------------------------
(***************************************************************************)
(* The realtime indexing pipeline of chunkhound/services/realtime: a       *)
(* filesystem watcher thread hands events to the asyncio loop; the loop    *)
(* bounds, numbers (source generations) and deduplicates them; changes are *)
(* debounced, deletes jump the queue, and one processing task applies the  *)
(* mutations to the database, retrying when the database is busy or a      *)
(* transaction conflicts.                                                  *)
(*                                                                         *)
(* One action is one run of a task between two suspension points: asyncio  *)
(* interleaves tasks only there.  disk and wire are the environment; time  *)
(* passes by the expiry of dedup entries and of the tasks' sleeps, each    *)
(* possible at any moment.                                                 *)
(***************************************************************************)
EXTENDS RealtimeMutations

CONSTANTS
  EventQueueMaxsize,  \* _EVENT_QUEUE_MAXSIZE
  MaxEdits,           \* bound: edits of the file tree and accesses to its files
  MaxFaults,          \* bound: failing database calls
  FaultKinds,         \* which of AllFaultKinds may occur
  SpacedEdits,        \* TRUE: same-kind edits of a path are a dedup window apart
  AccessKinds         \* of which files the backend reports accesses

\* "accessed" stands for the types no branch of the consumer is for: watchdog's
\* opened, closed and closed_no_write.
FileEventTypes == {"created", "modified", "deleted", "accessed"}

DirEventTypes == {"dir_created", "dir_deleted"}

EventTypes == FileEventTypes \cup DirEventTypes

\* The database is busy for a change or an embed pass, or for deletes; a
\* transaction of deletes conflicts; a call raises anything else; the store of
\* a file is rolled back.
AllFaultKinds == {"busy_change", "busy_delete", "conflict", "error", "rejected"}

\* A file that exists, or one that was unlinked and that somebody still holds
\* open: inotify goes on reporting it under its name.
AllAccessKinds == {"existing", "unlinked"}

ASSUME EnvironmentAssumption ==
  /\ EventQueueMaxsize \in Nat \ {0}
  /\ MaxEdits \in Nat
  /\ MaxFaults \in Nat
  /\ FaultKinds \subseteq AllFaultKinds
  /\ SpacedEdits \in BOOLEAN
  /\ AccessKinds \subseteq AllAccessKinds

VARIABLES
  disk,          \* [Paths -> Nat]: content version on disk, 0 when absent
  edits,         \* edits and accesses so far; no content version is newer
  faults,        \* failing database calls so far
  wire,          \* call_soon_threadsafe callbacks not yet run by the loop
  eventQueue,    \* event_queue
  dropped,       \* paths whose event met a full event_queue
  nextGen,       \* _next_source_generation
  latestGen,     \* _latest_source_generation_by_path
  recent,        \* _recent_file_events, entries younger than the dedup window
  nextId,        \* _next_mutation_id, per key
  pending,       \* _pending_mutations
  debounce,      \* keys of _pending_debounce
  debounceTasks, \* sleeping _debounced_add_file tasks, by their mutation
  retryTasks,    \* sleeping _retry_mutation_after_delay tasks
  fileQueue,     \* file_queue: one FIFO per priority
  active,        \* keys of _active_change_generations
  reserved,      \* _reserved_follow_up_change_generations
  pc,            \* where _process_loop is suspended
  cur,           \* its mutation
  buffered,      \* its buffered_mutation
  content,       \* content version process_file read
  batch,         \* executable deletes in flight
  single,        \* the delete batch was collected with one element
  listed,        \* supported_files of _index_directory
  db,            \* [Files -> Nat]: content version indexed, 0 when absent
  dbGen,         \* auxiliary: generation of the change that indexed db[f]
  embedded,      \* files whose indexed content has its embeddings
  indexedFiles,  \* _indexed_files
  removedFiles,  \* _removed_files
  failedFiles,   \* failed_files
  errorCount     \* _processing_error_count

envVars == <<disk, edits, wire>>
intakeVars == <<eventQueue, dropped, nextGen, latestGen>>
workVars == <<debounce, debounceTasks, retryTasks>>
loopVars == <<pc, cur, buffered, content, batch, single, listed>>
dbVars == <<db, dbGen, embedded>>
reportVars == <<indexedFiles, removedFiles, failedFiles, errorCount>>

vars == <<disk, edits, faults, wire, eventQueue, dropped, nextGen, latestGen,
          recent, nextId, pending, debounce, debounceTasks, retryTasks,
          fileQueue, active, reserved, pc, cur, buffered, content, batch,
          single, listed, db, dbGen, embedded, indexedFiles, removedFiles,
          failedFiles, errorCount>>

-----------------------------------------------------------------------------
NoEvent == "none"

Event == [type : FileEventTypes, path : Files] \cup [type : DirEventTypes, path : Dirs]

ProcessStates == {"idle", "read", "store", "embed", "delete", "dir_delete",
                  "dir_index", "dir_queue"}

EnvironmentType ==
  /\ disk \in [Paths -> Nat]
  /\ edits \in Nat /\ faults \in Nat
  /\ wire \in Seq(Event)

IntakeType ==
  /\ eventQueue \in Seq(Event)
  /\ dropped \subseteq Paths
  /\ nextGen \in Nat
  /\ latestGen \in [Paths -> Nat]
  /\ recent \in [Paths -> EventTypes \cup {NoEvent}]

WorkType ==
  /\ nextId \in [Keys -> Nat]
  /\ pending \in Table
  /\ debounce \subseteq Files
  /\ debounceTasks \subseteq Mutation /\ retryTasks \subseteq Mutation
  /\ fileQueue \in [Priorities -> Seq(Mutation)]
  /\ active \subseteq Files
  /\ reserved \in [Files -> Nat]

LoopType ==
  /\ pc \in ProcessStates
  /\ cur \in Mutation \cup {NoMutation}
  /\ buffered \in Mutation \cup {NoMutation}
  /\ content \in Nat
  /\ batch \subseteq Mutation
  /\ single \in BOOLEAN
  /\ listed \subseteq Files
  /\ pc \in {"read", "store"} => cur \in Mutation /\ cur.op = "change"
  /\ pc \in {"embed", "dir_delete", "dir_index"} => cur \in Mutation /\ cur.op = pc
  /\ \A m \in batch : m.op = "delete"

IndexType ==
  /\ db \in [Files -> Nat] /\ dbGen \in [Files -> Nat]
  /\ embedded \subseteq Files
  /\ indexedFiles \subseteq Files /\ removedFiles \subseteq Files
  /\ failedFiles \subseteq Paths
  /\ errorCount \in Nat

\* The fields of the service have their types, an entry of the ownership table
\* belongs to its key, and the processing task's mutation fits where it is.
TypeOK == EnvironmentType /\ IntakeType /\ WorkType /\ LoopType /\ IndexType

\* The service as __init__ leaves it, with an index in step with the disk:
\* every file is absent from both or present in both.
Init ==
  /\ disk \in [Paths -> {0, 1}]
  /\ \A d \in Dirs : disk[d] = 1
  /\ edits = 1 /\ faults = 0
  /\ wire = <<>> /\ eventQueue = <<>> /\ dropped = {}
  /\ nextGen = 0
  /\ latestGen = [p \in Paths |-> NoGeneration]
  /\ recent = [p \in Paths |-> NoEvent]
  /\ nextId = [k \in Keys |-> 0]
  /\ pending = EmptyTable
  /\ debounce = {} /\ debounceTasks = {} /\ retryTasks = {}
  /\ fileQueue = [pr \in Priorities |-> <<>>]
  /\ active = {}
  /\ reserved = [f \in Files |-> NoGeneration]
  /\ pc = "idle" /\ cur = NoMutation /\ buffered = NoMutation
  /\ content = 0 /\ batch = {} /\ single = FALSE /\ listed = {}
  /\ db = [f \in Files |-> disk[f]]
  /\ dbGen = [f \in Files |-> NoGeneration]
  /\ embedded = {f \in Files : disk[f] # 0}
  /\ indexedFiles = {} /\ removedFiles = {} /\ failedFiles = {}
  /\ errorCount = 0

-----------------------------------------------------------------------------
(* Environment: edits of the tree and the watcher thread that reports them *)
(* (SimpleEventHandler.on_any_event, _queue_event).                        *)

InFlight(e) ==
  \/ \E i \in DOMAIN wire : wire[i] = e
  \/ \E i \in DOMAIN eventQueue : eventQueue[i] = e

\* Under SpacedEdits an edit (but not an access) waits until the dedup window
\* of an edit of the same kind is over, a deletion until an earlier one is
\* consumed, and that of a directory until the cleanup of an earlier one was
\* taken.
Spaced(e) ==
  /\ recent[e.path] # e.type
  /\ e.type \in {"deleted", "dir_deleted"} => ~InFlight(e)
  /\ e.type = "dir_deleted" => pending[<<"dir_delete", e.path>>] = NoMutation

\* The watcher thread hands the event to the loop.
ReportEvent(type, path) ==
  LET e == [type |-> type, path |-> path] IN
  /\ SpacedEdits => Spaced(e)
  /\ wire' = Append(wire, e)

DirsExist(f) == \A d \in Dirs : f \in FilesUnder[d] => disk[d] # 0

EnvUnchanged ==
  UNCHANGED <<faults, intakeVars, recent, nextId, pending, workVars, fileQueue,
              active, reserved, loopVars, dbVars, reportVars>>

WriteFile(f) ==
  /\ edits < MaxEdits
  /\ DirsExist(f)
  /\ edits' = edits + 1
  /\ disk' = [disk EXCEPT ![f] = edits + 1]
  /\ ReportEvent(IF disk[f] = 0 THEN "created" ELSE "modified", f)
  /\ EnvUnchanged

DeleteFile(f) ==
  /\ edits < MaxEdits
  /\ disk[f] # 0
  /\ edits' = edits + 1
  /\ disk' = [disk EXCEPT ![f] = 0]
  /\ ReportEvent("deleted", f)
  /\ EnvUnchanged

\* A directory is moved into the tree with its files: the watcher reports
\* the directory only.
MoveDirIn(d) ==
  /\ edits < MaxEdits
  /\ disk[d] = 0
  /\ edits' = edits + 1
  /\ disk' = [p \in Paths |-> IF p = d \/ p \in FilesUnder[d] THEN edits + 1 ELSE disk[p]]
  /\ ReportEvent("dir_created", d)
  /\ EnvUnchanged

\* A directory is moved out of the tree with everything under it.
MoveDirOut(d) ==
  /\ edits < MaxEdits
  /\ disk[d] # 0
  /\ edits' = edits + 1
  /\ disk' = [p \in Paths |-> IF p = d \/ p \in FilesUnder[d] THEN 0 ELSE disk[p]]
  /\ ReportEvent("dir_deleted", d)
  /\ EnvUnchanged

\* Events that tell of no new content, at any pace: somebody, the indexer
\* included, opens or closes the file, or its metadata changes.
AccessFile(f) ==
  /\ edits < MaxEdits
  /\ (IF disk[f] = 0 THEN "unlinked" ELSE "existing") \in AccessKinds
  /\ edits' = edits + 1
  /\ \E type \in {"accessed", "modified"} :
       wire' = Append(wire, [type |-> type, path |-> f])
  /\ UNCHANGED disk
  /\ EnvUnchanged

\* _EVENT_DEDUP_WINDOW_SECONDS pass for a path.
DedupExpires(p) ==
  /\ recent[p] # NoEvent
  /\ recent' = [recent EXCEPT ![p] = NoEvent]
  /\ UNCHANGED <<envVars, faults, intakeVars, nextId, pending, workVars, fileQueue,
                 active, reserved, loopVars, dbVars, reportVars>>

Edit ==
  \/ \E f \in Files : WriteFile(f) \/ DeleteFile(f) \/ AccessFile(f)
  \/ \E d \in Dirs : MoveDirIn(d) \/ MoveDirOut(d)

-----------------------------------------------------------------------------
(* Intake: _enqueue_realtime_event and _handle_queue_result on the loop.   *)

\* put_nowait succeeds; _record_accepted_event numbers the event and lets a
\* pending change stand for the new generation.
AcceptEvent ==
  /\ wire # <<>>
  /\ Len(eventQueue) < EventQueueMaxsize
  /\ LET e == Head(wire) IN
       /\ eventQueue' = Append(eventQueue, e)
       /\ nextGen' = nextGen + 1
       /\ latestGen' = [latestGen EXCEPT ![e.path] = nextGen + 1]
       /\ pending' = RefreshGeneration(pending, e.path, nextGen + 1)
  /\ wire' = Tail(wire)
  /\ UNCHANGED <<disk, edits, faults, dropped, recent, nextId, workVars, fileQueue,
                 active, reserved, loopVars, dbVars, reportVars>>

\* QueueFull: the event is gone; the overflow resync is modelled elsewhere.
DropEvent ==
  /\ wire # <<>>
  /\ Len(eventQueue) >= EventQueueMaxsize
  /\ dropped' = dropped \cup {Head(wire).path}
  /\ wire' = Tail(wire)
  /\ UNCHANGED <<disk, edits, faults, eventQueue, nextGen, latestGen, recent, nextId,
                 pending, workVars, fileQueue, active, reserved, loopVars, dbVars,
                 reportVars>>

-----------------------------------------------------------------------------
(* Building, registering and queueing mutations.                           *)

\* _build_mutation for each of the given keys.
BuildIds(keys) == [k \in Keys |-> IF k \in keys THEN nextId[k] + 1 ELSE nextId[k]]

Enqueue(queue, m) ==
  [queue EXCEPT ![MutationPriority(m.op)] = Append(@, m)]

\* The orders in which the files of S may be visited one by one.
Orderings(S) ==
  {s \in [1..Cardinality(S) -> S] : \A f \in S : \E i \in DOMAIN s : s[i] = f}

NewChange(f) == FreshMutation(nextId[<<"change", f>>] + 1, "change", f, latestGen[f])

\* add_file(f, "change") for each f of S: a follow-up is reserved while f is
\* being processed, a pending change absorbs the new one, and otherwise a
\* debounce task starts.
AddChanges(S) ==
  LET unowned == {f \in S : pending[<<"change", f>>] = NoMutation}
      follow == unowned \cap active
      new == unowned \ (active \cup debounce)
  IN
  /\ nextId' = BuildIds({"change"} \X S)
  /\ reserved' = [f \in Files |->
                    IF f \in follow /\ latestGen[f] > reserved[f]
                    THEN latestGen[f] ELSE reserved[f]]
  /\ pending' = [k \in Keys |->
                   IF k[1] # "change" \/ k[2] \notin S THEN pending[k]
                   ELSE IF k[2] \in new THEN NewChange(k[2])
                   ELSE RefreshGeneration(pending, k[2], latestGen[k[2]])[k]]
  /\ debounce' = debounce \cup new
  /\ debounceTasks' = debounceTasks \cup {NewChange(f) : f \in new}

\* _enqueue_mutation(register=True) of a newly built mutation.
EnqueueNew(m) ==
  /\ nextId' = BuildIds({Key(m)})
  /\ pending' = Register(pending, m)
  /\ fileQueue' = IF CanRegister(pending, m) THEN Enqueue(fileQueue, m) ELSE fileQueue

-----------------------------------------------------------------------------
(* _consume_events.                                                        *)

TakeEvent(e) ==
  /\ eventQueue # <<>>
  /\ e = Head(eventQueue)
  /\ eventQueue' = Tail(eventQueue)

\* Mutant of IsDuplicate: the kind of the event is not compared.
IsRecentPath(e) == recent[e.path] # NoEvent

\* An event of the kind last seen for the path within the dedup window.
IsDuplicate(e) == recent[e.path] = e.type

SuppressDuplicate ==
  /\ eventQueue # <<>>
  /\ TakeEvent(Head(eventQueue))
  /\ IsDuplicate(Head(eventQueue))
  /\ UNCHANGED <<envVars, faults, dropped, nextGen, latestGen, recent, nextId,
                 pending, workVars, fileQueue, active, reserved, loopVars, dbVars,
                 reportVars>>

ConsumeChange(e) ==
  /\ TakeEvent(e)
  /\ e.type \in {"created", "modified"}
  /\ ~IsDuplicate(e)
  /\ recent' = [recent EXCEPT ![e.path] = e.type]
  /\ AddChanges({e.path})
  /\ UNCHANGED <<envVars, faults, dropped, nextGen, latestGen, retryTasks, fileQueue,
                 active, loopVars, dbVars, reportVars>>

\* deleted, dir_created and dir_deleted are queued without a debounce; the
\* two deletions carry the newest generation of their path.
ConsumeImmediate(e) ==
  LET op == CASE e.type = "deleted" -> "delete"
              [] e.type = "dir_deleted" -> "dir_delete"
              [] OTHER -> "dir_index"
      gen == IF op = "dir_index" THEN NoGeneration ELSE latestGen[e.path]
      m == FreshMutation(nextId[<<op, e.path>>] + 1, op, e.path, gen)
  IN
  /\ TakeEvent(e)
  /\ e.type \in {"deleted", "dir_created", "dir_deleted"}
  /\ ~IsDuplicate(e)
  /\ recent' = [recent EXCEPT ![e.path] = e.type]
  /\ EnqueueNew(m)
  /\ UNCHANGED <<envVars, faults, dropped, nextGen, latestGen, workVars, active,
                 reserved, loopVars, dbVars, reportVars>>

\* No branch is for the event: it only becomes the last one seen.
ConsumeAccess(e) ==
  /\ TakeEvent(e)
  /\ e.type = "accessed"
  /\ ~IsDuplicate(e)
  /\ recent' = [recent EXCEPT ![e.path] = e.type]
  /\ UNCHANGED <<envVars, faults, dropped, nextGen, latestGen, nextId, pending,
                 workVars, fileQueue, active, reserved, loopVars, dbVars, reportVars>>

Consume ==
  \/ SuppressDuplicate
  \/ /\ eventQueue # <<>>
     /\ \/ ConsumeChange(Head(eventQueue))
        \/ ConsumeImmediate(Head(eventQueue))
        \/ ConsumeAccess(Head(eventQueue))

-----------------------------------------------------------------------------
(* Sleeping tasks.                                                         *)

\* _debounced_add_file after its quiet window.
DebounceElapses(t) ==
  LET current == IF pending[Key(t)] = NoMutation THEN t ELSE pending[Key(t)] IN
  /\ t \in debounceTasks
  /\ debounceTasks' = debounceTasks \ {t}
  /\ debounce' = debounce \ {t.path}
  /\ IF t.path \in debounce /\ Owns(pending, current)
     THEN fileQueue' = Enqueue(fileQueue, current) /\ UNCHANGED pending
     ELSE pending' = Release(pending, t) /\ UNCHANGED fileQueue
  /\ UNCHANGED <<envVars, faults, intakeVars, recent, nextId, retryTasks, active,
                 reserved, loopVars, dbVars, reportVars>>

\* Mutant of RetryElapses: a superseded retry goes back to sleep.
RetrySleepsOn(t) ==
  /\ t \in retryTasks
  /\ Owns(pending, t)
  /\ retryTasks' = retryTasks \ {t}
  /\ fileQueue' = Enqueue(fileQueue, t)
  /\ UNCHANGED <<envVars, faults, intakeVars, recent, nextId, pending, debounce,
                 debounceTasks, active, reserved, loopVars, dbVars, reportVars>>

\* _retry_mutation_after_delay after its backoff.
RetryElapses(t) ==
  /\ t \in retryTasks
  /\ retryTasks' = retryTasks \ {t}
  /\ IF ~Owns(pending, t)
     THEN UNCHANGED <<pending, fileQueue>>
     ELSE IF t.op = "delete" /\ IsStale(latestGen, t)
     THEN pending' = Release(pending, t) /\ UNCHANGED fileQueue
     ELSE fileQueue' = Enqueue(fileQueue, t) /\ UNCHANGED pending
  /\ UNCHANGED <<envVars, faults, intakeVars, recent, nextId, debounce, debounceTasks,
                 active, reserved, loopVars, dbVars, reportVars>>

-----------------------------------------------------------------------------
(* _process_loop: taking the next mutation.                                *)

IsHead(queue, pr) ==
  /\ queue[pr] # <<>>
  /\ \A higher \in 0..(pr - 1) : queue[higher] = <<>>

\* Mutant of Begin: the loop's local mutation is not set.
BeginWithoutMutation(state, m) ==
  /\ pc' = state
  /\ cur' = NoMutation
  /\ content' = 0 /\ batch' = {} /\ single' = FALSE /\ listed' = {}

Begin(state, m) ==
  /\ pc' = state
  /\ cur' = m
  /\ content' = 0 /\ batch' = {} /\ single' = FALSE /\ listed' = {}

\* The loop's dispatch on a mutation that is not a delete.  A change whose
\* file is gone is skipped; otherwise it is marked active before the first
\* suspension.
StartMutation(m) ==
  \/ /\ m.op = "change" /\ disk[m.path] # 0
     /\ active' = active \cup {m.path}
     /\ Begin("read", m)
     /\ UNCHANGED failedFiles
  \/ /\ m.op = "change" /\ disk[m.path] = 0
     /\ failedFiles' = failedFiles \cup {m.path}
     /\ Begin("idle", NoMutation)
     /\ UNCHANGED active
  \/ /\ m.op \in {"embed", "dir_delete", "dir_index"}
     /\ Begin(m.op, m)
     /\ UNCHANGED <<active, failedFiles>>

StartBuffered ==
  /\ pc = "idle"
  /\ buffered # NoMutation
  /\ buffered' = NoMutation
  /\ StartMutation(buffered)
  /\ UNCHANGED <<envVars, faults, intakeVars, recent, nextId, pending, workVars,
                 fileQueue, reserved, dbVars, indexedFiles, removedFiles, errorCount>>

StartQueued ==
  /\ pc = "idle"
  /\ buffered = NoMutation
  /\ \E pr \in Priorities :
       LET m == Head(fileQueue[pr]) IN
       /\ IsHead(fileQueue, pr)
       /\ m.op # "delete"
       /\ fileQueue' = [fileQueue EXCEPT ![pr] = Tail(@)]
       /\ pending' = Release(pending, m)
       /\ StartMutation(ForProcessing(latestGen, m))
  /\ UNCHANGED <<envVars, faults, intakeVars, recent, nextId, workVars, buffered,
                 reserved, dbVars, indexedFiles, removedFiles, errorCount>>

\* _collect_delete_batch takes the n deletes at the head of the queue.
IsDeleteRun(n) ==
  /\ n <= Len(fileQueue[0])
  /\ \A i \in 1..n : fileQueue[0][i].op = "delete"
  /\ n < DeleteBatchSize /\ n < Len(fileQueue[0]) => fileQueue[0][n + 1].op # "delete"

\* A delete heads the queue.  The run of deletes is dequeued, and unless the
\* batch is full the mutation after it is dequeued too and buffered; the
\* deletes that still own their key and are not stale go to the database.
StartDeletes ==
  /\ pc = "idle"
  /\ buffered = NoMutation
  /\ \E n \in 1..DeleteBatchSize :
       LET run == {fileQueue[0][i] : i \in 1..n}
           rest == [fileQueue EXCEPT ![0] = SubSeq(@, n + 1, Len(@))]
           executable == {m \in run : Owns(pending, m) /\ ~IsStale(latestGen, m)}
       IN
       /\ IsDeleteRun(n)
       /\ \/ /\ n = DeleteBatchSize \/ \A pr \in Priorities : rest[pr] = <<>>
             /\ buffered' = NoMutation
             /\ fileQueue' = rest
             /\ pending' = ReleaseAll(pending, run)
          \/ /\ n < DeleteBatchSize
             /\ \E pr \in Priorities :
                  /\ IsHead(rest, pr)
                  /\ buffered' = ForProcessing(latestGen, Head(rest[pr]))
                  /\ fileQueue' = [rest EXCEPT ![pr] = Tail(@)]
                  /\ pending' = ReleaseAll(pending, run \cup {Head(rest[pr])})
       /\ pc' = IF executable = {} THEN "idle" ELSE "delete"
       /\ batch' = executable
       /\ single' = (n = 1)
  /\ cur' = NoMutation /\ content' = 0 /\ listed' = {}
  /\ UNCHANGED <<envVars, faults, intakeVars, recent, nextId, workVars, active, reserved,
                 dbVars, reportVars>>

-----------------------------------------------------------------------------
(* _process_loop: change mutations.                                        *)

Fault(kind) ==
  /\ kind \in FaultKinds
  /\ faults < MaxFaults
  /\ faults' = faults + 1

GoIdle ==
  /\ pc' = "idle"
  /\ cur' = NoMutation
  /\ content' = 0 /\ batch' = {} /\ single' = FALSE /\ listed' = {}
  /\ UNCHANGED buffered

\* A parser worker reads the file.
ReadFile ==
  /\ pc = "read"
  /\ pc' = "store"
  /\ content' = disk[cur.path]
  /\ UNCHANGED <<envVars, faults, intakeVars, recent, nextId, pending, workVars, fileQueue,
                 active, reserved, cur, buffered, batch, single, listed, dbVars,
                 reportVars>>

\* The database after process_file(cur.path), whose transaction commits
\* unless it is rolled back or the file was gone when it was read.
StoreContent(committed) ==
  LET f == cur.path IN
  IF committed /\ content # 0
  THEN /\ db' = [db EXCEPT ![f] = content]
       /\ dbGen' = [dbGen EXCEPT ![f] = cur.gen]
       /\ embedded' = IF db[f] = content THEN embedded ELSE embedded \ {f}
  ELSE UNCHANGED dbVars

FollowUp(f) == FreshMutation(nextId[<<"change", f>>] + 1, "change", f, reserved[f])

\* _drain_reserved_follow_up_change, applied to a table and to a queue.
DrainedTable(table, f) ==
  IF reserved[f] = NoGeneration THEN table
  ELSE IF CanRegister(table, FollowUp(f)) THEN Register(table, FollowUp(f))
  ELSE RefreshGeneration(table, f, reserved[f])

DrainedQueue(table, queue, f) ==
  IF reserved[f] # NoGeneration /\ CanRegister(table, FollowUp(f))
  THEN Enqueue(queue, FollowUp(f)) ELSE queue

DrainedKeys(f) == IF reserved[f] = NoGeneration THEN {} ELSE {<<"change", f>>}

\* The change id counter of f once a reserved follow-up is built.
DrainedId(f) ==
  IF reserved[f] = NoGeneration THEN nextId[<<"change", f>>]
  ELSE nextId[<<"change", f>>] + 1

\* Mutant of EndChange: the reservation survives its draining.
EndChangeKeepsReservation(f) ==
  /\ active' = active \ {f}
  /\ UNCHANGED reserved
  /\ GoIdle

EndChange(f) ==
  /\ active' = active \ {f}
  /\ reserved' = [reserved EXCEPT ![f] = NoGeneration]
  /\ GoIdle

\* process_file returned: the file is announced as indexed, its dedup entry
\* is cleared, an embed mutation is queued, and a reserved follow-up runs.
\* process_file also returns normally when its store was rolled back.
FinishChange(committed) ==
  LET f == cur.path
      embed == FreshMutation(nextId[<<"embed", f>>] + 1, "embed", f, NoGeneration)
      table == Register(pending, embed)
      queue == IF CanRegister(pending, embed) THEN Enqueue(fileQueue, embed) ELSE fileQueue
  IN
  /\ pc = "store"
  /\ IF committed THEN UNCHANGED faults ELSE Fault("rejected")
  /\ StoreContent(committed)
  /\ indexedFiles' = indexedFiles \cup {f}
  /\ recent' = [recent EXCEPT ![f] = NoEvent]
  /\ nextId' = BuildIds({<<"embed", f>>} \cup DrainedKeys(f))
  /\ pending' = DrainedTable(table, f)
  /\ fileQueue' = DrainedQueue(table, queue, f)
  /\ EndChange(f)
  /\ UNCHANGED <<envVars, intakeVars, workVars, removedFiles, failedFiles, errorCount>>

\* DatabaseTemporarilyUnavailableError out of process_file or flush: the
\* reserved follow-up is queued first, then the change is retried unless the
\* follow-up already owns the key or the budget is spent.
ChangeBusy(committed) ==
  LET f == cur.path
      table == DrainedTable(pending, f)
      retry == RetryOf(cur, DrainedId(f) + 1)
      exhausted == cur.retry >= MaxRetryBudget
      retried == ~exhausted /\ CanRegister(table, retry)
  IN
  /\ pc \in {"read", "store"}
  /\ committed => pc = "store"
  /\ Fault("busy_change")
  /\ StoreContent(committed)
  /\ nextId' = [nextId EXCEPT ![<<"change", f>>] =
                  IF exhausted THEN DrainedId(f) ELSE DrainedId(f) + 1]
  /\ pending' = IF retried THEN Register(table, retry) ELSE table
  /\ retryTasks' = IF retried THEN retryTasks \cup {retry} ELSE retryTasks
  /\ fileQueue' = DrainedQueue(pending, fileQueue, f)
  /\ errorCount' = IF exhausted THEN errorCount + 1 ELSE errorCount
  /\ failedFiles' = IF exhausted THEN failedFiles \cup {f} ELSE failedFiles
  /\ EndChange(f)
  /\ UNCHANGED <<envVars, intakeVars, recent, debounce, debounceTasks, indexedFiles,
                 removedFiles>>

\* Any other exception out of process_file or flush.
ChangeError(committed) ==
  LET f == cur.path IN
  /\ pc \in {"read", "store"}
  /\ committed => pc = "store"
  /\ Fault("error")
  /\ StoreContent(committed)
  /\ nextId' = BuildIds(DrainedKeys(f))
  /\ pending' = DrainedTable(pending, f)
  /\ fileQueue' = DrainedQueue(pending, fileQueue, f)
  /\ errorCount' = errorCount + 1
  /\ failedFiles' = failedFiles \cup {f}
  /\ EndChange(f)
  /\ UNCHANGED <<envVars, intakeVars, recent, workVars, indexedFiles, removedFiles>>

-----------------------------------------------------------------------------
(* Retries shared by deletes, embeds and directory cleanups.               *)

RetryMutation(m) == RetryOf(m, nextId[Key(m)] + 1)

\* _schedule_compaction_retry / _schedule_delete_retry for mutations of
\* distinct keys; the ones whose budget is spent are given up.
ScheduleRetries(ms) ==
  LET within == {m \in ms : m.retry < MaxRetryBudget}
      exhausted == ms \ within
      retries == {RetryMutation(m) : m \in within}
  IN
  /\ nextId' = BuildIds({Key(m) : m \in within})
  /\ pending' = RegisterAll(pending, retries)
  /\ retryTasks' = retryTasks \cup {r \in retries : CanRegister(pending, r)}
  /\ failedFiles' = failedFiles \cup {m.path : m \in exhausted}
  /\ errorCount' = IF exhausted = {} THEN errorCount ELSE errorCount + 1

GiveUp(ms) ==
  /\ failedFiles' = failedFiles \cup {m.path : m \in ms}
  /\ errorCount' = errorCount + 1
  /\ UNCHANGED <<nextId, pending, retryTasks>>

-----------------------------------------------------------------------------
(* _process_loop: deletes.                                                 *)

\* remove_file or delete_files_batch_async succeeds.  Only the single-file
\* path announces the removal.
DeletesApplied ==
  LET paths == {m.path : m \in batch} IN
  /\ pc = "delete"
  /\ db' = [f \in Files |-> IF f \in paths THEN 0 ELSE db[f]]
  /\ dbGen' = [f \in Files |-> IF f \in paths THEN NoGeneration ELSE dbGen[f]]
  /\ embedded' = embedded \ paths
  /\ removedFiles' = IF single THEN removedFiles \cup paths ELSE removedFiles
  /\ GoIdle
  /\ UNCHANGED <<envVars, faults, intakeVars, recent, nextId, pending, workVars, fileQueue,
                 active, reserved, indexedFiles, failedFiles, errorCount>>

\* DuckDBTransactionConflictError: a delete that became stale meanwhile is
\* dropped, the others are retried.
DeletesConflict ==
  /\ pc = "delete"
  /\ Fault("conflict")
  /\ ScheduleRetries({m \in batch : ~IsStale(latestGen, m)})
  /\ GoIdle
  /\ UNCHANGED <<envVars, intakeVars, recent, debounce, debounceTasks, fileQueue,
                 active, reserved, dbVars, indexedFiles, removedFiles>>

\* DatabaseTemporarilyUnavailableError: every delete is retried.
DeletesBusy ==
  /\ pc = "delete"
  /\ Fault("busy_delete")
  /\ ScheduleRetries(batch)
  /\ GoIdle
  /\ UNCHANGED <<envVars, intakeVars, recent, debounce, debounceTasks, fileQueue,
                 active, reserved, dbVars, indexedFiles, removedFiles>>

DeletesError ==
  /\ pc = "delete"
  /\ Fault("error")
  /\ GiveUp(batch)
  /\ GoIdle
  /\ UNCHANGED <<envVars, intakeVars, recent, debounce, debounceTasks, fileQueue,
                 active, reserved, dbVars, indexedFiles, removedFiles>>

-----------------------------------------------------------------------------
(* _process_loop: embeddings and directories.                              *)

\* generate_missing_embeddings covers every indexed file.
EmbedDone ==
  /\ pc = "embed"
  /\ embedded' = {f \in Files : db[f] # 0}
  /\ GoIdle
  /\ UNCHANGED <<envVars, faults, intakeVars, recent, nextId, pending, workVars, fileQueue,
                 active, reserved, db, dbGen, reportVars>>

\* Mutant of PassBusy: the pass is forgotten, with neither retry nor error.
PassBusyForgotten ==
  /\ pc \in {"embed", "dir_delete"}
  /\ Fault(IF pc = "embed" THEN "busy_change" ELSE "busy_delete")
  /\ GoIdle
  /\ UNCHANGED <<envVars, intakeVars, recent, nextId, pending, workVars, fileQueue,
                 active, reserved, dbVars, reportVars>>

\* The database is busy for an embed pass or a directory cleanup.
PassBusy ==
  /\ pc \in {"embed", "dir_delete"}
  /\ Fault(IF pc = "embed" THEN "busy_change" ELSE "busy_delete")
  /\ ScheduleRetries({cur})
  /\ GoIdle
  /\ UNCHANGED <<envVars, intakeVars, recent, debounce, debounceTasks, fileQueue,
                 active, reserved, dbVars, indexedFiles, removedFiles>>

\* Any other failure of an embed pass or of directory work is only recorded;
\* a failed directory cleanup also marks its path.
PassError ==
  /\ pc \in {"embed", "dir_delete", "dir_index"}
  /\ Fault("error")
  /\ errorCount' = errorCount + 1
  /\ failedFiles' = IF pc = "dir_delete" THEN failedFiles \cup {cur.path} ELSE failedFiles
  /\ GoIdle
  /\ UNCHANGED <<envVars, intakeVars, recent, nextId, pending, workVars, fileQueue, active,
                 reserved, dbVars, indexedFiles, removedFiles>>

\* _cleanup_deleted_directory: one delete per indexed file under the
\* directory, with the generation of the directory's event.
DirCleanup ==
  LET rows == {f \in FilesUnder[cur.path] : db[f] # 0}
      delete(f) == FreshMutation(nextId[<<"delete", f>>] + 1, "delete", f, cur.gen)
      accepted == {f \in rows : CanRegister(pending, delete(f))}
  IN
  /\ pc = "dir_delete"
  /\ nextId' = BuildIds({"delete"} \X rows)
  /\ pending' = [k \in Keys |->
                   IF k[1] = "delete" /\ k[2] \in accepted THEN delete(k[2])
                   ELSE pending[k]]
  /\ \E s \in Orderings(accepted) :
       fileQueue' = [fileQueue EXCEPT ![0] = @ \o [i \in DOMAIN s |-> delete(s[i])]]
  /\ GoIdle
  /\ UNCHANGED <<envVars, faults, intakeVars, recent, workVars, active, reserved, dbVars,
                 reportVars>>

\* _index_directory: a thread lists the supported files ...
DirList ==
  /\ pc = "dir_index"
  /\ pc' = "dir_queue"
  /\ listed' = {f \in FilesUnder[cur.path] : disk[f] # 0}
  /\ UNCHANGED <<envVars, faults, intakeVars, recent, nextId, pending, workVars, fileQueue,
                 active, reserved, cur, buffered, content, batch, single, dbVars,
                 reportVars>>

\* ... and the loop adds them.
DirQueue ==
  /\ pc = "dir_queue"
  /\ AddChanges(listed)
  /\ GoIdle
  /\ UNCHANGED <<envVars, faults, intakeVars, recent, retryTasks, fileQueue, active,
                 dbVars, reportVars>>

-----------------------------------------------------------------------------
Start == StartBuffered \/ StartQueued \/ StartDeletes

\* The processing task's steps when the database call succeeds.
Work ==
  \/ ReadFile \/ FinishChange(TRUE)
  \/ DeletesApplied
  \/ EmbedDone
  \/ DirCleanup \/ DirList \/ DirQueue

\* Its steps when the call fails.
Failure ==
  \/ FinishChange(FALSE)
  \/ \E committed \in BOOLEAN : ChangeBusy(committed) \/ ChangeError(committed)
  \/ DeletesConflict \/ DeletesBusy \/ DeletesError
  \/ PassBusy \/ PassError

Sleepers ==
  \/ \E t \in debounceTasks : DebounceElapses(t)
  \/ \E t \in retryTasks : RetryElapses(t)

Intake == AcceptEvent \/ DropEvent

Next ==
  \/ Edit
  \/ \E p \in Paths : DedupExpires(p)
  \/ Intake
  \/ Consume
  \/ Sleepers
  \/ Start
  \/ Work
  \/ Failure

\* The asyncio loop runs every task that can run, sleeps end, and a database
\* call returns or raises.
Fairness ==
  /\ WF_vars(Intake)
  /\ WF_vars(Consume)
  /\ WF_vars(\E t \in debounceTasks : DebounceElapses(t))
  /\ WF_vars(\E t \in retryTasks : RetryElapses(t))
  /\ WF_vars(Start)
  /\ WF_vars(Work)

Spec == Init /\ [][Next]_vars

FairSpec == Spec /\ Fairness

-----------------------------------------------------------------------------
(* Properties.                                                             *)

\* The mutations some task or queue still carries towards the processor.
Carried ==
  debounceTasks \cup retryTasks
    \cup UNION {{fileQueue[pr][i] : i \in DOMAIN fileQueue[pr]} : pr \in Priorities}

\* Every entry of _pending_mutations is carried by a sleeping task or the file
\* queue: an entry nobody carries would absorb all later work for its key.
PendingIsCarried ==
  \A k \in Keys : pending[k] # NoMutation =>
    \E m \in Carried : Key(m) = k /\ m.id = pending[k].id

\* At most one change per file is on its way to the processor, however many
\* events the file produced.
OneChangePerFile ==
  \A m, n \in Carried :
    m.op = "change" /\ n.op = "change" /\ m.path = n.path => m = n

\* A follow-up is reserved only while its file is being processed, so the
\* end of that processing will drain it.
ReservedIsDrained ==
  \A f \in Files : reserved[f] # NoGeneration => f \in active

\* Nothing is under way: every event was consumed, every task has ended.
Quiescent ==
  /\ wire = <<>> /\ eventQueue = <<>>
  /\ Carried = {}
  /\ buffered = NoMutation
  /\ pc = "idle"

Undisturbed == errorCount = 0 /\ dropped = {}

\* When the pipeline comes to rest without a recorded error or a dropped
\* event, the index holds exactly what is on disk.
QuiescentInStep ==
  Quiescent /\ Undisturbed => \A f \in Files : db[f] = disk[f]

\* ... and every indexed file has its embeddings.
QuiescentEmbedded ==
  Quiescent /\ Undisturbed => embedded = {f \in Files : db[f] # 0}

\* A delete never erases what a change of a later generation indexed.
DeleteRespectsGeneration ==
  [][\A f \in Files : db[f] # 0 /\ db'[f] = 0 =>
       \E m \in batch : m.path = f /\ (m.gen = NoGeneration \/ m.gen >= dbGen[f])]_vars

\* Rewrites of a file that arrive while it is processed leave one newest
\* follow-up (_reserve_change_follow_up), so at rest a file on disk is indexed
\* with its newest content.
BurstKeepsNewest ==
  Quiescent /\ Undisturbed => \A f \in Files : disk[f] # 0 => db[f] = disk[f]

\* Every pending key is eventually served or released.
PendingIsServed ==
  \A k \in Keys : pending[k] # NoMutation ~> pending[k] = NoMutation

\* When the edits stop, the pipeline comes to rest.
ComesToRest == <>[]Quiescent
=============================================================================
