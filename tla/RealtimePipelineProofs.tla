----------------------- MODULE RealtimePipelineProofs -----------------------
(***************************************************************************)
(* Theorems about RealtimePipeline for every set of files and directories, *)
(* every bound and every mix of faults.                                    *)
(***************************************************************************)
EXTENDS RealtimePipeline, RealtimeMutationProofs, FiniteSetTheorems, SequenceTheorems

-----------------------------------------------------------------------------
(* Operators of the pipeline.                                              *)

\* Which paths an event's type admits.
LEMMA EventFields ==
  ASSUME NEW e \in Event
  PROVE  /\ e.type \in EventTypes /\ e.path \in Paths
         /\ e.type \in FileEventTypes => e.path \in Files
         /\ e.type \in DirEventTypes => e.path \in Dirs
  BY DEF Event, EventTypes, FileEventTypes, DirEventTypes, Paths

\* Queueing a mutation keeps the queues sequences of mutations.
LEMMA EnqueueType ==
  ASSUME NEW queue \in [Priorities -> Seq(Mutation)], NEW m \in Mutation
  PROVE  Enqueue(queue, m) \in [Priorities -> Seq(Mutation)]
  BY DEF Enqueue, MutationPriority, Priorities

\* Building mutations keeps the id counters natural numbers.
LEMMA BuildIdsType ==
  ASSUME nextId \in [Keys -> Nat], NEW keys
  PROVE  BuildIds(keys) \in [Keys -> Nat]
  BY DEF BuildIds

\* The keys of a file's operations.
LEMMA FileKeys ==
  ASSUME NEW f \in Files
  PROVE  /\ <<"change", f>> \in Keys /\ <<"embed", f>> \in Keys
         /\ <<"delete", f>> \in Keys /\ f \in Paths
  BY DEF Keys, Operations, FileOperations, Paths

\* The change mutations the pipeline builds for a file.
LEMMA BuiltMutations ==
  ASSUME IntakeType, WorkType, NEW f \in Files
  PROVE  /\ NewChange(f) \in Mutation /\ Key(NewChange(f)) = <<"change", f>>
         /\ FollowUp(f) \in Mutation /\ Key(FollowUp(f)) = <<"change", f>>
         /\ NewChange(f).gen = latestGen[f] /\ FollowUp(f).gen = reserved[f]
         /\ NewChange(f).op = "change" /\ FollowUp(f).op = "change"
         /\ NewChange(f).path = f /\ FollowUp(f).path = f
         /\ DrainedId(f) \in Nat
<1> DEFINE id == nextId[<<"change", f>>]
<1>1. id \in Nat /\ id + 1 \in Nat /\ latestGen[f] \in Nat /\ reserved[f] \in Nat
  <2>1. /\ nextId \in [Keys -> Nat] /\ latestGen \in [Paths -> Nat]
        /\ reserved \in [Files -> Nat]
    BY DEF IntakeType, WorkType
  <2>2. <<"change", f>> \in Keys /\ f \in Paths
    BY FileKeys
  <2> QED BY <2>1, <2>2
<1>2. DrainedId(f) \in Nat
  BY <1>1 DEF DrainedId
<1>3. "change" \in FileOperations
  BY DEF FileOperations
<1>4. /\ NewChange(f) = FreshMutation(id + 1, "change", f, latestGen[f])
      /\ FollowUp(f) = FreshMutation(id + 1, "change", f, reserved[f])
  BY DEF NewChange, FollowUp
<1> HIDE DEF id
<1>5. /\ NewChange(f) \in Mutation /\ Key(NewChange(f)) = <<"change", f>>
      /\ NewChange(f).gen = latestGen[f] /\ NewChange(f).op = "change"
      /\ NewChange(f).path = f
  BY <1>1, <1>3, <1>4, FreshFileMutation
<1>6. /\ FollowUp(f) \in Mutation /\ Key(FollowUp(f)) = <<"change", f>>
      /\ FollowUp(f).gen = reserved[f] /\ FollowUp(f).op = "change"
      /\ FollowUp(f).path = f
  BY <1>1, <1>3, <1>4, FreshFileMutation
<1> QED BY <1>2, <1>5, <1>6

\* Draining a reserved follow-up yields a table and queues of mutations.
LEMMA DrainedType ==
  ASSUME IntakeType, WorkType, NEW f \in Files, NEW table \in Table,
         NEW queue \in [Priorities -> Seq(Mutation)]
  PROVE  /\ DrainedTable(table, f) \in Table
         /\ DrainedQueue(table, queue, f) \in [Priorities -> Seq(Mutation)]
<1>1. reserved[f] \in Nat /\ f \in Paths
  BY FileKeys DEF WorkType
<1>2. FollowUp(f) \in Mutation
  BY BuiltMutations
<1> QED
  BY <1>1, <1>2, EnqueueType, RegisterType, RefreshGenerationType
     DEF DrainedTable, DrainedQueue

\* add_file for a set of files keeps the work state well typed.
LEMMA AddChangesType ==
  ASSUME IntakeType, WorkType, NEW S \in SUBSET Files, AddChanges(S),
         UNCHANGED <<retryTasks, fileQueue, active>>
  PROVE  WorkType'
<1> DEFINE Entry(k) == RefreshGeneration(pending, k[2], latestGen[k[2]])[k]
<1>1. nextId' \in [Keys -> Nat]
  BY BuildIdsType DEF AddChanges, WorkType
<1>2. reserved' \in [Files -> Nat]
  BY DEF AddChanges, IntakeType, WorkType, Paths
<1>3. debounce' \subseteq Files /\ debounceTasks' \subseteq Mutation
  <2>1. PICK new \in SUBSET S : /\ debounce' = debounce \cup new
                                /\ debounceTasks' = debounceTasks \cup {NewChange(f) : f \in new}
    BY DEF AddChanges
  <2>2. \A f \in new : NewChange(f) \in Mutation
    BY BuiltMutations
  <2> QED BY <2>1, <2>2 DEF WorkType
<1>4. ASSUME NEW k \in Keys, k[1] = "change", k[2] \in S
      PROVE  /\ Entry(k) \in Mutation \cup {NoMutation}
             /\ Entry(k) # NoMutation => Key(Entry(k)) = k
             /\ NewChange(k[2]) \in Mutation /\ Key(NewChange(k[2])) = k
  <2>1. k[2] \in Paths /\ latestGen[k[2]] \in Nat /\ k = <<"change", k[2]>>
    BY <1>4 DEF IntakeType, Keys, Paths
  <2>2. RefreshGeneration(pending, k[2], latestGen[k[2]]) \in Table
    BY <2>1, RefreshGenerationType DEF WorkType
  <2>3. NewChange(k[2]) \in Mutation /\ Key(NewChange(k[2])) = k
    BY <1>4, <2>1, BuiltMutations
  <2> QED BY <2>2, <2>3 DEF Table
<1>5. \A k \in Keys :
        \/ pending'[k] = pending[k]
        \/ /\ k[1] = "change" /\ k[2] \in S
           /\ pending'[k] \in {Entry(k), NewChange(k[2])}
  BY DEF AddChanges
<1>6. pending' = [k \in Keys |-> pending'[k]]
  BY DEF AddChanges
<1>7. ASSUME NEW k \in Keys
      PROVE  /\ pending'[k] \in Mutation \cup {NoMutation}
             /\ pending'[k] # NoMutation => Key(pending'[k]) = k
  BY <1>4, <1>5 DEF WorkType, Table
<1>8. pending' \in Table
  BY <1>6, <1>7 DEF Table
<1> QED BY <1>1, <1>2, <1>3, <1>8 DEF WorkType

-----------------------------------------------------------------------------
(* Type correctness.                                                       *)

USE DEF envVars, intakeVars, workVars, loopVars, dbVars, reportVars

\* The service starts with every variable in its type.
LEMMA InitType == Init => TypeOK
<1> SUFFICES ASSUME Init PROVE TypeOK
  OBVIOUS
<1>1. EnvironmentType
  BY DEF Init, EnvironmentType
<1>2. IntakeType
  BY DEF Init, IntakeType, NoGeneration
<1>3. WorkType
  BY DEF Init, WorkType, EmptyTable, Table, NoGeneration, Priorities
<1>4. LoopType
  BY DEF Init, LoopType, ProcessStates
<1>5. IndexType
  BY DEF Init, IndexType, Paths, NoGeneration
<1> QED BY <1>1, <1>2, <1>3, <1>4, <1>5 DEF TypeOK

\* An edit of the tree and the report of it keep the types.
LEMMA EditType ==
  ASSUME TypeOK, Edit
  PROVE  TypeOK'
<1> USE DEF TypeOK
<1>1. ASSUME NEW type, NEW path, [type |-> type, path |-> path] \in Event,
             ReportEvent(type, path)
      PROVE  wire' \in Seq(Event)
  <2> DEFINE e == [type |-> type, path |-> path]
  <2>1. wire \in Seq(Event)
    BY DEF EnvironmentType
  <2>2. wire' = Append(wire, e) \/ wire' = Append(Append(wire, e), e)
    BY <1>1 DEF ReportEvent
  <2>3. e \in Event
    BY <1>1
  <2> HIDE DEF e
  <2>4. Append(wire, e) \in Seq(Event)
    BY <2>1, <2>3
  <2> QED BY <2>2, <2>3, <2>4
<1>2. EnvironmentType'
  <2>1. ASSUME NEW f \in Files, WriteFile(f)
        PROVE  EnvironmentType'
    <3>1. \A type \in {"created", "modified"} : [type |-> type, path |-> f] \in Event
      BY DEF Event, FileEventTypes
    <3>2. wire' \in Seq(Event)
      BY <1>1, <2>1, <3>1 DEF WriteFile
    <3>3. disk \in [Paths -> Nat] /\ edits \in Nat
      BY DEF EnvironmentType
    <3>4. disk' \in [Paths -> Nat] /\ edits' \in Nat
      BY <2>1, <3>3 DEF WriteFile, Paths
    <3> QED BY <2>1, <3>2, <3>4 DEF WriteFile, EnvUnchanged, EnvironmentType
  <2>2. ASSUME NEW f \in Files, DeleteFile(f)
        PROVE  EnvironmentType'
    <3>1. [type |-> "deleted", path |-> f] \in Event
      BY DEF Event, FileEventTypes
    <3>2. wire' \in Seq(Event)
      BY <1>1, <2>2, <3>1 DEF DeleteFile
    <3>3. disk \in [Paths -> Nat] /\ edits \in Nat
      BY DEF EnvironmentType
    <3>4. disk' \in [Paths -> Nat] /\ edits' \in Nat
      BY <2>2, <3>3 DEF DeleteFile, Paths
    <3> QED BY <2>2, <3>2, <3>4 DEF DeleteFile, EnvUnchanged, EnvironmentType
  <2>3. ASSUME NEW d \in Dirs, MoveDirIn(d)
        PROVE  EnvironmentType'
    <3>1. [type |-> "dir_created", path |-> d] \in Event
      BY DEF Event, DirEventTypes
    <3>2. wire' \in Seq(Event)
      BY <1>1, <2>3, <3>1 DEF MoveDirIn
    <3>3. disk \in [Paths -> Nat] /\ edits \in Nat
      BY DEF EnvironmentType
    <3>4. disk' \in [Paths -> Nat] /\ edits' \in Nat
      BY <2>3, <3>3 DEF MoveDirIn
    <3> QED BY <2>3, <3>2, <3>4 DEF MoveDirIn, EnvUnchanged, EnvironmentType
  <2>4. ASSUME NEW d \in Dirs, MoveDirOut(d)
        PROVE  EnvironmentType'
    <3>1. [type |-> "dir_deleted", path |-> d] \in Event
      BY DEF Event, DirEventTypes
    <3>2. wire' \in Seq(Event)
      BY <1>1, <2>4, <3>1 DEF MoveDirOut
    <3>3. disk \in [Paths -> Nat] /\ edits \in Nat
      BY DEF EnvironmentType
    <3>4. disk' \in [Paths -> Nat] /\ edits' \in Nat
      BY <2>4, <3>3 DEF MoveDirOut
    <3> QED BY <2>4, <3>2, <3>4 DEF MoveDirOut, EnvUnchanged, EnvironmentType
  <2>5. ASSUME NEW f \in Files, AccessFile(f)
        PROVE  EnvironmentType'
    <3>1. PICK type \in {"accessed", "modified"} :
            wire' = Append(wire, [type |-> type, path |-> f])
      BY <2>5 DEF AccessFile
    <3>2. [type |-> type, path |-> f] \in Event
      BY DEF Event, FileEventTypes
    <3>3. wire' \in Seq(Event)
      BY <3>1, <3>2 DEF EnvironmentType
    <3> QED BY <2>5, <3>3 DEF AccessFile, EnvUnchanged, EnvironmentType
  <2> QED BY <2>1, <2>2, <2>3, <2>4, <2>5 DEF Edit
<1>3. EnvUnchanged
  BY DEF Edit, WriteFile, DeleteFile, AccessFile, MoveDirIn, MoveDirOut
<1> QED
  BY <1>2, <1>3 DEF EnvUnchanged, IntakeType, WorkType, LoopType, IndexType

\* The expiry of a dedup entry keeps the types.
LEMMA DedupType ==
  ASSUME TypeOK, NEW p \in Paths, DedupExpires(p)
  PROVE  TypeOK'
<1>1. recent' \in [Paths -> EventTypes \cup {NoEvent}]
  BY DEF DedupExpires, TypeOK, IntakeType
<1> QED
  BY <1>1 DEF DedupExpires, TypeOK, EnvironmentType, IntakeType, WorkType, LoopType,
              IndexType

\* Accepting or dropping a reported event keeps the types.
LEMMA IntakeStepType ==
  ASSUME TypeOK, Intake
  PROVE  TypeOK'
<1> DEFINE e == Head(wire)
<1>1. wire # <<>> /\ wire' = Tail(wire)
  BY DEF Intake, AcceptEvent, DropEvent
<1>2. wire \in Seq(Event)
  BY DEF TypeOK, EnvironmentType
<1>3. e \in Event /\ wire' \in Seq(Event)
  BY <1>1, <1>2
<1>4. e.path \in Paths
  BY <1>3, EventFields
<1>5. nextGen \in Nat /\ latestGen \in [Paths -> Nat] /\ eventQueue \in Seq(Event)
      /\ dropped \subseteq Paths /\ pending \in Table
  BY DEF TypeOK, IntakeType, WorkType
<1> HIDE DEF e
<1>6. CASE AcceptEvent
  <2>1. /\ eventQueue' = Append(eventQueue, e)
        /\ nextGen' = nextGen + 1
        /\ latestGen' = [latestGen EXCEPT ![e.path] = nextGen + 1]
        /\ pending' = RefreshGeneration(pending, e.path, nextGen + 1)
    BY <1>6 DEF AcceptEvent, e
  <2>2. eventQueue' \in Seq(Event)
    BY <1>3, <1>5, <2>1
  <2>3. nextGen' \in Nat /\ latestGen' \in [Paths -> Nat]
    BY <1>4, <1>5, <2>1
  <2>4. pending' \in Table
    <3>1. nextGen + 1 \in Nat
      BY <1>5
    <3> QED BY <1>4, <1>5, <2>1, <3>1, RefreshGenerationType
  <2> QED
    BY <1>3, <1>6, <2>2, <2>3, <2>4
       DEF AcceptEvent, TypeOK, EnvironmentType, IntakeType, WorkType, LoopType, IndexType
<1>7. CASE DropEvent
  <2>1. dropped' \subseteq Paths
    BY <1>4, <1>5, <1>7 DEF DropEvent, e
  <2> QED
    BY <1>3, <1>7, <2>1
       DEF DropEvent, TypeOK, EnvironmentType, IntakeType, WorkType, LoopType, IndexType
<1> QED BY <1>6, <1>7 DEF Intake

\* _enqueue_mutation of a new mutation keeps the work state well typed.
LEMMA EnqueueNewType ==
  ASSUME WorkType, NEW m \in Mutation, EnqueueNew(m),
         UNCHANGED <<debounce, debounceTasks, retryTasks, active, reserved>>
  PROVE  WorkType'
<1>1. nextId' \in [Keys -> Nat]
  BY BuildIdsType DEF EnqueueNew, WorkType
<1>2. pending' \in Table
  BY RegisterType DEF EnqueueNew, WorkType
<1>3. fileQueue' \in [Priorities -> Seq(Mutation)]
  <2>1. fileQueue \in [Priorities -> Seq(Mutation)]
    BY DEF WorkType
  <2> QED BY <2>1, EnqueueType DEF EnqueueNew
<1> QED BY <1>1, <1>2, <1>3 DEF WorkType

\* The mutation a delete or a directory event is turned into.
LEMMA ImmediateMutation ==
  ASSUME TypeOK, NEW e \in Event, ConsumeImmediate(e)
  PROVE  \E m \in Mutation : EnqueueNew(m)
<1> DEFINE op == CASE e.type = "deleted" -> "delete"
                   [] e.type = "dir_deleted" -> "dir_delete"
                   [] OTHER -> "dir_index"
           gen == IF op = "dir_index" THEN NoGeneration ELSE latestGen[e.path]
           m == FreshMutation(nextId[<<op, e.path>>] + 1, op, e.path, gen)
<1> SUFFICES m \in Mutation
  <2>1. EnqueueNew(m)
    BY DEF ConsumeImmediate
  <2> QED BY <2>1
<1>1. e.type \in {"deleted", "dir_created", "dir_deleted"}
  BY DEF ConsumeImmediate
<1>2. nextId \in [Keys -> Nat] /\ latestGen \in [Paths -> Nat]
  BY DEF TypeOK, IntakeType, WorkType
<1>3. e.path \in Paths /\ gen \in Nat
  BY <1>2, EventFields DEF NoGeneration
<1>4. \/ op = "delete" /\ e.path \in Files
      \/ op \in {"dir_delete", "dir_index"} /\ e.path \in Dirs
  BY <1>1, EventFields DEF FileEventTypes, DirEventTypes
<1>5. op \in Operations
  BY <1>4 DEF Operations, FileOperations, DirOperations
<1> HIDE DEF op, gen
<1>6. <<op, e.path>> \in Keys
  BY <1>3, <1>5 DEF Keys
<1>7. nextId[<<op, e.path>>] + 1 \in Nat
  BY <1>2, <1>6
<1>8. CASE op = "delete" /\ e.path \in Files
  <2>1. op \in FileOperations
    BY <1>8 DEF FileOperations
  <2> QED BY <1>3, <1>7, <1>8, <2>1, FreshFileMutation
<1>9. CASE op \in {"dir_delete", "dir_index"} /\ e.path \in Dirs
  <2>1. op \in DirOperations
    BY <1>9 DEF DirOperations
  <2> QED BY <1>3, <1>7, <1>9, <2>1, FreshDirMutation
<1> QED BY <1>4, <1>8, <1>9

\* Every branch of _consume_events keeps the types.
LEMMA ConsumeType ==
  ASSUME TypeOK, Consume
  PROVE  TypeOK'
<1> DEFINE e == Head(eventQueue)
<1>1. eventQueue # <<>> /\ eventQueue' = Tail(eventQueue)
  BY DEF Consume, SuppressDuplicate, ConsumeChange, ConsumeImmediate, ConsumeAccess, TakeEvent
<1>2. eventQueue \in Seq(Event)
  BY DEF TypeOK, IntakeType
<1>3. e \in Event /\ eventQueue' \in Seq(Event)
  BY <1>1, <1>2
<1>4. recent \in [Paths -> EventTypes \cup {NoEvent}] /\ latestGen \in [Paths -> Nat]
  BY DEF TypeOK, IntakeType
<1>5. [recent EXCEPT ![e.path] = e.type] \in [Paths -> EventTypes \cup {NoEvent}]
  BY <1>3, <1>4, EventFields
<1>6. CASE SuppressDuplicate
  BY <1>3, <1>6 DEF SuppressDuplicate, TypeOK, EnvironmentType, IntakeType, WorkType,
                    LoopType, IndexType
<1>7. CASE ConsumeChange(e)
  <2>1. e.path \in Files
    BY <1>3, <1>7, EventFields DEF ConsumeChange, FileEventTypes
  <2>2. WorkType'
    BY <1>7, <2>1, AddChangesType DEF ConsumeChange, TypeOK
  <2>3. recent' \in [Paths -> EventTypes \cup {NoEvent}]
    BY <1>5, <1>7 DEF ConsumeChange
  <2> QED
    BY <1>3, <1>7, <2>2, <2>3
       DEF ConsumeChange, TypeOK, EnvironmentType, IntakeType, LoopType, IndexType
<1>8. CASE ConsumeImmediate(e)
  <2> HIDE DEF e
  <2>2. PICK m \in Mutation : EnqueueNew(m)
    BY <1>3, <1>8, ImmediateMutation
  <2>3. WorkType'
    BY <1>8, <2>2, EnqueueNewType DEF ConsumeImmediate, TypeOK
  <2>4. recent' \in [Paths -> EventTypes \cup {NoEvent}]
    BY <1>5, <1>8 DEF ConsumeImmediate
  <2> QED
    BY <1>3, <1>8, <2>3, <2>4
       DEF ConsumeImmediate, TypeOK, EnvironmentType, IntakeType, LoopType, IndexType
<1>9. CASE ConsumeAccess(e)
  <2>1. recent' \in [Paths -> EventTypes \cup {NoEvent}]
    BY <1>5, <1>9 DEF ConsumeAccess
  <2> QED
    BY <1>3, <1>9, <2>1
       DEF ConsumeAccess, TypeOK, EnvironmentType, IntakeType, WorkType, LoopType,
           IndexType
<1> QED BY <1>6, <1>7, <1>8, <1>9 DEF Consume

\* The end of a debounce or a retry delay keeps the types.
LEMMA SleepersType ==
  ASSUME TypeOK, Sleepers
  PROVE  TypeOK'
<1>1. /\ pending \in Table /\ fileQueue \in [Priorities -> Seq(Mutation)]
      /\ debounceTasks \subseteq Mutation /\ retryTasks \subseteq Mutation
      /\ debounce \subseteq Files
  BY DEF TypeOK, WorkType
<1>2. ASSUME NEW t \in debounceTasks, DebounceElapses(t)
      PROVE  TypeOK'
  <2> DEFINE current == IF pending[Key(t)] = NoMutation THEN t ELSE pending[Key(t)]
  <2>1. t \in Mutation /\ Key(t) \in Keys
    BY <1>1, MutationFields
  <2>2. current \in Mutation
    BY <1>1, <2>1, TableEntry
  <2>3. \/ fileQueue' = Enqueue(fileQueue, current) /\ pending' = pending
        \/ pending' = Release(pending, t) /\ fileQueue' = fileQueue
    BY <1>2 DEF DebounceElapses
  <2> HIDE DEF current
  <2>4. pending' \in Table /\ fileQueue' \in [Priorities -> Seq(Mutation)]
    BY <1>1, <2>1, <2>2, <2>3, ReleaseType, EnqueueType
  <2>5. debounceTasks' \subseteq Mutation /\ debounce' \subseteq Files
    BY <1>1, <1>2 DEF DebounceElapses
  <2> QED
    BY <1>2, <2>4, <2>5
       DEF DebounceElapses, TypeOK, EnvironmentType, IntakeType, WorkType, LoopType,
           IndexType
<1>3. ASSUME NEW t \in retryTasks, RetryElapses(t)
      PROVE  TypeOK'
  <2>1. t \in Mutation
    BY <1>1
  <2>2. /\ pending' \in {pending, Release(pending, t)}
        /\ fileQueue' \in {fileQueue, Enqueue(fileQueue, t)}
    BY <1>3 DEF RetryElapses
  <2>3. pending' \in Table /\ fileQueue' \in [Priorities -> Seq(Mutation)]
    BY <1>1, <2>1, <2>2, ReleaseType, EnqueueType
  <2>4. retryTasks' \subseteq Mutation
    BY <1>1, <1>3 DEF RetryElapses
  <2> QED
    BY <1>3, <2>3, <2>4
       DEF RetryElapses, TypeOK, EnvironmentType, IntakeType, WorkType, LoopType,
           IndexType
<1> QED BY <1>2, <1>3 DEF Sleepers

\* A queue of mutations loses its head.
LEMMA DequeueType ==
  ASSUME NEW queue \in [Priorities -> Seq(Mutation)], NEW pr \in Priorities,
         queue[pr] # <<>>
  PROVE  /\ Head(queue[pr]) \in Mutation
         /\ [queue EXCEPT ![pr] = Tail(@)] \in [Priorities -> Seq(Mutation)]
<1>1. queue[pr] \in Seq(Mutation)
  OBVIOUS
<1>2. Head(queue[pr]) \in Mutation /\ Tail(queue[pr]) \in Seq(Mutation)
  BY <1>1
<1> QED BY <1>2

\* The queue of deletes loses its first n elements.
LEMMA DequeueRunType ==
  ASSUME NEW queue \in [Priorities -> Seq(Mutation)], NEW n \in Nat, n <= Len(queue[0])
  PROVE  /\ [queue EXCEPT ![0] = SubSeq(@, n + 1, Len(@))] \in [Priorities -> Seq(Mutation)]
         /\ \A i \in 1..n : queue[0][i] \in Mutation
<1>1. queue[0] \in Seq(Mutation) /\ 0 \in Priorities
  BY DEF Priorities
<1>2. SubSeq(queue[0], n + 1, Len(queue[0])) \in Seq(Mutation)
  BY <1>1, SubSeqProperties
<1>3. \A i \in 1..n : i \in 1..Len(queue[0])
  BY <1>1
<1>4. \A i \in 1..n : queue[0][i] \in Mutation
  BY <1>1, <1>3
<1> QED BY <1>1, <1>2, <1>4

\* The dispatch of _process_loop leaves it where its mutation belongs.
LEMMA StartMutationType ==
  ASSUME TypeOK, NEW m \in Mutation, StartMutation(m),
         buffered' \in Mutation \cup {NoMutation}
  PROVE  /\ LoopType'
         /\ active' \subseteq Files
         /\ failedFiles' \subseteq Paths
<1>1. active \subseteq Files /\ failedFiles \subseteq Paths
  BY DEF TypeOK, WorkType, IndexType
<1>2. m.path \in Paths /\ (m.op = "change" => m.path \in Files) /\ m # NoMutation
  BY MutationFields DEF FileOperations
<1>3. CASE m.op = "change" /\ Begin("read", m) /\ active' = active \cup {m.path}
           /\ UNCHANGED failedFiles
  BY <1>1, <1>2, <1>3 DEF Begin, LoopType, ProcessStates
<1>4. CASE m.op = "change" /\ Begin("idle", NoMutation)
           /\ failedFiles' = failedFiles \cup {m.path} /\ UNCHANGED active
  BY <1>1, <1>2, <1>4 DEF Begin, LoopType, ProcessStates
<1>5. CASE m.op \in {"embed", "dir_delete", "dir_index"} /\ Begin(m.op, m)
           /\ UNCHANGED <<active, failedFiles>>
  BY <1>1, <1>2, <1>5 DEF Begin, LoopType, ProcessStates
<1> QED BY <1>3, <1>4, <1>5 DEF StartMutation

\* Taking the next mutation, or the next batch of deletes, keeps the types.
LEMMA StartType ==
  ASSUME TypeOK, Start
  PROVE  TypeOK'
<1>1. /\ pending \in Table /\ fileQueue \in [Priorities -> Seq(Mutation)]
      /\ latestGen \in [Paths -> Nat] /\ buffered \in Mutation \cup {NoMutation}
  BY DEF TypeOK, IntakeType, WorkType, LoopType
<1>2. CASE StartBuffered
  <2>1. buffered \in Mutation /\ StartMutation(buffered) /\ buffered' = NoMutation
    BY <1>1, <1>2 DEF StartBuffered
  <2>2. LoopType' /\ active' \subseteq Files /\ failedFiles' \subseteq Paths
    BY <2>1, StartMutationType
  <2> QED
    BY <1>2, <2>2 DEF StartBuffered, TypeOK, EnvironmentType, IntakeType, WorkType,
                      IndexType
<1>3. CASE StartQueued
  <2>1. PICK pr \in Priorities :
          /\ fileQueue[pr] # <<>>
          /\ fileQueue' = [fileQueue EXCEPT ![pr] = Tail(@)]
          /\ pending' = Release(pending, Head(fileQueue[pr]))
          /\ StartMutation(ForProcessing(latestGen, Head(fileQueue[pr])))
    BY <1>3 DEF StartQueued, IsHead
  <2>2. Head(fileQueue[pr]) \in Mutation /\ fileQueue' \in [Priorities -> Seq(Mutation)]
    BY <1>1, <2>1, DequeueType
  <2>3. pending' \in Table
    BY <1>1, <2>1, <2>2, ReleaseType
  <2>4. ForProcessing(latestGen, Head(fileQueue[pr])) \in Mutation
    BY <1>1, <2>2, ForProcessingType
  <2>5. LoopType' /\ active' \subseteq Files /\ failedFiles' \subseteq Paths
    BY <1>1, <1>3, <2>1, <2>4, StartMutationType DEF StartQueued
  <2> QED
    BY <1>3, <2>2, <2>3, <2>5
       DEF StartQueued, TypeOK, EnvironmentType, IntakeType, WorkType, IndexType
<1>4. CASE StartDeletes
  <2> DEFINE run(n) == {fileQueue[0][i] : i \in 1..n}
             rest(n) == [fileQueue EXCEPT ![0] = SubSeq(@, n + 1, Len(@))]
             executable(n) == {m \in run(n) : Owns(pending, m) /\ ~IsStale(latestGen, m)}
  <2>1. PICK n \in 1..DeleteBatchSize :
          /\ IsDeleteRun(n)
          /\ \/ /\ buffered' = NoMutation
                /\ fileQueue' = rest(n)
                /\ pending' = ReleaseAll(pending, run(n))
             \/ \E pr \in Priorities :
                  /\ IsHead(rest(n), pr)
                  /\ buffered' = ForProcessing(latestGen, Head(rest(n)[pr]))
                  /\ fileQueue' = [rest(n) EXCEPT ![pr] = Tail(@)]
                  /\ pending' = ReleaseAll(pending, run(n) \cup {Head(rest(n)[pr])})
          /\ pc' = IF executable(n) = {} THEN "idle" ELSE "delete"
          /\ batch' = executable(n)
          /\ single' = (n = 1)
    BY <1>4 DEF StartDeletes
  <2>2. n \in Nat /\ n <= Len(fileQueue[0])
    BY <2>1, BoundAssumption DEF IsDeleteRun
  <2>3. rest(n) \in [Priorities -> Seq(Mutation)] /\ \A i \in 1..n : fileQueue[0][i] \in Mutation
    BY <1>1, <2>2, DequeueRunType
  <2>4. run(n) \subseteq Mutation /\ \A m \in run(n) : m.op = "delete"
    BY <2>1, <2>3 DEF IsDeleteRun
  <2> HIDE DEF run, rest
  <2>5. /\ fileQueue' \in [Priorities -> Seq(Mutation)] /\ pending' \in Table
        /\ buffered' \in Mutation \cup {NoMutation}
    <3>1. CASE /\ buffered' = NoMutation
               /\ fileQueue' = rest(n)
               /\ pending' = ReleaseAll(pending, run(n))
      BY <1>1, <2>3, <2>4, <3>1, ReleaseAllType
    <3>2. ASSUME NEW pr \in Priorities,
                 IsHead(rest(n), pr),
                 buffered' = ForProcessing(latestGen, Head(rest(n)[pr])),
                 fileQueue' = [rest(n) EXCEPT ![pr] = Tail(@)],
                 pending' = ReleaseAll(pending, run(n) \cup {Head(rest(n)[pr])})
          PROVE  /\ fileQueue' \in [Priorities -> Seq(Mutation)] /\ pending' \in Table
                 /\ buffered' \in Mutation \cup {NoMutation}
      <4>1. /\ Head(rest(n)[pr]) \in Mutation
            /\ [rest(n) EXCEPT ![pr] = Tail(@)] \in [Priorities -> Seq(Mutation)]
        BY <2>3, <3>2, DequeueType DEF IsHead
      <4>2. run(n) \cup {Head(rest(n)[pr])} \in SUBSET Mutation
        BY <2>4, <4>1
      <4> QED BY <1>1, <3>2, <4>1, <4>2, ReleaseAllType, ForProcessingType
    <3> QED BY <2>1, <3>1, <3>2
  <2>6. /\ pc' \in {"idle", "delete"} /\ batch' \subseteq Mutation /\ single' \in BOOLEAN
        /\ \A m \in batch' : m.op = "delete"
    BY <2>1, <2>4
  <2>7. LoopType'
    BY <1>4, <2>5, <2>6 DEF StartDeletes, LoopType, ProcessStates
  <2>8. WorkType'
    BY <1>4, <2>5 DEF StartDeletes, TypeOK, WorkType
  <2> QED
    BY <1>4, <2>7, <2>8 DEF StartDeletes, TypeOK, EnvironmentType, IntakeType, IndexType
<1> QED BY <1>2, <1>3, <1>4 DEF Start

\* What storing the processed file leaves in the index.
LEMMA StoreContentType ==
  ASSUME IndexType, content \in Nat, cur \in Mutation, cur.op = "change",
         NEW committed \in BOOLEAN, StoreContent(committed)
  PROVE  /\ db' \in [Files -> Nat] /\ dbGen' \in [Files -> Nat]
         /\ embedded' \subseteq Files
<1>1. cur.path \in Files /\ cur.gen \in Nat
  BY MutationFields DEF FileOperations
<1> QED BY <1>1 DEF StoreContent, IndexType

\* The processing task is idle again.
LEMMA GoIdleType ==
  ASSUME LoopType, GoIdle
  PROVE  LoopType'
  BY DEF GoIdle, LoopType, ProcessStates

\* process_file returned, whatever became of its transaction.
LEMMA FinishChangeType ==
  ASSUME TypeOK, NEW committed \in BOOLEAN, FinishChange(committed)
  PROVE  TypeOK'
<1> DEFINE f == cur.path
           id == nextId[<<"embed", f>>] + 1
           embed == FreshMutation(id, "embed", f, NoGeneration)
           table == Register(pending, embed)
           queue == IF CanRegister(pending, embed) THEN Enqueue(fileQueue, embed)
                    ELSE fileQueue
<1>1. cur \in Mutation /\ cur.op = "change" /\ f \in Files /\ f \in Paths
  BY MutationFields, FileKeys DEF FinishChange, TypeOK, LoopType, FileOperations
<1>2. /\ pending \in Table /\ fileQueue \in [Priorities -> Seq(Mutation)]
      /\ nextId \in [Keys -> Nat] /\ recent \in [Paths -> EventTypes \cup {NoEvent}]
      /\ active \subseteq Files /\ reserved \in [Files -> Nat]
      /\ indexedFiles \subseteq Files /\ faults \in Nat
  BY DEF TypeOK, EnvironmentType, IntakeType, WorkType, IndexType
<1>3. embed \in Mutation
  <2>1. id \in Nat /\ "embed" \in FileOperations /\ NoGeneration \in Nat
    <3>1. <<"embed", f>> \in Keys
      BY <1>1, FileKeys
    <3>2. nextId[<<"embed", f>>] \in Nat
      BY <1>2, <3>1
    <3> QED BY <3>2 DEF FileOperations, NoGeneration
  <2> HIDE DEF id
  <2> QED BY <1>1, <2>1, FreshFileMutation
<1>4. /\ recent' = [recent EXCEPT ![f] = NoEvent]
      /\ nextId' = BuildIds({<<"embed", f>>} \cup DrainedKeys(f))
      /\ pending' = DrainedTable(table, f)
      /\ fileQueue' = DrainedQueue(table, queue, f)
      /\ indexedFiles' = indexedFiles \cup {f}
      /\ faults' \in {faults, faults + 1}
      /\ EndChange(f) /\ StoreContent(committed)
  BY DEF FinishChange, Fault
<1> HIDE DEF embed
<1>5. table \in Table /\ queue \in [Priorities -> Seq(Mutation)]
  BY <1>2, <1>3, RegisterType, EnqueueType
<1> HIDE DEF f, table, queue
<1>6. pending' \in Table /\ fileQueue' \in [Priorities -> Seq(Mutation)]
  BY <1>1, <1>4, <1>5, DrainedType DEF TypeOK
<1>7. nextId' \in [Keys -> Nat]
  BY <1>2, <1>4, BuildIdsType
<1>8. recent' \in [Paths -> EventTypes \cup {NoEvent}]
  BY <1>1, <1>2, <1>4
<1>9. active' \subseteq Files /\ reserved' \in [Files -> Nat]
  BY <1>1, <1>2, <1>4 DEF EndChange, NoGeneration
<1>10. LoopType'
  BY <1>4, GoIdleType DEF EndChange, TypeOK
<1>11. db' \in [Files -> Nat] /\ dbGen' \in [Files -> Nat] /\ embedded' \subseteq Files
  <2>1. IndexType /\ content \in Nat
    BY DEF TypeOK, LoopType
  <2> QED BY <1>1, <1>4, <2>1, StoreContentType
<1>12. faults' \in Nat /\ indexedFiles' \subseteq Files
  BY <1>1, <1>2, <1>4
<1>13. EnvironmentType' /\ IntakeType'
  BY <1>8, <1>12 DEF FinishChange, TypeOK, EnvironmentType, IntakeType
<1>14. WorkType'
  BY <1>6, <1>7, <1>9 DEF FinishChange, TypeOK, WorkType
<1>15. IndexType'
  BY <1>11, <1>12 DEF FinishChange, TypeOK, IndexType
<1> QED BY <1>10, <1>13, <1>14, <1>15 DEF TypeOK

\* A directory cleanup queues its deletes in some order.
LEMMA DirCleanupType ==
  ASSUME TypeOK, DirCleanup
  PROVE  WorkType'
<1> DEFINE rows == {f \in FilesUnder[cur.path] : db[f] # 0}
           delete(f) == FreshMutation(nextId[<<"delete", f>>] + 1, "delete", f, cur.gen)
           accepted == {f \in rows : CanRegister(pending, delete(f))}
<1>1. cur \in Mutation /\ cur.op = "dir_delete" /\ pc = "dir_delete"
  BY DEF DirCleanup, TypeOK, LoopType
<1>2. cur.path \in Dirs /\ cur.gen \in Nat
  BY <1>1, MutationFields DEF DirOperations
<1>3. accepted \subseteq Files
  BY <1>2, PathAssumption
<1>4. ASSUME NEW f \in Files
      PROVE  delete(f) \in Mutation /\ Key(delete(f)) = <<"delete", f>>
  <2>1. nextId[<<"delete", f>>] + 1 \in Nat /\ "delete" \in FileOperations
    <3>1. nextId \in [Keys -> Nat]
      BY DEF TypeOK, WorkType
    <3>2. <<"delete", f>> \in Keys
      BY FileKeys
    <3>3. nextId[<<"delete", f>>] \in Nat
      BY <3>1, <3>2
    <3> QED BY <3>3 DEF FileOperations
  <2> QED BY <1>2, <2>1, FreshFileMutation
<1>5. /\ nextId' = BuildIds({"delete"} \X rows)
      /\ pending' = [k \in Keys |->
                       IF k[1] = "delete" /\ k[2] \in accepted THEN delete(k[2])
                       ELSE pending[k]]
      /\ \E s \in Orderings(accepted) :
           fileQueue' = [fileQueue EXCEPT ![0] = @ \o [i \in DOMAIN s |-> delete(s[i])]]
  BY DEF DirCleanup
<1> HIDE DEF rows, delete, accepted
<1>6. nextId' \in [Keys -> Nat]
  BY <1>5, BuildIdsType DEF TypeOK, WorkType
<1>7. pending' \in Table
  <2>1. pending \in Table
    BY DEF TypeOK, WorkType
  <2>2. \A k \in Keys : k[1] = "delete" => k = <<"delete", k[2]>>
    BY DEF Keys
  <2>3. ASSUME NEW k \in Keys
        PROVE  /\ pending'[k] \in Mutation \cup {NoMutation}
               /\ pending'[k] # NoMutation => Key(pending'[k]) = k
    BY <1>3, <1>4, <1>5, <2>1, <2>2 DEF Table
  <2> QED BY <1>5, <2>3 DEF Table
<1>8. fileQueue' \in [Priorities -> Seq(Mutation)]
  <2>1. PICK s \in Orderings(accepted) :
          fileQueue' = [fileQueue EXCEPT ![0] = @ \o [i \in DOMAIN s |-> delete(s[i])]]
    BY <1>5
  <2>2. Cardinality(accepted) \in Nat
    BY <1>3, PathAssumption, FS_Subset, FS_CardinalityType
  <2>3. s \in Seq(accepted) /\ DOMAIN s = 1..Cardinality(accepted)
    BY <2>1, <2>2 DEF Orderings
  <2>4. \A i \in 1..Cardinality(accepted) : delete(s[i]) \in Mutation
    BY <1>3, <1>4, <2>1 DEF Orderings
  <2>5. [i \in DOMAIN s |-> delete(s[i])] \in Seq(Mutation)
    BY <2>2, <2>3, <2>4
  <2>6. fileQueue \in [Priorities -> Seq(Mutation)]
    BY DEF TypeOK, WorkType
  <2>7. fileQueue[0] \o [i \in DOMAIN s |-> delete(s[i])] \in Seq(Mutation)
    BY <2>5, <2>6, ConcatProperties DEF Priorities
  <2> QED BY <2>1, <2>6, <2>7
<1> QED BY <1>6, <1>7, <1>8 DEF DirCleanup, TypeOK, WorkType

\* The processing task's successful steps keep every variable in its type.
LEMMA WorkStepType ==
  ASSUME TypeOK, Work
  PROVE  TypeOK'
<1>1. CASE ReadFile
  <2>1. disk \in [Paths -> Nat] /\ cur \in Mutation /\ cur.op = "change"
    BY <1>1 DEF ReadFile, TypeOK, EnvironmentType, LoopType
  <2>2. content' \in Nat
    BY <1>1, <2>1, MutationFields DEF ReadFile
  <2>3. LoopType'
    BY <1>1, <2>1, <2>2 DEF ReadFile, TypeOK, LoopType, ProcessStates
  <2> QED
    BY <1>1, <2>3 DEF ReadFile, TypeOK, EnvironmentType, IntakeType, WorkType, IndexType
<1>2. CASE FinishChange(TRUE)
  BY <1>2, FinishChangeType
<1>3. CASE DeletesApplied
  <2>1. LoopType'
    BY <1>3, GoIdleType DEF DeletesApplied, TypeOK
  <2>2. \A m \in batch : m.path \in Files
    BY MutationFields DEF TypeOK, LoopType, FileOperations
  <2>3. IndexType'
    BY <1>3, <2>2 DEF DeletesApplied, TypeOK, IndexType, NoGeneration
  <2> QED
    BY <1>3, <2>1, <2>3 DEF DeletesApplied, TypeOK, EnvironmentType, IntakeType, WorkType
<1>4. CASE EmbedDone
  <2>1. LoopType'
    BY <1>4, GoIdleType DEF EmbedDone, TypeOK
  <2> QED
    BY <1>4, <2>1 DEF EmbedDone, TypeOK, EnvironmentType, IntakeType, WorkType, IndexType
<1>5. CASE DirCleanup
  <2>1. LoopType'
    BY <1>5, GoIdleType DEF DirCleanup, TypeOK
  <2>2. WorkType'
    BY <1>5, DirCleanupType
  <2> QED
    BY <1>5, <2>1, <2>2 DEF DirCleanup, TypeOK, EnvironmentType, IntakeType, IndexType
<1>6. CASE DirList
  <2>1. cur.path \in Dirs
    BY <1>6, MutationFields DEF DirList, TypeOK, LoopType, DirOperations
  <2>2. listed' \subseteq Files
    BY <1>6, <2>1, PathAssumption DEF DirList
  <2>3. LoopType'
    BY <1>6, <2>2 DEF DirList, TypeOK, LoopType, ProcessStates
  <2> QED
    BY <1>6, <2>3 DEF DirList, TypeOK, EnvironmentType, IntakeType, WorkType, IndexType
<1>7. CASE DirQueue
  <2>1. LoopType'
    BY <1>7, GoIdleType DEF DirQueue, TypeOK
  <2>2. WorkType'
    BY <1>7, AddChangesType DEF DirQueue, TypeOK, LoopType
  <2> QED
    BY <1>7, <2>1, <2>2 DEF DirQueue, TypeOK, EnvironmentType, IntakeType, IndexType
<1> QED BY <1>1, <1>2, <1>3, <1>4, <1>5, <1>6, <1>7 DEF Work

\* Scheduling retries of any mutations keeps the work state well typed.
LEMMA ScheduleRetriesType ==
  ASSUME TypeOK, NEW ms \in SUBSET Mutation, ScheduleRetries(ms),
         UNCHANGED <<debounce, debounceTasks, fileQueue, active, reserved>>
  PROVE  /\ WorkType'
         /\ failedFiles' \subseteq Paths /\ errorCount' \in Nat
<1> DEFINE within == {m \in ms : m.retry < MaxRetryBudget}
           retries == {RetryMutation(m) : m \in within}
<1>1. /\ nextId \in [Keys -> Nat] /\ pending \in Table /\ retryTasks \subseteq Mutation
      /\ failedFiles \subseteq Paths /\ errorCount \in Nat
  BY DEF TypeOK, WorkType, IndexType
<1>2. retries \subseteq Mutation
  <2>1. ASSUME NEW m \in Mutation
        PROVE  RetryMutation(m) \in Mutation
    <3>1. Key(m) \in Keys
      BY MutationFields
    <3>2. nextId[Key(m)] + 1 \in Nat
      BY <1>1, <3>1
    <3> QED BY <3>2, RetryMutationType DEF RetryMutation
  <2> QED BY <2>1
<1>3. /\ nextId' = BuildIds({Key(m) : m \in within})
      /\ pending' = RegisterAll(pending, retries)
      /\ retryTasks' = retryTasks \cup {r \in retries : CanRegister(pending, r)}
  BY DEF ScheduleRetries
<1>4. /\ failedFiles' = failedFiles \cup {m.path : m \in ms \ within}
      /\ errorCount' \in {errorCount, errorCount + 1}
  BY DEF ScheduleRetries
<1>5. failedFiles' \subseteq Paths /\ errorCount' \in Nat
  BY <1>1, <1>4, MutationFields
<1> HIDE DEF within, retries
<1>6. nextId' \in [Keys -> Nat]
  BY <1>1, <1>3, BuildIdsType
<1>7. pending' \in Table /\ retryTasks' \subseteq Mutation
  BY <1>1, <1>2, <1>3, RegisterAllType
<1> QED BY <1>5, <1>6, <1>7 DEF TypeOK, WorkType

\* A failing change keeps every variable in its type.
LEMMA ChangeFailureType ==
  ASSUME TypeOK, NEW committed \in BOOLEAN,
         ChangeBusy(committed) \/ ChangeError(committed)
  PROVE  TypeOK'
<1> DEFINE f == cur.path
           table == DrainedTable(pending, f)
           retry == RetryOf(cur, DrainedId(f) + 1)
<1>1. cur \in Mutation /\ cur.op = "change" /\ f \in Files /\ f \in Paths
  BY MutationFields, FileKeys
     DEF ChangeBusy, ChangeError, TypeOK, LoopType, FileOperations
<1>2. /\ pending \in Table /\ fileQueue \in [Priorities -> Seq(Mutation)]
      /\ nextId \in [Keys -> Nat] /\ retryTasks \subseteq Mutation
      /\ active \subseteq Files /\ reserved \in [Files -> Nat]
      /\ failedFiles \subseteq Paths /\ errorCount \in Nat /\ faults \in Nat
  BY DEF TypeOK, EnvironmentType, IntakeType, WorkType, IndexType
<1>3. /\ fileQueue' = DrainedQueue(pending, fileQueue, f)
      /\ failedFiles' \in {failedFiles, failedFiles \cup {f}}
      /\ errorCount' \in {errorCount, errorCount + 1}
      /\ faults' = faults + 1
      /\ EndChange(f) /\ StoreContent(committed)
  BY DEF ChangeBusy, ChangeError, Fault
<1>4. /\ \/ pending' = table /\ retryTasks' = retryTasks
         \/ pending' = Register(table, retry) /\ retryTasks' = retryTasks \cup {retry}
      /\ \/ nextId' = BuildIds(DrainedKeys(f))
         \/ \E n \in {DrainedId(f), DrainedId(f) + 1} :
              nextId' = [nextId EXCEPT ![<<"change", f>>] = n]
  BY DEF ChangeBusy, ChangeError
<1>5. DrainedId(f) \in Nat /\ DrainedId(f) + 1 \in Nat
  BY <1>1, BuiltMutations DEF TypeOK
<1>6. retry \in Mutation
  BY <1>1, <1>5, RetryMutationType
<1>7. table \in Table /\ fileQueue' \in [Priorities -> Seq(Mutation)]
  BY <1>1, <1>2, <1>3, DrainedType DEF TypeOK
<1> HIDE DEF f, table, retry
<1>8. pending' \in Table /\ retryTasks' \subseteq Mutation
  BY <1>2, <1>4, <1>6, <1>7, RegisterType
<1>9. nextId' \in [Keys -> Nat]
  BY <1>1, <1>2, <1>4, <1>5, BuildIdsType, FileKeys
<1>10. active' \subseteq Files /\ reserved' \in [Files -> Nat]
  BY <1>1, <1>2, <1>3 DEF EndChange, NoGeneration
<1>11. LoopType'
  BY <1>3, GoIdleType DEF EndChange, TypeOK
<1>12. db' \in [Files -> Nat] /\ dbGen' \in [Files -> Nat] /\ embedded' \subseteq Files
  <2>1. IndexType /\ content \in Nat
    BY DEF TypeOK, LoopType
  <2> QED BY <1>1, <1>3, <2>1, StoreContentType
<1>13. faults' \in Nat /\ failedFiles' \subseteq Paths /\ errorCount' \in Nat
  BY <1>1, <1>2, <1>3
<1>14. EnvironmentType' /\ IntakeType'
  BY <1>13 DEF ChangeBusy, ChangeError, TypeOK, EnvironmentType, IntakeType
<1>15. WorkType'
  BY <1>7, <1>8, <1>9, <1>10 DEF ChangeBusy, ChangeError, TypeOK, WorkType
<1>16. IndexType'
  BY <1>12, <1>13 DEF ChangeBusy, ChangeError, TypeOK, IndexType
<1> QED BY <1>11, <1>14, <1>15, <1>16 DEF TypeOK

\* The processing task's failing steps keep every variable in its type.
LEMMA FailureType ==
  ASSUME TypeOK, Failure
  PROVE  TypeOK'
<1>1. CASE FinishChange(FALSE)
  BY <1>1, FinishChangeType
<1>2. ASSUME NEW committed \in BOOLEAN, ChangeBusy(committed) \/ ChangeError(committed)
      PROVE  TypeOK'
  BY <1>2, ChangeFailureType
<1>3. ASSUME NEW ms \in SUBSET Mutation, ScheduleRetries(ms), GoIdle,
             faults' = faults + 1,
             UNCHANGED <<envVars, intakeVars, recent, debounce, debounceTasks, fileQueue,
                         active, reserved, dbVars, indexedFiles, removedFiles>>
      PROVE  TypeOK'
  <2>1. WorkType' /\ failedFiles' \subseteq Paths /\ errorCount' \in Nat
    BY <1>3, ScheduleRetriesType
  <2>2. LoopType'
    BY <1>3, GoIdleType DEF TypeOK
  <2>3. EnvironmentType' /\ IntakeType'
    BY <1>3 DEF TypeOK, EnvironmentType, IntakeType
  <2>4. IndexType'
    BY <1>3, <2>1 DEF TypeOK, IndexType
  <2> QED BY <2>1, <2>2, <2>3, <2>4 DEF TypeOK
<1>4. batch \subseteq Mutation /\ {m \in batch : ~IsStale(latestGen, m)} \subseteq Mutation
  BY DEF TypeOK, LoopType
<1>5. CASE DeletesConflict
  BY <1>3, <1>4, <1>5 DEF DeletesConflict, Fault
<1>6. CASE DeletesBusy
  BY <1>3, <1>4, <1>6 DEF DeletesBusy, Fault
<1>7. CASE PassBusy
  <2>1. {cur} \subseteq Mutation
    BY <1>7 DEF PassBusy, TypeOK, LoopType
  <2> QED BY <1>3, <1>7, <2>1 DEF PassBusy, Fault
<1>8. ASSUME DeletesError \/ PassError
      PROVE  TypeOK'
  <2>1. LoopType'
    BY <1>8, GoIdleType DEF DeletesError, PassError, TypeOK
  <2>2. failedFiles \subseteq Paths /\ errorCount \in Nat /\ faults \in Nat
    BY DEF TypeOK, EnvironmentType, IndexType
  <2>3. faults' \in Nat /\ errorCount' \in Nat
    BY <1>8, <2>2 DEF DeletesError, PassError, Fault, GiveUp
  <2>4. \A m \in batch : m.path \in Paths
    BY <1>4, MutationFields
  <2>5. pc = "dir_delete" => cur.path \in Paths
    BY MutationFields DEF TypeOK, LoopType
  <2>6. failedFiles' \subseteq Paths
    BY <1>8, <2>2, <2>4, <2>5 DEF DeletesError, PassError, GiveUp
  <2>7. EnvironmentType' /\ IntakeType'
    BY <1>8, <2>3 DEF DeletesError, PassError, TypeOK, EnvironmentType, IntakeType
  <2>8. WorkType'
    BY <1>8 DEF DeletesError, PassError, GiveUp, TypeOK, WorkType
  <2>9. IndexType'
    BY <1>8, <2>3, <2>6 DEF DeletesError, PassError, TypeOK, IndexType
  <2> QED BY <2>1, <2>7, <2>8, <2>9 DEF TypeOK
<1> QED BY <1>1, <1>2, <1>5, <1>6, <1>7, <1>8 DEF Failure

\* Every step keeps every variable in its type.
LEMMA NextType == TypeOK /\ [Next]_vars => TypeOK'
<1> SUFFICES ASSUME TypeOK, [Next]_vars PROVE TypeOK'
  OBVIOUS
<1>1. CASE UNCHANGED vars
  BY <1>1 DEF vars, TypeOK, EnvironmentType, IntakeType, WorkType, LoopType, IndexType
<1>2. CASE Next
  BY <1>2, EditType, DedupType, IntakeStepType, ConsumeType, SleepersType, StartType,
     WorkStepType, FailureType DEF Next
<1> QED BY <1>1, <1>2

\* Type correctness of the pipeline: every field of the service has its type,
\* every entry of _pending_mutations belongs to its key, and the processing
\* task's mutation is of the kind its position in _process_loop implies.
THEOREM TypeCorrect == Spec => []TypeOK
  BY InitType, NextType, PTL DEF Spec

-----------------------------------------------------------------------------
(* Every pending mutation is carried.                                      *)

\* The mutations in the queues.
Queued(queue) == UNION {{queue[pr][i] : i \in DOMAIN queue[pr]} : pr \in Priorities}

\* The invariant in terms of Covered.
LEMMA CarriedIsCovered ==
  /\ Carried = debounceTasks \cup retryTasks \cup Queued(fileQueue)
  /\ PendingIsCarried <=> Covered(pending, Carried)
  BY DEF Carried, Queued, PendingIsCarried, Covered

\* The same in the next state.
LEMMA CarriedIsCoveredNext ==
  /\ Carried' = debounceTasks' \cup retryTasks' \cup Queued(fileQueue')
  /\ PendingIsCarried' <=> Covered(pending', Carried')
  BY DEF Carried, Queued, PendingIsCarried, Covered

\* A mutation is queued if some queue holds it at some position.
LEMMA QueuedAt ==
  ASSUME NEW queue, NEW m
  PROVE  m \in Queued(queue) <=>
           \E pr \in Priorities : \E i \in DOMAIN queue[pr] : queue[pr][i] = m
  BY DEF Queued

\* An enqueued mutation is queued, and so is all that was queued before.
LEMMA EnqueueQueued ==
  ASSUME NEW queue \in [Priorities -> Seq(Mutation)], NEW m \in Mutation
  PROVE  Queued(queue) \cup {m} \subseteq Queued(Enqueue(queue, m))
<1> DEFINE pm == MutationPriority(m.op)
           new == Enqueue(queue, m)
<1>1. pm \in Priorities
  BY DEF MutationPriority, Priorities
<1>2. /\ new[pm] = Append(queue[pm], m)
      /\ \A pr \in Priorities : pr # pm => new[pr] = queue[pr]
  BY <1>1 DEF Enqueue
<1>3. queue[pm] \in Seq(Mutation)
  BY <1>1
<1> HIDE DEF pm, new
<1>4. Len(queue[pm]) + 1 \in DOMAIN new[pm] /\ new[pm][Len(queue[pm]) + 1] = m
  BY <1>2, <1>3
<1>5. \A i \in DOMAIN queue[pm] : i \in DOMAIN new[pm] /\ new[pm][i] = queue[pm][i]
  BY <1>2, <1>3
<1>6. ASSUME NEW pr \in Priorities, NEW i \in DOMAIN queue[pr]
      PROVE  i \in DOMAIN new[pr] /\ new[pr][i] = queue[pr][i]
  BY <1>2, <1>5
<1>7. m \in Queued(new)
  BY <1>1, <1>4, QueuedAt
<1>8. ASSUME NEW x \in Queued(queue)
      PROVE  x \in Queued(new)
  BY <1>6, QueuedAt
<1> QED BY <1>7, <1>8 DEF new

\* Dequeuing a head loses that mutation at most.
LEMMA DequeueQueued ==
  ASSUME NEW queue \in [Priorities -> Seq(Mutation)], NEW pr \in Priorities,
         queue[pr] # <<>>
  PROVE  Queued(queue) \ {Head(queue[pr])} \subseteq Queued([queue EXCEPT ![pr] = Tail(@)])
<1> DEFINE new == [queue EXCEPT ![pr] = Tail(@)]
<1>1. /\ new[pr] = Tail(queue[pr])
      /\ \A p \in Priorities : p # pr => new[p] = queue[p]
  OBVIOUS
<1>2. queue[pr] \in Seq(Mutation)
  OBVIOUS
<1> HIDE DEF new
<1>3. ASSUME NEW i \in DOMAIN queue[pr], queue[pr][i] # Head(queue[pr])
      PROVE  i - 1 \in DOMAIN new[pr] /\ new[pr][i - 1] = queue[pr][i]
  <2>1. i \in 1..Len(queue[pr]) /\ i # 1
    BY <1>2, <1>3
  <2>2. i - 1 \in 1..(Len(queue[pr]) - 1) /\ (i - 1) + 1 = i
    BY <1>2, <2>1
  <2>3. /\ Len(Tail(queue[pr])) = Len(queue[pr]) - 1
        /\ \A j \in 1..(Len(queue[pr]) - 1) : Tail(queue[pr])[j] = queue[pr][j + 1]
        /\ Tail(queue[pr]) \in Seq(Mutation)
    BY <1>2
  <2>4. DOMAIN Tail(queue[pr]) = 1..(Len(queue[pr]) - 1)
    BY <2>3
  <2> QED BY <1>1, <2>2, <2>3, <2>4
<1>4. ASSUME NEW x \in Queued(queue), x # Head(queue[pr])
      PROVE  x \in Queued(new)
  <2>1. PICK p \in Priorities : \E i \in DOMAIN queue[p] : queue[p][i] = x
    BY QueuedAt
  <2>2. \E j \in DOMAIN new[p] : new[p][j] = x
    BY <1>1, <1>3, <1>4, <2>1
  <2> QED BY <2>2, QueuedAt
<1> QED BY <1>4 DEF new

\* Dequeuing the first n deletes loses those mutations at most.
LEMMA DequeueRunQueued ==
  ASSUME NEW queue \in [Priorities -> Seq(Mutation)], NEW n \in Nat, n <= Len(queue[0])
  PROVE  Queued(queue) \ {queue[0][i] : i \in 1..n}
           \subseteq Queued([queue EXCEPT ![0] = SubSeq(@, n + 1, Len(@))])
<1> DEFINE new == [queue EXCEPT ![0] = SubSeq(@, n + 1, Len(@))]
           len == Len(queue[0])
<1>1. queue[0] \in Seq(Mutation) /\ 0 \in Priorities /\ len \in Nat
  BY DEF Priorities
<1>2. /\ new[0] = SubSeq(queue[0], n + 1, len)
      /\ \A p \in Priorities : p # 0 => new[p] = queue[p]
  BY <1>1
<1>3. /\ Len(SubSeq(queue[0], n + 1, len)) = len - n
      /\ \A j \in 1..(len - n) : SubSeq(queue[0], n + 1, len)[j] = queue[0][n + j]
      /\ SubSeq(queue[0], n + 1, len) \in Seq(Mutation)
  BY <1>1, SubSeqProperties
<1> HIDE DEF new, len
<1>4. ASSUME NEW i \in DOMAIN queue[0], i \notin 1..n
      PROVE  \E j \in DOMAIN new[0] : new[0][j] = queue[0][i]
  <2>1. i \in 1..len
    BY <1>1 DEF len
  <2>2. i - n \in 1..(len - n) /\ n + (i - n) = i
    BY <1>1, <1>4, <2>1 DEF len
  <2>3. DOMAIN new[0] = 1..(len - n)
    BY <1>2, <1>3
  <2> QED BY <1>2, <1>3, <2>2, <2>3
<1>5. ASSUME NEW x \in Queued(queue), x \notin {queue[0][i] : i \in 1..n}
      PROVE  x \in Queued(new)
  <2>1. PICK p \in Priorities : \E i \in DOMAIN queue[p] : queue[p][i] = x
    BY QueuedAt
  <2>2. \E j \in DOMAIN new[p] : new[p][j] = x
    BY <1>2, <1>4, <1>5, <2>1
  <2> QED BY <2>2, QueuedAt
<1> QED BY <1>5 DEF new

\* Appending mutations to the deletes queues them and keeps the rest.
LEMMA ConcatQueued ==
  ASSUME NEW queue \in [Priorities -> Seq(Mutation)], NEW s \in Seq(Mutation)
  PROVE  Queued(queue) \cup {s[i] : i \in DOMAIN s}
           \subseteq Queued([queue EXCEPT ![0] = @ \o s])
<1> DEFINE new == [queue EXCEPT ![0] = @ \o s]
           len == Len(queue[0])
<1>1. queue[0] \in Seq(Mutation) /\ 0 \in Priorities /\ len \in Nat
  BY DEF Priorities
<1>2. /\ new[0] = queue[0] \o s
      /\ \A p \in Priorities : p # 0 => new[p] = queue[p]
  BY <1>1
<1>3. /\ Len(queue[0] \o s) = len + Len(s)
      /\ \A j \in 1..(len + Len(s)) :
           (queue[0] \o s)[j] = IF j <= len THEN queue[0][j] ELSE s[j - len]
      /\ queue[0] \o s \in Seq(Mutation)
  BY <1>1, ConcatProperties
<1>4. DOMAIN new[0] = 1..(len + Len(s)) /\ DOMAIN s = 1..Len(s)
      /\ DOMAIN queue[0] = 1..len /\ Len(s) \in Nat
  BY <1>1, <1>2, <1>3
<1> HIDE DEF new, len
<1>5. ASSUME NEW i \in DOMAIN queue[0]
      PROVE  i \in DOMAIN new[0] /\ new[0][i] = queue[0][i]
  BY <1>1, <1>2, <1>3, <1>4
<1>6. ASSUME NEW i \in DOMAIN s
      PROVE  len + i \in DOMAIN new[0] /\ new[0][len + i] = s[i]
  <2>1. len + i \in 1..(len + Len(s)) /\ ~(len + i <= len) /\ (len + i) - len = i
    BY <1>1, <1>4
  <2> QED BY <1>2, <1>3, <1>4, <2>1
<1>7. ASSUME NEW x \in Queued(queue)
      PROVE  x \in Queued(new)
  <2>1. PICK p \in Priorities : \E i \in DOMAIN queue[p] : queue[p][i] = x
    BY QueuedAt
  <2>2. \E j \in DOMAIN new[p] : new[p][j] = x
    BY <1>2, <1>5, <2>1
  <2> QED BY <2>2, QueuedAt
<1>8. ASSUME NEW i \in DOMAIN s
      PROVE  s[i] \in Queued(new)
  BY <1>1, <1>6, QueuedAt
<1> QED BY <1>7, <1>8 DEF new

\* Draining a reserved follow-up keeps every entry carried: a follow-up that
\* registers is queued.
LEMMA DrainedCovered ==
  ASSUME IntakeType, WorkType, NEW f \in Files, NEW table \in Table, NEW C,
         NEW queue \in [Priorities -> Seq(Mutation)],
         Covered(table, C \cup Queued(queue))
  PROVE  Covered(DrainedTable(table, f), C \cup Queued(DrainedQueue(table, queue, f)))
<1>1. reserved[f] \in Nat /\ f \in Paths
  BY FileKeys DEF WorkType
<1>2. FollowUp(f) \in Mutation
  BY BuiltMutations
<1>3. CASE reserved[f] = NoGeneration
  BY <1>3 DEF DrainedTable, DrainedQueue
<1>4. CASE reserved[f] # NoGeneration /\ CanRegister(table, FollowUp(f))
  <2>1. /\ DrainedTable(table, f) = Register(table, FollowUp(f))
        /\ DrainedQueue(table, queue, f) = Enqueue(queue, FollowUp(f))
    BY <1>4 DEF DrainedTable, DrainedQueue
  <2>2. Covered(Register(table, FollowUp(f)), (C \cup Queued(queue)) \cup {FollowUp(f)})
    BY <1>2, CoveredRegister
  <2>3. Queued(queue) \cup {FollowUp(f)} \subseteq Queued(Enqueue(queue, FollowUp(f)))
    BY <1>2, EnqueueQueued
  <2>4. (C \cup Queued(queue)) \cup {FollowUp(f)}
          \subseteq C \cup Queued(Enqueue(queue, FollowUp(f)))
    BY <2>3
  <2> QED BY <2>1, <2>2, <2>4, CoveredMore
<1>5. CASE reserved[f] # NoGeneration /\ ~CanRegister(table, FollowUp(f))
  <2>1. /\ DrainedTable(table, f) = RefreshGeneration(table, f, reserved[f])
        /\ DrainedQueue(table, queue, f) = queue
    BY <1>5 DEF DrainedTable, DrainedQueue
  <2> QED BY <1>1, <2>1, CoveredRefresh
<1> QED BY <1>3, <1>4, <1>5

\* A step that leaves the table and all carriers alone keeps the invariant.
LEMMA UntouchedCarried ==
  ASSUME PendingIsCarried, UNCHANGED <<pending, debounceTasks, retryTasks, fileQueue>>
  PROVE  PendingIsCarried'
  BY DEF PendingIsCarried, Carried

\* add_file: a new entry is carried by the debounce task it starts.
LEMMA AddChangesCarried ==
  ASSUME TypeOK, PendingIsCarried, NEW S \in SUBSET Files, AddChanges(S),
         UNCHANGED <<retryTasks, fileQueue>>
  PROVE  PendingIsCarried'
<1> DEFINE Entry(k) == RefreshGeneration(pending, k[2], latestGen[k[2]])[k]
<1>1. Covered(pending, Carried) /\ pending \in Table
  BY CarriedIsCovered DEF TypeOK, WorkType
<1>2. PICK new \in SUBSET S :
        /\ debounceTasks' = debounceTasks \cup {NewChange(f) : f \in new}
        /\ \A k \in Keys :
             \/ pending'[k] = pending[k]
             \/ k[1] = "change" /\ k[2] \in new /\ pending'[k] = NewChange(k[2])
             \/ k[1] = "change" /\ k[2] \in S /\ pending'[k] = Entry(k)
  BY DEF AddChanges
<1>3. Carried \cup {NewChange(f) : f \in new} \subseteq Carried'
  BY <1>2, CarriedIsCovered, CarriedIsCoveredNext
<1>4. ASSUME NEW k \in Keys, k[1] = "change", k[2] \in S
      PROVE  /\ Key(NewChange(k[2])) = k
             /\ Entry(k) # NoMutation => pending[k] # NoMutation /\ Entry(k).id = pending[k].id
  <2>1. k[2] \in Paths /\ latestGen[k[2]] \in Nat /\ k = <<"change", k[2]>>
    BY <1>4 DEF TypeOK, IntakeType, Keys, Paths
  <2>2. Key(NewChange(k[2])) = k
    BY <1>4, <2>1, BuiltMutations DEF TypeOK
  <2> QED BY <1>1, <2>1, <2>2, RefreshGenerationType
<1> HIDE DEF Entry
<1>5. ASSUME NEW k \in Keys, pending'[k] # NoMutation
      PROVE  \E m \in Carried' : Key(m) = k /\ m.id = pending'[k].id
  <2>1. CASE pending'[k] = pending[k]
    BY <1>1, <1>3, <1>5, <2>1 DEF Covered
  <2>2. CASE k[1] = "change" /\ k[2] \in new /\ pending'[k] = NewChange(k[2])
    <3>1. NewChange(k[2]) \in Carried' /\ Key(NewChange(k[2])) = k
      BY <1>3, <1>4, <2>2
    <3> QED BY <2>2, <3>1
  <2>3. CASE k[1] = "change" /\ k[2] \in S /\ pending'[k] = Entry(k)
    BY <1>1, <1>3, <1>4, <1>5, <2>3 DEF Covered
  <2> QED BY <1>2, <2>1, <2>2, <2>3
<1> QED BY <1>5 DEF PendingIsCarried

\* Event intake and consumption.
LEMMA EventsCarried ==
  ASSUME TypeOK, PendingIsCarried, Intake \/ Consume
  PROVE  PendingIsCarried'
<1>1. /\ Covered(pending, Carried) /\ pending \in Table
      /\ Carried = debounceTasks \cup retryTasks \cup Queued(fileQueue)
      /\ fileQueue \in [Priorities -> Seq(Mutation)]
  BY CarriedIsCovered DEF TypeOK, WorkType
<1>2. CASE AcceptEvent
  <2> DEFINE e == Head(wire)
  <2>1. wire \in Seq(Event) /\ wire # <<>> /\ nextGen \in Nat
    BY <1>2 DEF AcceptEvent, TypeOK, EnvironmentType, IntakeType
  <2>2. e \in Event
    BY <2>1
  <2>3. e.path \in Paths /\ nextGen + 1 \in Nat
    BY <2>1, <2>2, EventFields
  <2>4. pending' = RefreshGeneration(pending, e.path, nextGen + 1)
    BY <1>2 DEF AcceptEvent
  <2>5. Carried' = Carried
    BY <1>2 DEF AcceptEvent, Carried
  <2> HIDE DEF e
  <2>6. Covered(pending', Carried)
    BY <1>1, <2>3, <2>4, CoveredRefresh
  <2> QED BY <2>5, <2>6, CarriedIsCoveredNext
<1>3. CASE DropEvent
  BY <1>3, UntouchedCarried DEF DropEvent
<1>4. CASE SuppressDuplicate
  BY <1>4, UntouchedCarried DEF SuppressDuplicate
<1>5. ASSUME NEW e \in Event, ConsumeChange(e)
      PROVE  PendingIsCarried'
  <2>1. e.path \in Files
    BY <1>5, EventFields DEF ConsumeChange, FileEventTypes
  <2> QED BY <1>5, <2>1, AddChangesCarried DEF ConsumeChange
<1>6. ASSUME NEW e \in Event, ConsumeImmediate(e)
      PROVE  PendingIsCarried'
  <2>1. PICK m \in Mutation : EnqueueNew(m)
    BY <1>6, ImmediateMutation
  <2>2. pending' = Register(pending, m)
    BY <2>1 DEF EnqueueNew
  <2>3. UNCHANGED <<debounceTasks, retryTasks>>
    BY <1>6 DEF ConsumeImmediate
  <2>4. CASE CanRegister(pending, m)
    <3>1. fileQueue' = Enqueue(fileQueue, m)
      BY <2>1, <2>4 DEF EnqueueNew
    <3>2. Queued(fileQueue) \cup {m} \subseteq Queued(fileQueue')
      BY <1>1, <3>1, EnqueueQueued
    <3>3. Carried \cup {m} \subseteq Carried'
      BY <1>1, <2>3, <3>2, CarriedIsCoveredNext
    <3>4. Covered(pending', Carried \cup {m})
      BY <1>1, <2>2, CoveredRegister
    <3> QED BY <3>3, <3>4, CoveredMore, CarriedIsCoveredNext
  <2>5. CASE ~CanRegister(pending, m)
    <3>1. fileQueue' = fileQueue
      BY <2>1, <2>5 DEF EnqueueNew
    <3>2. Carried' = Carried
      BY <2>3, <3>1 DEF Carried
    <3>3. Covered(pending', Carried)
      BY <1>1, <2>2, <2>5, CoveredRegister
    <3> QED BY <3>2, <3>3, CarriedIsCoveredNext
  <2> QED BY <2>4, <2>5
<1>7. eventQueue # <<>> => Head(eventQueue) \in Event
  BY DEF TypeOK, IntakeType
<1>8. ASSUME NEW e \in Event, ConsumeAccess(e)
      PROVE  PendingIsCarried'
  BY <1>8, UntouchedCarried DEF ConsumeAccess
<1> QED BY <1>2, <1>3, <1>4, <1>5, <1>6, <1>7, <1>8 DEF Intake, Consume

\* The tasks that wake up hand their mutation to the queue or release it.
LEMMA SleepersCarried ==
  ASSUME TypeOK, PendingIsCarried, Sleepers
  PROVE  PendingIsCarried'
<1>1. /\ Covered(pending, Carried) /\ pending \in Table
      /\ Carried = debounceTasks \cup retryTasks \cup Queued(fileQueue)
      /\ fileQueue \in [Priorities -> Seq(Mutation)]
      /\ debounceTasks \subseteq Mutation /\ retryTasks \subseteq Mutation
  BY CarriedIsCovered DEF TypeOK, WorkType
<1>2. ASSUME NEW t \in Mutation, NEW m \in Mutation, Key(m) = Key(t), Owns(pending, m),
             fileQueue' = Enqueue(fileQueue, m), pending' = pending,
             (debounceTasks \cup retryTasks) \ {t} \subseteq debounceTasks' \cup retryTasks'
      PROVE  PendingIsCarried'
  <2>1. Queued(fileQueue) \cup {m} \subseteq Queued(fileQueue')
    BY <1>1, <1>2, EnqueueQueued
  <2>2. (Carried \ {t}) \cup {m} \subseteq Carried'
    BY <1>1, <1>2, <2>1, CarriedIsCoveredNext
  <2>3. Covered(pending', (Carried \ {t}) \cup {m})
    BY <1>1, <1>2, CoveredReplace
  <2> QED BY <2>2, <2>3, CoveredMore, CarriedIsCoveredNext
<1>3. ASSUME NEW t \in Mutation, fileQueue' = fileQueue,
             \/ pending' = Release(pending, t)
             \/ pending' = pending /\ ~Owns(pending, t),
             (debounceTasks \cup retryTasks) \ {t} \subseteq debounceTasks' \cup retryTasks'
      PROVE  PendingIsCarried'
  <2>1. Carried \ {t} \subseteq Carried'
    BY <1>1, <1>3, CarriedIsCoveredNext
  <2>2. Covered(pending', Carried \ {t})
    BY <1>1, <1>3, CoveredRelease, CoveredWithout
  <2> QED BY <2>1, <2>2, CoveredMore, CarriedIsCoveredNext
<1>4. ASSUME NEW t \in debounceTasks, DebounceElapses(t)
      PROVE  PendingIsCarried'
  <2> DEFINE current == IF pending[Key(t)] = NoMutation THEN t ELSE pending[Key(t)]
  <2>1. t \in Mutation /\ Key(t) \in Keys
    BY <1>1, MutationFields
  <2>2. current \in Mutation /\ Key(current) = Key(t)
    BY <1>1, <2>1, TableEntry
  <2>3. \/ /\ Owns(pending, current)
           /\ fileQueue' = Enqueue(fileQueue, current) /\ pending' = pending
        \/ pending' = Release(pending, t) /\ fileQueue' = fileQueue
    BY <1>4 DEF DebounceElapses
  <2>4. (debounceTasks \cup retryTasks) \ {t} \subseteq debounceTasks' \cup retryTasks'
    BY <1>4 DEF DebounceElapses
  <2> HIDE DEF current
  <2> QED BY <1>2, <1>3, <2>1, <2>2, <2>3, <2>4
<1>5. ASSUME NEW t \in retryTasks, RetryElapses(t)
      PROVE  PendingIsCarried'
  <2>1. t \in Mutation
    BY <1>1
  <2>2. \/ pending' = pending /\ ~Owns(pending, t) /\ fileQueue' = fileQueue
        \/ pending' = Release(pending, t) /\ fileQueue' = fileQueue
        \/ Owns(pending, t) /\ pending' = pending /\ fileQueue' = Enqueue(fileQueue, t)
    BY <1>5 DEF RetryElapses
  <2>3. (debounceTasks \cup retryTasks) \ {t} \subseteq debounceTasks' \cup retryTasks'
    BY <1>5 DEF RetryElapses
  <2> QED BY <1>2, <1>3, <2>1, <2>2, <2>3
<1> QED BY <1>4, <1>5 DEF Sleepers

\* A dequeued mutation is released before it is processed.
LEMMA StartCarried ==
  ASSUME TypeOK, PendingIsCarried, Start
  PROVE  PendingIsCarried'
<1>1. /\ Covered(pending, Carried) /\ pending \in Table
      /\ Carried = debounceTasks \cup retryTasks \cup Queued(fileQueue)
      /\ fileQueue \in [Priorities -> Seq(Mutation)]
  BY CarriedIsCovered DEF TypeOK, WorkType
<1>2. CASE StartBuffered
  BY <1>2, UntouchedCarried DEF StartBuffered
<1>3. ASSUME NEW ms \in SUBSET Mutation, pending' = ReleaseAll(pending, ms),
             Queued(fileQueue) \ ms \subseteq Queued(fileQueue'),
             UNCHANGED <<debounceTasks, retryTasks>>
      PROVE  PendingIsCarried'
  <2>1. Carried \ ms \subseteq Carried'
    BY <1>1, <1>3, CarriedIsCoveredNext
  <2>2. Covered(pending', Carried \ ms)
    BY <1>1, <1>3, CoveredReleaseAll
  <2> QED BY <2>1, <2>2, CoveredMore, CarriedIsCoveredNext
<1>4. CASE StartQueued
  <2>1. PICK pr \in Priorities :
          /\ fileQueue[pr] # <<>>
          /\ fileQueue' = [fileQueue EXCEPT ![pr] = Tail(@)]
          /\ pending' = Release(pending, Head(fileQueue[pr]))
    BY <1>4 DEF StartQueued, IsHead
  <2> DEFINE m == Head(fileQueue[pr])
  <2>2. m \in Mutation
    BY <1>1, <2>1, DequeueType
  <2>3. Queued(fileQueue) \ {m} \subseteq Queued(fileQueue')
    BY <1>1, <2>1, DequeueQueued
  <2> HIDE DEF m
  <2>4. Carried \ {m} \subseteq Carried'
    BY <1>1, <1>4, <2>3, CarriedIsCoveredNext DEF StartQueued
  <2>5. Covered(pending', Carried \ {m})
    BY <1>1, <2>1, <2>2, CoveredRelease DEF m
  <2> QED BY <2>4, <2>5, CoveredMore, CarriedIsCoveredNext
<1>5. CASE StartDeletes
  <2> DEFINE run(n) == {fileQueue[0][i] : i \in 1..n}
             rest(n) == [fileQueue EXCEPT ![0] = SubSeq(@, n + 1, Len(@))]
  <2>1. PICK n \in 1..DeleteBatchSize :
          /\ IsDeleteRun(n)
          /\ \/ /\ fileQueue' = rest(n)
                /\ pending' = ReleaseAll(pending, run(n))
             \/ \E pr \in Priorities :
                  /\ IsHead(rest(n), pr)
                  /\ fileQueue' = [rest(n) EXCEPT ![pr] = Tail(@)]
                  /\ pending' = ReleaseAll(pending, run(n) \cup {Head(rest(n)[pr])})
    BY <1>5 DEF StartDeletes
  <2>2. n \in Nat /\ n <= Len(fileQueue[0])
    BY <2>1, BoundAssumption DEF IsDeleteRun
  <2>3. rest(n) \in [Priorities -> Seq(Mutation)] /\ run(n) \subseteq Mutation
    BY <1>1, <2>2, DequeueRunType
  <2>4. Queued(fileQueue) \ run(n) \subseteq Queued(rest(n))
    BY <1>1, <2>2, DequeueRunQueued
  <2>5. UNCHANGED <<debounceTasks, retryTasks>>
    BY <1>5 DEF StartDeletes
  <2> HIDE DEF run, rest
  <2>6. CASE fileQueue' = rest(n) /\ pending' = ReleaseAll(pending, run(n))
    BY <1>3, <2>3, <2>4, <2>5, <2>6
  <2>7. ASSUME NEW pr \in Priorities, IsHead(rest(n), pr),
               fileQueue' = [rest(n) EXCEPT ![pr] = Tail(@)],
               pending' = ReleaseAll(pending, run(n) \cup {Head(rest(n)[pr])})
        PROVE  PendingIsCarried'
    <3> DEFINE ms == run(n) \cup {Head(rest(n)[pr])}
    <3>1. rest(n)[pr] # <<>>
      BY <2>7 DEF IsHead
    <3>2. ms \subseteq Mutation
      BY <2>3, <3>1, DequeueType
    <3>3. Queued(rest(n)) \ {Head(rest(n)[pr])} \subseteq Queued(fileQueue')
      BY <2>3, <2>7, <3>1, DequeueQueued
    <3>4. Queued(fileQueue) \ ms \subseteq Queued(fileQueue')
      BY <2>4, <3>3
    <3>5. pending' = ReleaseAll(pending, ms)
      BY <2>7
    <3> HIDE DEF ms
    <3> QED BY <1>3, <2>5, <3>2, <3>4, <3>5
  <2> QED BY <2>1, <2>6, <2>7
<1> QED BY <1>2, <1>4, <1>5 DEF Start

\* The embed mutation and the drained follow-up of a finished change are
\* queued whenever they are registered.
LEMMA FinishChangeCarried ==
  ASSUME TypeOK, PendingIsCarried, NEW committed \in BOOLEAN, FinishChange(committed)
  PROVE  PendingIsCarried'
<1> DEFINE f == cur.path
           id == nextId[<<"embed", f>>] + 1
           embed == FreshMutation(id, "embed", f, NoGeneration)
           table == Register(pending, embed)
           queue == IF CanRegister(pending, embed) THEN Enqueue(fileQueue, embed)
                    ELSE fileQueue
           tasks == debounceTasks \cup retryTasks
<1>1. cur \in Mutation /\ cur.op = "change" /\ f \in Files
  BY MutationFields DEF FinishChange, TypeOK, LoopType, FileOperations
<1>2. /\ pending \in Table /\ fileQueue \in [Priorities -> Seq(Mutation)]
      /\ nextId \in [Keys -> Nat]
  BY DEF TypeOK, WorkType
<1>3. embed \in Mutation
  <2>1. id \in Nat /\ "embed" \in FileOperations /\ NoGeneration \in Nat
    <3>1. <<"embed", f>> \in Keys
      BY <1>1, FileKeys
    <3>2. nextId[<<"embed", f>>] \in Nat
      BY <1>2, <3>1
    <3> QED BY <3>2 DEF FileOperations, NoGeneration
  <2> HIDE DEF id
  <2> QED BY <1>1, <2>1, FreshFileMutation
<1>4. pending' = DrainedTable(table, f) /\ fileQueue' = DrainedQueue(table, queue, f)
      /\ UNCHANGED <<debounceTasks, retryTasks>>
  BY DEF FinishChange
<1>5. Covered(pending, tasks \cup Queued(fileQueue))
  BY CarriedIsCovered
<1> HIDE DEF embed, tasks
<1>6. table \in Table /\ queue \in [Priorities -> Seq(Mutation)]
  BY <1>2, <1>3, RegisterType, EnqueueType
<1>7. Covered(table, tasks \cup Queued(queue))
  <2>1. CASE CanRegister(pending, embed)
    <3>1. Queued(fileQueue) \cup {embed} \subseteq Queued(queue)
      BY <1>2, <1>3, <2>1, EnqueueQueued
    <3>2. Covered(table, (tasks \cup Queued(fileQueue)) \cup {embed})
      BY <1>2, <1>3, <1>5, CoveredRegister
    <3>3. (tasks \cup Queued(fileQueue)) \cup {embed} \subseteq tasks \cup Queued(queue)
      BY <3>1
    <3> QED BY <3>2, <3>3, CoveredMore
  <2>2. CASE ~CanRegister(pending, embed)
    BY <1>2, <1>3, <1>5, <2>2, CoveredRegister
  <2> QED BY <2>1, <2>2
<1> HIDE DEF f, table, queue
<1>8. Covered(pending', tasks \cup Queued(fileQueue'))
  BY <1>1, <1>4, <1>6, <1>7, DrainedCovered DEF TypeOK
<1>9. Carried' = tasks \cup Queued(fileQueue')
  BY <1>4, CarriedIsCoveredNext DEF tasks
<1> QED BY <1>8, <1>9, CarriedIsCoveredNext

\* A directory cleanup queues the deletes it registers.
LEMMA DirCleanupCarried ==
  ASSUME TypeOK, PendingIsCarried, DirCleanup
  PROVE  PendingIsCarried'
<1> DEFINE rows == {f \in FilesUnder[cur.path] : db[f] # 0}
           delete(f) == FreshMutation(nextId[<<"delete", f>>] + 1, "delete", f, cur.gen)
           accepted == {f \in rows : CanRegister(pending, delete(f))}
<1>1. cur \in Mutation /\ cur.op = "dir_delete" /\ pc = "dir_delete"
  BY DEF DirCleanup, TypeOK, LoopType
<1>2. cur.path \in Dirs /\ cur.gen \in Nat
  BY <1>1, MutationFields DEF DirOperations
<1>3. accepted \subseteq Files
  BY <1>2, PathAssumption
<1>4. ASSUME NEW f \in Files
      PROVE  delete(f) \in Mutation /\ Key(delete(f)) = <<"delete", f>>
  <2>1. nextId[<<"delete", f>>] + 1 \in Nat /\ "delete" \in FileOperations
    <3>1. nextId \in [Keys -> Nat]
      BY DEF TypeOK, WorkType
    <3>2. <<"delete", f>> \in Keys
      BY FileKeys
    <3>3. nextId[<<"delete", f>>] \in Nat
      BY <3>1, <3>2
    <3> QED BY <3>3 DEF FileOperations
  <2> QED BY <1>2, <2>1, FreshFileMutation
<1>5. /\ pending' = [k \in Keys |->
                       IF k[1] = "delete" /\ k[2] \in accepted THEN delete(k[2])
                       ELSE pending[k]]
      /\ \E s \in Orderings(accepted) :
           fileQueue' = [fileQueue EXCEPT ![0] = @ \o [i \in DOMAIN s |-> delete(s[i])]]
      /\ UNCHANGED <<debounceTasks, retryTasks>>
  BY DEF DirCleanup
<1> HIDE DEF rows, delete, accepted
<1>6. PICK s \in Orderings(accepted) :
        fileQueue' = [fileQueue EXCEPT ![0] = @ \o [i \in DOMAIN s |-> delete(s[i])]]
  BY <1>5
<1> DEFINE deletes == [i \in DOMAIN s |-> delete(s[i])]
<1>7. Cardinality(accepted) \in Nat
  BY <1>3, PathAssumption, FS_Subset, FS_CardinalityType
<1>8. /\ DOMAIN s = 1..Cardinality(accepted)
      /\ \A i \in DOMAIN s : s[i] \in accepted
      /\ \A f \in accepted : \E i \in DOMAIN s : s[i] = f
  BY <1>6 DEF Orderings
<1>9. deletes \in Seq(Mutation)
  BY <1>3, <1>4, <1>7, <1>8
<1>10. ASSUME NEW f \in accepted
       PROVE  delete(f) \in {deletes[i] : i \in DOMAIN deletes}
  <2>1. PICK i \in DOMAIN s : s[i] = f
    BY <1>8
  <2>2. i \in DOMAIN deletes /\ deletes[i] = delete(f)
    BY <2>1
  <2> QED BY <2>2
<1>11. fileQueue \in [Priorities -> Seq(Mutation)]
  BY DEF TypeOK, WorkType
<1>12. fileQueue' = [fileQueue EXCEPT ![0] = @ \o deletes]
  BY <1>6
<1> HIDE DEF deletes
<1>13. Queued(fileQueue) \cup {deletes[i] : i \in DOMAIN deletes} \subseteq Queued(fileQueue')
  BY <1>9, <1>11, <1>12, ConcatQueued
<1>14. Carried \subseteq Carried' /\ \A f \in accepted : delete(f) \in Carried'
  BY <1>5, <1>10, <1>13, CarriedIsCovered, CarriedIsCoveredNext
<1>15. ASSUME NEW k \in Keys, pending'[k] # NoMutation
       PROVE  \E m \in Carried' : Key(m) = k /\ m.id = pending'[k].id
  <2>1. CASE k[1] = "delete" /\ k[2] \in accepted
    <3>1. k = <<"delete", k[2]>> /\ pending'[k] = delete(k[2])
      BY <1>5, <2>1 DEF Keys
    <3>2. Key(delete(k[2])) = k /\ delete(k[2]) \in Carried'
      BY <1>3, <1>4, <1>14, <2>1, <3>1
    <3> QED BY <3>1, <3>2
  <2>2. CASE ~(k[1] = "delete" /\ k[2] \in accepted)
    <3>1. pending'[k] = pending[k]
      BY <1>5, <2>2
    <3> QED BY <1>14, <1>15, <3>1 DEF PendingIsCarried
  <2> QED BY <2>1, <2>2
<1> QED BY <1>15 DEF PendingIsCarried

\* The processing task's successful steps.
LEMMA WorkCarried ==
  ASSUME TypeOK, PendingIsCarried, Work
  PROVE  PendingIsCarried'
<1>1. CASE ReadFile
  BY <1>1, UntouchedCarried DEF ReadFile
<1>2. CASE FinishChange(TRUE)
  BY <1>2, FinishChangeCarried
<1>3. CASE DeletesApplied
  BY <1>3, UntouchedCarried DEF DeletesApplied
<1>4. CASE EmbedDone
  BY <1>4, UntouchedCarried DEF EmbedDone
<1>5. CASE DirCleanup
  BY <1>5, DirCleanupCarried
<1>6. CASE DirList
  BY <1>6, UntouchedCarried DEF DirList
<1>7. CASE DirQueue
  <2>1. listed \subseteq Files
    BY DEF TypeOK, LoopType
  <2> QED BY <1>7, <2>1, AddChangesCarried DEF DirQueue
<1> QED BY <1>1, <1>2, <1>3, <1>4, <1>5, <1>6, <1>7 DEF Work

\* Scheduled retries are carried by the retry tasks they start.
LEMMA ScheduleRetriesCarried ==
  ASSUME TypeOK, PendingIsCarried, NEW ms \in SUBSET Mutation, ScheduleRetries(ms),
         UNCHANGED <<debounceTasks, fileQueue>>
  PROVE  PendingIsCarried'
<1> DEFINE retries == {RetryMutation(m) : m \in {m \in ms : m.retry < MaxRetryBudget}}
           registered == {r \in retries : CanRegister(pending, r)}
<1>1. nextId \in [Keys -> Nat] /\ pending \in Table
  BY DEF TypeOK, WorkType
<1>2. retries \subseteq Mutation
  <2>1. ASSUME NEW m \in Mutation
        PROVE  RetryMutation(m) \in Mutation
    <3>1. Key(m) \in Keys
      BY MutationFields
    <3>2. nextId[Key(m)] + 1 \in Nat
      BY <1>1, <3>1
    <3> QED BY <3>2, RetryMutationType DEF RetryMutation
  <2> QED BY <2>1
<1>3. /\ pending' = RegisterAll(pending, retries)
      /\ retryTasks' = retryTasks \cup registered
  BY DEF ScheduleRetries
<1> HIDE DEF retries
<1>4. Covered(pending', Carried \cup registered)
  BY <1>1, <1>2, <1>3, CarriedIsCovered, CoveredRegisterAll
<1>5. Carried \cup registered \subseteq Carried'
  BY <1>3, CarriedIsCovered, CarriedIsCoveredNext
<1> QED BY <1>4, <1>5, CoveredMore, CarriedIsCoveredNext

\* A failing change: its follow-up is queued, its retry sleeps.
LEMMA ChangeFailureCarried ==
  ASSUME TypeOK, PendingIsCarried, NEW committed \in BOOLEAN,
         ChangeBusy(committed) \/ ChangeError(committed)
  PROVE  PendingIsCarried'
<1> DEFINE f == cur.path
           table == DrainedTable(pending, f)
           retry == RetryOf(cur, DrainedId(f) + 1)
           tasks == debounceTasks \cup retryTasks
<1>1. cur \in Mutation /\ cur.op = "change" /\ f \in Files
  BY MutationFields DEF ChangeBusy, ChangeError, TypeOK, LoopType, FileOperations
<1>2. pending \in Table /\ fileQueue \in [Priorities -> Seq(Mutation)]
  BY DEF TypeOK, WorkType
<1>3. /\ fileQueue' = DrainedQueue(pending, fileQueue, f)
      /\ debounceTasks' = debounceTasks
      /\ \/ pending' = table /\ retryTasks' = retryTasks
         \/ pending' = Register(table, retry) /\ retryTasks' = retryTasks \cup {retry}
  BY DEF ChangeBusy, ChangeError
<1>4. DrainedId(f) + 1 \in Nat
  BY <1>1, BuiltMutations DEF TypeOK
<1>5. retry \in Mutation
  BY <1>1, <1>4, RetryMutationType
<1>6. table \in Table
  BY <1>1, <1>2, DrainedType DEF TypeOK
<1>7. Covered(pending, tasks \cup Queued(fileQueue))
  BY CarriedIsCovered
<1>8. Carried' = debounceTasks' \cup retryTasks' \cup Queued(fileQueue')
  BY CarriedIsCoveredNext
<1>9. tasks \cup Queued(fileQueue') \subseteq Carried'
  BY <1>3, <1>8
<1> HIDE DEF f, retry, tasks
<1>10. Covered(table, tasks \cup Queued(fileQueue'))
  BY <1>1, <1>2, <1>3, <1>7, DrainedCovered DEF TypeOK
<1> HIDE DEF table
<1>11. CASE pending' = table
  BY <1>9, <1>10, <1>11, CoveredMore, CarriedIsCoveredNext
<1>12. CASE pending' = Register(table, retry) /\ retryTasks' = retryTasks \cup {retry}
  <2>1. Covered(pending', (tasks \cup Queued(fileQueue')) \cup {retry})
    BY <1>5, <1>6, <1>10, <1>12, CoveredRegister
  <2>2. (tasks \cup Queued(fileQueue')) \cup {retry} \subseteq Carried'
    BY <1>8, <1>9, <1>12
  <2> QED BY <2>1, <2>2, CoveredMore, CarriedIsCoveredNext
<1> QED BY <1>3, <1>11, <1>12

\* The processing task's failing steps.
LEMMA FailureCarried ==
  ASSUME TypeOK, PendingIsCarried, Failure
  PROVE  PendingIsCarried'
<1>1. CASE FinishChange(FALSE)
  BY <1>1, FinishChangeCarried
<1>2. ASSUME NEW committed \in BOOLEAN, ChangeBusy(committed) \/ ChangeError(committed)
      PROVE  PendingIsCarried'
  BY <1>2, ChangeFailureCarried
<1>3. batch \subseteq Mutation /\ {m \in batch : ~IsStale(latestGen, m)} \subseteq Mutation
  BY DEF TypeOK, LoopType
<1>4. CASE DeletesConflict
  BY <1>3, <1>4, ScheduleRetriesCarried DEF DeletesConflict
<1>5. CASE DeletesBusy
  BY <1>3, <1>5, ScheduleRetriesCarried DEF DeletesBusy
<1>6. CASE DeletesError
  BY <1>6, UntouchedCarried DEF DeletesError, GiveUp
<1>7. CASE PassBusy
  <2>1. {cur} \subseteq Mutation
    BY <1>7 DEF PassBusy, TypeOK, LoopType
  <2> QED BY <1>7, <2>1, ScheduleRetriesCarried DEF PassBusy
<1>8. CASE PassError
  BY <1>8, UntouchedCarried DEF PassError
<1> QED BY <1>1, <1>2, <1>4, <1>5, <1>6, <1>7, <1>8 DEF Failure

\* Whatever the events, faults and interleavings, an entry of
\* _pending_mutations always has a sleeping task or a queued mutation with its
\* key and id: the table never blocks a path for good.
THEOREM PendingCarried == Spec => []PendingIsCarried
<1>1. Init => PendingIsCarried
  BY DEF Init, EmptyTable, PendingIsCarried
<1>2. TypeOK /\ PendingIsCarried /\ [Next]_vars => PendingIsCarried'
  <2> SUFFICES ASSUME TypeOK, PendingIsCarried, [Next]_vars PROVE PendingIsCarried'
    OBVIOUS
  <2>1. CASE UNCHANGED vars
    BY <2>1, UntouchedCarried DEF vars
  <2>2. CASE Edit
    BY <2>2, UntouchedCarried
       DEF Edit, WriteFile, DeleteFile, AccessFile, MoveDirIn, MoveDirOut, EnvUnchanged
  <2>3. CASE \E p \in Paths : DedupExpires(p)
    BY <2>3, UntouchedCarried DEF DedupExpires
  <2>4. CASE Intake \/ Consume
    BY <2>4, EventsCarried
  <2>5. CASE Sleepers
    BY <2>5, SleepersCarried
  <2>6. CASE Start
    BY <2>6, StartCarried
  <2>7. CASE Work
    BY <2>7, WorkCarried
  <2>8. CASE Failure
    BY <2>8, FailureCarried
  <2> QED BY <2>1, <2>2, <2>3, <2>4, <2>5, <2>6, <2>7, <2>8 DEF Next
<1> QED BY <1>1, <1>2, TypeCorrect, PTL DEF Spec

-----------------------------------------------------------------------------
(* Reserved follow-ups.                                                    *)

\* A follow-up generation is reserved only for a file that is being processed,
\* so _drain_reserved_follow_up_change, which runs when that processing ends
\* in any way, will turn it into a queued change.
THEOREM ReservedDrained == Spec => []ReservedIsDrained
<1>1. Init => ReservedIsDrained
  BY DEF Init, ReservedIsDrained
<1>2. TypeOK /\ ReservedIsDrained /\ [Next]_vars => ReservedIsDrained'
  <2> SUFFICES ASSUME TypeOK, ReservedIsDrained, [Next]_vars PROVE ReservedIsDrained'
    OBVIOUS
  <2>1. ASSUME UNCHANGED <<reserved, active>>
        PROVE  ReservedIsDrained'
    BY <2>1 DEF ReservedIsDrained
  <2>2. ASSUME NEW S, AddChanges(S), UNCHANGED active
        PROVE  ReservedIsDrained'
    BY <2>2 DEF AddChanges, ReservedIsDrained
  <2>3. ASSUME NEW m, StartMutation(m), UNCHANGED reserved
        PROVE  ReservedIsDrained'
    BY <2>3 DEF StartMutation, ReservedIsDrained
  <2>4. ASSUME NEW f, EndChange(f)
        PROVE  ReservedIsDrained'
    <3>1. reserved \in [Files -> Nat]
      BY DEF TypeOK, WorkType
    <3> QED BY <2>4, <3>1 DEF EndChange, ReservedIsDrained
  <2>5. CASE UNCHANGED vars
    BY <2>1, <2>5 DEF vars
  <2>6. CASE Edit
    BY <2>1, <2>6 DEF Edit, WriteFile, DeleteFile, AccessFile, MoveDirIn, MoveDirOut, EnvUnchanged
  <2>7. CASE (\E p \in Paths : DedupExpires(p)) \/ Intake
    BY <2>1, <2>7 DEF DedupExpires, Intake, AcceptEvent, DropEvent
  <2>8. CASE Consume
    BY <2>1, <2>2, <2>8 DEF Consume, SuppressDuplicate, ConsumeChange, ConsumeImmediate, ConsumeAccess
  <2>9. CASE Sleepers
    BY <2>1, <2>9 DEF Sleepers, DebounceElapses, RetryElapses
  <2>10. CASE Start
    BY <2>1, <2>3, <2>10 DEF Start, StartBuffered, StartQueued, StartDeletes
  <2>11. CASE Work
    BY <2>1, <2>2, <2>4, <2>11
       DEF Work, ReadFile, FinishChange, DeletesApplied, EmbedDone, DirCleanup, DirList,
           DirQueue
  <2>12. CASE Failure
    BY <2>1, <2>4, <2>12
       DEF Failure, FinishChange, ChangeBusy, ChangeError, DeletesConflict, DeletesBusy,
           DeletesError, PassBusy, PassError
  <2> QED
    BY <2>5, <2>6, <2>7, <2>8, <2>9, <2>10, <2>11, <2>12 DEF Next
<1> QED BY <1>1, <1>2, TypeCorrect, PTL DEF Spec
=============================================================================
