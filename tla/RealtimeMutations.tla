------------------------- MODULE RealtimeMutations -------------------------
(***************************************************************************)
(* The queued work items of the realtime indexing pipeline                 *)
(* (chunkhound/services/realtime): RealtimeMutation records, the ownership *)
(* table _pending_mutations that maps (operation, path) to the one         *)
(* mutation allowed to act for that key, and the generation arithmetic     *)
(* that tells a stale delete from a current one.                           *)
(*                                                                         *)
(* Abstractions.  A path is a model value.  A generation that is None in   *)
(* the code is 0 here (generations are handed out from 1).  mutation_id is *)
(* only ever compared between two mutations of one key, so ids are counted *)
(* per key; timestamps are left out.                                       *)
(***************************************************************************)
EXTENDS Naturals, Sequences, FiniteSets

CONSTANTS
  Files,            \* paths of indexable files
  Dirs,             \* paths of watched directories
  FilesUnder,       \* [Dirs -> SUBSET Files]
  NoMutation,       \* the absent entry of _pending_mutations
  MaxRetryBudget,   \* _MAX_RETRY_BUDGET
  DeleteBatchSize   \* _DELETE_BATCH_SIZE

ASSUME PathAssumption ==
  /\ IsFiniteSet(Files)
  /\ Files \cap Dirs = {}
  /\ FilesUnder \in [Dirs -> SUBSET Files]

ASSUME BoundAssumption ==
  /\ MaxRetryBudget \in Nat
  /\ DeleteBatchSize \in Nat \ {0}

Paths == Files \cup Dirs

FileOperations == {"change", "embed", "delete"}

DirOperations == {"dir_delete", "dir_index"}

Operations == FileOperations \cup DirOperations

Priorities == 0..2

\* _mutation_priority: deletes first, then indexing work, embeddings last.
MutationPriority(operation) ==
  CASE operation \in {"delete", "dir_delete"} -> 0
    [] operation \in {"change", "dir_index"} -> 1
    [] OTHER -> 2

Keys == Operations \X Paths

NoGeneration == 0

\* RealtimeMutation: a file operation names a file, a directory operation a
\* directory.
Mutation ==
  [id : Nat, op : FileOperations, path : Files, retry : Nat, gen : Nat]
    \cup [id : Nat, op : DirOperations, path : Dirs, retry : Nat, gen : Nat]

ASSUME NoMutationAssumption == NoMutation \notin Mutation

\* _pending_mutation_key
Key(m) == <<m.op, m.path>>

-----------------------------------------------------------------------------
(* The ownership table _pending_mutations.                                 *)

Table ==
  {t \in [Keys -> Mutation \cup {NoMutation}] :
     \A k \in Keys : t[k] # NoMutation => Key(t[k]) = k}

EmptyTable == [k \in Keys |-> NoMutation]

\* _owns_pending_mutation
Owns(table, m) ==
  /\ table[Key(m)] # NoMutation
  /\ table[Key(m)].id = m.id

\* _delete_mutation_supersedes_existing
Supersedes(m, existing) ==
  /\ m.op = "delete"
  /\ existing.op = "delete"
  /\ m.gen # NoGeneration
  /\ \/ existing.gen = NoGeneration
     \/ m.gen > existing.gen
     \/ m.gen = existing.gen /\ m.retry < existing.retry

\* Mutant of CanRegister: a registration displaces the owner of its key.
CanAlwaysRegister(table, m) == TRUE

\* The result of _register_pending_mutation: a key has one owner, and only a
\* newer delete displaces an older one.
CanRegister(table, m) ==
  \/ table[Key(m)] = NoMutation
  \/ Supersedes(m, table[Key(m)])

\* _register_pending_mutation: a mutation that cannot register leaves the
\* table alone.
Register(table, m) ==
  IF CanRegister(table, m) THEN [table EXCEPT ![Key(m)] = m] ELSE table

\* _register_pending_mutation for several mutations of distinct keys.
RegisterAll(table, ms) ==
  [k \in Keys |->
     IF \E m \in ms : Key(m) = k /\ CanRegister(table, m)
     THEN CHOOSE m \in ms : Key(m) = k /\ CanRegister(table, m)
     ELSE table[k]]

\* Mutant of Release: a dequeued mutation keeps its key.
ReleaseNothing(table, m) == table

\* _release_pending_mutation: only the owner releases its key.
Release(table, m) ==
  IF Owns(table, m) THEN [table EXCEPT ![Key(m)] = NoMutation] ELSE table

\* _release_pending_mutation for each of several dequeued mutations.
ReleaseAll(table, ms) ==
  [k \in Keys |->
     IF \E m \in ms : Key(m) = k /\ Owns(table, m) THEN NoMutation ELSE table[k]]

\* _refresh_pending_change_generation: the owner keeps its id.
RefreshGeneration(table, path, gen) ==
  IF table[<<"change", path>>] = NoMutation \/ gen = NoGeneration
  THEN table
  ELSE [table EXCEPT ![<<"change", path>>].gen = gen]

-----------------------------------------------------------------------------
(* Generations.  latest[p] is _latest_source_generation_by_path[p].        *)

\* Mutant of IsStale: generations are not compared.
NeverStale(latest, m) == FALSE

\* _delete_mutation_is_stale
IsStale(latest, m) ==
  m.gen # NoGeneration /\ latest[m.path] > m.gen

\* _mutation_for_processing: a change is processed as the newest generation.
ForProcessing(latest, m) ==
  IF m.op = "change" /\ latest[m.path] # NoGeneration
  THEN [m EXCEPT !.gen = latest[m.path]]
  ELSE m

\* The mutation both retry schedulers build.
RetryOf(m, id) ==
  [id |-> id, op |-> m.op, path |-> m.path, retry |-> m.retry + 1, gen |-> m.gen]

FreshMutation(id, op, path, gen) ==
  [id |-> id, op |-> op, path |-> path, retry |-> 0, gen |-> gen]
=============================================================================
