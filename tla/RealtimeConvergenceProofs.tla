---------------------- MODULE RealtimeConvergenceProofs ----------------------
(***************************************************************************)
(* Theorems about RealtimePipeline that follow work through the pipeline:  *)
(* at most one change of a file is on its way, a delete never erases newer *)
(* content, and what the index holds when the pipeline comes to rest.      *)
(***************************************************************************)
EXTENDS RealtimePipelineProofs

-----------------------------------------------------------------------------
(* Who carries a mutation.                                                 *)

\* Debounce tasks carry changes, and _pending_debounce names their files.
DebounceInv ==
  /\ \A t \in debounceTasks : t.op = "change"
  /\ debounce = {t.path : t \in debounceTasks}

\* Each FIFO of file_queue holds the operations of its priority.
ByPriority(queue) ==
  \A pr \in Priorities : \A i \in DOMAIN queue[pr] : MutationPriority(queue[pr][i].op) = pr

\* Everything but a delete owns its key while it is carried, and is carried
\* once: by one debounce task, by one retry task or at one place of a queue.
Sole(table, debounced, retries, queue) ==
  /\ \A t \in debounced \cup retries : t.op # "delete" => Owns(table, t)
  /\ \A pr \in Priorities : \A i \in DOMAIN queue[pr] :
       queue[pr][i].op # "delete" => Owns(table, queue[pr][i])
  /\ \A s, t \in debounced : s.op # "delete" /\ Key(s) = Key(t) => s = t
  /\ \A s, t \in retries : s.op # "delete" /\ Key(s) = Key(t) => s = t
  /\ \A s \in debounced, t \in retries : s.op # "delete" => Key(s) # Key(t)
  /\ \A t \in debounced \cup retries, pr \in Priorities : \A i \in DOMAIN queue[pr] :
       t.op # "delete" => Key(queue[pr][i]) # Key(t)
  /\ \A pr \in Priorities : \A i, j \in DOMAIN queue[pr] :
       queue[pr][i].op # "delete" /\ Key(queue[pr][i]) = Key(queue[pr][j]) => i = j

\* Nobody carries a mutation of the key.
Absent(k, debounced, retries, queue) ==
  /\ \A t \in debounced \cup retries : Key(t) # k
  /\ \A pr \in Priorities : \A i \in DOMAIN queue[pr] : Key(queue[pr][i]) # k

OwnershipInv ==
  /\ DebounceInv
  /\ ByPriority(fileQueue)
  /\ Sole(pending, debounceTasks, retryTasks, fileQueue)

-----------------------------------------------------------------------------
(* Queues.                                                                 *)

\* A queue's entries are mutations.
LEMMA QueueEntry ==
  ASSUME NEW queue \in [Priorities -> Seq(Mutation)], NEW pr \in Priorities,
         NEW i \in DOMAIN queue[pr]
  PROVE  queue[pr][i] \in Mutation /\ i \in Nat /\ i > 0
<1>1. queue[pr] \in Seq(Mutation)
  OBVIOUS
<1> QED BY <1>1

\* Two mutations of one key have one operation and one path.
LEMMA SameKey ==
  ASSUME NEW m \in Mutation, NEW n \in Mutation, Key(m) = Key(n)
  PROVE  m.op = n.op /\ m.path = n.path
  BY DEF Key

\* The entries of a queue after a mutation was queued.
LEMMA EnqueueAt ==
  ASSUME NEW queue \in [Priorities -> Seq(Mutation)], NEW m \in Mutation,
         NEW pr \in Priorities, NEW i \in DOMAIN Enqueue(queue, m)[pr]
  PROVE  \/ /\ pr = MutationPriority(m.op) /\ i = Len(queue[pr]) + 1
            /\ Enqueue(queue, m)[pr][i] = m
         \/ /\ i \in DOMAIN queue[pr] /\ i # Len(queue[pr]) + 1
            /\ Enqueue(queue, m)[pr][i] = queue[pr][i]
<1> DEFINE pm == MutationPriority(m.op)
<1>1. pm \in Priorities
  BY DEF MutationPriority, Priorities
<1>2. queue[pr] \in Seq(Mutation)
  OBVIOUS
<1>3. CASE pr = pm
  <2>1. Enqueue(queue, m)[pr] = Append(queue[pr], m)
    BY <1>1, <1>3 DEF Enqueue
  <2> QED BY <1>2, <1>3, <2>1
<1>4. CASE pr # pm
  <2>1. Enqueue(queue, m)[pr] = queue[pr]
    BY <1>1, <1>4 DEF Enqueue
  <2> QED BY <1>2, <2>1
<1> QED BY <1>3, <1>4

\* queue with the first shift[pr] entries of each FIFO taken away.
IsSuffix(rest, queue, shift) ==
  \A pr \in Priorities : \A i \in DOMAIN rest[pr] :
    i + shift[pr] \in DOMAIN queue[pr] /\ rest[pr][i] = queue[pr][i + shift[pr]]

\* The entries of a queue after its head was taken.
LEMMA DequeueAt ==
  ASSUME NEW queue \in [Priorities -> Seq(Mutation)], NEW pr \in Priorities,
         queue[pr] # <<>>
  PROVE  /\ IsSuffix([queue EXCEPT ![pr] = Tail(@)], queue,
                     [p \in Priorities |-> IF p = pr THEN 1 ELSE 0])
         /\ 1 \in DOMAIN queue[pr] /\ Head(queue[pr]) = queue[pr][1]
<1> DEFINE rest == [queue EXCEPT ![pr] = Tail(@)]
           shift == [p \in Priorities |-> IF p = pr THEN 1 ELSE 0]
<1>1. queue[pr] \in Seq(Mutation)
  OBVIOUS
<1>2. 1 \in DOMAIN queue[pr] /\ Head(queue[pr]) = queue[pr][1]
  BY <1>1
<1>3. ASSUME NEW p \in Priorities, NEW i \in DOMAIN rest[p]
      PROVE  i + shift[p] \in DOMAIN queue[p] /\ rest[p][i] = queue[p][i + shift[p]]
  <2>1. CASE p = pr
    <3>1. rest[p] = Tail(queue[pr]) /\ shift[p] = 1
      BY <2>1
    <3>2. Len(Tail(queue[pr])) = Len(queue[pr]) - 1 /\ Tail(queue[pr]) \in Seq(Mutation)
          /\ Len(queue[pr]) \in Nat /\ Len(queue[pr]) > 0
      BY <1>1
    <3>3. DOMAIN Tail(queue[pr]) = 1..(Len(queue[pr]) - 1)
      BY <3>2
    <3>4. \A j \in 1..(Len(queue[pr]) - 1) : Tail(queue[pr])[j] = queue[pr][j + 1]
      BY <1>1
    <3>5. DOMAIN queue[pr] = 1..Len(queue[pr])
      BY <1>1
    <3> HIDE DEF rest, shift
    <3> QED BY <1>3, <2>1, <3>1, <3>2, <3>3, <3>4, <3>5
  <2>2. CASE p # pr
    <3>1. rest[p] = queue[p] /\ shift[p] = 0
      BY <2>2
    <3>2. i \in Nat
      BY <1>3, <3>1, QueueEntry
    <3> HIDE DEF rest, shift
    <3> QED BY <1>3, <3>1, <3>2
  <2> QED BY <2>1, <2>2
<1> QED BY <1>2, <1>3 DEF IsSuffix

\* The entries of the queues after a run of deletes was taken.
LEMMA DequeueRunAt ==
  ASSUME NEW queue \in [Priorities -> Seq(Mutation)], NEW n \in Nat, n <= Len(queue[0])
  PROVE  IsSuffix([queue EXCEPT ![0] = SubSeq(@, n + 1, Len(@))], queue,
                  [p \in Priorities |-> IF p = 0 THEN n ELSE 0])
<1> DEFINE rest == [queue EXCEPT ![0] = SubSeq(@, n + 1, Len(@))]
           shift == [p \in Priorities |-> IF p = 0 THEN n ELSE 0]
           len == Len(queue[0])
<1>1. queue[0] \in Seq(Mutation) /\ 0 \in Priorities /\ len \in Nat /\ DOMAIN queue[0] = 1..len
  BY DEF Priorities
<1>2. ASSUME NEW p \in Priorities, NEW i \in DOMAIN rest[p]
      PROVE  i + shift[p] \in DOMAIN queue[p] /\ rest[p][i] = queue[p][i + shift[p]]
  <2>1. CASE p = 0
    <3>1. rest[p] = SubSeq(queue[0], n + 1, len) /\ shift[p] = n
      BY <1>1, <2>1
    <3>2. /\ Len(SubSeq(queue[0], n + 1, len)) = len - n
          /\ \A j \in 1..(len - n) : SubSeq(queue[0], n + 1, len)[j] = queue[0][n + j]
          /\ SubSeq(queue[0], n + 1, len) \in Seq(Mutation)
      BY <1>1, SubSeqProperties
    <3>3. DOMAIN SubSeq(queue[0], n + 1, len) = 1..(len - n)
      BY <3>2
    <3> HIDE DEF rest, shift, len
    <3>4. i \in 1..(len - n) /\ i + n \in 1..len /\ n + i = i + n
      BY <1>1, <1>2, <3>1, <3>3 DEF len
    <3> QED BY <1>1, <2>1, <3>1, <3>2, <3>4
  <2>2. CASE p # 0
    <3>1. rest[p] = queue[p] /\ shift[p] = 0
      BY <2>2
    <3>2. i \in Nat
      BY <1>2, <3>1, QueueEntry
    <3> HIDE DEF rest, shift
    <3> QED BY <1>2, <3>1, <3>2
  <2> QED BY <2>1, <2>2
<1> QED BY <1>2 DEF IsSuffix

-----------------------------------------------------------------------------
(* Changes of the table and of the carriers that keep every mutation sole. *)

\* A step of the table that keeps the owners of the carried keys.
LEMMA SoleTable ==
  ASSUME NEW table, NEW new, NEW D \in SUBSET Mutation, NEW R \in SUBSET Mutation,
         NEW Q \in [Priorities -> Seq(Mutation)], Sole(table, D, R, Q),
         \A k \in Keys : k[1] # "delete" /\ table[k] # NoMutation =>
           \/ new[k] # NoMutation /\ new[k].id = table[k].id
           \/ Absent(k, D, R, Q)
  PROVE  Sole(new, D, R, Q)
<1>1. ASSUME NEW m \in Mutation, m.op # "delete", Owns(table, m),
             ~ Absent(Key(m), D, R, Q)
      PROVE  Owns(new, m)
  <2>1. Key(m) \in Keys /\ Key(m)[1] # "delete"
    BY <1>1, MutationFields DEF Key
  <2> QED BY <1>1, <2>1 DEF Owns
<1>2. ASSUME NEW t \in D \cup R, t.op # "delete"
      PROVE  Owns(new, t)
  BY <1>1, <1>2 DEF Sole, Absent
<1>3. ASSUME NEW pr \in Priorities, NEW i \in DOMAIN Q[pr], Q[pr][i].op # "delete"
      PROVE  Owns(new, Q[pr][i])
  <2>1. Q[pr][i] \in Mutation
    BY <1>3, QueueEntry
  <2>2. Owns(table, Q[pr][i]) /\ ~ Absent(Key(Q[pr][i]), D, R, Q)
    BY <1>3 DEF Sole, Absent
  <2> QED BY <1>1, <1>3, <2>1, <2>2
<1> QED BY <1>2, <1>3 DEF Sole

\* Nobody carries a key that has no owner.
LEMMA SoleAbsent ==
  ASSUME NEW table, NEW D \in SUBSET Mutation, NEW R \in SUBSET Mutation,
         NEW Q \in [Priorities -> Seq(Mutation)], Sole(table, D, R, Q),
         NEW k \in Keys, k[1] # "delete", table[k] = NoMutation
  PROVE  Absent(k, D, R, Q)
<1>1. ASSUME NEW m \in Mutation, m.op # "delete" => Owns(table, m)
      PROVE  Key(m) # k
  BY <1>1 DEF Owns, Key
<1>2. \A t \in D \cup R : Key(t) # k
  BY <1>1 DEF Sole
<1>3. ASSUME NEW pr \in Priorities, NEW i \in DOMAIN Q[pr]
      PROVE  Key(Q[pr][i]) # k
  <2>1. Q[pr][i] \in Mutation
    BY <1>3, QueueEntry
  <2> QED BY <1>1, <1>3, <2>1 DEF Sole
<1> QED BY <1>2, <1>3 DEF Absent

\* An owner whose key nobody carries, or a delete, is queued.
LEMMA SoleEnqueue ==
  ASSUME NEW table, NEW D \in SUBSET Mutation, NEW R \in SUBSET Mutation,
         NEW Q \in [Priorities -> Seq(Mutation)], Sole(table, D, R, Q), ByPriority(Q),
         NEW m \in Mutation,
         m.op # "delete" => Owns(table, m) /\ Absent(Key(m), D, R, Q)
  PROVE  Sole(table, D, R, Enqueue(Q, m)) /\ ByPriority(Enqueue(Q, m))
<1> DEFINE new == Enqueue(Q, m)
<1>1. ASSUME NEW pr \in Priorities, NEW i \in DOMAIN new[pr]
      PROVE  \/ pr = MutationPriority(m.op) /\ i = Len(Q[pr]) + 1 /\ new[pr][i] = m
             \/ i \in DOMAIN Q[pr] /\ i # Len(Q[pr]) + 1 /\ new[pr][i] = Q[pr][i]
  BY <1>1, EnqueueAt
<1> HIDE DEF new
<1>2. ByPriority(new)
  BY <1>1 DEF ByPriority
<1>3. ASSUME NEW pr \in Priorities, NEW i \in DOMAIN new[pr]
      PROVE  /\ new[pr][i].op # "delete" => Owns(table, new[pr][i])
             /\ \A t \in D \cup R : t.op # "delete" => Key(new[pr][i]) # Key(t)
  <2>1. CASE i \in DOMAIN Q[pr] /\ new[pr][i] = Q[pr][i]
    BY <2>1 DEF Sole
  <2>2. CASE new[pr][i] = m
    <3>1. ASSUME NEW t \in D \cup R, t.op # "delete", Key(m) = Key(t)
          PROVE  FALSE
      BY <3>1, SameKey DEF Absent
    <3> QED BY <2>2, <3>1
  <2> QED BY <1>1, <1>3, <2>1, <2>2
<1>4. ASSUME NEW pr \in Priorities, NEW i \in DOMAIN new[pr], NEW j \in DOMAIN new[pr],
             new[pr][i].op # "delete", Key(new[pr][i]) = Key(new[pr][j])
      PROVE  i = j
  <2>1. ASSUME NEW a \in DOMAIN Q[pr], Key(Q[pr][a]) = Key(m), m.op # "delete"
        PROVE  FALSE
    BY <2>1 DEF Absent
  <2>2. ASSUME NEW a \in DOMAIN Q[pr], Key(Q[pr][a]) = Key(m)
        PROVE  Q[pr][a].op = m.op
    BY <2>2, QueueEntry, SameKey
  <2> QED BY <1>1, <1>4, <2>1, <2>2 DEF Sole
<1> QED BY <1>2, <1>3, <1>4 DEF Sole, new

\* Owners whose keys nobody carries, or deletes, sleep in retry tasks.
LEMMA SoleRetry ==
  ASSUME NEW table, NEW D \in SUBSET Mutation, NEW R \in SUBSET Mutation,
         NEW Q \in [Priorities -> Seq(Mutation)], Sole(table, D, R, Q),
         NEW new \in SUBSET Mutation,
         \A m \in new : m.op # "delete" => Owns(table, m) /\ Absent(Key(m), D, R, Q),
         \A m, n \in new : m.op # "delete" /\ Key(m) = Key(n) => m = n
  PROVE  Sole(table, D, R \cup new, Q)
<1>1. \A m \in new, t \in D \cup R : Key(t) = Key(m) => t.op = "delete" /\ m.op = "delete"
  BY SameKey DEF Absent
<1>2. \A m \in new, pr \in Priorities : \A i \in DOMAIN Q[pr] :
        Key(Q[pr][i]) = Key(m) => m.op = "delete"
  BY DEF Absent
<1> QED BY <1>1, <1>2 DEF Sole

\* ... or in a debounce task.
LEMMA SoleDebounce ==
  ASSUME NEW table, NEW D \in SUBSET Mutation, NEW R \in SUBSET Mutation,
         NEW Q \in [Priorities -> Seq(Mutation)], Sole(table, D, R, Q),
         NEW new \in SUBSET Mutation,
         \A m \in new : Owns(table, m) /\ Absent(Key(m), D, R, Q),
         \A m, n \in new : Key(m) = Key(n) => m = n
  PROVE  Sole(table, D \cup new, R, Q)
<1>1. \A m \in new, t \in D \cup R : Key(t) # Key(m)
  BY DEF Absent
<1>2. \A m \in new, pr \in Priorities : \A i \in DOMAIN Q[pr] : Key(Q[pr][i]) # Key(m)
  BY DEF Absent
<1> QED BY <1>1, <1>2 DEF Sole

\* Fewer carriers are no less sole.
LEMMA SoleFewer ==
  ASSUME NEW table, NEW D, NEW R, NEW Q, Sole(table, D, R, Q),
         NEW D2 \in SUBSET D, NEW R2 \in SUBSET R
  PROVE  Sole(table, D2, R2, Q)
  BY DEF Sole

\* Nor are shorter queues.
LEMMA SoleSuffix ==
  ASSUME NEW table, NEW D, NEW R, NEW Q, Sole(table, D, R, Q), ByPriority(Q),
         NEW rest \in [Priorities -> Seq(Mutation)],
         NEW shift \in [Priorities -> Nat], IsSuffix(rest, Q, shift)
  PROVE  Sole(table, D, R, rest) /\ ByPriority(rest)
<1>1. ASSUME NEW pr \in Priorities, NEW i \in DOMAIN rest[pr]
      PROVE  /\ i + shift[pr] \in DOMAIN Q[pr] /\ rest[pr][i] = Q[pr][i + shift[pr]]
             /\ i \in Nat /\ shift[pr] \in Nat
  BY <1>1, QueueEntry DEF IsSuffix
<1>2. ASSUME NEW pr \in Priorities, NEW i \in DOMAIN rest[pr], NEW j \in DOMAIN rest[pr],
             rest[pr][i].op # "delete", Key(rest[pr][i]) = Key(rest[pr][j])
      PROVE  i = j
  <2>1. i + shift[pr] = j + shift[pr]
    BY <1>1, <1>2 DEF Sole
  <2> QED BY <1>1, <2>1
<1>3. ByPriority(rest)
  BY <1>1 DEF ByPriority
<1> QED BY <1>1, <1>2, <1>3 DEF Sole

\* Registering: an owner that is not a delete finds its key carried by nobody.
LEMMA SoleRegister ==
  ASSUME NEW table \in Table, NEW D \in SUBSET Mutation, NEW R \in SUBSET Mutation,
         NEW Q \in [Priorities -> Seq(Mutation)], Sole(table, D, R, Q),
         NEW m \in Mutation
  PROVE  /\ Sole(Register(table, m), D, R, Q)
         /\ CanRegister(table, m) =>
              /\ Owns(Register(table, m), m)
              /\ m.op # "delete" => Absent(Key(m), D, R, Q)
<1>1. Key(m) \in Keys /\ Key(m)[1] = m.op /\ m # NoMutation
  BY MutationFields DEF Key
<1>2. CASE CanRegister(table, m)
  <2>1. Register(table, m)[Key(m)] = m
    BY <1>2, RegisterType
  <2>2. m.op # "delete" => table[Key(m)] = NoMutation
    BY <1>2 DEF CanRegister, Supersedes
  <2>3. m.op # "delete" => Absent(Key(m), D, R, Q)
    BY <1>1, <2>2, SoleAbsent
  <2>4. \A k \in Keys : k # Key(m) => Register(table, m)[k] = table[k]
    BY RegisterType
  <2>5. Sole(Register(table, m), D, R, Q)
    <3>1. ASSUME NEW k \in Keys, k[1] # "delete", table[k] # NoMutation
          PROVE  Register(table, m)[k] = table[k]
      BY <1>1, <2>2, <2>4, <3>1
    <3> QED BY <3>1, SoleTable
  <2> QED BY <1>1, <1>2, <2>1, <2>3, <2>5 DEF Owns
<1>3. CASE ~ CanRegister(table, m)
  BY <1>3 DEF Register
<1> QED BY <1>2, <1>3

\* A newly built mutation is registered and queued, or refused.
LEMMA SoleEnqueueNew ==
  ASSUME NEW table \in Table, NEW D \in SUBSET Mutation, NEW R \in SUBSET Mutation,
         NEW Q \in [Priorities -> Seq(Mutation)], Sole(table, D, R, Q), ByPriority(Q),
         NEW m \in Mutation, NEW new,
         new = IF CanRegister(table, m) THEN Enqueue(Q, m) ELSE Q
  PROVE  Sole(Register(table, m), D, R, new) /\ ByPriority(new)
<1>1. /\ Sole(Register(table, m), D, R, Q)
      /\ CanRegister(table, m) =>
           /\ Owns(Register(table, m), m)
           /\ m.op # "delete" => Absent(Key(m), D, R, Q)
  BY SoleRegister
<1>2. CASE CanRegister(table, m)
  BY <1>1, <1>2, SoleEnqueue
<1>3. CASE ~ CanRegister(table, m)
  BY <1>1, <1>3
<1> QED BY <1>2, <1>3

\* A head that is dequeued and released was the only one of its key.
LEMMA SoleDequeue ==
  ASSUME NEW table \in Table, NEW D \in SUBSET Mutation, NEW R \in SUBSET Mutation,
         NEW Q \in [Priorities -> Seq(Mutation)], Sole(table, D, R, Q), ByPriority(Q),
         NEW pr \in Priorities, Q[pr] # <<>>
  PROVE  /\ Sole(Release(table, Head(Q[pr])), D, R, [Q EXCEPT ![pr] = Tail(@)])
         /\ ByPriority([Q EXCEPT ![pr] = Tail(@)])
<1> DEFINE h == Head(Q[pr])
           rest == [Q EXCEPT ![pr] = Tail(@)]
           shift == [p \in Priorities |-> IF p = pr THEN 1 ELSE 0]
<1>1. IsSuffix(rest, Q, shift) /\ 1 \in DOMAIN Q[pr] /\ h = Q[pr][1]
  BY DequeueAt
<1>2. h \in Mutation
  BY <1>1, QueueEntry
<1>3. rest \in [Priorities -> Seq(Mutation)]
  BY DequeueType
<1>4. shift \in [Priorities -> Nat] /\ shift[pr] = 1
  OBVIOUS
<1> HIDE DEF h, rest, shift
<1>5. Sole(table, D, R, rest) /\ ByPriority(rest)
  BY <1>1, <1>3, <1>4, SoleSuffix
<1>6. ASSUME h.op # "delete"
      PROVE  Absent(Key(h), D, R, rest)
  <2>1. ASSUME NEW t \in D \cup R, Key(t) = Key(h)
        PROVE  FALSE
    <3>1. t.op = h.op
      BY <1>2, <2>1, SameKey
    <3> QED BY <1>1, <1>6, <2>1, <3>1 DEF Sole
  <2>2. ASSUME NEW p \in Priorities, NEW i \in DOMAIN rest[p], Key(rest[p][i]) = Key(h)
        PROVE  FALSE
    <3>1. i + shift[p] \in DOMAIN Q[p] /\ rest[p][i] = Q[p][i + shift[p]]
      BY <1>1, <2>2 DEF IsSuffix
    <3>2. rest[p][i] \in Mutation /\ i \in Nat /\ i > 0
      BY <1>3, <2>2, QueueEntry
    <3>3. rest[p][i].op = h.op
      BY <1>2, <2>2, <3>2, SameKey
    <3>4. p = pr
      BY <1>1, <3>1, <3>3 DEF ByPriority
    <3>5. i + 1 = 1
      BY <1>1, <1>4, <1>6, <2>2, <3>1, <3>3, <3>4 DEF Sole
    <3> QED BY <3>2, <3>5
  <2> QED BY <2>1, <2>2 DEF Absent
<1>7. ASSUME NEW k \in Keys, k[1] # "delete", table[k] # NoMutation
      PROVE  \/ Release(table, h)[k] = table[k]
             \/ Absent(k, D, R, rest)
  <2>1. CASE k = Key(h)
    BY <1>6, <1>7, <2>1 DEF Key
  <2>2. CASE k # Key(h)
    BY <2>2 DEF Release, Table
  <2> QED BY <2>1, <2>2
<1>8. Sole(Release(table, h), D, R, rest)
  BY <1>3, <1>5, <1>7, SoleTable
<1> QED BY <1>5, <1>8 DEF h, rest

\* Releasing deletes concerns no other operation.
LEMMA SoleReleaseDeletes ==
  ASSUME NEW table \in Table, NEW D \in SUBSET Mutation, NEW R \in SUBSET Mutation,
         NEW Q \in [Priorities -> Seq(Mutation)], Sole(table, D, R, Q),
         NEW ms \in SUBSET Mutation, \A m \in ms : m.op = "delete"
  PROVE  Sole(ReleaseAll(table, ms), D, R, Q)
<1>1. ASSUME NEW k \in Keys, k[1] # "delete", table[k] # NoMutation
      PROVE  ReleaseAll(table, ms)[k] = table[k]
  BY <1>1 DEF ReleaseAll, Key
<1> QED BY <1>1, SoleTable

\* Releasing one mutation more.
LEMMA ReleaseOneMore ==
  ASSUME NEW table \in Table, NEW ms \in SUBSET Mutation, NEW h \in Mutation
  PROVE  ReleaseAll(table, ms \cup {h}) = Release(ReleaseAll(table, ms), h)
<1> DEFINE some == ReleaseAll(table, ms)
           all == ReleaseAll(table, ms \cup {h})
<1>1. some \in Table /\ Key(h) \in Keys
  BY ReleaseAllType, MutationFields
<1>2. all = [k \in Keys |-> all[k]] /\ some = [k \in Keys |-> some[k]]
  BY DEF ReleaseAll
<1>3. \A k \in Keys : some[k] = IF \E m \in ms : Key(m) = k /\ Owns(table, m)
                                THEN NoMutation ELSE table[k]
  BY DEF ReleaseAll
<1>4. \A k \in Keys : all[k] = IF \E m \in ms \cup {h} : Key(m) = k /\ Owns(table, m)
                               THEN NoMutation ELSE table[k]
  BY DEF ReleaseAll
<1>5. Release(some, h) = [k \in Keys |-> Release(some, h)[k]]
  BY <1>1 DEF Release, Table
<1>6. \A k \in Keys : Release(some, h)[k] = IF k = Key(h) /\ Owns(some, h)
                                            THEN NoMutation ELSE some[k]
  BY <1>1 DEF Release, Table
<1> HIDE DEF some, all
<1>7. ASSUME NEW k \in Keys
      PROVE  all[k] = Release(some, h)[k]
  BY <1>1, <1>3, <1>4, <1>6 DEF Owns
<1> QED BY <1>2, <1>5, <1>7 DEF some, all

\* Draining a reserved follow-up.
LEMMA SoleDrained ==
  ASSUME IntakeType, WorkType, NEW f \in Files, NEW table \in Table,
         NEW D \in SUBSET Mutation, NEW R \in SUBSET Mutation,
         NEW Q \in [Priorities -> Seq(Mutation)], Sole(table, D, R, Q), ByPriority(Q)
  PROVE  /\ Sole(DrainedTable(table, f), D, R, DrainedQueue(table, Q, f))
         /\ ByPriority(DrainedQueue(table, Q, f))
<1>1. reserved[f] \in Nat /\ f \in Paths
  BY FileKeys DEF WorkType
<1>2. FollowUp(f) \in Mutation
  BY BuiltMutations
<1>3. CASE reserved[f] = NoGeneration
  BY <1>3 DEF DrainedTable, DrainedQueue
<1>4. CASE reserved[f] # NoGeneration /\ CanRegister(table, FollowUp(f))
  <2>1. /\ DrainedTable(table, f) = Register(table, FollowUp(f))
        /\ DrainedQueue(table, Q, f) =
             IF CanRegister(table, FollowUp(f)) THEN Enqueue(Q, FollowUp(f)) ELSE Q
    BY <1>4 DEF DrainedTable, DrainedQueue
  <2> QED BY <1>2, <2>1, SoleEnqueueNew
<1>5. CASE reserved[f] # NoGeneration /\ ~ CanRegister(table, FollowUp(f))
  <2>1. /\ DrainedTable(table, f) = RefreshGeneration(table, f, reserved[f])
        /\ DrainedQueue(table, Q, f) = Q
    BY <1>5 DEF DrainedTable, DrainedQueue
  <2> DEFINE new == RefreshGeneration(table, f, reserved[f])
  <2>2. \A k \in Keys : /\ new[k] = NoMutation <=> table[k] = NoMutation
                        /\ table[k] # NoMutation => new[k].id = table[k].id
    BY <1>1, RefreshGenerationType
  <2> HIDE DEF new
  <2>3. ASSUME NEW k \in Keys, table[k] # NoMutation
        PROVE  new[k] # NoMutation /\ new[k].id = table[k].id
    BY <2>2, <2>3
  <2>4. Sole(new, D, R, Q)
    BY <2>3, SoleTable
  <2> QED BY <2>1, <2>4 DEF new
<1> QED BY <1>3, <1>4, <1>5

\* Registering the retries of mutations that are deletes or of distinct keys.
LEMMA SoleRetries ==
  ASSUME NEW table \in Table, NEW D \in SUBSET Mutation, NEW R \in SUBSET Mutation,
         NEW Q \in [Priorities -> Seq(Mutation)], Sole(table, D, R, Q),
         NEW new \in SUBSET Mutation,
         \A m, n \in new : m.op # "delete" /\ Key(m) = Key(n) => m = n
  PROVE  Sole(RegisterAll(table, new), D, R \cup {m \in new : CanRegister(table, m)}, Q)
<1> DEFINE registered == {m \in new : CanRegister(table, m)}
<1>1. \A k \in Keys :
        \/ RegisterAll(table, new)[k] = table[k]
        \/ \E m \in new : /\ Key(m) = k
                          /\ CanRegister(table, m)
                          /\ RegisterAll(table, new)[k] = m
  BY RegisterAllType
<1>2. ASSUME NEW m \in new, m.op # "delete", CanRegister(table, m)
      PROVE  table[Key(m)] = NoMutation
  BY <1>2 DEF CanRegister, Supersedes
<1>3. Sole(RegisterAll(table, new), D, R, Q)
  <2>1. ASSUME NEW k \in Keys, k[1] # "delete", table[k] # NoMutation
        PROVE  RegisterAll(table, new)[k] = table[k]
    BY <1>1, <1>2, <2>1 DEF Key
  <2> QED BY <2>1, SoleTable
<1>4. ASSUME NEW m \in registered, m.op # "delete"
      PROVE  Owns(RegisterAll(table, new), m) /\ Absent(Key(m), D, R, Q)
  <2>1. Key(m) \in Keys /\ Key(m)[1] = m.op /\ table[Key(m)] = NoMutation /\ m # NoMutation
    BY <1>2, <1>4, MutationFields DEF Key
  <2>2. RegisterAll(table, new)[Key(m)] =
          CHOOSE n \in new : Key(n) = Key(m) /\ CanRegister(table, n)
    BY <1>4, <2>1 DEF RegisterAll
  <2>3. RegisterAll(table, new)[Key(m)] \in new
        /\ Key(RegisterAll(table, new)[Key(m)]) = Key(m)
    BY <1>4, <2>2
  <2>4. RegisterAll(table, new)[Key(m)] = m
    BY <1>4, <2>3
  <2>5. Absent(Key(m), D, R, Q)
    BY <1>4, <2>1, SoleAbsent
  <2> QED BY <2>1, <2>4, <2>5 DEF Owns
<1>5. registered \in SUBSET Mutation
  OBVIOUS
<1>6. \A m, n \in registered : m.op # "delete" /\ Key(m) = Key(n) => m = n
  OBVIOUS
<1> HIDE DEF registered
<1>7. Sole(RegisterAll(table, new), D, R \cup registered, Q)
  BY <1>3, <1>4, <1>5, <1>6, SoleRetry
<1> QED BY <1>7 DEF registered

-----------------------------------------------------------------------------
(* One carrier per change.                                                 *)

USE DEF envVars, intakeVars, workVars, loopVars, dbVars, reportVars

\* The variables the invariant is about, with their types.
LEMMA OwnershipTypes ==
  ASSUME TypeOK
  PROVE  /\ pending \in Table /\ debounceTasks \in SUBSET Mutation
         /\ retryTasks \in SUBSET Mutation
         /\ fileQueue \in [Priorities -> Seq(Mutation)]
  BY DEF TypeOK, WorkType

\* A step that leaves all of them alone.
LEMMA OwnershipUntouched ==
  ASSUME OwnershipInv,
         UNCHANGED <<pending, debounce, debounceTasks, retryTasks, fileQueue>>
  PROVE  OwnershipInv'
  BY DEF OwnershipInv, DebounceInv

\* A step that leaves the debounce tasks alone.
LEMMA OwnershipFrame ==
  ASSUME OwnershipInv, UNCHANGED <<debounce, debounceTasks>>,
         Sole(pending', debounceTasks, retryTasks', fileQueue'), ByPriority(fileQueue')
  PROVE  OwnershipInv'
<1>1. DebounceInv'
  BY DEF OwnershipInv, DebounceInv
<1>2. Sole(pending', debounceTasks', retryTasks', fileQueue')
  OBVIOUS
<1> QED BY <1>1, <1>2 DEF OwnershipInv

\* The owners of a table that was rebuilt by a step of add_file.
LEMMA AddChangesOwners ==
  ASSUME TypeOK, NEW S \in SUBSET Files, AddChanges(S)
  PROVE  \E new \in SUBSET S :
           /\ \A f \in new : pending[<<"change", f>>] = NoMutation /\ f \notin active
           /\ \A f \in S : \/ pending[<<"change", f>>] # NoMutation
                           \/ f \in active \/ f \in debounce \/ f \in new
           /\ debounce' = debounce \cup new
           /\ debounceTasks' = debounceTasks \cup {NewChange(f) : f \in new}
           /\ \A f \in new : pending'[<<"change", f>>] = NewChange(f)
           /\ \A k \in Keys : k[1] # "change" => pending'[k] = pending[k]
           /\ \A k \in Keys : pending[k] # NoMutation =>
                pending'[k] # NoMutation /\ pending'[k].id = pending[k].id
           /\ \A k \in Keys : pending'[k] # NoMutation =>
                \/ pending'[k] = pending[k]
                \/ /\ k[1] = "change" /\ k[2] \in S
                   /\ pending'[k].gen \in {latestGen[k[2]], pending[k].gen}
                   /\ pending[k] # NoMutation
                \/ k[1] = "change" /\ k[2] \in new /\ pending'[k] = NewChange(k[2])
<1> DEFINE unowned == {f \in S : pending[<<"change", f>>] = NoMutation}
           new == unowned \ (active \cup debounce)
           Entry(k) == RefreshGeneration(pending, k[2], latestGen[k[2]])[k]
<1>1. /\ debounce' = debounce \cup new
      /\ debounceTasks' = debounceTasks \cup {NewChange(f) : f \in new}
  BY DEF AddChanges
<1>2. \A k \in Keys : pending'[k] = IF k[1] # "change" \/ k[2] \notin S THEN pending[k]
                                    ELSE IF k[2] \in new THEN NewChange(k[2])
                                    ELSE Entry(k)
  BY DEF AddChanges
<1>3. new \subseteq S /\ \A f \in new : pending[<<"change", f>>] = NoMutation /\ f \notin active
  OBVIOUS
<1>4. \A f \in S : \/ pending[<<"change", f>>] # NoMutation
                   \/ f \in active \/ f \in debounce \/ f \in new
  OBVIOUS
<1>5. ASSUME NEW k \in Keys, k[1] = "change", k[2] \in S
      PROVE  /\ k = <<"change", k[2]>>
             /\ Entry(k) = NoMutation <=> pending[k] = NoMutation
             /\ pending[k] # NoMutation => Entry(k).id = pending[k].id
             /\ Entry(k) # NoMutation => Entry(k).gen \in {latestGen[k[2]], pending[k].gen}
  <2>1. k[2] \in Paths /\ latestGen[k[2]] \in Nat /\ k = <<"change", k[2]>>
    BY <1>5 DEF TypeOK, IntakeType, Keys, Paths
  <2>2. pending \in Table
    BY OwnershipTypes
  <2>3. /\ Entry(k) = NoMutation <=> pending[k] = NoMutation
        /\ pending[k] # NoMutation => Entry(k).id = pending[k].id
    BY <2>1, <2>2, RefreshGenerationType
  <2>4. Entry(k) # NoMutation => Entry(k).gen \in {latestGen[k[2]], pending[k].gen}
    <3> DEFINE p == k[2]
    <3>1. RefreshGeneration(pending, p, latestGen[p])[<<"change", p>>] # NoMutation =>
            RefreshGeneration(pending, p, latestGen[p])[<<"change", p>>].gen
              \in {latestGen[p], pending[<<"change", p>>].gen}
      BY <2>1, <2>2, RefreshGenerationType
    <3> QED BY <2>1, <3>1
  <2> QED BY <2>1, <2>3, <2>4
<1>6. \A f \in S : <<"change", f>> \in Keys
  BY FileKeys
<1> HIDE DEF unowned, new, Entry
<1>7. \A f \in new : pending'[<<"change", f>>] = NewChange(f)
  BY <1>2, <1>3, <1>6
<1>8. ASSUME NEW k \in Keys, pending[k] # NoMutation
      PROVE  pending'[k] # NoMutation /\ pending'[k].id = pending[k].id
  BY <1>2, <1>3, <1>5, <1>8
<1>9. ASSUME NEW k \in Keys, pending'[k] # NoMutation
      PROVE  \/ pending'[k] = pending[k]
             \/ /\ k[1] = "change" /\ k[2] \in S
                /\ pending'[k].gen \in {latestGen[k[2]], pending[k].gen}
                /\ pending[k] # NoMutation
             \/ k[1] = "change" /\ k[2] \in new /\ pending'[k] = NewChange(k[2])
  BY <1>2, <1>5, <1>9
<1>10. \A k \in Keys : k[1] # "change" => pending'[k] = pending[k]
  BY <1>2
<1> QED BY <1>1, <1>3, <1>4, <1>7, <1>8, <1>9, <1>10

\* add_file starts a debounce task only for a file nobody carries.
LEMMA AddChangesOwnership ==
  ASSUME TypeOK, OwnershipInv, NEW S \in SUBSET Files, AddChanges(S),
         UNCHANGED <<retryTasks, fileQueue>>
  PROVE  OwnershipInv'
<1>1. PICK new \in SUBSET S :
        /\ \A f \in new : pending[<<"change", f>>] = NoMutation
        /\ debounce' = debounce \cup new
        /\ debounceTasks' = debounceTasks \cup {NewChange(f) : f \in new}
        /\ \A f \in new : pending'[<<"change", f>>] = NewChange(f)
        /\ \A k \in Keys : pending[k] # NoMutation =>
             pending'[k] # NoMutation /\ pending'[k].id = pending[k].id
  BY AddChangesOwners
<1> DEFINE tasks == {NewChange(f) : f \in new}
<1>2. ASSUME NEW f \in new
      PROVE  /\ NewChange(f) \in Mutation /\ Key(NewChange(f)) = <<"change", f>>
             /\ NewChange(f).op = "change" /\ NewChange(f).path = f
             /\ NewChange(f) # NoMutation /\ <<"change", f>> \in Keys
  BY BuiltMutations, FileKeys, MutationFields DEF TypeOK
<1>3. Sole(pending, debounceTasks, retryTasks, fileQueue) /\ DebounceInv /\ ByPriority(fileQueue)
  BY DEF OwnershipInv
<1>4. Sole(pending', debounceTasks, retryTasks, fileQueue)
  BY <1>1, <1>3, OwnershipTypes, SoleTable
<1>5. ASSUME NEW f \in new
      PROVE  /\ Owns(pending', NewChange(f))
             /\ Absent(Key(NewChange(f)), debounceTasks, retryTasks, fileQueue)
  <2>1. Owns(pending', NewChange(f))
    <3>1. pending'[<<"change", f>>] = NewChange(f)
      BY <1>1, <1>5
    <3>2. NewChange(f) # NoMutation /\ Key(NewChange(f)) = <<"change", f>>
      BY <1>2, <1>5
    <3> HIDE DEF NewChange
    <3> QED BY <3>1, <3>2 DEF Owns
  <2>2. <<"change", f>>[1] # "delete" /\ pending[<<"change", f>>] = NoMutation
    BY <1>1, <1>5
  <2>3. Absent(<<"change", f>>, debounceTasks, retryTasks, fileQueue)
    BY <1>2, <1>3, <1>5, <2>2, OwnershipTypes, SoleAbsent
  <2> QED BY <1>2, <1>5, <2>1, <2>3
<1> HIDE DEF NewChange
<1>6. tasks \in SUBSET Mutation
  BY <1>2
<1>7. ASSUME NEW m \in tasks, NEW n \in tasks, Key(m) = Key(n)
      PROVE  m = n
  <2>1. PICK f \in new : m = NewChange(f)
    OBVIOUS
  <2>2. PICK g \in new : n = NewChange(g)
    OBVIOUS
  <2>3. Key(m) = <<"change", f>> /\ Key(n) = <<"change", g>>
    BY <1>2, <2>1, <2>2
  <2>4. <<"change", f>> = <<"change", g>>
    BY <1>7, <2>3
  <2>5. f = g
    BY <2>4
  <2> QED BY <2>1, <2>2, <2>5
<1>8. \A m \in tasks : Owns(pending', m) /\ Absent(Key(m), debounceTasks, retryTasks, fileQueue)
  BY <1>5
<1>9. debounce' = {t.path : t \in debounceTasks \cup tasks}
  <2>1. debounce = {t.path : t \in debounceTasks}
    BY <1>3 DEF DebounceInv
  <2>2. new = {t.path : t \in tasks}
    <3>1. \A f \in new : NewChange(f) \in tasks /\ NewChange(f).path = f
      BY <1>2
    <3>2. \A t \in tasks : t.path \in new
      BY <1>2
    <3> HIDE DEF tasks
    <3> QED BY <3>1, <3>2
  <2> HIDE DEF tasks
  <2> QED BY <1>1, <2>1, <2>2
<1>10. \A t \in debounceTasks \cup tasks : t.op = "change"
  BY <1>2, <1>3 DEF DebounceInv
<1>11. debounceTasks' = debounceTasks \cup tasks
  BY <1>1
<1> HIDE DEF tasks
<1>12. Sole(pending', debounceTasks \cup tasks, retryTasks, fileQueue)
  BY <1>4, <1>6, <1>7, <1>8, OwnershipTypes, SoleDebounce
<1>13. DebounceInv'
  BY <1>9, <1>10, <1>11 DEF DebounceInv
<1>14. Sole(pending', debounceTasks', retryTasks', fileQueue') /\ ByPriority(fileQueue')
  BY <1>3, <1>11, <1>12
<1> QED BY <1>13, <1>14 DEF OwnershipInv

\* A refreshed generation leaves the owners in place.
LEMMA SoleRefresh ==
  ASSUME NEW table \in Table, NEW D \in SUBSET Mutation, NEW R \in SUBSET Mutation,
         NEW Q \in [Priorities -> Seq(Mutation)], Sole(table, D, R, Q),
         NEW p \in Paths, NEW g \in Nat
  PROVE  Sole(RefreshGeneration(table, p, g), D, R, Q)
<1> DEFINE new == RefreshGeneration(table, p, g)
<1>1. \A k \in Keys : /\ new[k] = NoMutation <=> table[k] = NoMutation
                      /\ table[k] # NoMutation => new[k].id = table[k].id
  BY RefreshGenerationType
<1> HIDE DEF new
<1>2. ASSUME NEW k \in Keys, table[k] # NoMutation
      PROVE  new[k] # NoMutation /\ new[k].id = table[k].id
  BY <1>1, <1>2
<1>3. Sole(new, D, R, Q)
  BY <1>2, SoleTable
<1> QED BY <1>3 DEF new

\* A released delete concerns no other operation.
LEMMA SoleReleaseDelete ==
  ASSUME NEW table \in Table, NEW D \in SUBSET Mutation, NEW R \in SUBSET Mutation,
         NEW Q \in [Priorities -> Seq(Mutation)], Sole(table, D, R, Q),
         NEW m \in Mutation, m.op = "delete"
  PROVE  Sole(Release(table, m), D, R, Q)
<1>1. ASSUME NEW k \in Keys, k[1] # "delete", table[k] # NoMutation
      PROVE  Release(table, m)[k] = table[k]
  BY <1>1 DEF Release, Key, Table
<1> QED BY <1>1, SoleTable

\* Event intake and consumption.
LEMMA EventsOwned ==
  ASSUME TypeOK, OwnershipInv, Intake \/ Consume
  PROVE  OwnershipInv'
<1>1. /\ Sole(pending, debounceTasks, retryTasks, fileQueue) /\ ByPriority(fileQueue)
      /\ pending \in Table /\ debounceTasks \in SUBSET Mutation
      /\ retryTasks \in SUBSET Mutation /\ fileQueue \in [Priorities -> Seq(Mutation)]
  BY OwnershipTypes DEF OwnershipInv
<1>2. CASE AcceptEvent
  <2>1. wire \in Seq(Event) /\ wire # <<>> /\ nextGen \in Nat
    BY <1>2 DEF AcceptEvent, TypeOK, EnvironmentType, IntakeType
  <2>2. Head(wire) \in Event
    BY <2>1
  <2>3. Head(wire).path \in Paths /\ nextGen + 1 \in Nat
    BY <2>1, <2>2, EventFields
  <2>4. /\ pending' = RefreshGeneration(pending, Head(wire).path, nextGen + 1)
        /\ UNCHANGED <<debounce, debounceTasks, retryTasks, fileQueue>>
    BY <1>2 DEF AcceptEvent
  <2>5. Sole(pending', debounceTasks, retryTasks, fileQueue)
    BY <1>1, <2>3, <2>4, SoleRefresh
  <2> QED BY <1>1, <2>4, <2>5, OwnershipFrame
<1>3. CASE DropEvent
  BY <1>3, OwnershipUntouched DEF DropEvent
<1>4. CASE SuppressDuplicate
  BY <1>4, OwnershipUntouched DEF SuppressDuplicate
<1>5. ASSUME NEW e \in Event, ConsumeChange(e)
      PROVE  OwnershipInv'
  <2>1. e.path \in Files
    BY <1>5, EventFields DEF ConsumeChange, FileEventTypes
  <2> QED BY <1>5, <2>1, AddChangesOwnership DEF ConsumeChange
<1>6. ASSUME NEW e \in Event, ConsumeImmediate(e)
      PROVE  OwnershipInv'
  <2>1. PICK m \in Mutation : EnqueueNew(m)
    BY <1>6, ImmediateMutation
  <2>2. /\ pending' = Register(pending, m)
        /\ fileQueue' = IF CanRegister(pending, m) THEN Enqueue(fileQueue, m) ELSE fileQueue
    BY <2>1 DEF EnqueueNew
  <2>3. UNCHANGED <<debounce, debounceTasks, retryTasks>>
    BY <1>6 DEF ConsumeImmediate
  <2>4. Sole(pending', debounceTasks, retryTasks, fileQueue') /\ ByPriority(fileQueue')
    BY <1>1, <2>2, SoleEnqueueNew
  <2> QED BY <2>3, <2>4, OwnershipFrame
<1>7. eventQueue # <<>> => Head(eventQueue) \in Event
  BY DEF TypeOK, IntakeType
<1>8. ASSUME NEW e \in Event, ConsumeAccess(e)
      PROVE  OwnershipInv'
  BY <1>8, OwnershipUntouched DEF ConsumeAccess
<1> QED BY <1>2, <1>3, <1>4, <1>5, <1>6, <1>7, <1>8 DEF Intake, Consume

\* The debounce task that wakes up is the one carrier of its change, and hands
\* the newest form of it to the queue.
LEMMA DebounceHandsOver ==
  ASSUME TypeOK, OwnershipInv, NEW t \in debounceTasks, DebounceElapses(t)
  PROVE  /\ pending[Key(t)] \in Mutation /\ Key(pending[Key(t)]) = Key(t)
         /\ pending[Key(t)].id = t.id
         /\ fileQueue' = Enqueue(fileQueue, pending[Key(t)]) /\ pending' = pending
<1>1. t \in Mutation /\ Key(t) \in Keys /\ pending \in Table
  BY OwnershipTypes, MutationFields
<1>2. t.op = "change" /\ t.path \in debounce
  BY DEF OwnershipInv, DebounceInv
<1>3. Owns(pending, t)
  BY <1>2 DEF OwnershipInv, Sole
<1>4. pending[Key(t)] # NoMutation /\ pending[Key(t)].id = t.id
  BY <1>3 DEF Owns
<1>5. pending[Key(t)] \in Mutation /\ Key(pending[Key(t)]) = Key(t)
  BY <1>1, <1>4, TableEntry
<1>6. Owns(pending, pending[Key(t)])
  BY <1>4, <1>5 DEF Owns
<1> QED BY <1>2, <1>4, <1>5, <1>6 DEF DebounceElapses

\* The tasks that wake up hand their mutation to the queue or release it.
LEMMA SleepersOwned ==
  ASSUME TypeOK, OwnershipInv, Sleepers
  PROVE  OwnershipInv'
<1>1. /\ Sole(pending, debounceTasks, retryTasks, fileQueue) /\ ByPriority(fileQueue)
      /\ pending \in Table /\ debounceTasks \in SUBSET Mutation
      /\ retryTasks \in SUBSET Mutation /\ fileQueue \in [Priorities -> Seq(Mutation)]
  BY OwnershipTypes DEF OwnershipInv
<1>2. ASSUME NEW t \in debounceTasks, DebounceElapses(t)
      PROVE  OwnershipInv'
  <2> DEFINE m == pending[Key(t)]
             others == debounceTasks \ {t}
  <2>1. m \in Mutation /\ Key(m) = Key(t) /\ fileQueue' = Enqueue(fileQueue, m)
        /\ pending' = pending /\ m.id = t.id
    BY <1>2, DebounceHandsOver
  <2>2. debounceTasks' = others /\ debounce' = debounce \ {t.path} /\ retryTasks' = retryTasks
    BY <1>2 DEF DebounceElapses
  <2>3. t \in Mutation /\ t.op = "change"
    BY <1>1 DEF OwnershipInv, DebounceInv
  <2>4. Absent(Key(t), others, retryTasks, fileQueue)
    BY <1>1, <1>2, <2>3 DEF Sole, Absent
  <2>5. Sole(pending, others, retryTasks, fileQueue)
    BY <1>1, SoleFewer
  <2>6. Owns(pending, m)
    BY <2>1, MutationFields DEF Owns
  <2>7. others \in SUBSET Mutation
    BY <1>1
  <2>8. debounce' = {s.path : s \in others}
    <3>1. ASSUME NEW s \in debounceTasks, s.path = t.path
          PROVE  s = t
      <4>1. s.op = "change"
        BY DEF OwnershipInv, DebounceInv
      <4>2. Key(s) = Key(t)
        BY <2>3, <3>1, <4>1 DEF Key
      <4> QED BY <1>1, <1>2, <2>3, <4>1, <4>2 DEF Sole
    <3>2. debounce = {s.path : s \in debounceTasks}
      BY DEF OwnershipInv, DebounceInv
    <3> QED BY <2>2, <3>1, <3>2
  <2>9. DebounceInv'
    BY <2>2, <2>8 DEF OwnershipInv, DebounceInv
  <2> HIDE DEF m, others
  <2>10. Sole(pending, others, retryTasks, fileQueue') /\ ByPriority(fileQueue')
    BY <1>1, <2>1, <2>4, <2>5, <2>6, <2>7, SoleEnqueue
  <2> QED BY <2>1, <2>2, <2>9, <2>10 DEF OwnershipInv
<1>3. ASSUME NEW t \in retryTasks, RetryElapses(t)
      PROVE  OwnershipInv'
  <2> DEFINE others == retryTasks \ {t}
  <2>1. t \in Mutation /\ others \in SUBSET Mutation
    BY <1>1
  <2>2. \/ pending' = pending /\ fileQueue' = fileQueue
        \/ pending' = Release(pending, t) /\ fileQueue' = fileQueue /\ t.op = "delete"
        \/ Owns(pending, t) /\ pending' = pending /\ fileQueue' = Enqueue(fileQueue, t)
    BY <1>3 DEF RetryElapses
  <2>3. retryTasks' = others /\ UNCHANGED <<debounce, debounceTasks>>
    BY <1>3 DEF RetryElapses
  <2>4. Sole(pending, debounceTasks, others, fileQueue)
    BY <1>1, SoleFewer
  <2>5. t.op # "delete" => Absent(Key(t), debounceTasks, others, fileQueue)
    <3> SUFFICES ASSUME t.op # "delete"
                 PROVE  Absent(Key(t), debounceTasks, others, fileQueue)
      OBVIOUS
    <3>1. ASSUME NEW s \in debounceTasks, Key(s) = Key(t)
          PROVE  FALSE
      <4>1. s.op = t.op
        BY <1>1, <2>1, <3>1, SameKey
      <4> QED BY <1>1, <1>3, <3>1, <4>1 DEF Sole
    <3>2. \A s \in others : Key(s) # Key(t)
      BY <1>1, <1>3 DEF Sole
    <3>3. \A pr \in Priorities : \A i \in DOMAIN fileQueue[pr] : Key(fileQueue[pr][i]) # Key(t)
      BY <1>1, <1>3 DEF Sole
    <3> QED BY <3>1, <3>2, <3>3 DEF Absent
  <2> HIDE DEF others
  <2>6. Sole(pending', debounceTasks, others, fileQueue') /\ ByPriority(fileQueue')
    <3>1. CASE pending' = pending /\ fileQueue' = fileQueue
      BY <1>1, <2>4, <3>1
    <3>2. CASE pending' = Release(pending, t) /\ fileQueue' = fileQueue /\ t.op = "delete"
      BY <1>1, <2>1, <2>4, <3>2, SoleReleaseDelete
    <3>3. CASE Owns(pending, t) /\ pending' = pending /\ fileQueue' = Enqueue(fileQueue, t)
      BY <1>1, <2>1, <2>4, <2>5, <3>3, SoleEnqueue
    <3> QED BY <2>2, <3>1, <3>2, <3>3
  <2> QED BY <2>3, <2>6, OwnershipFrame
<1> QED BY <1>2, <1>3 DEF Sleepers

\* What StartDeletes takes: the run of deletes, and perhaps the head after it.
LEMMA StartDeletesTakes ==
  ASSUME TypeOK, StartDeletes
  PROVE  \E n \in 1..DeleteBatchSize :
           LET run == {fileQueue[0][i] : i \in 1..n}
               rest == [fileQueue EXCEPT ![0] = SubSeq(@, n + 1, Len(@))]
           IN
           /\ n \in Nat /\ n <= Len(fileQueue[0])
           /\ rest \in [Priorities -> Seq(Mutation)] /\ run \in SUBSET Mutation
           /\ \A m \in run : m.op = "delete"
           /\ batch' = {m \in run : Owns(pending, m) /\ ~IsStale(latestGen, m)}
           /\ \/ /\ fileQueue' = rest /\ pending' = ReleaseAll(pending, run)
                 /\ buffered' = NoMutation
              \/ \E pr \in Priorities :
                   /\ rest[pr] # <<>>
                   /\ \A higher \in 0..(pr - 1) : rest[higher] = <<>>
                   /\ Head(rest[pr]) \in Mutation
                   /\ n < DeleteBatchSize
                   /\ fileQueue' = [rest EXCEPT ![pr] = Tail(@)]
                   /\ pending' = ReleaseAll(pending, run \cup {Head(rest[pr])})
                   /\ pending' = Release(ReleaseAll(pending, run), Head(rest[pr]))
                   /\ buffered' = ForProcessing(latestGen, Head(rest[pr]))
<1> DEFINE run(n) == {fileQueue[0][i] : i \in 1..n}
           rest(n) == [fileQueue EXCEPT ![0] = SubSeq(@, n + 1, Len(@))]
<1>1. pending \in Table /\ fileQueue \in [Priorities -> Seq(Mutation)]
  BY OwnershipTypes
<1>2. PICK n \in 1..DeleteBatchSize :
        /\ IsDeleteRun(n)
        /\ batch' = {m \in run(n) : Owns(pending, m) /\ ~IsStale(latestGen, m)}
        /\ \/ /\ fileQueue' = rest(n)
              /\ pending' = ReleaseAll(pending, run(n))
              /\ buffered' = NoMutation
           \/ /\ n < DeleteBatchSize
              /\ \E pr \in Priorities :
                   /\ IsHead(rest(n), pr)
                   /\ buffered' = ForProcessing(latestGen, Head(rest(n)[pr]))
                   /\ fileQueue' = [rest(n) EXCEPT ![pr] = Tail(@)]
                   /\ pending' = ReleaseAll(pending, run(n) \cup {Head(rest(n)[pr])})
  BY DEF StartDeletes
<1>3. n \in Nat /\ n <= Len(fileQueue[0])
  BY <1>2, BoundAssumption DEF IsDeleteRun
<1>4. rest(n) \in [Priorities -> Seq(Mutation)] /\ run(n) \in SUBSET Mutation
  BY <1>1, <1>3, DequeueRunType
<1>5. \A m \in run(n) : m.op = "delete"
  BY <1>2 DEF IsDeleteRun
<1> HIDE DEF run, rest
<1>6. ASSUME NEW pr \in Priorities, IsHead(rest(n), pr)
      PROVE  /\ rest(n)[pr] # <<>>
             /\ \A higher \in 0..(pr - 1) : rest(n)[higher] = <<>>
             /\ Head(rest(n)[pr]) \in Mutation
             /\ ReleaseAll(pending, run(n) \cup {Head(rest(n)[pr])})
                  = Release(ReleaseAll(pending, run(n)), Head(rest(n)[pr]))
  <2>1. rest(n)[pr] # <<>> /\ \A higher \in 0..(pr - 1) : rest(n)[higher] = <<>>
    BY <1>6 DEF IsHead
  <2>2. Head(rest(n)[pr]) \in Mutation
    BY <1>4, <2>1, DequeueType
  <2> QED BY <1>1, <1>4, <2>1, <2>2, ReleaseOneMore
<1>7. \/ /\ fileQueue' = rest(n) /\ pending' = ReleaseAll(pending, run(n))
         /\ buffered' = NoMutation
      \/ \E pr \in Priorities :
           /\ rest(n)[pr] # <<>>
           /\ \A higher \in 0..(pr - 1) : rest(n)[higher] = <<>>
           /\ Head(rest(n)[pr]) \in Mutation
           /\ n < DeleteBatchSize
           /\ fileQueue' = [rest(n) EXCEPT ![pr] = Tail(@)]
           /\ pending' = ReleaseAll(pending, run(n) \cup {Head(rest(n)[pr])})
           /\ pending' = Release(ReleaseAll(pending, run(n)), Head(rest(n)[pr]))
           /\ buffered' = ForProcessing(latestGen, Head(rest(n)[pr]))
  BY <1>2, <1>6
<1> QED BY <1>2, <1>3, <1>4, <1>5, <1>7 DEF run, rest

\* A dequeued mutation is released before it is processed.
LEMMA StartOwned ==
  ASSUME TypeOK, OwnershipInv, Start
  PROVE  OwnershipInv'
<1>1. /\ Sole(pending, debounceTasks, retryTasks, fileQueue) /\ ByPriority(fileQueue)
      /\ pending \in Table /\ debounceTasks \in SUBSET Mutation
      /\ retryTasks \in SUBSET Mutation /\ fileQueue \in [Priorities -> Seq(Mutation)]
  BY OwnershipTypes DEF OwnershipInv
<1>2. CASE StartBuffered
  BY <1>2, OwnershipUntouched DEF StartBuffered
<1>3. CASE StartQueued
  <2>1. PICK pr \in Priorities :
          /\ fileQueue[pr] # <<>>
          /\ fileQueue' = [fileQueue EXCEPT ![pr] = Tail(@)]
          /\ pending' = Release(pending, Head(fileQueue[pr]))
    BY <1>3 DEF StartQueued, IsHead
  <2>2. UNCHANGED <<debounce, debounceTasks, retryTasks>>
    BY <1>3 DEF StartQueued
  <2>3. Sole(pending', debounceTasks, retryTasks, fileQueue') /\ ByPriority(fileQueue')
    BY <1>1, <2>1, SoleDequeue
  <2> QED BY <2>2, <2>3, OwnershipFrame
<1>4. CASE StartDeletes
  <2> DEFINE run(n) == {fileQueue[0][i] : i \in 1..n}
             rest(n) == [fileQueue EXCEPT ![0] = SubSeq(@, n + 1, Len(@))]
             shift(n) == [p \in Priorities |-> IF p = 0 THEN n ELSE 0]
  <2>1. PICK n \in 1..DeleteBatchSize :
          /\ n \in Nat /\ n <= Len(fileQueue[0])
          /\ rest(n) \in [Priorities -> Seq(Mutation)] /\ run(n) \in SUBSET Mutation
          /\ \A m \in run(n) : m.op = "delete"
          /\ \/ fileQueue' = rest(n) /\ pending' = ReleaseAll(pending, run(n))
             \/ \E pr \in Priorities :
                  /\ rest(n)[pr] # <<>>
                  /\ fileQueue' = [rest(n) EXCEPT ![pr] = Tail(@)]
                  /\ pending' = Release(ReleaseAll(pending, run(n)), Head(rest(n)[pr]))
    BY <1>4, StartDeletesTakes
  <2>2. UNCHANGED <<debounce, debounceTasks, retryTasks>>
    BY <1>4 DEF StartDeletes
  <2>3. IsSuffix(rest(n), fileQueue, shift(n))
    BY <1>1, <2>1, DequeueRunAt
  <2>4. shift(n) \in [Priorities -> Nat]
    BY <2>1
  <2> HIDE DEF run, rest, shift
  <2>5. Sole(pending, debounceTasks, retryTasks, rest(n)) /\ ByPriority(rest(n))
    BY <1>1, <2>1, <2>3, <2>4, SoleSuffix
  <2> DEFINE table == ReleaseAll(pending, run(n))
  <2>6. Sole(table, debounceTasks, retryTasks, rest(n)) /\ table \in Table
    BY <1>1, <2>1, <2>5, SoleReleaseDeletes, ReleaseAllType
  <2>7. \/ fileQueue' = rest(n) /\ pending' = table
        \/ \E pr \in Priorities :
             /\ rest(n)[pr] # <<>>
             /\ fileQueue' = [rest(n) EXCEPT ![pr] = Tail(@)]
             /\ pending' = Release(table, Head(rest(n)[pr]))
    BY <2>1
  <2> HIDE DEF table
  <2>8. Sole(pending', debounceTasks, retryTasks, fileQueue') /\ ByPriority(fileQueue')
    <3>1. CASE fileQueue' = rest(n) /\ pending' = table
      BY <2>5, <2>6, <3>1
    <3>2. ASSUME NEW pr \in Priorities, rest(n)[pr] # <<>>
          PROVE  /\ Sole(Release(table, Head(rest(n)[pr])), debounceTasks, retryTasks,
                         [rest(n) EXCEPT ![pr] = Tail(@)])
                 /\ ByPriority([rest(n) EXCEPT ![pr] = Tail(@)])
      BY <1>1, <2>1, <2>5, <2>6, <3>2, SoleDequeue
    <3> QED BY <2>7, <3>1, <3>2
  <2> QED BY <2>2, <2>8, OwnershipFrame
<1> QED BY <1>2, <1>3, <1>4 DEF Start

\* The embed mutation of a finished change and what it is registered and
\* queued in.
LEMMA EmbedMutation ==
  ASSUME TypeOK, NEW f \in Files
  PROVE  LET embed == FreshMutation(nextId[<<"embed", f>>] + 1, "embed", f, NoGeneration) IN
         embed \in Mutation /\ Key(embed) = <<"embed", f>> /\ embed.op = "embed"
<1> DEFINE id == nextId[<<"embed", f>>] + 1
<1>1. id \in Nat /\ "embed" \in FileOperations /\ NoGeneration \in Nat
  <2>1. <<"embed", f>> \in Keys
    BY FileKeys
  <2>2. nextId[<<"embed", f>>] \in Nat
    BY <2>1 DEF TypeOK, WorkType
  <2> QED BY <2>2 DEF FileOperations, NoGeneration
<1> HIDE DEF id
<1>2. /\ FreshMutation(id, "embed", f, NoGeneration) \in Mutation
      /\ Key(FreshMutation(id, "embed", f, NoGeneration)) = <<"embed", f>>
      /\ FreshMutation(id, "embed", f, NoGeneration).op = "embed"
  BY <1>1, FreshFileMutation
<1> QED BY <1>2 DEF id

\* A finished change queues its embed mutation and its follow-up.
LEMMA FinishChangeOwned ==
  ASSUME TypeOK, OwnershipInv, NEW committed \in BOOLEAN, FinishChange(committed)
  PROVE  OwnershipInv'
<1> DEFINE f == cur.path
           embed == FreshMutation(nextId[<<"embed", f>>] + 1, "embed", f, NoGeneration)
           table == Register(pending, embed)
           queue == IF CanRegister(pending, embed) THEN Enqueue(fileQueue, embed)
                    ELSE fileQueue
<1>1. cur \in Mutation /\ cur.op = "change" /\ f \in Files
  BY MutationFields DEF FinishChange, TypeOK, LoopType, FileOperations
<1>2. /\ Sole(pending, debounceTasks, retryTasks, fileQueue) /\ ByPriority(fileQueue)
      /\ pending \in Table /\ debounceTasks \in SUBSET Mutation
      /\ retryTasks \in SUBSET Mutation /\ fileQueue \in [Priorities -> Seq(Mutation)]
  BY OwnershipTypes DEF OwnershipInv
<1>3. embed \in Mutation
  BY <1>1, EmbedMutation
<1>4. pending' = DrainedTable(table, f) /\ fileQueue' = DrainedQueue(table, queue, f)
      /\ UNCHANGED <<debounce, debounceTasks, retryTasks>>
  BY DEF FinishChange
<1> HIDE DEF f, embed
<1>5. table \in Table /\ queue \in [Priorities -> Seq(Mutation)]
  BY <1>2, <1>3, RegisterType, EnqueueType
<1>6. Sole(table, debounceTasks, retryTasks, queue) /\ ByPriority(queue)
  BY <1>2, <1>3, SoleEnqueueNew
<1> HIDE DEF table, queue
<1>7. Sole(pending', debounceTasks, retryTasks, fileQueue') /\ ByPriority(fileQueue')
  BY <1>1, <1>2, <1>4, <1>5, <1>6, SoleDrained DEF TypeOK
<1> QED BY <1>4, <1>7, OwnershipFrame

\* Deletes appended to the first queue.
LEMMA SoleConcatDeletes ==
  ASSUME NEW table, NEW D \in SUBSET Mutation, NEW R \in SUBSET Mutation,
         NEW Q \in [Priorities -> Seq(Mutation)], Sole(table, D, R, Q), ByPriority(Q),
         NEW s \in Seq(Mutation), \A i \in DOMAIN s : s[i].op = "delete"
  PROVE  /\ Sole(table, D, R, [Q EXCEPT ![0] = @ \o s])
         /\ ByPriority([Q EXCEPT ![0] = @ \o s])
<1> DEFINE new == [Q EXCEPT ![0] = @ \o s]
<1>1. ASSUME NEW pr \in Priorities, NEW i \in DOMAIN new[pr]
      PROVE  \/ pr = 0 /\ new[pr][i] \in Mutation /\ new[pr][i].op = "delete"
             \/ i \in DOMAIN Q[pr] /\ new[pr][i] = Q[pr][i] /\ Q[pr][i] \in Mutation
  <2>1. Q[pr] \in Seq(Mutation)
    OBVIOUS
  <2>2. CASE pr = 0
    <3>1. new[pr] = Q[pr] \o s
      BY <2>2
    <3>2. \/ i \in DOMAIN Q[pr] /\ (Q[pr] \o s)[i] = Q[pr][i]
          \/ i - Len(Q[pr]) \in DOMAIN s /\ (Q[pr] \o s)[i] = s[i - Len(Q[pr])]
      BY <1>1, <2>1, <3>1
    <3> HIDE DEF new
    <3> QED BY <2>1, <2>2, <3>1, <3>2
  <2>3. CASE pr # 0
    <3>1. new[pr] = Q[pr]
      BY <2>3
    <3> HIDE DEF new
    <3> QED BY <1>1, <2>1, <3>1
  <2> QED BY <2>2, <2>3
<1> HIDE DEF new
<1>2. ByPriority(new)
  BY <1>1 DEF ByPriority, MutationPriority
<1>3. ASSUME NEW pr \in Priorities, NEW i \in DOMAIN new[pr], new[pr][i].op # "delete"
      PROVE  /\ i \in DOMAIN Q[pr] /\ new[pr][i] = Q[pr][i]
             /\ Owns(table, new[pr][i])
  BY <1>1, <1>3 DEF Sole
<1>4. ASSUME NEW t \in D \cup R, NEW pr \in Priorities, NEW i \in DOMAIN new[pr],
             t.op # "delete", Key(new[pr][i]) = Key(t)
      PROVE  FALSE
  <2>1. t \in Mutation /\ new[pr][i] \in Mutation
    BY <1>1, <1>4
  <2>2. new[pr][i].op = t.op
    BY <1>4, <2>1, SameKey
  <2>3. i \in DOMAIN Q[pr] /\ new[pr][i] = Q[pr][i]
    BY <1>3, <1>4, <2>2
  <2> QED BY <1>4, <2>3 DEF Sole
<1>5. ASSUME NEW pr \in Priorities, NEW i \in DOMAIN new[pr], NEW j \in DOMAIN new[pr],
             new[pr][i].op # "delete", Key(new[pr][i]) = Key(new[pr][j])
      PROVE  i = j
  <2>1. new[pr][i] \in Mutation /\ new[pr][j] \in Mutation
    BY <1>1
  <2>2. new[pr][j].op = new[pr][i].op
    BY <1>5, <2>1, SameKey
  <2>3. /\ i \in DOMAIN Q[pr] /\ new[pr][i] = Q[pr][i]
        /\ j \in DOMAIN Q[pr] /\ new[pr][j] = Q[pr][j]
    BY <1>3, <1>5, <2>2
  <2> QED BY <1>5, <2>3 DEF Sole
<1>6. Sole(table, D, R, new)
  BY <1>3, <1>4, <1>5 DEF Sole
<1> QED BY <1>2, <1>6 DEF new

\* What a directory cleanup registers and queues: deletes of files under the
\* directory, with the generation of its event.
LEMMA DirCleanupQueues ==
  ASSUME TypeOK, DirCleanup
  PROVE  \E s \in Seq(Mutation) :
           /\ fileQueue' = [fileQueue EXCEPT ![0] = @ \o s]
           /\ \A i \in DOMAIN s :
                /\ s[i].op = "delete" /\ s[i].path \in FilesUnder[cur.path]
                /\ s[i].gen = cur.gen /\ s[i].id = nextId[Key(s[i])] + 1
                /\ nextId'[Key(s[i])] = nextId[Key(s[i])] + 1
                /\ pending'[Key(s[i])] = s[i]
           /\ \A k \in Keys : \/ pending'[k] = pending[k]
                              \/ \E i \in DOMAIN s : k = Key(s[i])
           /\ \A k \in Keys : nextId'[k] \in {nextId[k], nextId[k] + 1}
           /\ UNCHANGED <<debounce, debounceTasks, retryTasks>>
<1> DEFINE rows == {f \in FilesUnder[cur.path] : db[f] # 0}
           delete(f) == FreshMutation(nextId[<<"delete", f>>] + 1, "delete", f, cur.gen)
           accepted == {f \in rows : CanRegister(pending, delete(f))}
<1>1. cur \in Mutation /\ cur.op = "dir_delete" /\ pc = "dir_delete"
  BY DEF DirCleanup, TypeOK, LoopType
<1>2. cur.path \in Dirs /\ cur.gen \in Nat
  BY <1>1, MutationFields DEF DirOperations
<1>3. FilesUnder[cur.path] \subseteq Files /\ accepted \subseteq rows
      /\ rows \subseteq FilesUnder[cur.path]
  BY <1>2, PathAssumption
<1>4. ASSUME NEW f \in Files
      PROVE  /\ delete(f) \in Mutation /\ Key(delete(f)) = <<"delete", f>>
             /\ delete(f).op = "delete" /\ delete(f).path = f /\ delete(f).gen = cur.gen
             /\ delete(f).id = nextId[<<"delete", f>>] + 1
             /\ <<"delete", f>> \in Keys
  <2> DEFINE id == nextId[<<"delete", f>>] + 1
  <2>1. <<"delete", f>> \in Keys
    BY FileKeys
  <2>2. id \in Nat /\ "delete" \in FileOperations
    BY <2>1 DEF TypeOK, WorkType, FileOperations
  <2> HIDE DEF id
  <2>3. /\ FreshMutation(id, "delete", f, cur.gen) \in Mutation
        /\ Key(FreshMutation(id, "delete", f, cur.gen)) = <<"delete", f>>
        /\ FreshMutation(id, "delete", f, cur.gen).op = "delete"
        /\ FreshMutation(id, "delete", f, cur.gen).path = f
        /\ FreshMutation(id, "delete", f, cur.gen).gen = cur.gen
        /\ FreshMutation(id, "delete", f, cur.gen).id = id
    BY <1>2, <2>2, FreshFileMutation
  <2> QED BY <2>1, <2>3 DEF id
<1>5. /\ pending' = [k \in Keys |->
                       IF k[1] = "delete" /\ k[2] \in accepted THEN delete(k[2])
                       ELSE pending[k]]
      /\ \E s \in Orderings(accepted) :
           fileQueue' = [fileQueue EXCEPT ![0] = @ \o [i \in DOMAIN s |-> delete(s[i])]]
      /\ UNCHANGED <<debounce, debounceTasks, retryTasks>>
      /\ nextId' = BuildIds({"delete"} \X rows)
  BY DEF DirCleanup
<1> HIDE DEF rows, delete, accepted
<1>6. PICK s \in Orderings(accepted) :
        fileQueue' = [fileQueue EXCEPT ![0] = @ \o [i \in DOMAIN s |-> delete(s[i])]]
  BY <1>5
<1> DEFINE deletes == [i \in DOMAIN s |-> delete(s[i])]
<1>7. Cardinality(accepted) \in Nat
  BY <1>3, PathAssumption, FS_Subset, FS_CardinalityType
<1>8. /\ DOMAIN s = 1..Cardinality(accepted)
      /\ \A i \in DOMAIN s : s[i] \in accepted
      /\ \A f \in accepted : \E i \in DOMAIN s : s[i] = f
  BY <1>6 DEF Orderings
<1>9. deletes \in Seq(Mutation)
  <2>1. \A i \in DOMAIN s : s[i] \in Files
    BY <1>3, <1>8
  <2>2. \A i \in DOMAIN s : delete(s[i]) \in Mutation
    BY <1>4, <2>1
  <2> QED BY <1>7, <1>8, <2>2
<1>10. /\ DOMAIN deletes = DOMAIN s
       /\ \A i \in DOMAIN s : deletes[i] = delete(s[i])
  OBVIOUS
<1>11. fileQueue' = [fileQueue EXCEPT ![0] = @ \o deletes]
  BY <1>6
<1> HIDE DEF deletes
<1>12. \A k \in Keys : nextId'[k] = IF k \in {"delete"} \X rows THEN nextId[k] + 1
                                    ELSE nextId[k]
  BY <1>5 DEF BuildIds
<1>13. ASSUME NEW i \in DOMAIN deletes
       PROVE  /\ deletes[i].op = "delete" /\ deletes[i].path \in FilesUnder[cur.path]
              /\ deletes[i].gen = cur.gen
              /\ deletes[i].id = nextId[Key(deletes[i])] + 1
              /\ nextId'[Key(deletes[i])] = nextId[Key(deletes[i])] + 1
              /\ pending'[Key(deletes[i])] = deletes[i]
  <2> DEFINE f == s[i]
             m == delete(f)
  <2>1. f \in accepted /\ f \in Files /\ f \in FilesUnder[cur.path] /\ f \in rows
    BY <1>3, <1>8, <1>10, <1>13
  <2>2. deletes[i] = m
    BY <1>10, <1>13
  <2> HIDE DEF f, m
  <2>3. /\ m \in Mutation /\ Key(m) = <<"delete", f>> /\ m.op = "delete" /\ m.path = f
        /\ m.gen = cur.gen /\ m.id = nextId[<<"delete", f>>] + 1 /\ <<"delete", f>> \in Keys
    BY <1>4, <2>1 DEF m
  <2>4. pending'[<<"delete", f>>] = m
    BY <1>5, <2>1, <2>3 DEF m
  <2>5. nextId'[<<"delete", f>>] = nextId[<<"delete", f>>] + 1
    BY <1>12, <2>1, <2>3
  <2> QED BY <2>1, <2>2, <2>3, <2>4, <2>5
<1>14. ASSUME NEW k \in Keys
       PROVE  pending'[k] = pending[k] \/ \E i \in DOMAIN deletes : k = Key(deletes[i])
  <2>1. CASE k[1] = "delete" /\ k[2] \in accepted
    <3>1. PICK i \in DOMAIN s : s[i] = k[2]
      BY <1>8, <2>1
    <3>2. k = <<"delete", k[2]>> /\ k[2] \in Files
      BY <1>3, <2>1 DEF Keys
    <3>3. deletes[i] = delete(k[2]) /\ i \in DOMAIN deletes
      BY <1>10, <3>1
    <3>4. Key(delete(k[2])) = k
      BY <1>4, <3>2
    <3> QED BY <3>3, <3>4
  <2>2. CASE ~ (k[1] = "delete" /\ k[2] \in accepted)
    BY <1>5, <2>2
  <2> QED BY <2>1, <2>2
<1>15. \A k \in Keys : nextId'[k] \in {nextId[k], nextId[k] + 1}
  BY <1>12
<1> QED BY <1>5, <1>9, <1>11, <1>13, <1>14, <1>15

\* A directory cleanup adds deletes only.
LEMMA DirCleanupOwned ==
  ASSUME TypeOK, OwnershipInv, DirCleanup
  PROVE  OwnershipInv'
<1>1. /\ Sole(pending, debounceTasks, retryTasks, fileQueue) /\ ByPriority(fileQueue)
      /\ pending \in Table /\ debounceTasks \in SUBSET Mutation
      /\ retryTasks \in SUBSET Mutation /\ fileQueue \in [Priorities -> Seq(Mutation)]
  BY OwnershipTypes DEF OwnershipInv
<1>2. PICK s \in Seq(Mutation) :
        /\ fileQueue' = [fileQueue EXCEPT ![0] = @ \o s]
        /\ \A i \in DOMAIN s : s[i].op = "delete"
        /\ \A k \in Keys : pending'[k] = pending[k] \/ \E i \in DOMAIN s : k = Key(s[i])
        /\ UNCHANGED <<debounce, debounceTasks, retryTasks>>
  BY DirCleanupQueues
<1>3. ASSUME NEW k \in Keys, k[1] # "delete", pending[k] # NoMutation
      PROVE  pending'[k] = pending[k]
  BY <1>2, <1>3 DEF Key
<1>4. Sole(pending', debounceTasks, retryTasks, fileQueue)
  BY <1>1, <1>3, SoleTable
<1>5. Sole(pending', debounceTasks, retryTasks, fileQueue') /\ ByPriority(fileQueue')
  BY <1>1, <1>2, <1>4, SoleConcatDeletes
<1> QED BY <1>2, <1>5, OwnershipFrame

\* The processing task's successful steps.
LEMMA WorkOwned ==
  ASSUME TypeOK, OwnershipInv, Work
  PROVE  OwnershipInv'
<1>1. CASE ReadFile
  BY <1>1, OwnershipUntouched DEF ReadFile
<1>2. CASE FinishChange(TRUE)
  BY <1>2, FinishChangeOwned
<1>3. CASE DeletesApplied
  BY <1>3, OwnershipUntouched DEF DeletesApplied
<1>4. CASE EmbedDone
  BY <1>4, OwnershipUntouched DEF EmbedDone
<1>5. CASE DirCleanup
  BY <1>5, DirCleanupOwned
<1>6. CASE DirList
  BY <1>6, OwnershipUntouched DEF DirList
<1>7. CASE DirQueue
  <2>1. listed \subseteq Files
    BY DEF TypeOK, LoopType
  <2> QED BY <1>7, <2>1, AddChangesOwnership DEF DirQueue
<1> QED BY <1>1, <1>2, <1>3, <1>4, <1>5, <1>6, <1>7 DEF Work

\* The retries that are scheduled.
Retries(ms) == {RetryMutation(m) : m \in {m \in ms : m.retry < MaxRetryBudget}}

\* A retry has the key and the generation of what it retries, and a new id.
LEMMA RetryFields ==
  ASSUME TypeOK, NEW ms \in SUBSET Mutation
  PROVE  /\ Retries(ms) \in SUBSET Mutation
         /\ \A r \in Retries(ms) : \E m \in ms :
              /\ r = RetryMutation(m) /\ Key(r) = Key(m) /\ r.op = m.op /\ r.path = m.path
              /\ r.gen = m.gen /\ r.id = nextId[Key(m)] + 1 /\ m.retry < MaxRetryBudget
<1>1. ASSUME NEW m \in Mutation
      PROVE  /\ RetryMutation(m) \in Mutation /\ Key(RetryMutation(m)) = Key(m)
             /\ RetryMutation(m).op = m.op /\ RetryMutation(m).path = m.path
             /\ RetryMutation(m).gen = m.gen /\ RetryMutation(m).id = nextId[Key(m)] + 1
  <2>1. Key(m) \in Keys
    BY MutationFields
  <2>2. nextId[Key(m)] + 1 \in Nat
    BY <2>1 DEF TypeOK, WorkType
  <2> QED BY <2>2, RetryMutationType DEF RetryMutation
<1>2. \A r \in Retries(ms) : \E m \in ms : r = RetryMutation(m) /\ m.retry < MaxRetryBudget
  BY DEF Retries
<1> QED BY <1>1, <1>2

\* Retries of deletes, or of one mutation.
LEMMA ScheduleRetriesOwned ==
  ASSUME TypeOK, OwnershipInv, NEW ms \in SUBSET Mutation, ScheduleRetries(ms),
         (\A m \in ms : m.op = "delete") \/ (\E c \in Mutation : ms = {c}),
         UNCHANGED <<debounce, debounceTasks, fileQueue>>
  PROVE  OwnershipInv'
<1> DEFINE new == Retries(ms)
<1>1. /\ Sole(pending, debounceTasks, retryTasks, fileQueue) /\ ByPriority(fileQueue)
      /\ pending \in Table /\ debounceTasks \in SUBSET Mutation
      /\ retryTasks \in SUBSET Mutation /\ fileQueue \in [Priorities -> Seq(Mutation)]
  BY OwnershipTypes DEF OwnershipInv
<1>2. new \in SUBSET Mutation
  BY RetryFields
<1>3. \A m, n \in new : m.op # "delete" /\ Key(m) = Key(n) => m = n
  <2>1. \A r \in new : \E m \in ms : r = RetryMutation(m) /\ r.op = m.op
    BY RetryFields
  <2> HIDE DEF new
  <2> QED BY <2>1
<1>4. /\ pending' = RegisterAll(pending, new)
      /\ retryTasks' = retryTasks \cup {r \in new : CanRegister(pending, r)}
  BY DEF ScheduleRetries, Retries
<1> HIDE DEF new
<1>5. Sole(pending', debounceTasks, retryTasks', fileQueue)
  BY <1>1, <1>2, <1>3, <1>4, SoleRetries
<1> QED BY <1>1, <1>5, OwnershipFrame

\* A failing change: its follow-up is queued, its retry sleeps.
LEMMA ChangeFailureOwned ==
  ASSUME TypeOK, OwnershipInv, NEW committed \in BOOLEAN,
         ChangeBusy(committed) \/ ChangeError(committed)
  PROVE  OwnershipInv'
<1> DEFINE f == cur.path
           table == DrainedTable(pending, f)
           retry == RetryOf(cur, DrainedId(f) + 1)
<1>1. cur \in Mutation /\ cur.op = "change" /\ f \in Files
  BY MutationFields DEF ChangeBusy, ChangeError, TypeOK, LoopType, FileOperations
<1>2. /\ Sole(pending, debounceTasks, retryTasks, fileQueue) /\ ByPriority(fileQueue)
      /\ pending \in Table /\ debounceTasks \in SUBSET Mutation
      /\ retryTasks \in SUBSET Mutation /\ fileQueue \in [Priorities -> Seq(Mutation)]
  BY OwnershipTypes DEF OwnershipInv
<1>3. /\ fileQueue' = DrainedQueue(pending, fileQueue, f)
      /\ UNCHANGED <<debounce, debounceTasks>>
      /\ \/ pending' = table /\ retryTasks' = retryTasks
         \/ /\ pending' = Register(table, retry) /\ retryTasks' = retryTasks \cup {retry}
            /\ CanRegister(table, retry)
  BY DEF ChangeBusy, ChangeError
<1>4. DrainedId(f) + 1 \in Nat
  BY <1>1, BuiltMutations DEF TypeOK
<1>5. retry \in Mutation
  BY <1>1, <1>4, RetryMutationType
<1>6. table \in Table /\ fileQueue' \in [Priorities -> Seq(Mutation)]
  BY <1>1, <1>2, <1>3, DrainedType DEF TypeOK
<1>7. Sole(table, debounceTasks, retryTasks, fileQueue') /\ ByPriority(fileQueue')
  BY <1>1, <1>2, <1>3, SoleDrained DEF TypeOK
<1> HIDE DEF f, table, retry
<1>8. CASE pending' = table /\ retryTasks' = retryTasks
  BY <1>3, <1>7, <1>8, OwnershipFrame
<1>9. CASE /\ pending' = Register(table, retry) /\ retryTasks' = retryTasks \cup {retry}
           /\ CanRegister(table, retry)
  <2>1. /\ Sole(pending', debounceTasks, retryTasks, fileQueue')
        /\ Owns(pending', retry)
        /\ retry.op # "delete" => Absent(Key(retry), debounceTasks, retryTasks, fileQueue')
    BY <1>2, <1>5, <1>6, <1>7, <1>9, SoleRegister
  <2>2. {retry} \in SUBSET Mutation
    BY <1>5
  <2>3. Sole(pending', debounceTasks, retryTasks', fileQueue')
    BY <1>2, <1>6, <1>9, <2>1, <2>2, SoleRetry
  <2> QED BY <1>3, <1>7, <2>3, OwnershipFrame
<1> QED BY <1>3, <1>8, <1>9

\* The processing task's failing steps.
LEMMA FailureOwned ==
  ASSUME TypeOK, OwnershipInv, Failure
  PROVE  OwnershipInv'
<1>1. CASE FinishChange(FALSE)
  BY <1>1, FinishChangeOwned
<1>2. ASSUME NEW committed \in BOOLEAN, ChangeBusy(committed) \/ ChangeError(committed)
      PROVE  OwnershipInv'
  BY <1>2, ChangeFailureOwned
<1> DEFINE fresh == {m \in batch : ~IsStale(latestGen, m)}
<1>3. /\ batch \in SUBSET Mutation /\ fresh \in SUBSET Mutation
      /\ \A m \in batch : m.op = "delete"
      /\ \A m \in fresh : m.op = "delete"
  BY DEF TypeOK, LoopType
<1>4. CASE DeletesConflict
  <2>1. ScheduleRetries(fresh) /\ UNCHANGED <<debounce, debounceTasks, fileQueue>>
    BY <1>4 DEF DeletesConflict
  <2> HIDE DEF fresh
  <2> QED BY <1>3, <2>1, ScheduleRetriesOwned
<1>5. CASE DeletesBusy
  <2>1. ScheduleRetries(batch) /\ UNCHANGED <<debounce, debounceTasks, fileQueue>>
    BY <1>5 DEF DeletesBusy
  <2> QED BY <1>3, <2>1, ScheduleRetriesOwned
<1>6. CASE DeletesError
  BY <1>6, OwnershipUntouched DEF DeletesError, GiveUp
<1>7. CASE PassBusy
  <2>1. cur \in Mutation /\ {cur} \in SUBSET Mutation
    BY <1>7 DEF PassBusy, TypeOK, LoopType
  <2>2. ScheduleRetries({cur}) /\ UNCHANGED <<debounce, debounceTasks, fileQueue>>
    BY <1>7 DEF PassBusy
  <2> QED BY <2>1, <2>2, ScheduleRetriesOwned
<1>8. CASE PassError
  BY <1>8, OwnershipUntouched DEF PassError
<1> QED BY <1>1, <1>2, <1>4, <1>5, <1>6, <1>7, <1>8 DEF Failure

\* Everything but a delete is carried once, by the owner of its key.
LEMMA OwnershipHolds == Spec => []OwnershipInv
<1>1. Init => OwnershipInv
  <2> SUFFICES ASSUME Init PROVE OwnershipInv
    OBVIOUS
  <2>1. /\ debounce = {} /\ debounceTasks = {} /\ retryTasks = {}
        /\ fileQueue = [pr \in Priorities |-> <<>>]
    BY DEF Init
  <2>2. \A pr \in Priorities : DOMAIN fileQueue[pr] = {}
    BY <2>1
  <2> QED BY <2>1, <2>2 DEF OwnershipInv, DebounceInv, ByPriority, Sole
<1>2. TypeOK /\ OwnershipInv /\ [Next]_vars => OwnershipInv'
  <2> SUFFICES ASSUME TypeOK, OwnershipInv, [Next]_vars PROVE OwnershipInv'
    OBVIOUS
  <2>1. CASE UNCHANGED vars
    BY <2>1, OwnershipUntouched DEF vars
  <2>2. CASE Edit
    BY <2>2, OwnershipUntouched
       DEF Edit, WriteFile, DeleteFile, AccessFile, MoveDirIn, MoveDirOut, EnvUnchanged
  <2>3. CASE \E p \in Paths : DedupExpires(p)
    BY <2>3, OwnershipUntouched DEF DedupExpires
  <2>4. CASE Intake \/ Consume
    BY <2>4, EventsOwned
  <2>5. CASE Sleepers
    BY <2>5, SleepersOwned
  <2>6. CASE Start
    BY <2>6, StartOwned
  <2>7. CASE Work
    BY <2>7, WorkOwned
  <2>8. CASE Failure
    BY <2>8, FailureOwned
  <2> QED BY <2>1, <2>2, <2>3, <2>4, <2>5, <2>6, <2>7, <2>8 DEF Next
<1> QED BY <1>1, <1>2, TypeCorrect, PTL DEF Spec

\* However many events a file produces, whichever retries and follow-ups are
\* added, at most one change of it is on its way to the processor: add_file
\* and _drain_reserved_follow_up_change start a change only for a key nobody
\* owns, and a carried change keeps owning its key until it is dequeued.
THEOREM OneChangeOnItsWay == Spec => []OneChangePerFile
<1>1. TypeOK /\ OwnershipInv => OneChangePerFile
  <2> SUFFICES ASSUME TypeOK, OwnershipInv, NEW m \in Carried, NEW n \in Carried,
                      m.op = "change", n.op = "change", m.path = n.path
               PROVE  m = n
    BY DEF OneChangePerFile
  <2>1. Key(m) = Key(n)
    BY DEF Key
  <2>2. Sole(pending, debounceTasks, retryTasks, fileQueue) /\ ByPriority(fileQueue)
    BY DEF OwnershipInv
  <2>3. Carried = debounceTasks \cup retryTasks \cup Queued(fileQueue)
    BY CarriedIsCovered
  <2>4. CASE m \in Queued(fileQueue) /\ n \in Queued(fileQueue)
    <3>1. PICK p \in Priorities : \E i \in DOMAIN fileQueue[p] : fileQueue[p][i] = m
      BY <2>4, QueuedAt
    <3>2. PICK q \in Priorities : \E i \in DOMAIN fileQueue[q] : fileQueue[q][i] = n
      BY <2>4, QueuedAt
    <3>3. p = q
      BY <2>2, <3>1, <3>2 DEF ByPriority
    <3> QED BY <2>1, <2>2, <3>1, <3>2, <3>3 DEF Sole
  <2>5. ASSUME NEW a \in debounceTasks \cup retryTasks, NEW b \in Queued(fileQueue),
               a.op = "change", Key(a) = Key(b)
        PROVE  FALSE
    <3>1. PICK p \in Priorities : \E i \in DOMAIN fileQueue[p] : fileQueue[p][i] = b
      BY <2>5, QueuedAt
    <3> QED BY <2>2, <2>5, <3>1 DEF Sole
  <2>6. CASE m \in debounceTasks \cup retryTasks /\ n \in debounceTasks \cup retryTasks
    BY <2>1, <2>2, <2>6 DEF Sole
  <2> QED BY <2>1, <2>3, <2>4, <2>5, <2>6
<1> QED BY <1>1, OwnershipHolds, TypeCorrect, PTL

-----------------------------------------------------------------------------
(* Generations and ids.                                                    *)

\* A change is not newer than its path's newest event.
GenBound(m, latest) == m.op = "change" => m.gen <= latest[m.path]

\* ... and no id is larger than the last one built for its key.
Fits(m, latest, ids) == GenBound(m, latest) /\ m.id <= ids[Key(m)]

\* Everything owned or carried fits.
AllFit(table, debounced, retries, queue, latest, ids) ==
  /\ \A k \in Keys : table[k] # NoMutation => Fits(table[k], latest, ids)
  /\ \A t \in debounced \cup retries : Fits(t, latest, ids)
  /\ \A pr \in Priorities : \A i \in DOMAIN queue[pr] : Fits(queue[pr][i], latest, ids)

\* A carried delete that owns its key is the entry of that key.
Identified(table, debounced, retries, queue) ==
  /\ \A t \in debounced \cup retries :
       t.op = "delete" /\ Owns(table, t) => table[Key(t)] = t
  /\ \A pr \in Priorities : \A i \in DOMAIN queue[pr] :
       queue[pr][i].op = "delete" /\ Owns(table, queue[pr][i]) =>
         table[Key(queue[pr][i])] = queue[pr][i]

FitInv ==
  /\ AllFit(pending, debounceTasks, retryTasks, fileQueue, latestGen, nextId)
  /\ Identified(pending, debounceTasks, retryTasks, fileQueue)

\* Generations are handed out in order, and neither a reservation nor the
\* index runs ahead of them.
NumberInv ==
  /\ \A p \in Paths : latestGen[p] <= nextGen
  /\ \A f \in Files : reserved[f] <= latestGen[f] /\ dbGen[f] <= latestGen[f]

\* What the processing task holds: a delete in flight is as new as what is
\* indexed, and the only one of its key.
HeldInv ==
  /\ cur # NoMutation => GenBound(cur, latestGen)
  /\ buffered # NoMutation => GenBound(buffered, latestGen)
  /\ pc = "delete" => \A m \in batch : m.gen = NoGeneration \/ m.gen >= dbGen[m.path]
  /\ \A m, n \in batch : Key(m) = Key(n) => m = n

GenInv == FitInv /\ NumberInv /\ HeldInv

\* Later generations and ids fit what fitted before.
LEMMA FitsLater ==
  ASSUME NEW m \in Mutation, NEW latest \in [Paths -> Nat], NEW ids \in [Keys -> Nat],
         NEW latest2 \in [Paths -> Nat], NEW ids2 \in [Keys -> Nat],
         \A p \in Paths : latest[p] <= latest2[p],
         \A k \in Keys : ids[k] <= ids2[k],
         Fits(m, latest, ids)
  PROVE  Fits(m, latest2, ids2)
<1>1. m.path \in Paths /\ Key(m) \in Keys /\ m.gen \in Nat /\ m.id \in Nat
  BY MutationFields
<1>2. latest[m.path] \in Nat /\ latest2[m.path] \in Nat /\ latest[m.path] <= latest2[m.path]
  BY <1>1
<1>3. ids[Key(m)] \in Nat /\ ids2[Key(m)] \in Nat /\ ids[Key(m)] <= ids2[Key(m)]
  BY <1>1
<1> QED BY <1>1, <1>2, <1>3 DEF Fits, GenBound

\* ... for everything owned or carried.
LEMMA AllFitLater ==
  ASSUME NEW table \in Table, NEW D \in SUBSET Mutation, NEW R \in SUBSET Mutation,
         NEW Q \in [Priorities -> Seq(Mutation)],
         NEW latest \in [Paths -> Nat], NEW ids \in [Keys -> Nat],
         NEW latest2 \in [Paths -> Nat], NEW ids2 \in [Keys -> Nat],
         \A p \in Paths : latest[p] <= latest2[p],
         \A k \in Keys : ids[k] <= ids2[k],
         AllFit(table, D, R, Q, latest, ids)
  PROVE  AllFit(table, D, R, Q, latest2, ids2)
<1>1. ASSUME NEW m \in Mutation, Fits(m, latest, ids)
      PROVE  Fits(m, latest2, ids2)
  BY <1>1, FitsLater
<1>2. ASSUME NEW k \in Keys, table[k] # NoMutation
      PROVE  Fits(table[k], latest2, ids2)
  BY <1>1, <1>2, TableEntry DEF AllFit
<1>3. \A t \in D \cup R : Fits(t, latest2, ids2)
  BY <1>1 DEF AllFit
<1>4. ASSUME NEW pr \in Priorities, NEW i \in DOMAIN Q[pr]
      PROVE  Fits(Q[pr][i], latest2, ids2)
  BY <1>1, <1>4, QueueEntry DEF AllFit
<1> QED BY <1>2, <1>3, <1>4 DEF AllFit

\* A mutation is queued that fits.
LEMMA FitEnqueue ==
  ASSUME NEW table, NEW D, NEW R, NEW Q \in [Priorities -> Seq(Mutation)],
         NEW latest, NEW ids, AllFit(table, D, R, Q, latest, ids),
         NEW m \in Mutation, Fits(m, latest, ids)
  PROVE  AllFit(table, D, R, Enqueue(Q, m), latest, ids)
<1>1. ASSUME NEW pr \in Priorities, NEW i \in DOMAIN Enqueue(Q, m)[pr]
      PROVE  Fits(Enqueue(Q, m)[pr][i], latest, ids)
  <2>1. \/ Enqueue(Q, m)[pr][i] = m
        \/ i \in DOMAIN Q[pr] /\ Enqueue(Q, m)[pr][i] = Q[pr][i]
    BY <1>1, EnqueueAt
  <2> QED BY <2>1 DEF AllFit
<1> QED BY <1>1 DEF AllFit

\* Entries of the queues are taken.
LEMMA FitSuffix ==
  ASSUME NEW table, NEW D, NEW R, NEW Q, NEW latest, NEW ids,
         AllFit(table, D, R, Q, latest, ids), NEW rest, NEW shift,
         IsSuffix(rest, Q, shift)
  PROVE  AllFit(table, D, R, rest, latest, ids)
  BY DEF AllFit, IsSuffix

\* The table changes to entries that fit.
LEMMA FitTable ==
  ASSUME NEW table, NEW D, NEW R, NEW Q, NEW latest, NEW ids,
         AllFit(table, D, R, Q, latest, ids), NEW new,
         \A k \in Keys : new[k] # NoMutation =>
           new[k] = table[k] \/ Fits(new[k], latest, ids)
  PROVE  AllFit(new, D, R, Q, latest, ids)
  BY DEF AllFit

\* A mutation that fits registers.
LEMMA FitRegister ==
  ASSUME NEW table \in Table, NEW D, NEW R, NEW Q, NEW latest, NEW ids,
         AllFit(table, D, R, Q, latest, ids), NEW m \in Mutation, Fits(m, latest, ids)
  PROVE  AllFit(Register(table, m), D, R, Q, latest, ids)
<1>1. ASSUME NEW k \in Keys, Register(table, m)[k] # NoMutation
      PROVE  Register(table, m)[k] = table[k] \/ Fits(Register(table, m)[k], latest, ids)
  BY RegisterType
<1> QED BY <1>1, FitTable

\* A pending change stands for a newer event of its path.
LEMMA FitRefresh ==
  ASSUME NEW table \in Table, NEW D, NEW R, NEW Q, NEW latest \in [Paths -> Nat], NEW ids,
         AllFit(table, D, R, Q, latest, ids), NEW p \in Paths, NEW g \in Nat,
         g <= latest[p]
  PROVE  AllFit(RefreshGeneration(table, p, g), D, R, Q, latest, ids)
<1> DEFINE new == RefreshGeneration(table, p, g)
           key == <<"change", p>>
<1>1. /\ new \in Table
      /\ \A k \in Keys : k # key => new[k] = table[k]
      /\ \A k \in Keys : new[k] # NoMutation => table[k] # NoMutation /\ new[k].id = table[k].id
      /\ new[key] # NoMutation => new[key].gen \in {g, table[key].gen}
  BY RefreshGenerationType
<1> HIDE DEF new, key
<1>2. ASSUME NEW k \in Keys, k = key, new[k] # NoMutation
      PROVE  Fits(new[k], latest, ids)
  <2>1. new[k] \in Mutation /\ Key(new[k]) = k /\ table[k] \in Mutation /\ Key(table[k]) = k
        /\ new[k].id = table[k].id
    BY <1>1, <1>2, TableEntry
  <2>2. Fits(table[k], latest, ids)
    BY <1>1, <1>2 DEF AllFit
  <2>3. new[k].path = p /\ table[k].path = p /\ new[k].op = "change" /\ table[k].op = "change"
    BY <1>2, <2>1 DEF Key, key
  <2>4. new[k].gen <= latest[p]
    BY <1>1, <1>2, <2>2, <2>3 DEF Fits, GenBound
  <2> QED BY <2>1, <2>2, <2>3, <2>4 DEF Fits, GenBound
<1>3. AllFit(new, D, R, Q, latest, ids)
  BY <1>1, <1>2, FitTable
<1> QED BY <1>3 DEF new

\* The table keeps or frees the keys of deletes.
LEMMA IdentifiedTable ==
  ASSUME NEW table, NEW D \in SUBSET Mutation, NEW R \in SUBSET Mutation,
         NEW Q \in [Priorities -> Seq(Mutation)], Identified(table, D, R, Q), NEW new,
         \A k \in Keys : k[1] = "delete" => new[k] \in {table[k], NoMutation}
  PROVE  Identified(new, D, R, Q)
<1>1. ASSUME NEW m \in Mutation, m.op = "delete", Owns(new, m)
      PROVE  new[Key(m)] = table[Key(m)] /\ Owns(table, m)
  <2>1. Key(m) \in Keys /\ Key(m)[1] = "delete"
    BY <1>1, MutationFields DEF Key
  <2> QED BY <1>1, <2>1 DEF Owns
<1>2. ASSUME NEW t \in D \cup R, t.op = "delete", Owns(new, t)
      PROVE  new[Key(t)] = t
  <2>1. t \in Mutation
    BY <1>2
  <2>2. table[Key(t)] = t
    BY <1>1, <1>2, <2>1 DEF Identified
  <2> QED BY <1>1, <1>2, <2>1, <2>2
<1>3. ASSUME NEW pr \in Priorities, NEW i \in DOMAIN Q[pr],
             Q[pr][i].op = "delete", Owns(new, Q[pr][i])
      PROVE  new[Key(Q[pr][i])] = Q[pr][i]
  <2>1. Q[pr][i] \in Mutation
    BY <1>3, QueueEntry
  <2>2. table[Key(Q[pr][i])] = Q[pr][i]
    BY <1>1, <1>3, <2>1 DEF Identified
  <2> QED BY <1>1, <1>3, <2>1, <2>2
<1> QED BY <1>2, <1>3 DEF Identified

\* A mutation with a new id registers.
LEMMA IdentifiedRegister ==
  ASSUME NEW table \in Table, NEW D \in SUBSET Mutation, NEW R \in SUBSET Mutation,
         NEW Q \in [Priorities -> Seq(Mutation)], Identified(table, D, R, Q),
         NEW latest, NEW ids \in [Keys -> Nat], AllFit(table, D, R, Q, latest, ids),
         NEW m \in Mutation, m.id > ids[Key(m)]
  PROVE  Identified(Register(table, m), D, R, Q)
<1> DEFINE new == Register(table, m)
<1>1. ASSUME NEW n \in Mutation, n.id <= ids[Key(n)], Owns(new, n)
      PROVE  new[Key(n)] = table[Key(n)] /\ Owns(table, n)
  <2>1. Key(n) \in Keys /\ Key(m) \in Keys /\ n.id \in Nat /\ m.id \in Nat
    BY MutationFields
  <2>2. ids[Key(n)] \in Nat /\ ids[Key(m)] \in Nat
    BY <2>1
  <2>3. ASSUME new[Key(n)] = m
        PROVE  FALSE
    <3>1. new \in Table /\ m # NoMutation
      BY RegisterType, MutationFields
    <3>2. Key(m) = Key(n)
      BY <2>1, <2>3, <3>1, TableEntry
    <3>3. m.id = n.id
      BY <1>1, <2>3 DEF Owns
    <3> QED BY <1>1, <2>1, <2>2, <3>2, <3>3
  <2>4. new[Key(n)] = table[Key(n)]
    BY <2>1, <2>3, RegisterType
  <2> HIDE DEF new
  <2> QED BY <1>1, <2>4 DEF Owns
<1> HIDE DEF new
<1>2. ASSUME NEW t \in D \cup R, t.op = "delete", Owns(new, t)
      PROVE  new[Key(t)] = t
  <2>1. t \in Mutation /\ t.id <= ids[Key(t)]
    BY <1>2 DEF AllFit, Fits
  <2>2. table[Key(t)] = t
    BY <1>1, <1>2, <2>1 DEF Identified
  <2> QED BY <1>1, <1>2, <2>1, <2>2
<1>3. ASSUME NEW pr \in Priorities, NEW i \in DOMAIN Q[pr],
             Q[pr][i].op = "delete", Owns(new, Q[pr][i])
      PROVE  new[Key(Q[pr][i])] = Q[pr][i]
  <2>1. Q[pr][i] \in Mutation /\ Q[pr][i].id <= ids[Key(Q[pr][i])]
    BY <1>3, QueueEntry DEF AllFit, Fits
  <2>2. table[Key(Q[pr][i])] = Q[pr][i]
    BY <1>1, <1>3, <2>1 DEF Identified
  <2> QED BY <1>1, <1>3, <2>1, <2>2
<1>4. Identified(new, D, R, Q)
  BY <1>2, <1>3 DEF Identified
<1> QED BY <1>4 DEF new

\* A mutation is queued that is the entry of its key, or no delete.
LEMMA IdentifiedEnqueue ==
  ASSUME NEW table, NEW D, NEW R, NEW Q \in [Priorities -> Seq(Mutation)],
         Identified(table, D, R, Q), NEW m \in Mutation,
         m.op = "delete" => table[Key(m)] = m
  PROVE  Identified(table, D, R, Enqueue(Q, m))
<1>1. ASSUME NEW pr \in Priorities, NEW i \in DOMAIN Enqueue(Q, m)[pr]
      PROVE  \/ Enqueue(Q, m)[pr][i] = m
             \/ i \in DOMAIN Q[pr] /\ Enqueue(Q, m)[pr][i] = Q[pr][i]
  BY <1>1, EnqueueAt
<1>2. ASSUME NEW pr \in Priorities, NEW i \in DOMAIN Enqueue(Q, m)[pr],
             Enqueue(Q, m)[pr][i].op = "delete", Owns(table, Enqueue(Q, m)[pr][i])
      PROVE  table[Key(Enqueue(Q, m)[pr][i])] = Enqueue(Q, m)[pr][i]
  <2>1. CASE Enqueue(Q, m)[pr][i] = m
    BY <1>2, <2>1
  <2>2. CASE i \in DOMAIN Q[pr] /\ Enqueue(Q, m)[pr][i] = Q[pr][i]
    BY <1>2, <2>2 DEF Identified
  <2> QED BY <1>1, <1>2, <2>1, <2>2
<1> QED BY <1>2 DEF Identified

\* Fewer carriers.
LEMMA IdentifiedSuffix ==
  ASSUME NEW table, NEW D, NEW R, NEW Q, Identified(table, D, R, Q), NEW rest, NEW shift,
         IsSuffix(rest, Q, shift)
  PROVE  Identified(table, D, R, rest)
  BY DEF Identified, IsSuffix

\* A newly built mutation is registered and queued, or refused.
LEMMA FitEnqueueNew ==
  ASSUME NEW table \in Table, NEW D \in SUBSET Mutation, NEW R \in SUBSET Mutation,
         NEW Q \in [Priorities -> Seq(Mutation)], NEW latest \in [Paths -> Nat],
         NEW ids \in [Keys -> Nat], NEW ids2 \in [Keys -> Nat],
         AllFit(table, D, R, Q, latest, ids), Identified(table, D, R, Q),
         \A k \in Keys : ids[k] <= ids2[k],
         NEW m \in Mutation, GenBound(m, latest),
         m.op = "delete" => m.id > ids[Key(m)],
         m.id <= ids2[Key(m)], NEW new,
         new = IF CanRegister(table, m) THEN Enqueue(Q, m) ELSE Q
  PROVE  /\ AllFit(Register(table, m), D, R, new, latest, ids2)
         /\ Identified(Register(table, m), D, R, new)
<1> DEFINE after == Register(table, m)
<1>1. \A p \in Paths : latest[p] <= latest[p]
  OBVIOUS
<1>2. AllFit(table, D, R, Q, latest, ids2)
  BY <1>1, AllFitLater
<1>3. Fits(m, latest, ids2)
  BY DEF Fits
<1>4. AllFit(after, D, R, Q, latest, ids2)
  BY <1>2, <1>3, FitRegister
<1>5. after \in Table /\ (CanRegister(table, m) => after[Key(m)] = m)
  BY RegisterType
<1>6. Identified(after, D, R, Q)
  <2>1. CASE m.op = "delete"
    BY <2>1, IdentifiedRegister
  <2>2. CASE m.op # "delete"
    <3>1. Key(m)[1] # "delete"
      BY <2>2 DEF Key
    <3>2. ASSUME NEW k \in Keys, k[1] = "delete"
          PROVE  after[k] = table[k]
      BY <3>1, <3>2, RegisterType
    <3> HIDE DEF after
    <3> QED BY <3>2, IdentifiedTable
  <2> QED BY <2>1, <2>2
<1> HIDE DEF after
<1>7. CASE CanRegister(table, m)
  <2>1. new = Enqueue(Q, m)
    BY <1>7
  <2>2. AllFit(after, D, R, new, latest, ids2)
    BY <1>3, <1>4, <2>1, FitEnqueue
  <2>3. Identified(after, D, R, new)
    BY <1>5, <1>6, <1>7, <2>1, IdentifiedEnqueue
  <2> QED BY <2>2, <2>3 DEF after
<1>8. CASE ~ CanRegister(table, m)
  BY <1>4, <1>6, <1>8 DEF after
<1> QED BY <1>7, <1>8

\* Draining a reserved follow-up.
LEMMA FitDrained ==
  ASSUME IntakeType, WorkType, NEW f \in Files, reserved[f] <= latestGen[f],
         NEW table \in Table, NEW D \in SUBSET Mutation, NEW R \in SUBSET Mutation,
         NEW Q \in [Priorities -> Seq(Mutation)],
         NEW ids \in [Keys -> Nat], reserved[f] # NoGeneration =>
           nextId[<<"change", f>>] + 1 <= ids[<<"change", f>>],
         AllFit(table, D, R, Q, latestGen, ids), Identified(table, D, R, Q)
  PROVE  /\ AllFit(DrainedTable(table, f), D, R, DrainedQueue(table, Q, f), latestGen, ids)
         /\ Identified(DrainedTable(table, f), D, R, DrainedQueue(table, Q, f))
<1>1. reserved[f] \in Nat /\ f \in Paths /\ latestGen \in [Paths -> Nat]
      /\ nextId \in [Keys -> Nat] /\ <<"change", f>> \in Keys
  BY FileKeys DEF WorkType, IntakeType
<1>2. /\ FollowUp(f) \in Mutation /\ Key(FollowUp(f)) = <<"change", f>>
      /\ FollowUp(f).gen = reserved[f] /\ FollowUp(f).path = f /\ FollowUp(f).op = "change"
  BY BuiltMutations
<1>3. FollowUp(f).id = nextId[<<"change", f>>] + 1
  BY DEF FollowUp, FreshMutation
<1>4. CASE reserved[f] = NoGeneration
  BY <1>4 DEF DrainedTable, DrainedQueue
<1>5. CASE reserved[f] # NoGeneration /\ CanRegister(table, FollowUp(f))
  <2>1. /\ DrainedTable(table, f) = Register(table, FollowUp(f))
        /\ DrainedQueue(table, Q, f) =
             IF CanRegister(table, FollowUp(f)) THEN Enqueue(Q, FollowUp(f)) ELSE Q
    BY <1>5 DEF DrainedTable, DrainedQueue
  <2>2. GenBound(FollowUp(f), latestGen)
    BY <1>2 DEF GenBound
  <2>3. \A k \in Keys : ids[k] <= ids[k]
    OBVIOUS
  <2>4. FollowUp(f).id <= ids[Key(FollowUp(f))]
    BY <1>2, <1>3, <1>5
  <2> QED BY <1>1, <1>2, <2>1, <2>2, <2>3, <2>4, FitEnqueueNew
<1>6. CASE reserved[f] # NoGeneration /\ ~ CanRegister(table, FollowUp(f))
  <2> DEFINE new == RefreshGeneration(table, f, reserved[f])
  <2>1. DrainedTable(table, f) = new /\ DrainedQueue(table, Q, f) = Q
    BY <1>6 DEF DrainedTable, DrainedQueue
  <2>2. AllFit(new, D, R, Q, latestGen, ids)
    BY <1>1, FitRefresh
  <2>3. ASSUME NEW k \in Keys, k[1] = "delete"
        PROVE  new[k] = table[k]
    <3>1. k # <<"change", f>>
      BY <2>3
    <3> QED BY <1>1, <3>1, RefreshGenerationType
  <2> HIDE DEF new
  <2>4. Identified(new, D, R, Q)
    BY <2>3, IdentifiedTable
  <2> QED BY <2>1, <2>2, <2>4
<1> QED BY <1>4, <1>5, <1>6

\* Registering the retries of mutations of distinct keys.
LEMMA FitRetries ==
  ASSUME NEW table \in Table, NEW D \in SUBSET Mutation, NEW R \in SUBSET Mutation,
         NEW Q \in [Priorities -> Seq(Mutation)], NEW latest \in [Paths -> Nat],
         NEW ids \in [Keys -> Nat], NEW ids2 \in [Keys -> Nat],
         AllFit(table, D, R, Q, latest, ids), Identified(table, D, R, Q),
         \A k \in Keys : ids[k] <= ids2[k],
         NEW ms \in SUBSET Mutation, \A m \in ms : GenBound(m, latest),
         \A m \in ms : m.id > ids[Key(m)] /\ m.id <= ids2[Key(m)],
         \A m, n \in ms : Key(m) = Key(n) => m = n
  PROVE  /\ AllFit(RegisterAll(table, ms), D, R \cup {m \in ms : CanRegister(table, m)}, Q,
                   latest, ids2)
         /\ Identified(RegisterAll(table, ms), D, R \cup {m \in ms : CanRegister(table, m)}, Q)
<1> DEFINE after == RegisterAll(table, ms)
           new == {m \in ms : CanRegister(table, m)}
<1>1. /\ after \in Table
      /\ \A k \in Keys : \/ after[k] = table[k]
                         \/ \E m \in ms : Key(m) = k /\ CanRegister(table, m) /\ after[k] = m
  BY RegisterAllType
<1>2. \A m \in ms : Fits(m, latest, ids2) /\ m \in Mutation /\ Key(m) \in Keys
  BY MutationFields DEF Fits
<1>3. ASSUME NEW m \in new
      PROVE  after[Key(m)] = m
  <2>1. Key(m) \in Keys
    BY <1>2, <1>3
  <2>2. after[Key(m)] = CHOOSE n \in ms : Key(n) = Key(m) /\ CanRegister(table, n)
    BY <1>3, <2>1 DEF RegisterAll
  <2>3. after[Key(m)] \in ms /\ Key(after[Key(m)]) = Key(m)
    BY <1>3, <2>2
  <2> QED BY <1>3, <2>3
<1>4. new \in SUBSET ms
  OBVIOUS
<1> HIDE DEF after, new
<1>5. AllFit(table, D, R, Q, latest, ids2)
  <2>1. \A p \in Paths : latest[p] <= latest[p]
    OBVIOUS
  <2> QED BY <2>1, AllFitLater
<1>6. AllFit(after, D, R, Q, latest, ids2)
  BY <1>1, <1>2, <1>5, FitTable
<1>7. AllFit(after, D, R \cup new, Q, latest, ids2)
  BY <1>2, <1>4, <1>6 DEF AllFit
<1>8. ASSUME NEW n \in Mutation, n.id <= ids[Key(n)], Owns(after, n)
      PROVE  after[Key(n)] = table[Key(n)] /\ Owns(table, n)
  <2>1. Key(n) \in Keys /\ n.id \in Nat
    BY MutationFields
  <2>2. ids[Key(n)] \in Nat
    BY <2>1
  <2>3. ASSUME NEW m \in ms, Key(m) = Key(n), after[Key(n)] = m
        PROVE  FALSE
    <3>1. m.id = n.id
      BY <1>8, <2>3 DEF Owns
    <3>2. m.id > ids[Key(n)]
      BY <2>3
    <3> QED BY <1>8, <2>1, <2>2, <3>1, <3>2
  <2>4. after[Key(n)] = table[Key(n)]
    BY <1>1, <2>1, <2>3
  <2> QED BY <1>8, <2>4 DEF Owns
<1>9. ASSUME NEW t \in D \cup R, t.op = "delete", Owns(after, t)
      PROVE  after[Key(t)] = t
  <2>1. t \in Mutation /\ t.id <= ids[Key(t)]
    BY <1>9 DEF AllFit, Fits
  <2>2. table[Key(t)] = t
    BY <1>8, <1>9, <2>1 DEF Identified
  <2> QED BY <1>8, <1>9, <2>1, <2>2
<1>10. ASSUME NEW pr \in Priorities, NEW i \in DOMAIN Q[pr],
              Q[pr][i].op = "delete", Owns(after, Q[pr][i])
       PROVE  after[Key(Q[pr][i])] = Q[pr][i]
  <2>1. Q[pr][i] \in Mutation /\ Q[pr][i].id <= ids[Key(Q[pr][i])]
    BY <1>10, QueueEntry DEF AllFit, Fits
  <2>2. table[Key(Q[pr][i])] = Q[pr][i]
    BY <1>8, <1>10, <2>1 DEF Identified
  <2> QED BY <1>8, <1>10, <2>1, <2>2
<1>11. Identified(after, D, R \cup new, Q)
  BY <1>3, <1>9, <1>10 DEF Identified
<1> QED BY <1>7, <1>11 DEF after, new

\* Deletes appended to the first queue.
LEMMA FitConcat ==
  ASSUME NEW table, NEW D, NEW R, NEW Q \in [Priorities -> Seq(Mutation)],
         NEW latest, NEW ids, AllFit(table, D, R, Q, latest, ids),
         Identified(table, D, R, Q), NEW s \in Seq(Mutation),
         \A i \in DOMAIN s : Fits(s[i], latest, ids) /\ table[Key(s[i])] = s[i]
  PROVE  /\ AllFit(table, D, R, [Q EXCEPT ![0] = @ \o s], latest, ids)
         /\ Identified(table, D, R, [Q EXCEPT ![0] = @ \o s])
<1> DEFINE new == [Q EXCEPT ![0] = @ \o s]
<1>1. ASSUME NEW pr \in Priorities, NEW i \in DOMAIN new[pr]
      PROVE  \/ \E j \in DOMAIN s : new[pr][i] = s[j]
             \/ i \in DOMAIN Q[pr] /\ new[pr][i] = Q[pr][i]
  <2>1. Q[pr] \in Seq(Mutation)
    OBVIOUS
  <2>2. CASE pr = 0
    <3>1. new[pr] = Q[pr] \o s
      BY <2>2
    <3>2. \/ i \in DOMAIN Q[pr] /\ (Q[pr] \o s)[i] = Q[pr][i]
          \/ i - Len(Q[pr]) \in DOMAIN s /\ (Q[pr] \o s)[i] = s[i - Len(Q[pr])]
      BY <1>1, <2>1, <3>1
    <3> HIDE DEF new
    <3> QED BY <3>1, <3>2
  <2>3. CASE pr # 0
    <3>1. new[pr] = Q[pr]
      BY <2>3
    <3> HIDE DEF new
    <3> QED BY <1>1, <3>1
  <2> QED BY <2>2, <2>3
<1> HIDE DEF new
<1>2. ASSUME NEW pr \in Priorities, NEW i \in DOMAIN new[pr]
      PROVE  /\ Fits(new[pr][i], latest, ids)
             /\ new[pr][i].op = "delete" /\ Owns(table, new[pr][i]) =>
                  table[Key(new[pr][i])] = new[pr][i]
  <2>1. CASE \E j \in DOMAIN s : new[pr][i] = s[j]
    BY <2>1
  <2>2. CASE i \in DOMAIN Q[pr] /\ new[pr][i] = Q[pr][i]
    BY <2>2 DEF AllFit, Identified
  <2> QED BY <1>1, <1>2, <2>1, <2>2
<1>3. AllFit(table, D, R, new, latest, ids) /\ Identified(table, D, R, new)
  BY <1>2 DEF AllFit, Identified
<1> QED BY <1>3 DEF new

\* The mutation a delete or a directory event is turned into, in full.
LEMMA ImmediateFields ==
  ASSUME TypeOK, NEW e \in Event, ConsumeImmediate(e)
  PROVE  \E m \in Mutation :
           /\ EnqueueNew(m)
           /\ m.path = e.path /\ m.id = nextId[Key(m)] + 1
           /\ e.type = "deleted" => m.op = "delete" /\ m.gen = latestGen[e.path]
           /\ e.type # "deleted" => m.op \in {"dir_delete", "dir_index"}
<1> DEFINE op == CASE e.type = "deleted" -> "delete"
                   [] e.type = "dir_deleted" -> "dir_delete"
                   [] OTHER -> "dir_index"
           gen == IF op = "dir_index" THEN NoGeneration ELSE latestGen[e.path]
           m == FreshMutation(nextId[<<op, e.path>>] + 1, op, e.path, gen)
<1>1. EnqueueNew(m)
  BY DEF ConsumeImmediate
<1>2. nextId \in [Keys -> Nat] /\ latestGen \in [Paths -> Nat]
      /\ e.type \in {"deleted", "dir_created", "dir_deleted"}
  BY DEF TypeOK, IntakeType, WorkType, ConsumeImmediate
<1>3. e.path \in Paths /\ gen \in Nat
  BY <1>2, EventFields DEF NoGeneration
<1>4. /\ \/ op = "delete" /\ e.path \in Files
         \/ op \in {"dir_delete", "dir_index"} /\ e.path \in Dirs
      /\ e.type = "deleted" => op = "delete" /\ gen = latestGen[e.path]
      /\ e.type # "deleted" => op \in {"dir_delete", "dir_index"}
  BY <1>2, EventFields DEF FileEventTypes, DirEventTypes
<1>5. <<op, e.path>> \in Keys
  <2>1. op \in Operations
    BY <1>4 DEF Operations, FileOperations, DirOperations
  <2> HIDE DEF op
  <2> QED BY <1>3, <2>1 DEF Keys
<1> HIDE DEF op, gen
<1>6. nextId[<<op, e.path>>] + 1 \in Nat
  BY <1>2, <1>5
<1>7. m \in Mutation
  <2>1. CASE op = "delete" /\ e.path \in Files
    <3>1. op \in FileOperations
      BY <2>1 DEF FileOperations
    <3> QED BY <1>3, <1>6, <2>1, <3>1, FreshFileMutation
  <2>2. CASE op \in {"dir_delete", "dir_index"} /\ e.path \in Dirs
    <3>1. op \in DirOperations
      BY <2>2 DEF DirOperations
    <3> QED BY <1>3, <1>6, <2>2, <3>1, FreshDirMutation
  <2> QED BY <1>4, <2>1, <2>2
<1>8. m.path = e.path /\ m.id = nextId[<<op, e.path>>] + 1 /\ m.op = op /\ m.gen = gen
      /\ Key(m) = <<op, e.path>>
  BY DEF FreshMutation, Key
<1> HIDE DEF m
<1> QED BY <1>1, <1>4, <1>7, <1>8

\* Building ids counts their keys.
LEMMA BuildIdsGrow ==
  ASSUME nextId \in [Keys -> Nat], NEW keys
  PROVE  /\ BuildIds(keys) \in [Keys -> Nat]
         /\ \A k \in Keys : nextId[k] <= BuildIds(keys)[k]
         /\ \A k \in Keys : k \in keys => BuildIds(keys)[k] = nextId[k] + 1
  BY DEF BuildIds

\* The types the invariant needs.
LEMMA GenTypes ==
  ASSUME TypeOK
  PROVE  /\ pending \in Table /\ debounceTasks \in SUBSET Mutation
         /\ retryTasks \in SUBSET Mutation /\ fileQueue \in [Priorities -> Seq(Mutation)]
         /\ latestGen \in [Paths -> Nat] /\ nextId \in [Keys -> Nat] /\ nextGen \in Nat
         /\ reserved \in [Files -> Nat] /\ dbGen \in [Files -> Nat]
         /\ batch \in SUBSET Mutation
         /\ cur # NoMutation => cur \in Mutation
         /\ buffered # NoMutation => buffered \in Mutation
  BY DEF TypeOK, WorkType, IntakeType, IndexType, LoopType

\* Steps that leave a part of the invariant alone.
LEMMA GenUntouched ==
  /\ FitInv /\ UNCHANGED <<pending, debounceTasks, retryTasks, fileQueue, latestGen, nextId>>
       => FitInv'
  /\ NumberInv /\ UNCHANGED <<latestGen, nextGen, reserved, dbGen>> => NumberInv'
  /\ HeldInv /\ UNCHANGED <<latestGen, dbGen, pc, cur, buffered, batch>> => HeldInv'
  /\ HeldInv /\ UNCHANGED latestGen /\ GoIdle => HeldInv'
<1>1. FitInv /\ UNCHANGED <<pending, debounceTasks, retryTasks, fileQueue, latestGen, nextId>>
       => FitInv'
  BY DEF FitInv
<1>2. NumberInv /\ UNCHANGED <<latestGen, nextGen, reserved, dbGen>> => NumberInv'
  BY DEF NumberInv
<1>3. HeldInv /\ UNCHANGED <<latestGen, dbGen, pc, cur, buffered, batch>> => HeldInv'
  BY DEF HeldInv
<1>4. HeldInv /\ UNCHANGED latestGen /\ GoIdle => HeldInv'
  BY DEF HeldInv, GoIdle
<1> QED BY <1>1, <1>2, <1>3, <1>4

\* An accepted event takes the next generation.
LEMMA AcceptGen ==
  ASSUME TypeOK, GenInv, AcceptEvent
  PROVE  GenInv'
<1> DEFINE p == Head(wire).path
<1>1. wire \in Seq(Event) /\ wire # <<>>
  BY DEF AcceptEvent, TypeOK, EnvironmentType
<1>2. Head(wire) \in Event
  BY <1>1
<1>3. p \in Paths
  BY <1>2, EventFields
<1>4. /\ pending' = RefreshGeneration(pending, p, nextGen + 1) /\ nextGen' = nextGen + 1
      /\ latestGen' = [latestGen EXCEPT ![p] = nextGen + 1]
      /\ UNCHANGED <<debounceTasks, retryTasks, fileQueue, nextId, reserved, dbGen, pc, cur,
                     buffered, batch>>
  BY DEF AcceptEvent
<1> HIDE DEF p
<1>5. /\ latestGen' \in [Paths -> Nat] /\ nextGen + 1 \in Nat /\ latestGen'[p] = nextGen + 1
      /\ \A q \in Paths : latestGen[q] <= latestGen'[q] /\ latestGen'[q] <= nextGen'
  BY <1>3, <1>4, GenTypes DEF GenInv, NumberInv
<1>6. NumberInv'
  <2>1. ASSUME NEW f \in Files
        PROVE  reserved[f] <= latestGen'[f] /\ dbGen[f] <= latestGen'[f]
    <3>1. f \in Paths /\ reserved[f] \in Nat /\ dbGen[f] \in Nat /\ latestGen[f] \in Nat
          /\ latestGen'[f] \in Nat
      BY <1>5, FileKeys, GenTypes
    <3>2. reserved[f] <= latestGen[f] /\ dbGen[f] <= latestGen[f]
      BY DEF GenInv, NumberInv
    <3>3. latestGen[f] <= latestGen'[f]
      BY <1>5, <3>1
    <3> QED BY <3>1, <3>2, <3>3
  <2> QED BY <1>4, <1>5, <2>1 DEF NumberInv
<1>7. FitInv'
  <2>1. \A k \in Keys : nextId[k] <= nextId[k]
    BY GenTypes
  <2>2. AllFit(pending, debounceTasks, retryTasks, fileQueue, latestGen', nextId)
    BY <1>5, <2>1, GenTypes, AllFitLater DEF GenInv, FitInv
  <2>3. AllFit(pending', debounceTasks, retryTasks, fileQueue, latestGen', nextId)
    BY <1>3, <1>4, <1>5, <2>2, GenTypes, FitRefresh
  <2>4. ASSUME NEW k \in Keys, k[1] = "delete"
        PROVE  pending'[k] = pending[k]
    <3>1. k # <<"change", p>>
      BY <2>4
    <3>2. pending \in Table
      BY GenTypes
    <3>3. RefreshGeneration(pending, p, nextGen + 1)[k] = pending[k]
      BY <1>3, <1>5, <3>1, <3>2, RefreshGenerationType
    <3> QED BY <1>4, <3>3
  <2>5. Identified(pending', debounceTasks, retryTasks, fileQueue)
    BY <2>4, GenTypes, IdentifiedTable DEF GenInv, FitInv
  <2> QED BY <1>4, <2>3, <2>5 DEF FitInv
<1>8. HeldInv'
  <2>1. ASSUME NEW m \in Mutation, GenBound(m, latestGen)
        PROVE  GenBound(m, latestGen')
    <3>1. m.path \in Paths /\ m.gen \in Nat
      BY MutationFields
    <3>2. latestGen[m.path] \in Nat /\ latestGen'[m.path] \in Nat
          /\ latestGen[m.path] <= latestGen'[m.path]
      BY <1>5, <3>1, GenTypes
    <3> QED BY <2>1, <3>1, <3>2 DEF GenBound
  <2> QED BY <1>4, <2>1, GenTypes DEF GenInv, HeldInv
<1> QED BY <1>6, <1>7, <1>8 DEF GenInv

\* add_file numbers its change with the newest event of the file.
LEMMA AddChangesGen ==
  ASSUME TypeOK, GenInv, NEW S \in SUBSET Files, AddChanges(S),
         UNCHANGED <<retryTasks, fileQueue, active, latestGen, nextGen, dbGen>>
  PROVE  FitInv' /\ NumberInv'
<1>1. PICK new \in SUBSET S :
        /\ debounceTasks' = debounceTasks \cup {NewChange(f) : f \in new}
        /\ \A k \in Keys : k[1] # "change" => pending'[k] = pending[k]
        /\ \A k \in Keys : pending[k] # NoMutation =>
             pending'[k] # NoMutation /\ pending'[k].id = pending[k].id
        /\ \A k \in Keys : pending'[k] # NoMutation =>
             \/ pending'[k] = pending[k]
             \/ /\ k[1] = "change" /\ k[2] \in S
                /\ pending'[k].gen \in {latestGen[k[2]], pending[k].gen}
                /\ pending[k] # NoMutation
             \/ k[1] = "change" /\ k[2] \in new /\ pending'[k] = NewChange(k[2])
  BY AddChangesOwners
<1>2. nextId' = BuildIds({"change"} \X S)
  BY DEF AddChanges
<1>3. /\ nextId' \in [Keys -> Nat] /\ \A k \in Keys : nextId[k] <= nextId'[k]
      /\ \A f \in S : nextId'[<<"change", f>>] = nextId[<<"change", f>>] + 1
  <2>1. \A f \in S : <<"change", f>> \in Keys /\ <<"change", f>> \in {"change"} \X S
    BY FileKeys
  <2> QED BY <1>2, <2>1, GenTypes, BuildIdsGrow
<1>4. NumberInv'
  <2>1. reserved' = [f \in Files |->
                       IF /\ f \in {g \in S : pending[<<"change", g>>] = NoMutation} \cap active
                          /\ latestGen[f] > reserved[f]
                       THEN latestGen[f] ELSE reserved[f]]
    BY DEF AddChanges
  <2>2. \A f \in Files : latestGen[f] \in Nat
    BY FileKeys, GenTypes
  <2> QED BY <2>1, <2>2 DEF GenInv, NumberInv
<1>5. AllFit(pending, debounceTasks, retryTasks, fileQueue, latestGen, nextId')
  <2>1. \A p \in Paths : latestGen[p] <= latestGen[p]
    BY GenTypes
  <2> QED BY <1>3, <2>1, GenTypes, AllFitLater DEF GenInv, FitInv
<1>6. ASSUME NEW f \in new
      PROVE  /\ NewChange(f) \in Mutation /\ Fits(NewChange(f), latestGen, nextId')
             /\ NewChange(f).op = "change"
  <2>1. /\ NewChange(f) \in Mutation /\ Key(NewChange(f)) = <<"change", f>>
        /\ NewChange(f).gen = latestGen[f] /\ NewChange(f).path = f /\ f \in Files
        /\ NewChange(f).op = "change"
    BY <1>6, BuiltMutations DEF TypeOK
  <2>2. NewChange(f).id = nextId[<<"change", f>>] + 1
    BY DEF NewChange, FreshMutation
  <2>3. latestGen[f] \in Nat /\ nextId[<<"change", f>>] \in Nat
    BY <2>1, FileKeys, GenTypes
  <2> QED BY <1>3, <1>6, <2>1, <2>2, <2>3 DEF Fits, GenBound
<1>7. pending' \in Table
  <2>1. WorkType'
    BY AddChangesType DEF TypeOK
  <2> QED BY <2>1 DEF WorkType
<1>8. ASSUME NEW k \in Keys, pending'[k] # NoMutation
      PROVE  pending'[k] = pending[k] \/ Fits(pending'[k], latestGen, nextId')
  <2>1. CASE k[1] = "change" /\ k[2] \in new /\ pending'[k] = NewChange(k[2])
    BY <1>6, <2>1
  <2>2. CASE /\ k[1] = "change" /\ k[2] \in S
             /\ pending'[k].gen \in {latestGen[k[2]], pending[k].gen}
             /\ pending[k] # NoMutation
    <3>1. pending[k] \in Mutation /\ Key(pending[k]) = k
      BY <2>2, GenTypes, TableEntry
    <3>2. pending'[k] \in Mutation /\ Key(pending'[k]) = k
      BY <1>7, <1>8, TableEntry
    <3>3. pending'[k].id = pending[k].id
      BY <1>1, <2>2
    <3>4. Fits(pending[k], latestGen, nextId')
      BY <1>5, <2>2 DEF AllFit
    <3>5. k[2] \in Paths /\ pending[k].path = k[2] /\ pending[k].op = "change"
          /\ pending'[k].path = k[2] /\ pending'[k].op = "change"
      BY <2>2, <3>1, <3>2 DEF Key, Keys
    <3>6. latestGen[k[2]] \in Nat
      BY <3>5, GenTypes
    <3>7. pending'[k].gen <= latestGen[k[2]]
      BY <2>2, <3>4, <3>5, <3>6 DEF Fits, GenBound
    <3> QED BY <3>1, <3>2, <3>3, <3>4, <3>5, <3>7 DEF Fits, GenBound
  <2> QED BY <1>1, <1>8, <2>1, <2>2
<1>9. AllFit(pending', debounceTasks, retryTasks, fileQueue, latestGen, nextId')
  BY <1>5, <1>8, FitTable
<1>10. Identified(pending', debounceTasks, retryTasks, fileQueue)
  <2>1. \A k \in Keys : k[1] = "delete" => pending'[k] = pending[k]
    BY <1>1
  <2> QED BY <2>1, GenTypes, IdentifiedTable DEF GenInv, FitInv
<1>11. \A t \in debounceTasks' :
         t \in debounceTasks \/ (Fits(t, latestGen, nextId') /\ t.op = "change")
  BY <1>1, <1>6
<1>12. FitInv'
  BY <1>9, <1>10, <1>11 DEF FitInv, AllFit, Identified
<1> QED BY <1>4, <1>12

\* Event intake and consumption.
LEMMA EventsGen ==
  ASSUME TypeOK, GenInv, Intake \/ Consume
  PROVE  GenInv'
<1>1. CASE DropEvent
  BY <1>1, GenUntouched DEF DropEvent, GenInv
<1>2. CASE SuppressDuplicate
  BY <1>2, GenUntouched DEF SuppressDuplicate, GenInv
<1>3. ASSUME NEW e \in Event, ConsumeChange(e)
      PROVE  GenInv'
  <2>1. e.path \in Files
    BY <1>3, EventFields DEF ConsumeChange, FileEventTypes
  <2>2. FitInv' /\ NumberInv'
    BY <1>3, <2>1, AddChangesGen DEF ConsumeChange
  <2>3. HeldInv'
    BY <1>3, GenUntouched DEF ConsumeChange, GenInv
  <2> QED BY <2>2, <2>3 DEF GenInv
<1>4. ASSUME NEW e \in Event, ConsumeImmediate(e)
      PROVE  GenInv'
  <2>1. PICK m \in Mutation : /\ EnqueueNew(m) /\ m.id = nextId[Key(m)] + 1
                              /\ m.op # "change"
    BY <1>4, ImmediateFields
  <2>2. /\ pending' = Register(pending, m) /\ nextId' = BuildIds({Key(m)})
        /\ fileQueue' = IF CanRegister(pending, m) THEN Enqueue(fileQueue, m) ELSE fileQueue
    BY <2>1 DEF EnqueueNew
  <2>3. UNCHANGED <<debounceTasks, retryTasks, latestGen, nextGen, reserved, dbGen, pc, cur,
                    buffered, batch>>
    BY <1>4 DEF ConsumeImmediate
  <2>4. /\ nextId' \in [Keys -> Nat] /\ \A k \in Keys : nextId[k] <= nextId'[k]
        /\ nextId'[Key(m)] = nextId[Key(m)] + 1
    BY <2>2, GenTypes, MutationFields, BuildIdsGrow
  <2>5. nextId[Key(m)] \in Nat
    BY GenTypes, MutationFields
  <2>6. GenBound(m, latestGen) /\ m.id > nextId[Key(m)] /\ m.id <= nextId'[Key(m)]
    BY <2>1, <2>4, <2>5 DEF GenBound
  <2>7. /\ AllFit(pending', debounceTasks, retryTasks, fileQueue', latestGen, nextId')
        /\ Identified(pending', debounceTasks, retryTasks, fileQueue')
    BY <2>2, <2>4, <2>6, GenTypes, FitEnqueueNew DEF GenInv, FitInv
  <2>8. FitInv'
    BY <2>3, <2>7 DEF FitInv
  <2> QED BY <2>3, <2>8, GenUntouched DEF GenInv
<1>5. eventQueue # <<>> => Head(eventQueue) \in Event
  BY DEF TypeOK, IntakeType
<1>6. ASSUME NEW e \in Event, ConsumeAccess(e)
      PROVE  GenInv'
  BY <1>6, GenUntouched DEF ConsumeAccess, GenInv
<1> QED BY <1>1, <1>2, <1>3, <1>4, <1>5, <1>6, AcceptGen DEF Intake, Consume

\* The tasks that wake up.
LEMMA SleepersGen ==
  ASSUME TypeOK, OwnershipInv, GenInv, Sleepers
  PROVE  GenInv'
<1>1. /\ AllFit(pending, debounceTasks, retryTasks, fileQueue, latestGen, nextId)
      /\ Identified(pending, debounceTasks, retryTasks, fileQueue)
  BY DEF GenInv, FitInv
<1>2. ASSUME NEW t \in debounceTasks, DebounceElapses(t)
      PROVE  GenInv'
  <2> DEFINE m == pending[Key(t)]
  <2>1. m \in Mutation /\ Key(m) = Key(t) /\ fileQueue' = Enqueue(fileQueue, m)
        /\ pending' = pending
    BY <1>2, DebounceHandsOver
  <2>2. /\ debounceTasks' \subseteq debounceTasks
        /\ UNCHANGED <<retryTasks, latestGen, nextGen, nextId, reserved, dbGen, pc, cur,
                       buffered, batch>>
    BY <1>2 DEF DebounceElapses
  <2>3. t \in Mutation /\ t.op = "change" /\ Key(t) \in Keys /\ m # NoMutation
    BY <2>1, GenTypes, MutationFields DEF OwnershipInv, DebounceInv
  <2>4. m.op = "change" /\ Fits(m, latestGen, nextId)
    BY <1>1, <2>1, <2>3, SameKey DEF AllFit
  <2> HIDE DEF m
  <2>5. AllFit(pending, debounceTasks, retryTasks, fileQueue', latestGen, nextId)
    BY <1>1, <2>1, <2>4, GenTypes, FitEnqueue
  <2>6. Identified(pending, debounceTasks, retryTasks, fileQueue')
    BY <1>1, <2>1, <2>4, GenTypes, IdentifiedEnqueue
  <2>7. FitInv'
    BY <2>1, <2>2, <2>5, <2>6 DEF FitInv, AllFit, Identified
  <2> QED BY <2>2, <2>7, GenUntouched DEF GenInv
<1>3. ASSUME NEW t \in retryTasks, RetryElapses(t)
      PROVE  GenInv'
  <2>1. \/ pending' = pending /\ fileQueue' = fileQueue
        \/ pending' = Release(pending, t) /\ fileQueue' = fileQueue
        \/ Owns(pending, t) /\ pending' = pending /\ fileQueue' = Enqueue(fileQueue, t)
    BY <1>3 DEF RetryElapses
  <2>2. /\ retryTasks' \subseteq retryTasks
        /\ UNCHANGED <<debounceTasks, latestGen, nextGen, nextId, reserved, dbGen, pc, cur,
                       buffered, batch>>
    BY <1>3 DEF RetryElapses
  <2>3. t \in Mutation /\ Fits(t, latestGen, nextId)
        /\ (t.op = "delete" /\ Owns(pending, t) => pending[Key(t)] = t)
    BY <1>1, <1>3, GenTypes DEF AllFit, Identified
  <2>4. /\ AllFit(pending', debounceTasks, retryTasks, fileQueue', latestGen, nextId)
        /\ Identified(pending', debounceTasks, retryTasks, fileQueue')
    <3>1. CASE pending' = pending /\ fileQueue' = fileQueue
      BY <1>1, <3>1
    <3>2. CASE pending' = Release(pending, t) /\ fileQueue' = fileQueue
      <4>1. \A k \in Keys : pending'[k] \in {pending[k], NoMutation}
        BY <2>3, <3>2, GenTypes, ReleaseType
      <4>2. AllFit(pending', debounceTasks, retryTasks, fileQueue, latestGen, nextId)
        BY <1>1, <4>1, FitTable
      <4>3. Identified(pending', debounceTasks, retryTasks, fileQueue)
        BY <1>1, <4>1, GenTypes, IdentifiedTable
      <4> QED BY <3>2, <4>2, <4>3
    <3>3. CASE Owns(pending, t) /\ pending' = pending /\ fileQueue' = Enqueue(fileQueue, t)
      BY <1>1, <2>3, <3>3, GenTypes, FitEnqueue, IdentifiedEnqueue
    <3> QED BY <2>1, <3>1, <3>2, <3>3
  <2>5. FitInv'
    BY <2>2, <2>4 DEF FitInv, AllFit, Identified
  <2> QED BY <2>2, <2>5, GenUntouched DEF GenInv
<1> QED BY <1>2, <1>3 DEF Sleepers

\* The mutation that is processed carries the newest generation of its path.
LEMMA ProcessedBound ==
  ASSUME TypeOK, NEW m \in Mutation, GenBound(m, latestGen)
  PROVE  GenBound(ForProcessing(latestGen, m), latestGen)
<1>1. m.path \in Paths /\ latestGen \in [Paths -> Nat]
  BY MutationFields, GenTypes
<1>2. latestGen[m.path] \in Nat
  BY <1>1
<1>3. ForProcessing(latestGen, m).op = m.op /\ ForProcessing(latestGen, m).path = m.path
  BY <1>1, ForProcessingType
<1>4. CASE m.op = "change" /\ latestGen[m.path] # NoGeneration
  <2>1. ForProcessing(latestGen, m) = [m EXCEPT !.gen = latestGen[m.path]]
    BY <1>4 DEF ForProcessing
  <2>2. ForProcessing(latestGen, m).gen = latestGen[m.path]
    BY <1>2, <2>1, SetGeneration
  <2> QED BY <1>2, <1>3, <2>2 DEF GenBound
<1>5. CASE ~ (m.op = "change" /\ latestGen[m.path] # NoGeneration)
  BY <1>5 DEF ForProcessing
<1> QED BY <1>4, <1>5

\* The dispatch of a mutation.
LEMMA StartMutationHeld ==
  ASSUME NEW m, GenBound(m, latestGen), StartMutation(m), UNCHANGED latestGen,
         buffered' # NoMutation => GenBound(buffered', latestGen)
  PROVE  HeldInv'
  BY DEF StartMutation, Begin, HeldInv

\* Taking the next mutation.
LEMMA StartGen ==
  ASSUME TypeOK, GenInv, Start
  PROVE  GenInv'
<1>1. /\ AllFit(pending, debounceTasks, retryTasks, fileQueue, latestGen, nextId)
      /\ Identified(pending, debounceTasks, retryTasks, fileQueue)
  BY DEF GenInv, FitInv
<1>2. CASE StartBuffered
  <2>1. GenBound(buffered, latestGen) /\ StartMutation(buffered) /\ buffered' = NoMutation
    BY <1>2 DEF StartBuffered, GenInv, HeldInv
  <2>2. UNCHANGED <<pending, debounceTasks, retryTasks, fileQueue, latestGen, nextId, nextGen,
                    reserved, dbGen>>
    BY <1>2 DEF StartBuffered
  <2> QED BY <2>1, <2>2, GenUntouched, StartMutationHeld DEF GenInv
<1>3. CASE StartQueued
  <2>1. PICK pr \in Priorities :
          /\ fileQueue[pr] # <<>>
          /\ fileQueue' = [fileQueue EXCEPT ![pr] = Tail(@)]
          /\ pending' = Release(pending, Head(fileQueue[pr]))
          /\ StartMutation(ForProcessing(latestGen, Head(fileQueue[pr])))
    BY <1>3 DEF StartQueued, IsHead
  <2> DEFINE h == Head(fileQueue[pr])
             shift == [p \in Priorities |-> IF p = pr THEN 1 ELSE 0]
  <2>2. UNCHANGED <<debounceTasks, retryTasks, latestGen, nextId, nextGen, reserved, dbGen,
                    buffered>>
    BY <1>3 DEF StartQueued
  <2>3. IsSuffix(fileQueue', fileQueue, shift) /\ 1 \in DOMAIN fileQueue[pr]
        /\ h = fileQueue[pr][1]
    BY <2>1, GenTypes, DequeueAt
  <2>4. h \in Mutation /\ GenBound(h, latestGen)
    BY <1>1, <2>3, GenTypes, QueueEntry DEF AllFit, Fits
  <2>5. HeldInv'
    <3>1. GenBound(ForProcessing(latestGen, h), latestGen)
      BY <2>4, ProcessedBound
    <3>2. buffered' # NoMutation => GenBound(buffered', latestGen)
      BY <2>2 DEF GenInv, HeldInv
    <3> QED BY <2>1, <2>2, <3>1, <3>2, StartMutationHeld
  <2> HIDE DEF h, shift
  <2>6. \A k \in Keys : pending'[k] \in {pending[k], NoMutation}
    BY <2>1, <2>4, GenTypes, ReleaseType DEF h
  <2>7. /\ AllFit(pending, debounceTasks, retryTasks, fileQueue', latestGen, nextId)
        /\ Identified(pending, debounceTasks, retryTasks, fileQueue')
    BY <1>1, <2>3, FitSuffix, IdentifiedSuffix
  <2>8. fileQueue' \in [Priorities -> Seq(Mutation)]
    BY <2>1, GenTypes, DequeueType
  <2>9. /\ AllFit(pending', debounceTasks, retryTasks, fileQueue', latestGen, nextId)
        /\ Identified(pending', debounceTasks, retryTasks, fileQueue')
    BY <2>6, <2>7, <2>8, GenTypes, FitTable, IdentifiedTable
  <2>10. FitInv'
    BY <2>2, <2>9 DEF FitInv
  <2> QED BY <2>2, <2>5, <2>10, GenUntouched DEF GenInv
<1>4. CASE StartDeletes
  <2> DEFINE run(n) == {fileQueue[0][i] : i \in 1..n}
             rest(n) == [fileQueue EXCEPT ![0] = SubSeq(@, n + 1, Len(@))]
             shift(n) == [p \in Priorities |-> IF p = 0 THEN n ELSE 0]
  <2>1. PICK n \in 1..DeleteBatchSize :
          /\ n \in Nat /\ n <= Len(fileQueue[0])
          /\ rest(n) \in [Priorities -> Seq(Mutation)] /\ run(n) \in SUBSET Mutation
          /\ \A m \in run(n) : m.op = "delete"
          /\ batch' = {m \in run(n) : Owns(pending, m) /\ ~IsStale(latestGen, m)}
          /\ \/ /\ fileQueue' = rest(n) /\ pending' = ReleaseAll(pending, run(n))
                /\ buffered' = NoMutation
             \/ \E pr \in Priorities :
                  /\ rest(n)[pr] # <<>>
                  /\ Head(rest(n)[pr]) \in Mutation
                  /\ fileQueue' = [rest(n) EXCEPT ![pr] = Tail(@)]
                  /\ pending' = ReleaseAll(pending, run(n) \cup {Head(rest(n)[pr])})
                  /\ buffered' = ForProcessing(latestGen, Head(rest(n)[pr]))
    BY <1>4, StartDeletesTakes
  <2>2. UNCHANGED <<debounceTasks, retryTasks, latestGen, nextId, nextGen, reserved, dbGen>>
        /\ cur' = NoMutation
    BY <1>4 DEF StartDeletes
  <2>3. IsSuffix(rest(n), fileQueue, shift(n))
    BY <2>1, GenTypes, DequeueRunAt
  <2>4. \A m \in run(n) : \E i \in DOMAIN fileQueue[0] : m = fileQueue[0][i]
    <3>1. fileQueue[0] \in Seq(Mutation)
      BY GenTypes DEF Priorities
    <3> QED BY <2>1, <3>1
  <2>5. \A m \in run(n) : Owns(pending, m) => pending[Key(m)] = m
    <3>1. 0 \in Priorities
      BY DEF Priorities
    <3> HIDE DEF run
    <3> QED BY <1>1, <2>1, <2>4, <3>1 DEF Identified
  <2> HIDE DEF run, rest, shift
  <2>6. /\ AllFit(pending, debounceTasks, retryTasks, rest(n), latestGen, nextId)
        /\ Identified(pending, debounceTasks, retryTasks, rest(n))
    BY <1>1, <2>3, FitSuffix, IdentifiedSuffix
  <2>7. /\ \A m, o \in batch' : Key(m) = Key(o) => m = o
        /\ \A m \in batch' : m.gen = NoGeneration \/ m.gen >= dbGen[m.path]
    <3>1. \A m, o \in batch' : Key(m) = Key(o) => m = o
      BY <2>1, <2>5
    <3>2. ASSUME NEW m \in batch', m.gen # NoGeneration
          PROVE  m.gen >= dbGen[m.path]
      <4>1. m \in Mutation /\ m.op = "delete" /\ ~IsStale(latestGen, m)
        BY <2>1
      <4>2. m.path \in Files /\ m.gen \in Nat
        BY <4>1, MutationFields DEF FileOperations
      <4>3. latestGen[m.path] \in Nat /\ dbGen[m.path] \in Nat
        BY <4>2, FileKeys, GenTypes
      <4>4. dbGen[m.path] <= latestGen[m.path]
        BY <4>2 DEF GenInv, NumberInv
      <4>5. ~ (latestGen[m.path] > m.gen)
        BY <3>2, <4>1 DEF IsStale
      <4> QED BY <4>2, <4>3, <4>4, <4>5
    <3> QED BY <3>1, <3>2
  <2>8. CASE /\ fileQueue' = rest(n) /\ pending' = ReleaseAll(pending, run(n))
             /\ buffered' = NoMutation
    <3>1. \A k \in Keys : pending'[k] \in {pending[k], NoMutation}
      <4>1. \A k \in Keys : ReleaseAll(pending, run(n))[k] # NoMutation =>
              ReleaseAll(pending, run(n))[k] = pending[k]
        <5>1. run(n) \in SUBSET Mutation /\ pending \in Table
          BY <2>1, GenTypes
        <5> QED BY <5>1, ReleaseAllType
      <4> QED BY <2>8, <4>1
    <3>2. /\ AllFit(pending', debounceTasks, retryTasks, rest(n), latestGen, nextId)
          /\ Identified(pending', debounceTasks, retryTasks, rest(n))
      BY <2>1, <2>6, <3>1, GenTypes, FitTable, IdentifiedTable
    <3>3. FitInv'
      BY <2>2, <2>8, <3>2 DEF FitInv
    <3>4. HeldInv'
      BY <2>2, <2>7, <2>8 DEF HeldInv
    <3> QED BY <2>2, <3>3, <3>4, GenUntouched DEF GenInv
  <2>9. ASSUME NEW pr \in Priorities, rest(n)[pr] # <<>>,
               Head(rest(n)[pr]) \in Mutation,
               fileQueue' = [rest(n) EXCEPT ![pr] = Tail(@)],
               pending' = ReleaseAll(pending, run(n) \cup {Head(rest(n)[pr])}),
               buffered' = ForProcessing(latestGen, Head(rest(n)[pr]))
        PROVE  GenInv'
    <3> DEFINE h == Head(rest(n)[pr])
               one == [p \in Priorities |-> IF p = pr THEN 1 ELSE 0]
               ms == run(n) \cup {h}
    <3>1. IsSuffix(fileQueue', rest(n), one) /\ 1 \in DOMAIN rest(n)[pr] /\ h = rest(n)[pr][1]
      BY <2>1, <2>9, DequeueAt
    <3>2. h \in Mutation /\ GenBound(h, latestGen)
      <4>1. Fits(rest(n)[pr][1], latestGen, nextId)
        BY <2>6, <3>1 DEF AllFit
      <4> QED BY <2>9, <3>1, <4>1 DEF Fits
    <3>3. GenBound(buffered', latestGen)
      BY <2>9, <3>2, ProcessedBound
    <3>4. ms \in SUBSET Mutation /\ pending' = ReleaseAll(pending, ms)
      BY <2>1, <2>9, <3>2
    <3>5. fileQueue' \in [Priorities -> Seq(Mutation)]
      BY <2>1, <2>9, DequeueType
    <3> HIDE DEF h, one, ms
    <3>6. \A k \in Keys : pending'[k] \in {pending[k], NoMutation}
      <4>1. \A k \in Keys : ReleaseAll(pending, ms)[k] # NoMutation =>
              ReleaseAll(pending, ms)[k] = pending[k]
        BY <3>4, GenTypes, ReleaseAllType
      <4> QED BY <3>4, <4>1
    <3>7. /\ AllFit(pending, debounceTasks, retryTasks, fileQueue', latestGen, nextId)
          /\ Identified(pending, debounceTasks, retryTasks, fileQueue')
      BY <2>6, <3>1, FitSuffix, IdentifiedSuffix
    <3>8. /\ AllFit(pending', debounceTasks, retryTasks, fileQueue', latestGen, nextId)
          /\ Identified(pending', debounceTasks, retryTasks, fileQueue')
      BY <3>5, <3>6, <3>7, GenTypes, FitTable, IdentifiedTable
    <3>9. FitInv'
      BY <2>2, <3>8 DEF FitInv
    <3>10. HeldInv'
      BY <2>2, <2>7, <3>3 DEF HeldInv
    <3> QED BY <2>2, <3>9, <3>10, GenUntouched DEF GenInv
  <2> QED BY <2>1, <2>8, <2>9
<1> QED BY <1>2, <1>3, <1>4 DEF Start

\* process_file stores the generation it was started with.
LEMMA StoreNumbers ==
  ASSUME TypeOK, GenInv, NEW committed \in BOOLEAN, StoreContent(committed),
         cur \in Mutation, cur.op = "change", UNCHANGED <<latestGen, nextGen>>,
         EndChange(cur.path)
  PROVE  NumberInv' /\ HeldInv'
<1>1. cur.path \in Files /\ cur.gen \in Nat
  BY MutationFields DEF FileOperations
<1>2. cur.gen <= latestGen[cur.path]
  BY MutationFields DEF GenInv, HeldInv, GenBound
<1>3. reserved' = [reserved EXCEPT ![cur.path] = NoGeneration] /\ GoIdle
  BY DEF EndChange
<1>4. \A f \in Files : dbGen'[f] \in {dbGen[f], IF f = cur.path THEN cur.gen ELSE dbGen[f]}
  BY <1>1, GenTypes DEF StoreContent
<1>5. \A f \in Files : latestGen[f] \in Nat /\ f \in Paths
  BY FileKeys, GenTypes
<1>6. NumberInv'
  <2>1. ASSUME NEW f \in Files
        PROVE  reserved'[f] <= latestGen[f] /\ dbGen'[f] <= latestGen[f]
    <3>1. reserved[f] <= latestGen[f] /\ dbGen[f] <= latestGen[f]
      BY DEF GenInv, NumberInv
    <3>2. reserved'[f] \in {reserved[f], 0}
      BY <1>1, <1>3, GenTypes DEF NoGeneration
    <3>3. dbGen'[f] <= latestGen[f]
      BY <1>2, <1>4, <3>1
    <3> QED BY <1>5, <3>1, <3>2, <3>3
  <2> QED BY <2>1 DEF GenInv, NumberInv
<1> QED BY <1>3, <1>6, GenUntouched DEF GenInv

\* The file of the change being processed.
LEMMA ChangeRunning ==
  ASSUME TypeOK, pc \in {"read", "store"}
  PROVE  /\ cur \in Mutation /\ cur.op = "change" /\ cur.path \in Files
         /\ <<"change", cur.path>> \in Keys /\ <<"embed", cur.path>> \in Keys
         /\ cur.path \in Paths
<1>1. cur \in Mutation /\ cur.op = "change"
  BY DEF TypeOK, LoopType
<1>2. cur.path \in Files
  BY <1>1, MutationFields DEF FileOperations
<1> QED BY <1>1, <1>2, FileKeys

\* process_file returned.
LEMMA FinishChangeGen ==
  ASSUME TypeOK, GenInv, NEW committed \in BOOLEAN, FinishChange(committed)
  PROVE  GenInv'
<1> DEFINE f == cur.path
           embed == FreshMutation(nextId[<<"embed", f>>] + 1, "embed", f, NoGeneration)
           table == Register(pending, embed)
           queue == IF CanRegister(pending, embed) THEN Enqueue(fileQueue, embed)
                    ELSE fileQueue
<1>1. cur \in Mutation /\ cur.op = "change" /\ f \in Files /\ <<"change", f>> \in Keys
      /\ <<"embed", f>> \in Keys
  BY ChangeRunning DEF FinishChange
<1>2. /\ AllFit(pending, debounceTasks, retryTasks, fileQueue, latestGen, nextId)
      /\ Identified(pending, debounceTasks, retryTasks, fileQueue)
      /\ reserved[f] <= latestGen[f]
  BY <1>1 DEF GenInv, FitInv, NumberInv
<1>3. embed \in Mutation /\ Key(embed) = <<"embed", f>> /\ embed.op = "embed"
  BY <1>1, EmbedMutation
<1>4. embed.id = nextId[<<"embed", f>>] + 1
  BY DEF FreshMutation
<1>5. /\ pending' = DrainedTable(table, f) /\ fileQueue' = DrainedQueue(table, queue, f)
      /\ nextId' = BuildIds({<<"embed", f>>} \cup DrainedKeys(f))
      /\ UNCHANGED <<debounceTasks, retryTasks, latestGen, nextGen>>
      /\ StoreContent(committed) /\ EndChange(f)
  BY DEF FinishChange
<1>6. NumberInv' /\ HeldInv'
  BY <1>1, <1>5, StoreNumbers
<1>7. /\ nextId' \in [Keys -> Nat] /\ \A k \in Keys : nextId[k] <= nextId'[k]
      /\ nextId'[<<"embed", f>>] = nextId[<<"embed", f>>] + 1
      /\ reserved[f] # NoGeneration =>
           nextId'[<<"change", f>>] = nextId[<<"change", f>>] + 1
  BY <1>1, <1>5, GenTypes, BuildIdsGrow DEF DrainedKeys
<1>8. nextId[<<"embed", f>>] \in Nat /\ nextId[<<"change", f>>] \in Nat
  BY <1>1, GenTypes
<1> HIDE DEF f, embed
<1>9. table \in Table /\ queue \in [Priorities -> Seq(Mutation)]
  BY <1>3, GenTypes, RegisterType, EnqueueType
<1>10. GenBound(embed, latestGen) /\ embed.id <= nextId'[Key(embed)] /\ embed.op # "delete"
  BY <1>3, <1>4, <1>7, <1>8 DEF GenBound
<1>11. /\ AllFit(table, debounceTasks, retryTasks, queue, latestGen, nextId')
       /\ Identified(table, debounceTasks, retryTasks, queue)
  BY <1>2, <1>3, <1>7, <1>10, GenTypes, FitEnqueueNew
<1> HIDE DEF table, queue
<1>12. reserved[f] # NoGeneration =>
         nextId[<<"change", f>>] + 1 <= nextId'[<<"change", f>>]
  BY <1>7, <1>8
<1>13. /\ AllFit(pending', debounceTasks, retryTasks, fileQueue', latestGen, nextId')
       /\ Identified(pending', debounceTasks, retryTasks, fileQueue')
  BY <1>1, <1>2, <1>5, <1>7, <1>9, <1>11, <1>12, GenTypes, FitDrained DEF TypeOK
<1>14. FitInv'
  BY <1>5, <1>13 DEF FitInv
<1> QED BY <1>6, <1>14 DEF GenInv

\* process_file or flush raised.
LEMMA ChangeFailureGen ==
  ASSUME TypeOK, GenInv, NEW committed \in BOOLEAN,
         ChangeBusy(committed) \/ ChangeError(committed)
  PROVE  GenInv'
<1> DEFINE f == cur.path
           key == <<"change", f>>
           table == DrainedTable(pending, f)
           retry == RetryOf(cur, DrainedId(f) + 1)
<1>1. cur \in Mutation /\ cur.op = "change" /\ f \in Files /\ key \in Keys
  BY ChangeRunning DEF ChangeBusy, ChangeError
<1>2. /\ AllFit(pending, debounceTasks, retryTasks, fileQueue, latestGen, nextId)
      /\ Identified(pending, debounceTasks, retryTasks, fileQueue)
      /\ reserved[f] <= latestGen[f] /\ GenBound(cur, latestGen)
  BY <1>1, MutationFields DEF GenInv, FitInv, NumberInv, HeldInv
<1>3. /\ fileQueue' = DrainedQueue(pending, fileQueue, f)
      /\ UNCHANGED <<debounceTasks, latestGen, nextGen>>
      /\ StoreContent(committed) /\ EndChange(f)
  BY DEF ChangeBusy, ChangeError
<1>4. NumberInv' /\ HeldInv'
  BY <1>1, <1>3, StoreNumbers
<1>5. /\ nextId[key] \in Nat /\ nextId \in [Keys -> Nat]
      /\ DrainedId(f) \in {nextId[key], nextId[key] + 1}
      /\ reserved[f] # NoGeneration => DrainedId(f) = nextId[key] + 1
  BY <1>1, GenTypes DEF DrainedId
<1>6. \/ /\ pending' = table /\ retryTasks' = retryTasks
         /\ \/ nextId' = BuildIds(DrainedKeys(f))
            \/ \E id \in {DrainedId(f), DrainedId(f) + 1} :
                 nextId' = [nextId EXCEPT ![key] = id]
      \/ /\ pending' = Register(table, retry) /\ retryTasks' = retryTasks \cup {retry}
         /\ nextId' = [nextId EXCEPT ![key] = DrainedId(f) + 1]
  BY DEF ChangeBusy, ChangeError
<1> HIDE DEF key
<1>7. /\ nextId' \in [Keys -> Nat] /\ \A k \in Keys : nextId[k] <= nextId'[k]
      /\ reserved[f] # NoGeneration =>
           nextId[key] + 1 <= nextId'[key]
  <2>1. CASE nextId' = BuildIds(DrainedKeys(f))
    <3>1. reserved[f] # NoGeneration => key \in DrainedKeys(f)
      BY DEF DrainedKeys, key
    <3>2. /\ nextId' \in [Keys -> Nat] /\ \A k \in Keys : nextId[k] <= nextId'[k]
          /\ key \in DrainedKeys(f) => nextId'[key] = nextId[key] + 1
      BY <1>1, <1>5, <2>1, BuildIdsGrow
    <3> QED BY <1>5, <3>1, <3>2
  <2>2. CASE \E id \in {DrainedId(f), DrainedId(f) + 1} :
               nextId' = [nextId EXCEPT ![key] = id]
    <3>1. PICK id \in {DrainedId(f), DrainedId(f) + 1} : nextId' = [nextId EXCEPT ![key] = id]
      BY <2>2
    <3>2. id \in Nat /\ nextId[key] <= id
          /\ (reserved[f] # NoGeneration => nextId[key] + 1 <= id)
      BY <1>5, <3>1
    <3> QED BY <1>1, <1>5, <3>1, <3>2
  <2> QED BY <1>6, <2>1, <2>2
<1>8. DrainedId(f) + 1 \in Nat
  BY <1>5
<1>9. retry \in Mutation /\ retry.op = "change" /\ Key(retry) = key
      /\ retry.path = f /\ retry.gen = cur.gen /\ retry.id = DrainedId(f) + 1
  BY <1>1, <1>8, RetryMutationType DEF Key, key
<1> HIDE DEF f
<1>10. table \in Table /\ fileQueue' \in [Priorities -> Seq(Mutation)]
  BY <1>1, <1>3, GenTypes, DrainedType DEF TypeOK
<1>11. AllFit(pending, debounceTasks, retryTasks, fileQueue, latestGen, nextId')
  <2>1. \A p \in Paths : latestGen[p] <= latestGen[p]
    BY GenTypes
  <2> QED BY <1>2, <1>7, <2>1, GenTypes, AllFitLater
<1>12. /\ AllFit(table, debounceTasks, retryTasks, fileQueue', latestGen, nextId')
       /\ Identified(table, debounceTasks, retryTasks, fileQueue')
  BY <1>1, <1>2, <1>3, <1>7, <1>11, GenTypes, FitDrained DEF TypeOK, key
<1> HIDE DEF table, retry
<1>13. CASE pending' = table /\ retryTasks' = retryTasks
  <2>1. FitInv'
    BY <1>3, <1>12, <1>13 DEF FitInv
  <2> QED BY <1>4, <2>1 DEF GenInv
<1>14. CASE /\ pending' = Register(table, retry) /\ retryTasks' = retryTasks \cup {retry}
            /\ nextId' = [nextId EXCEPT ![key] = DrainedId(f) + 1]
  <2>1. nextId'[key] = DrainedId(f) + 1
    BY <1>1, <1>5, <1>14
  <2>2. Fits(retry, latestGen, nextId')
    <3>1. GenBound(retry, latestGen)
      BY <1>1, <1>2, <1>9 DEF GenBound, f
    <3> QED BY <1>8, <1>9, <2>1, <3>1 DEF Fits
  <2>3. AllFit(pending', debounceTasks, retryTasks, fileQueue', latestGen, nextId')
    BY <1>9, <1>10, <1>12, <1>14, <2>2, FitRegister
  <2>4. ASSUME NEW k \in Keys, k[1] = "delete"
        PROVE  pending'[k] = table[k]
    <3>1. k # Key(retry)
      BY <1>9, <2>4 DEF key
    <3> QED BY <1>9, <1>10, <1>14, <3>1, RegisterType
  <2>5. Identified(pending', debounceTasks, retryTasks, fileQueue')
    BY <1>10, <1>12, <2>4, GenTypes, IdentifiedTable
  <2>6. FitInv'
    BY <1>3, <1>9, <1>14, <2>2, <2>3, <2>5 DEF FitInv, AllFit, Identified
  <2> QED BY <1>4, <2>6 DEF GenInv
<1> QED BY <1>6, <1>13, <1>14

\* Scheduled retries carry the generation of what they retry.
LEMMA ScheduleRetriesGen ==
  ASSUME TypeOK, GenInv, NEW ms \in SUBSET Mutation, ScheduleRetries(ms),
         \A m \in ms : m.op # "change", \A m, n \in ms : Key(m) = Key(n) => m = n,
         UNCHANGED <<debounceTasks, fileQueue, latestGen>>
  PROVE  FitInv'
<1> DEFINE new == Retries(ms)
           within == {m \in ms : m.retry < MaxRetryBudget}
<1>1. /\ new \in SUBSET Mutation
      /\ \A r \in new : \E m \in ms :
           /\ r = RetryMutation(m) /\ Key(r) = Key(m) /\ r.op = m.op
           /\ r.id = nextId[Key(m)] + 1 /\ m.retry < MaxRetryBudget
  BY RetryFields
<1>2. /\ pending' = RegisterAll(pending, new)
      /\ retryTasks' = retryTasks \cup {r \in new : CanRegister(pending, r)}
      /\ nextId' = BuildIds({Key(m) : m \in within})
  BY DEF ScheduleRetries, Retries
<1>3. \A m \in ms : m.retry < MaxRetryBudget => Key(m) \in {Key(n) : n \in within}
  OBVIOUS
<1>4. /\ nextId' \in [Keys -> Nat] /\ \A k \in Keys : nextId[k] <= nextId'[k]
      /\ \A m \in ms : m.retry < MaxRetryBudget => nextId'[Key(m)] = nextId[Key(m)] + 1
  <2> HIDE DEF within
  <2>1. \A m \in ms : Key(m) \in Keys
    BY MutationFields
  <2> QED BY <1>2, <1>3, <2>1, GenTypes, BuildIdsGrow
<1> HIDE DEF new, within
<1>5. \A r \in new : GenBound(r, latestGen)
  BY <1>1 DEF GenBound
<1>6. \A r \in new : r.id > nextId[Key(r)] /\ r.id <= nextId'[Key(r)]
  <2>1. \A r \in new : nextId[Key(r)] \in Nat
    BY <1>1, GenTypes, MutationFields
  <2> QED BY <1>1, <1>4, <2>1
<1>7. \A r, s \in new : Key(r) = Key(s) => r = s
  BY <1>1
<1>8. /\ AllFit(pending', debounceTasks, retryTasks', fileQueue, latestGen, nextId')
      /\ Identified(pending', debounceTasks, retryTasks', fileQueue)
  BY <1>1, <1>2, <1>4, <1>5, <1>6, <1>7, GenTypes, FitRetries DEF GenInv, FitInv
<1> QED BY <1>8 DEF FitInv

\* A directory cleanup builds a new delete for each file.
LEMMA DirCleanupGen ==
  ASSUME TypeOK, GenInv, DirCleanup
  PROVE  GenInv'
<1>1. PICK s \in Seq(Mutation) :
        /\ fileQueue' = [fileQueue EXCEPT ![0] = @ \o s]
        /\ \A i \in DOMAIN s :
             /\ s[i].op = "delete" /\ s[i].id = nextId[Key(s[i])] + 1
             /\ nextId'[Key(s[i])] = nextId[Key(s[i])] + 1
             /\ pending'[Key(s[i])] = s[i]
        /\ \A k \in Keys : pending'[k] = pending[k] \/ \E i \in DOMAIN s : k = Key(s[i])
        /\ \A k \in Keys : nextId'[k] \in {nextId[k], nextId[k] + 1}
        /\ UNCHANGED <<debounce, debounceTasks, retryTasks>>
  BY DirCleanupQueues
<1>2. UNCHANGED <<latestGen, nextGen, reserved, dbGen>> /\ GoIdle
  BY DEF DirCleanup
<1>3. nextId' \in [Keys -> Nat] /\ \A k \in Keys : nextId[k] <= nextId'[k]
  <2>1. nextId' \in [Keys -> Nat]
    BY GenTypes, BuildIdsGrow DEF DirCleanup
  <2> QED BY <1>1, <2>1, GenTypes
<1>4. AllFit(pending, debounceTasks, retryTasks, fileQueue, latestGen, nextId')
  <2>1. \A p \in Paths : latestGen[p] <= latestGen[p]
    BY GenTypes
  <2> QED BY <1>3, <2>1, GenTypes, AllFitLater DEF GenInv, FitInv
<1>5. ASSUME NEW i \in DOMAIN s
      PROVE  /\ s[i] \in Mutation /\ Key(s[i]) \in Keys /\ nextId[Key(s[i])] \in Nat
             /\ Fits(s[i], latestGen, nextId')
  <2>1. s[i] \in Mutation
    OBVIOUS
  <2>2. Key(s[i]) \in Keys
    BY <2>1, MutationFields
  <2>3. nextId[Key(s[i])] \in Nat
    BY <2>2, GenTypes
  <2> QED BY <1>1, <2>1, <2>2, <2>3 DEF Fits, GenBound
<1>6. AllFit(pending', debounceTasks, retryTasks, fileQueue, latestGen, nextId')
  BY <1>1, <1>4, <1>5, FitTable
<1>7. ASSUME NEW m \in Mutation, m.id <= nextId[Key(m)], Owns(pending', m)
      PROVE  pending'[Key(m)] = pending[Key(m)] /\ Owns(pending, m)
  <2>1. Key(m) \in Keys /\ m.id \in Nat
    BY MutationFields
  <2>2. nextId[Key(m)] \in Nat
    BY <2>1, GenTypes
  <2>3. ASSUME NEW i \in DOMAIN s, Key(m) = Key(s[i])
        PROVE  FALSE
    BY <1>1, <1>7, <2>1, <2>2, <2>3 DEF Owns
  <2>4. pending'[Key(m)] = pending[Key(m)]
    BY <1>1, <2>1, <2>3
  <2> QED BY <1>7, <2>4 DEF Owns
<1>8. ASSUME NEW t \in debounceTasks \cup retryTasks, t.op = "delete", Owns(pending', t)
      PROVE  pending'[Key(t)] = t
  <2>1. t \in Mutation /\ t.id <= nextId[Key(t)]
    BY <1>8, GenTypes DEF GenInv, FitInv, AllFit, Fits
  <2>2. pending[Key(t)] = t
    BY <1>7, <1>8, <2>1 DEF GenInv, FitInv, Identified
  <2> QED BY <1>7, <1>8, <2>1, <2>2
<1>9. ASSUME NEW pr \in Priorities, NEW i \in DOMAIN fileQueue[pr],
             fileQueue[pr][i].op = "delete", Owns(pending', fileQueue[pr][i])
      PROVE  pending'[Key(fileQueue[pr][i])] = fileQueue[pr][i]
  <2>1. fileQueue[pr][i] \in Mutation /\ fileQueue[pr][i].id <= nextId[Key(fileQueue[pr][i])]
    BY <1>9, GenTypes, QueueEntry DEF GenInv, FitInv, AllFit, Fits
  <2>2. pending[Key(fileQueue[pr][i])] = fileQueue[pr][i]
    BY <1>7, <1>9, <2>1 DEF GenInv, FitInv, Identified
  <2> QED BY <1>7, <1>9, <2>1, <2>2
<1>10. Identified(pending', debounceTasks, retryTasks, fileQueue)
  BY <1>8, <1>9 DEF Identified
<1>11. /\ AllFit(pending', debounceTasks, retryTasks, fileQueue', latestGen, nextId')
       /\ Identified(pending', debounceTasks, retryTasks, fileQueue')
  BY <1>1, <1>5, <1>6, <1>10, GenTypes, FitConcat
<1>12. FitInv'
  BY <1>1, <1>2, <1>11 DEF FitInv
<1> QED BY <1>2, <1>12, GenUntouched DEF GenInv

\* The processing task's successful steps.
LEMMA WorkGen ==
  ASSUME TypeOK, GenInv, Work
  PROVE  GenInv'
<1>1. CASE ReadFile
  BY <1>1, GenUntouched DEF ReadFile, GenInv, HeldInv
<1>2. CASE FinishChange(TRUE)
  BY <1>2, FinishChangeGen
<1>3. CASE DeletesApplied
  <2>1. FitInv' /\ HeldInv'
    BY <1>3, GenUntouched DEF DeletesApplied, GenInv
  <2>2. \A f \in Files : dbGen'[f] \in {dbGen[f], 0} /\ latestGen[f] \in Nat
    BY <1>3, FileKeys, GenTypes DEF DeletesApplied, NoGeneration
  <2>3. NumberInv'
    BY <1>3, <2>2 DEF DeletesApplied, GenInv, NumberInv
  <2> QED BY <2>1, <2>3 DEF GenInv
<1>4. CASE EmbedDone
  BY <1>4, GenUntouched DEF EmbedDone, GenInv
<1>5. CASE DirCleanup
  BY <1>5, DirCleanupGen
<1>6. CASE DirList
  BY <1>6, GenUntouched DEF DirList, GenInv, HeldInv
<1>7. CASE DirQueue
  <2>1. listed \subseteq Files
    BY DEF TypeOK, LoopType
  <2>2. FitInv' /\ NumberInv'
    BY <1>7, <2>1, AddChangesGen DEF DirQueue
  <2> QED BY <1>7, <2>2, GenUntouched DEF DirQueue, GenInv
<1> QED BY <1>1, <1>2, <1>3, <1>4, <1>5, <1>6, <1>7 DEF Work

\* The processing task's failing steps.
LEMMA FailureGen ==
  ASSUME TypeOK, GenInv, Failure
  PROVE  GenInv'
<1>1. CASE FinishChange(FALSE)
  BY <1>1, FinishChangeGen
<1>2. ASSUME NEW committed \in BOOLEAN, ChangeBusy(committed) \/ ChangeError(committed)
      PROVE  GenInv'
  BY <1>2, ChangeFailureGen
<1> DEFINE fresh == {m \in batch : ~IsStale(latestGen, m)}
<1>3. /\ batch \in SUBSET Mutation /\ fresh \in SUBSET batch
      /\ \A m \in batch : m.op = "delete"
      /\ \A m, n \in batch : Key(m) = Key(n) => m = n
  BY DEF TypeOK, LoopType, GenInv, HeldInv
<1> HIDE DEF fresh
<1>4. ASSUME NEW ms \in SUBSET batch, ScheduleRetries(ms), GoIdle,
             UNCHANGED <<debounceTasks, fileQueue, latestGen, nextGen, reserved, dbGen>>
      PROVE  GenInv'
  <2>1. ms \in SUBSET Mutation /\ (\A m \in ms : m.op # "change")
        /\ \A m, n \in ms : Key(m) = Key(n) => m = n
    BY <1>3
  <2>2. FitInv'
    BY <1>4, <2>1, ScheduleRetriesGen
  <2> QED BY <1>4, <2>2, GenUntouched DEF GenInv
<1>5. CASE DeletesConflict
  BY <1>3, <1>4, <1>5 DEF DeletesConflict, fresh
<1>6. CASE DeletesBusy
  BY <1>3, <1>4, <1>6 DEF DeletesBusy
<1>7. CASE DeletesError
  BY <1>7, GenUntouched DEF DeletesError, GiveUp, GenInv
<1>8. CASE PassBusy
  <2>1. {cur} \in SUBSET Mutation /\ cur.op # "change"
    BY <1>8 DEF PassBusy, TypeOK, LoopType
  <2>2. /\ ScheduleRetries({cur}) /\ GoIdle
        /\ UNCHANGED <<debounceTasks, fileQueue, latestGen, nextGen, reserved, dbGen>>
    BY <1>8 DEF PassBusy
  <2>3. FitInv'
    BY <2>1, <2>2, ScheduleRetriesGen
  <2> QED BY <2>2, <2>3, GenUntouched DEF GenInv
<1>9. CASE PassError
  BY <1>9, GenUntouched DEF PassError, GenInv
<1> QED BY <1>1, <1>2, <1>5, <1>6, <1>7, <1>8, <1>9 DEF Failure

\* Generations and ids stay in order.
LEMMA GenHolds == Spec => []GenInv
<1>1. Init => GenInv
  <2> SUFFICES ASSUME Init PROVE GenInv
    OBVIOUS
  <2>1. TypeOK
    BY InitType
  <2>2. \A pr \in Priorities : DOMAIN fileQueue[pr] = {}
    BY DEF Init
  <2>3. FitInv
    BY <2>2 DEF Init, FitInv, AllFit, Identified, EmptyTable
  <2>4. NumberInv
    <3>1. \A p \in Paths : latestGen[p] = 0 /\ nextGen = 0
      BY DEF Init, NoGeneration
    <3>2. \A f \in Files : reserved[f] = 0 /\ dbGen[f] = 0 /\ f \in Paths
      BY FileKeys DEF Init, NoGeneration
    <3> QED BY <3>1, <3>2 DEF NumberInv
  <2>5. HeldInv
    BY DEF Init, HeldInv
  <2> QED BY <2>3, <2>4, <2>5 DEF GenInv
<1>2. TypeOK /\ OwnershipInv /\ GenInv /\ [Next]_vars => GenInv'
  <2> SUFFICES ASSUME TypeOK, OwnershipInv, GenInv, [Next]_vars PROVE GenInv'
    OBVIOUS
  <2>1. CASE UNCHANGED vars
    BY <2>1, GenUntouched DEF vars, GenInv
  <2>2. CASE Edit
    <3>1. EnvUnchanged
      BY <2>2 DEF Edit, WriteFile, DeleteFile, AccessFile, MoveDirIn, MoveDirOut
    <3> QED BY <3>1, GenUntouched DEF EnvUnchanged, GenInv
  <2>3. CASE \E p \in Paths : DedupExpires(p)
    BY <2>3, GenUntouched DEF DedupExpires, GenInv
  <2>4. CASE Intake \/ Consume
    BY <2>4, EventsGen
  <2>5. CASE Sleepers
    BY <2>5, SleepersGen
  <2>6. CASE Start
    BY <2>6, StartGen
  <2>7. CASE Work
    BY <2>7, WorkGen
  <2>8. CASE Failure
    BY <2>8, FailureGen
  <2> QED BY <2>1, <2>2, <2>3, <2>4, <2>5, <2>6, <2>7, <2>8 DEF Next
<1> QED BY <1>1, <1>2, TypeCorrect, OwnershipHolds, PTL DEF Spec


\* Who writes the index: a store, a delete, or an embed pass.
LEMMA IndexWriters ==
  ASSUME [Next]_vars
  PROVE  \/ UNCHANGED dbVars
         \/ DeletesApplied
         \/ EmbedDone
         \/ \E committed \in BOOLEAN : StoreContent(committed) /\ pc \in {"read", "store"}
<1>1. CASE UNCHANGED vars
  BY <1>1 DEF vars
<1>2. CASE Edit
  BY <1>2 DEF Edit, WriteFile, DeleteFile, AccessFile, MoveDirIn, MoveDirOut, EnvUnchanged
<1>3. CASE \E p \in Paths : DedupExpires(p)
  BY <1>3 DEF DedupExpires
<1>4. CASE Intake \/ Consume
  BY <1>4 DEF Intake, Consume, AcceptEvent, DropEvent, SuppressDuplicate, ConsumeChange,
              ConsumeImmediate, ConsumeAccess
<1>5. CASE Sleepers
  BY <1>5 DEF Sleepers, DebounceElapses, RetryElapses
<1>6. CASE Start
  BY <1>6 DEF Start, StartBuffered, StartQueued, StartDeletes
<1>7. CASE Work
  <2>1. CASE FinishChange(TRUE)
    BY <2>1 DEF FinishChange
  <2>2. CASE ReadFile \/ DirCleanup \/ DirList \/ DirQueue
    BY <2>2 DEF ReadFile, DirCleanup, DirList, DirQueue
  <2> QED BY <1>7, <2>1, <2>2 DEF Work
<1>8. CASE Failure
  <2>1. CASE FinishChange(FALSE)
    BY <2>1 DEF FinishChange
  <2>2. CASE \E committed \in BOOLEAN : ChangeBusy(committed) \/ ChangeError(committed)
    BY <2>2 DEF ChangeBusy, ChangeError
  <2>3. CASE DeletesConflict \/ DeletesBusy \/ DeletesError \/ PassBusy \/ PassError
    BY <2>3 DEF DeletesConflict, DeletesBusy, DeletesError, PassBusy, PassError
  <2> QED BY <1>8, <2>1, <2>2, <2>3 DEF Failure
<1> QED BY <1>1, <1>2, <1>3, <1>4, <1>5, <1>6, <1>7, <1>8 DEF Next

\* A delete reaches the database only while it is as new as what is indexed:
\* the loop drops stale deletes when it starts a batch, and no change is
\* stored while the batch is at the database.  So a late delete never erases
\* the content a newer change indexed (_delete_mutation_is_stale).
THEOREM DeletesRespectGenerations == Spec => DeleteRespectsGeneration
<1> DEFINE Respects ==
      \A f \in Files : db[f] # 0 /\ db'[f] = 0 =>
        \E m \in batch : m.path = f /\ (m.gen = NoGeneration \/ m.gen >= dbGen[f])
<1>1. TypeOK /\ GenInv /\ [Next]_vars => [Respects]_vars
  <2> SUFFICES ASSUME TypeOK, GenInv, [Next]_vars, NEW f \in Files, db[f] # 0, db'[f] = 0
               PROVE  \E m \in batch : m.path = f /\ (m.gen = NoGeneration \/ m.gen >= dbGen[f])
    OBVIOUS
  <2>1. CASE UNCHANGED db
    BY <2>1
  <2>2. CASE DeletesApplied
    <3>1. f \in {m.path : m \in batch} /\ pc = "delete"
      BY <2>2 DEF DeletesApplied
    <3>2. PICK m \in batch : m.path = f
      BY <3>1
    <3> QED BY <3>1, <3>2 DEF GenInv, HeldInv
  <2>3. ASSUME NEW committed \in BOOLEAN, StoreContent(committed), ~ UNCHANGED db
        PROVE  FALSE
    <3>1. content # 0 /\ db' = [db EXCEPT ![cur.path] = content]
      BY <2>3 DEF StoreContent
    <3>2. db \in [Files -> Nat]
      BY DEF TypeOK, IndexType
    <3> QED BY <3>1, <3>2
  <2> QED BY <2>1, <2>2, <2>3, IndexWriters DEF EmbedDone
<1> QED BY <1>1, TypeCorrect, GenHolds, PTL DEF Spec, DeleteRespectsGeneration


-----------------------------------------------------------------------------
(* Content versions.                                                       *)

\* No version is newer than the last edit: what is on disk, what was read and
\* what is indexed.
VersionInv ==
  /\ \A p \in Paths : disk[p] <= edits
  /\ content <= edits
  /\ \A f \in Files : db[f] <= edits

\* Only an edit changes the tree.
LEMMA TreeWriters ==
  ASSUME [Next]_vars
  PROVE  Edit \/ UNCHANGED <<disk, edits>>
<1>1. CASE UNCHANGED vars \/ (\E p \in Paths : DedupExpires(p))
  BY <1>1 DEF vars, DedupExpires
<1>2. CASE Intake \/ Consume
  BY <1>2 DEF Intake, Consume, AcceptEvent, DropEvent, SuppressDuplicate, ConsumeChange,
              ConsumeImmediate, ConsumeAccess
<1>3. CASE Sleepers
  BY <1>3 DEF Sleepers, DebounceElapses, RetryElapses
<1>4. CASE Start
  BY <1>4 DEF Start, StartBuffered, StartQueued, StartDeletes
<1>5. CASE Work
  BY <1>5 DEF Work, ReadFile, FinishChange, DeletesApplied, EmbedDone, DirCleanup, DirList,
              DirQueue
<1>6. CASE Failure
  BY <1>6 DEF Failure, FinishChange, ChangeBusy, ChangeError, DeletesConflict, DeletesBusy,
              DeletesError, PassBusy, PassError
<1> QED BY <1>1, <1>2, <1>3, <1>4, <1>5, <1>6 DEF Next

\* Only ReadFile fetches content.
LEMMA ContentWriters ==
  ASSUME [Next]_vars
  PROVE  content' \in {0, content} \/ ReadFile
<1>1. CASE UNCHANGED vars \/ (\E p \in Paths : DedupExpires(p))
  BY <1>1 DEF vars, DedupExpires
<1>2. CASE Edit
  BY <1>2 DEF Edit, WriteFile, DeleteFile, AccessFile, MoveDirIn, MoveDirOut, EnvUnchanged
<1>3. CASE Intake \/ Consume
  BY <1>3 DEF Intake, Consume, AcceptEvent, DropEvent, SuppressDuplicate, ConsumeChange,
              ConsumeImmediate, ConsumeAccess
<1>4. CASE Sleepers
  BY <1>4 DEF Sleepers, DebounceElapses, RetryElapses
<1>5. CASE Start
  BY <1>5 DEF Start, StartBuffered, StartQueued, StartDeletes, StartMutation, Begin
<1>6. CASE Work
  BY <1>6 DEF Work, FinishChange, EndChange, DeletesApplied, EmbedDone, DirCleanup, DirList,
              DirQueue, GoIdle
<1>7. CASE Failure
  BY <1>7 DEF Failure, FinishChange, ChangeBusy, ChangeError, EndChange, DeletesConflict,
              DeletesBusy, DeletesError, PassBusy, PassError, GoIdle
<1> QED BY <1>1, <1>2, <1>3, <1>4, <1>5, <1>6, <1>7 DEF Next

\* What an edit does to the tree: every path keeps its content, loses it or
\* takes the next version.
LEMMA EditVersions ==
  ASSUME TypeOK, Edit
  PROVE  /\ edits' = edits + 1 /\ EnvUnchanged
         /\ \A p \in Paths : disk'[p] \in {disk[p], 0, edits + 1}
<1>1. disk \in [Paths -> Nat] /\ edits \in Nat
  BY DEF TypeOK, EnvironmentType
<1>2. edits' = edits + 1 /\ EnvUnchanged
  BY DEF Edit, WriteFile, DeleteFile, AccessFile, MoveDirIn, MoveDirOut
<1>3. ASSUME NEW f \in Files, WriteFile(f) \/ DeleteFile(f)
      PROVE  \A p \in Paths : disk'[p] \in {disk[p], 0, edits + 1}
  BY <1>1, <1>3 DEF WriteFile, DeleteFile
<1>4. ASSUME NEW d \in Dirs, MoveDirIn(d) \/ MoveDirOut(d)
      PROVE  \A p \in Paths : disk'[p] \in {disk[p], 0, edits + 1}
  BY <1>1, <1>4 DEF MoveDirIn, MoveDirOut
<1>5. ASSUME NEW f \in Files, AccessFile(f)
      PROVE  \A p \in Paths : disk'[p] \in {disk[p], 0, edits + 1}
  BY <1>5 DEF AccessFile
<1> QED BY <1>2, <1>3, <1>4, <1>5 DEF Edit

\* No version outruns the edits.
LEMMA VersionHolds == Spec => []VersionInv
<1>1. Init => VersionInv
  <2> SUFFICES ASSUME Init PROVE VersionInv
    OBVIOUS
  <2>1. disk \in [Paths -> {0, 1}] /\ edits = 1 /\ content = 0
        /\ db = [f \in Files |-> disk[f]]
    BY DEF Init
  <2>2. \A p \in Paths : disk[p] <= edits
    BY <2>1
  <2>3. \A f \in Files : db[f] <= edits
    BY <2>1, <2>2, FileKeys
  <2> QED BY <2>1, <2>2, <2>3 DEF VersionInv
<1>2. TypeOK /\ VersionInv /\ [Next]_vars => VersionInv'
  <2> SUFFICES ASSUME TypeOK, VersionInv, [Next]_vars PROVE VersionInv'
    OBVIOUS
  <2>1. /\ disk \in [Paths -> Nat] /\ edits \in Nat /\ content \in Nat
        /\ db \in [Files -> Nat]
        /\ pc \in {"read", "store"} => cur.path \in Paths
    BY ChangeRunning DEF TypeOK, EnvironmentType, LoopType, IndexType
  <2>2. CASE Edit
    <3>1. UNCHANGED <<content, db>>
      BY <2>2, EditVersions DEF EnvUnchanged
    <3> QED BY <2>1, <2>2, <3>1, EditVersions DEF VersionInv
  <2>3. CASE UNCHANGED <<disk, edits>>
    <3>1. content' <= edits
      BY <2>1, <2>3, ContentWriters DEF VersionInv, ReadFile
    <3>2. \A f \in Files : db'[f] \in {0, content, db[f]}
      BY <2>1, IndexWriters DEF DeletesApplied, EmbedDone, StoreContent
    <3> QED BY <2>1, <2>3, <3>1, <3>2 DEF VersionInv
  <2> QED BY <2>2, <2>3, TreeWriters
<1> QED BY <1>1, <1>2, TypeCorrect, PTL DEF Spec

-----------------------------------------------------------------------------
(* Where a change or an embedding pass is.                                 *)

ChangeQueued(f) == pending[<<"change", f>>] # NoMutation

ChangeBuffered(f) ==
  buffered # NoMutation /\ buffered.op = "change" /\ buffered.path = f

ChangeRuns(f) == pc \in {"read", "store"} /\ cur.path = f

\* An embedding pass, whichever file asked for it.
EmbedAhead ==
  \/ \E f \in Files : pending[<<"embed", f>>] # NoMutation
  \/ buffered # NoMutation /\ buffered.op = "embed"
  \/ pc = "embed"

\* What is owned for anything but a delete stays owned.
StaysOwned ==
  \A k \in Keys : k[1] # "delete" /\ pending[k] # NoMutation => pending'[k] # NoMutation

\* Registering and refreshing do not free a key.
LEMMA TableKeeps ==
  ASSUME NEW table \in Table, NEW k \in Keys, table[k] # NoMutation
  PROVE  /\ \A m \in Mutation : Register(table, m)[k] # NoMutation
         /\ \A ms \in SUBSET Mutation : RegisterAll(table, ms)[k] # NoMutation
         /\ \A p \in Paths, g \in Nat : RefreshGeneration(table, p, g)[k] # NoMutation
<1>1. ASSUME NEW m \in Mutation
      PROVE  Register(table, m)[k] # NoMutation
  BY RegisterType, MutationFields
<1>2. ASSUME NEW ms \in SUBSET Mutation
      PROVE  RegisterAll(table, ms)[k] # NoMutation
  <2>1. \A m \in ms : m # NoMutation
    BY MutationFields
  <2> QED BY <2>1, RegisterAllType
<1>3. ASSUME NEW p \in Paths, NEW g \in Nat
      PROVE  RefreshGeneration(table, p, g)[k] # NoMutation
  BY RefreshGenerationType
<1> QED BY <1>1, <1>2, <1>3


\* A follow-up only adds owners.
LEMMA DrainedKeeps ==
  ASSUME TypeOK, NEW f \in Files, NEW table \in Table, NEW k \in Keys, table[k] # NoMutation
  PROVE  DrainedTable(table, f)[k] # NoMutation
<1>1. FollowUp(f) \in Mutation /\ reserved[f] \in Nat /\ f \in Paths
  BY BuiltMutations, FileKeys, GenTypes DEF TypeOK
<1> QED BY <1>1, TableKeeps DEF DrainedTable

\* A retry that is scheduled leaves its key owned, by itself or by what was
\* there before.
LEMMA RetriesOwned ==
  ASSUME TypeOK, NEW ms \in SUBSET Mutation, ScheduleRetries(ms)
  PROVE  /\ \A k \in Keys : pending[k] # NoMutation => pending'[k] # NoMutation
         /\ \A k \in Keys : (\A m \in ms : Key(m) # k) => pending'[k] = pending[k]
         /\ errorCount' = 0 => \A m \in ms : pending'[Key(m)] # NoMutation
<1>1. pending' = RegisterAll(pending, Retries(ms)) /\ pending \in Table
  BY GenTypes DEF ScheduleRetries, Retries
<1>2. /\ Retries(ms) \in SUBSET Mutation
      /\ \A r \in Retries(ms) : \E m \in ms : Key(r) = Key(m)
  BY RetryFields
<1>3. \A k \in Keys : pending[k] # NoMutation => pending'[k] # NoMutation
  BY <1>1, <1>2, TableKeeps
<1>4. \A k \in Keys : (\A m \in ms : Key(m) # k) => pending'[k] = pending[k]
  BY <1>1, <1>2, RegisterAllType
<1>5. ASSUME errorCount' = 0, NEW m \in ms
      PROVE  pending'[Key(m)] # NoMutation
  <2>1. errorCount \in Nat
    BY DEF TypeOK, IndexType
  <2>2. ms \ {n \in ms : n.retry < MaxRetryBudget} = {}
    BY <1>5, <2>1 DEF ScheduleRetries
  <2>3. RetryMutation(m) \in Retries(ms)
    BY <2>2 DEF Retries
  <2>4. Key(m) \in Keys /\ Key(RetryMutation(m)) = Key(m)
    BY MutationFields DEF Key, RetryMutation, RetryOf
  <2>5. CASE pending[Key(m)] # NoMutation
    BY <1>3, <2>4, <2>5
  <2>6. CASE pending[Key(m)] = NoMutation
    <3> DEFINE k == Key(m)
    <3>1. \E r \in Retries(ms) : Key(r) = k /\ CanRegister(pending, r)
      BY <2>3, <2>4, <2>6 DEF CanRegister
    <3>2. pending'[k] = CHOOSE r \in Retries(ms) : Key(r) = k /\ CanRegister(pending, r)
      BY <1>1, <2>4, <3>1 DEF RegisterAll
    <3>3. pending'[k] \in Retries(ms)
      BY <3>1, <3>2
    <3> QED BY <1>2, <3>3, MutationFields
  <2> QED BY <2>5, <2>6
<1> QED BY <1>3, <1>4, <1>5

\* Only taking a mutation frees its key, deletes apart.
LEMMA OwnedOutsideStart ==
  ASSUME TypeOK, OwnershipInv, [Next]_vars
  PROVE  Start \/ StaysOwned
<1>1. pending \in Table /\ latestGen \in [Paths -> Nat] /\ nextGen \in Nat
  BY GenTypes
<1>2. CASE UNCHANGED pending
  BY <1>2 DEF StaysOwned
<1>3. CASE AcceptEvent
  <2>1. Head(wire).path \in Paths
    BY <1>3, EventFields DEF AcceptEvent, TypeOK, EnvironmentType
  <2> QED BY <1>1, <1>3, <2>1, TableKeeps DEF AcceptEvent, StaysOwned
<1>4. ASSUME NEW S \in SUBSET Files, AddChanges(S)
      PROVE  StaysOwned
  BY <1>4, AddChangesOwners DEF StaysOwned
<1>5. CASE Consume
  <2>1. eventQueue # <<>> => Head(eventQueue) \in Event
    BY DEF TypeOK, IntakeType
  <2>2. CASE SuppressDuplicate
    BY <1>2, <2>2 DEF SuppressDuplicate
  <2>3. ASSUME NEW e \in Event, ConsumeChange(e)
        PROVE  StaysOwned
    <3>1. e.path \in Files
      BY <2>3, EventFields DEF ConsumeChange, FileEventTypes
    <3> QED BY <1>4, <2>3, <3>1 DEF ConsumeChange
  <2>4. ASSUME NEW e \in Event, ConsumeImmediate(e)
        PROVE  StaysOwned
    <3>1. PICK m \in Mutation : EnqueueNew(m)
      BY <2>4, ImmediateMutation
    <3> QED BY <1>1, <3>1, TableKeeps DEF EnqueueNew, StaysOwned
  <2>5. ASSUME NEW e \in Event, ConsumeAccess(e)
        PROVE  StaysOwned
    BY <2>5 DEF ConsumeAccess, StaysOwned
  <2> QED BY <1>5, <2>1, <2>2, <2>3, <2>4, <2>5 DEF Consume
<1>6. CASE Sleepers
  <2>1. ASSUME NEW t \in debounceTasks, DebounceElapses(t)
        PROVE  StaysOwned
    <3>1. pending' = pending
      BY <2>1, DebounceHandsOver
    <3> QED BY <3>1 DEF StaysOwned
  <2>2. ASSUME NEW t \in retryTasks, RetryElapses(t)
        PROVE  StaysOwned
    <3>1. pending' = pending \/ (pending' = Release(pending, t) /\ t.op = "delete")
      BY <2>2 DEF RetryElapses
    <3>2. \A k \in Keys : k[1] # "delete" /\ t.op = "delete" => k # Key(t)
      BY DEF Key
    <3>3. ASSUME NEW k \in Keys, k # Key(t)
          PROVE  Release(pending, t)[k] = pending[k]
      BY <1>1, <3>3 DEF Release, Table
    <3> QED BY <3>1, <3>2, <3>3 DEF StaysOwned
  <2> QED BY <1>6, <2>1, <2>2 DEF Sleepers
<1>7. ASSUME NEW committed \in BOOLEAN, FinishChange(committed)
      PROVE  StaysOwned
  <2> DEFINE f == cur.path
             embed == FreshMutation(nextId[<<"embed", f>>] + 1, "embed", f, NoGeneration)
             table == Register(pending, embed)
  <2>1. f \in Files
    BY <1>7, ChangeRunning DEF FinishChange
  <2>2. embed \in Mutation
    BY <2>1, EmbedMutation
  <2>3. pending' = DrainedTable(table, f)
    BY <1>7 DEF FinishChange
  <2> HIDE DEF f, embed
  <2>4. table \in Table /\ \A k \in Keys : pending[k] # NoMutation => table[k] # NoMutation
    BY <1>1, <2>2, RegisterType, TableKeeps
  <2> HIDE DEF table
  <2> QED BY <2>1, <2>3, <2>4, DrainedKeeps DEF StaysOwned
<1>8. ASSUME NEW committed \in BOOLEAN, ChangeBusy(committed) \/ ChangeError(committed)
      PROVE  StaysOwned
  <2> DEFINE f == cur.path
             table == DrainedTable(pending, f)
             retry == RetryOf(cur, DrainedId(f) + 1)
  <2>1. cur \in Mutation /\ f \in Files
    BY <1>8, ChangeRunning DEF ChangeBusy, ChangeError
  <2>2. DrainedId(f) + 1 \in Nat
    BY <2>1, BuiltMutations DEF TypeOK
  <2>3. retry \in Mutation
    BY <2>1, <2>2, RetryMutationType
  <2>4. pending' \in {table, Register(table, retry)}
    BY <1>8 DEF ChangeBusy, ChangeError
  <2> HIDE DEF f, retry
  <2>5. table \in Table /\ \A k \in Keys : pending[k] # NoMutation => table[k] # NoMutation
    BY <1>1, <2>1, DrainedType, DrainedKeeps, GenTypes DEF TypeOK
  <2> HIDE DEF table
  <2> QED BY <2>3, <2>4, <2>5, TableKeeps DEF StaysOwned
<1>9. ASSUME NEW ms \in SUBSET Mutation, ScheduleRetries(ms)
      PROVE  StaysOwned
  BY <1>9, RetriesOwned DEF StaysOwned
<1>10. CASE Failure
  <2>1. batch \in SUBSET Mutation /\ (pc \in {"embed", "dir_delete"} => cur \in Mutation)
    BY DEF TypeOK, LoopType
  <2>2. {m \in batch : ~IsStale(latestGen, m)} \in SUBSET Mutation
    BY <2>1
  <2>3. CASE DeletesConflict \/ DeletesBusy \/ PassBusy
    BY <1>9, <2>1, <2>2, <2>3 DEF DeletesConflict, DeletesBusy, PassBusy
  <2>4. CASE DeletesError \/ PassError
    BY <1>2, <2>4 DEF DeletesError, PassError, GiveUp
  <2> QED BY <1>7, <1>8, <1>10, <2>3, <2>4 DEF Failure
<1>11. CASE Work
  <2>1. CASE DirCleanup
    BY <2>1 DEF DirCleanup, StaysOwned
  <2>2. CASE DirQueue
    BY <1>4, <2>2 DEF DirQueue, TypeOK, LoopType
  <2>3. CASE ReadFile \/ DeletesApplied \/ EmbedDone \/ DirList
    BY <1>2, <2>3 DEF ReadFile, DeletesApplied, EmbedDone, DirList
  <2> QED BY <1>7, <1>11, <2>1, <2>2, <2>3 DEF Work
<1>12. CASE Edit
  BY <1>2, <1>12 DEF Edit, WriteFile, DeleteFile, AccessFile, MoveDirIn, MoveDirOut, EnvUnchanged
<1>13. CASE DropEvent \/ \E p \in Paths : DedupExpires(p)
  BY <1>2, <1>13 DEF DropEvent, DedupExpires
<1>14. CASE UNCHANGED vars
  BY <1>2, <1>14 DEF vars
<1> QED BY <1>3, <1>5, <1>6, <1>10, <1>11, <1>12, <1>13, <1>14 DEF Next, Intake


\* What the loop does with a mutation it starts: a change of a file that is
\* gone is skipped.
Dispatched(m) ==
  /\ m.op = "embed" => pc' = "embed"
  /\ m.op = "change" => disk[m.path] = 0 \/ (pc' = "read" /\ cur'.path = m.path)

\* Starting to delete buffers no delete: the run of deletes ends where the
\* batch is full or something else follows.  (A buffered delete could not be
\* dispatched.)
LEMMA BufferedIsNoDelete ==
  ASSUME TypeOK, OwnershipInv, StartDeletes, buffered' # NoMutation
  PROVE  buffered'.op # "delete"
<1> DEFINE rest(n) == [fileQueue EXCEPT ![0] = SubSeq(@, n + 1, Len(@))]
<1>1. fileQueue \in [Priorities -> Seq(Mutation)] /\ latestGen \in [Paths -> Nat]
  BY GenTypes
<1>2. PICK n \in 1..DeleteBatchSize, pr \in Priorities :
        /\ IsDeleteRun(n) /\ n < DeleteBatchSize /\ IsHead(rest(n), pr)
        /\ buffered' = ForProcessing(latestGen, Head(rest(n)[pr]))
  BY DEF StartDeletes
<1>3. n \in Nat /\ n <= Len(fileQueue[0]) /\ 0 \in Priorities
  BY <1>2, BoundAssumption DEF IsDeleteRun, Priorities
<1>4. rest(n)[pr] # <<>>
  BY <1>2 DEF IsHead
<1>5. rest(n) \in [Priorities -> Seq(Mutation)]
  BY <1>1, <1>3, DequeueRunType
<1>6. Head(rest(n)[pr]) \in Mutation
  BY <1>4, <1>5, DequeueType
<1>7. Head(rest(n)[pr]).op # "delete"
  <2>1. CASE pr = 0
    <3> DEFINE q == fileQueue[0]
    <3>1. q \in Seq(Mutation) /\ rest(n)[pr] = SubSeq(q, n + 1, Len(q))
      BY <1>1, <1>3, <2>1
    <3>2. n < Len(q) /\ Head(rest(n)[pr]) = q[n + 1]
      <4> HIDE DEF rest
      <4> QED BY <1>3, <1>4, <3>1
    <3> QED BY <1>2, <3>2 DEF IsDeleteRun
  <2>2. CASE pr # 0
    <3>1. rest(n)[pr] = fileQueue[pr] /\ fileQueue[pr] \in Seq(Mutation)
      BY <1>1, <2>2
    <3>2. fileQueue[pr] # <<>>
      BY <1>4, <3>1
    <3>3. 1 \in DOMAIN fileQueue[pr] /\ Head(fileQueue[pr]) = fileQueue[pr][1]
      BY <3>1, <3>2
    <3>4. MutationPriority(fileQueue[pr][1].op) = pr
      BY <3>3 DEF OwnershipInv, ByPriority
    <3>5. MutationPriority("delete") = 0
      BY DEF MutationPriority
    <3> QED BY <2>2, <3>1, <3>3, <3>4, <3>5
  <2> QED BY <2>1, <2>2
<1> QED BY <1>1, <1>2, <1>6, <1>7, ForProcessingType

\* Taking the next mutation: whatever is no longer owned is buffered or
\* dispatched.
LEMMA StartDispatches ==
  ASSUME TypeOK, Start
  PROVE  /\ pc = "idle"
         /\ buffered # NoMutation => Dispatched(buffered) /\ UNCHANGED pending
         /\ buffered = NoMutation =>
              \A k \in Keys : k[1] # "delete" /\ pending[k] # NoMutation =>
                \/ pending'[k] # NoMutation
                \/ buffered' # NoMutation /\ buffered'.op = k[1] /\ buffered'.path = k[2]
                \/ \E m \in Mutation : m.op = k[1] /\ m.path = k[2] /\ Dispatched(m)
<1>1. /\ pending \in Table /\ fileQueue \in [Priorities -> Seq(Mutation)]
      /\ latestGen \in [Paths -> Nat]
  BY GenTypes
<1>2. ASSUME NEW m, StartMutation(m)
      PROVE  Dispatched(m)
  BY <1>2 DEF StartMutation, Begin, Dispatched
<1>3. CASE StartBuffered
  BY <1>2, <1>3 DEF StartBuffered
<1>4. CASE StartQueued
  <2>1. PICK pr \in Priorities :
          /\ fileQueue[pr] # <<>>
          /\ pending' = Release(pending, Head(fileQueue[pr]))
          /\ StartMutation(ForProcessing(latestGen, Head(fileQueue[pr])))
    BY <1>4 DEF StartQueued, IsHead
  <2> DEFINE m == Head(fileQueue[pr])
             n == ForProcessing(latestGen, m)
  <2>2. m \in Mutation
    BY <1>1, <2>1, DequeueType
  <2>3. n \in Mutation /\ n.op = m.op /\ n.path = m.path
    BY <1>1, <2>2, ForProcessingType
  <2>4. Dispatched(n) /\ pending' = Release(pending, m)
    BY <1>2, <2>1
  <2> HIDE DEF m, n
  <2>5. ASSUME NEW k \in Keys, pending[k] # NoMutation, pending'[k] = NoMutation
        PROVE  m.op = k[1] /\ m.path = k[2]
    <3>1. Key(m) = k
      BY <1>1, <2>2, <2>4, <2>5 DEF Release, Table
    <3> QED BY <3>1 DEF Key
  <2>6. pc = "idle" /\ buffered = NoMutation
    BY <1>4 DEF StartQueued
  <2> QED BY <2>3, <2>4, <2>5, <2>6
<1>5. CASE StartDeletes
  <2> DEFINE run(n) == {fileQueue[0][i] : i \in 1..n}
             rest(n) == [fileQueue EXCEPT ![0] = SubSeq(@, n + 1, Len(@))]
  <2>1. PICK n \in 1..DeleteBatchSize :
          /\ run(n) \in SUBSET Mutation
          /\ \A m \in run(n) : m.op = "delete"
          /\ \/ pending' = ReleaseAll(pending, run(n))
             \/ \E pr \in Priorities :
                  /\ Head(rest(n)[pr]) \in Mutation
                  /\ pending' = ReleaseAll(pending, run(n) \cup {Head(rest(n)[pr])})
                  /\ buffered' = ForProcessing(latestGen, Head(rest(n)[pr]))
    BY <1>5, StartDeletesTakes
  <2>2. pc = "idle" /\ buffered = NoMutation
    BY <1>5 DEF StartDeletes
  <2> HIDE DEF run, rest
  <2>3. ASSUME NEW k \in Keys, k[1] # "delete", pending[k] # NoMutation, NEW ms,
               pending' = ReleaseAll(pending, ms), pending'[k] = NoMutation
        PROVE  \E m \in ms : Key(m) = k
    BY <2>3 DEF ReleaseAll
  <2>4. ASSUME NEW k \in Keys, k[1] # "delete", pending[k] # NoMutation,
               pending'[k] = NoMutation
        PROVE  buffered' # NoMutation /\ buffered'.op = k[1] /\ buffered'.path = k[2]
    <3>1. \A m \in run(n) : Key(m) # k
      BY <2>1, <2>4 DEF Key
    <3>2. PICK pr \in Priorities :
             /\ Head(rest(n)[pr]) \in Mutation
             /\ pending' = ReleaseAll(pending, run(n) \cup {Head(rest(n)[pr])})
             /\ buffered' = ForProcessing(latestGen, Head(rest(n)[pr]))
      BY <2>1, <2>3, <2>4, <3>1
    <3>3. Key(Head(rest(n)[pr])) = k
      BY <2>3, <2>4, <3>1, <3>2
    <3>4. /\ buffered' \in Mutation /\ buffered'.op = Head(rest(n)[pr]).op
          /\ buffered'.path = Head(rest(n)[pr]).path
      BY <1>1, <3>2, ForProcessingType
    <3> QED BY <3>3, <3>4, MutationFields DEF Key
  <2> QED BY <2>2, <2>4
<1> QED BY <1>3, <1>4, <1>5 DEF Start


-----------------------------------------------------------------------------
(* Embeddings.                                                             *)

\* Only indexed files have embeddings, and while no error is recorded a file
\* in step with the disk that has none will get them: an embedding pass is
\* ahead, or a change of the file that will ask for one.
EmbedInv ==
  /\ \A f \in embedded : db[f] # 0
  /\ errorCount = 0 =>
       \A f \in Files : db[f] # 0 /\ db[f] = disk[f] /\ f \notin embedded =>
         EmbedAhead \/ ChangeQueued(f) \/ ChangeBuffered(f) \/ ChangeRuns(f)

\* Errors are counted up.
LEMMA ErrorsCount ==
  ASSUME TypeOK, [Next]_vars
  PROVE  errorCount' \in {errorCount, errorCount + 1}
<1>1. CASE UNCHANGED vars \/ (\E p \in Paths : DedupExpires(p))
  BY <1>1 DEF vars, DedupExpires
<1>2. CASE Edit
  BY <1>2 DEF Edit, WriteFile, DeleteFile, AccessFile, MoveDirIn, MoveDirOut, EnvUnchanged
<1>3. CASE Intake \/ Consume
  BY <1>3 DEF Intake, Consume, AcceptEvent, DropEvent, SuppressDuplicate, ConsumeChange,
              ConsumeImmediate, ConsumeAccess
<1>4. CASE Sleepers
  BY <1>4 DEF Sleepers, DebounceElapses, RetryElapses
<1>5. CASE Start
  BY <1>5 DEF Start, StartBuffered, StartQueued, StartDeletes
<1>6. CASE Work
  BY <1>6 DEF Work, ReadFile, FinishChange, DeletesApplied, EmbedDone, DirCleanup, DirList,
              DirQueue
<1>7. CASE Failure
  BY <1>7 DEF Failure, FinishChange, ChangeBusy, ChangeError, DeletesConflict, DeletesBusy,
              DeletesError, PassBusy, PassError, ScheduleRetries, GiveUp
<1> QED BY <1>1, <1>2, <1>3, <1>4, <1>5, <1>6, <1>7 DEF Next

\* Outside Start and the processing task, the task's own state stays.
LEMMA LoopSteps ==
  ASSUME [Next]_vars
  PROVE  Start \/ Work \/ Failure \/ UNCHANGED <<loopVars, dbVars>>
<1>1. CASE UNCHANGED vars \/ (\E p \in Paths : DedupExpires(p))
  BY <1>1 DEF vars, DedupExpires
<1>2. CASE Edit
  BY <1>2 DEF Edit, WriteFile, DeleteFile, AccessFile, MoveDirIn, MoveDirOut, EnvUnchanged
<1>3. CASE Intake \/ Consume
  BY <1>3 DEF Intake, Consume, AcceptEvent, DropEvent, SuppressDuplicate, ConsumeChange,
              ConsumeImmediate, ConsumeAccess
<1>4. CASE Sleepers
  BY <1>4 DEF Sleepers, DebounceElapses, RetryElapses
<1> QED BY <1>1, <1>2, <1>3, <1>4 DEF Next

\* A change the database was too busy for is owned again, by its retry or by
\* its follow-up, unless it is given up.
LEMMA BusyRetries ==
  ASSUME TypeOK, NEW committed \in BOOLEAN, ChangeBusy(committed), errorCount' = 0
  PROVE  pending'[<<"change", cur.path>>] # NoMutation
<1> DEFINE f == cur.path
           table == DrainedTable(pending, f)
           retry == RetryOf(cur, DrainedId(f) + 1)
<1>1. errorCount \in Nat
  BY DEF TypeOK, IndexType
<1>2. cur \in Mutation /\ cur.op = "change" /\ f \in Files
  BY ChangeRunning DEF ChangeBusy
<1>3. ~ (cur.retry >= MaxRetryBudget)
  BY <1>1 DEF ChangeBusy
<1>4. pending' = IF CanRegister(table, retry) THEN Register(table, retry) ELSE table
  BY <1>3 DEF ChangeBusy
<1>5. DrainedId(f) + 1 \in Nat
  BY <1>2, BuiltMutations DEF TypeOK
<1>6. retry \in Mutation /\ Key(retry) = <<"change", f>>
  BY <1>2, <1>5, RetryMutationType DEF Key
<1>7. table \in Table
  BY <1>2, DrainedType, GenTypes DEF TypeOK
<1> HIDE DEF table, retry
<1>8. pending'[Key(retry)] # NoMutation
  BY <1>4, <1>6, <1>7, RegisterType, MutationFields DEF CanRegister
<1> QED BY <1>6, <1>8

\* A change that ends without an error asks for an embedding pass or is still
\* to be processed.
LEMMA ChangeAsks ==
  ASSUME TypeOK, OwnershipInv, NEW committed \in BOOLEAN, errorCount' = 0,
         FinishChange(committed) \/ ChangeBusy(committed) \/ ChangeError(committed)
  PROVE  /\ pc \in {"read", "store"} /\ cur.path \in Files /\ UNCHANGED buffered
         /\ \/ \E f \in Files : pending'[<<"embed", f>>] # NoMutation
            \/ pending'[<<"change", cur.path>>] # NoMutation
<1>0. errorCount \in Nat
  BY DEF TypeOK, IndexType
<1>1. pc \in {"read", "store"} /\ UNCHANGED buffered
  BY DEF FinishChange, ChangeBusy, ChangeError, EndChange, GoIdle
<1>2. /\ cur \in Mutation /\ cur.op = "change" /\ cur.path \in Files
      /\ <<"change", cur.path>> \in Keys /\ <<"embed", cur.path>> \in Keys
  BY <1>1, ChangeRunning
<1>3. CASE FinishChange(committed)
  <2> DEFINE f == cur.path
             embed == FreshMutation(nextId[<<"embed", f>>] + 1, "embed", f, NoGeneration)
             table == Register(pending, embed)
  <2>1. embed \in Mutation /\ Key(embed) = <<"embed", f>>
    BY <1>2, EmbedMutation
  <2>2. pending' = DrainedTable(table, f)
    BY <1>3 DEF FinishChange
  <2>3. f \in Files /\ <<"embed", f>> \in Keys
    BY <1>2
  <2> HIDE DEF f, embed
  <2>4. table \in Table /\ table[Key(embed)] # NoMutation
    BY <2>1, GenTypes, RegisterType, MutationFields DEF CanRegister
  <2>5. pending'[<<"embed", f>>] # NoMutation
    BY <2>1, <2>2, <2>3, <2>4, DrainedKeeps
  <2> QED BY <1>1, <1>2, <2>3, <2>5
<1>4. CASE ChangeBusy(committed)
  BY <1>1, <1>2, <1>4, BusyRetries
<1>5. CASE ChangeError(committed)
  BY <1>0, <1>5 DEF ChangeError
<1> QED BY <1>3, <1>4, <1>5


\* What is ahead stays ahead while nothing is taken and the processing task
\* does not end a change of the file or an embedding pass.
LEMMA StaysAhead ==
  ASSUME StaysOwned, UNCHANGED buffered, NEW f \in Files,
         EmbedAhead \/ ChangeQueued(f) \/ ChangeBuffered(f) \/ ChangeRuns(f),
         pc = "embed" => pc' = "embed",
         ChangeRuns(f) => ChangeRuns(f)'
  PROVE  (EmbedAhead \/ ChangeQueued(f) \/ ChangeBuffered(f) \/ ChangeRuns(f))'
<1>1. ChangeQueued(f) => ChangeQueued(f)'
  <2>1. <<"change", f>> \in Keys /\ <<"change", f>>[1] # "delete"
    BY FileKeys
  <2> QED BY <2>1 DEF StaysOwned, ChangeQueued
<1>2. EmbedAhead => EmbedAhead'
  <2>1. \A g \in Files : <<"embed", g>> \in Keys /\ <<"embed", g>>[1] # "delete"
    BY FileKeys
  <2>2. \A g \in Files : pending[<<"embed", g>>] # NoMutation =>
          pending'[<<"embed", g>>] # NoMutation
    BY <2>1 DEF StaysOwned
  <2> QED BY <2>2 DEF EmbedAhead
<1>3. ChangeBuffered(f) => ChangeBuffered(f)'
  BY DEF ChangeBuffered
<1> QED BY <1>1, <1>2, <1>3

\* Taking the next mutation keeps what is ahead, of a file that exists.
LEMMA StartKeepsAhead ==
  ASSUME TypeOK, Start, NEW f \in Files, disk[f] # 0,
         EmbedAhead \/ ChangeQueued(f) \/ ChangeBuffered(f) \/ ChangeRuns(f)
  PROVE  (EmbedAhead \/ ChangeQueued(f) \/ ChangeBuffered(f) \/ ChangeRuns(f))'
<1>1. /\ pc = "idle"
      /\ buffered # NoMutation => Dispatched(buffered) /\ UNCHANGED pending
  BY StartDispatches
<1>2. ASSUME NEW k \in Keys, k[1] # "delete", pending[k] # NoMutation
      PROVE  \/ pending'[k] # NoMutation
             \/ buffered' # NoMutation /\ buffered'.op = k[1] /\ buffered'.path = k[2]
             \/ \E m \in Mutation : m.op = k[1] /\ m.path = k[2] /\ Dispatched(m)
  BY <1>1, <1>2, StartDispatches
<1>3. CASE \E g \in Files : pending[<<"embed", g>>] # NoMutation
  <2>1. PICK g \in Files : pending[<<"embed", g>>] # NoMutation
    BY <1>3
  <2>2. \/ pending'[<<"embed", g>>] # NoMutation
        \/ buffered' # NoMutation /\ buffered'.op = "embed"
        \/ \E m \in Mutation : m.op = "embed" /\ Dispatched(m)
    BY <1>2, <2>1, FileKeys
  <2> QED BY <2>2 DEF EmbedAhead, Dispatched
<1>4. CASE ChangeQueued(f)
  <2>1. \/ pending'[<<"change", f>>] # NoMutation
        \/ buffered' # NoMutation /\ buffered'.op = "change" /\ buffered'.path = f
        \/ \E m \in Mutation : m.op = "change" /\ m.path = f /\ Dispatched(m)
    BY <1>2, <1>4, FileKeys DEF ChangeQueued
  <2> QED BY <2>1 DEF ChangeQueued, ChangeBuffered, ChangeRuns, Dispatched
<1>5. CASE buffered # NoMutation /\ buffered.op = "embed"
  BY <1>1, <1>5 DEF Dispatched, EmbedAhead
<1>6. CASE ChangeBuffered(f)
  BY <1>1, <1>6 DEF Dispatched, ChangeBuffered, ChangeRuns
<1> QED BY <1>1, <1>3, <1>4, <1>5, <1>6 DEF EmbedAhead, ChangeRuns

\* A file without embeddings is waited for.
LEMMA EmbedHolds == Spec => []EmbedInv
<1>1. Init => EmbedInv
  <2> SUFFICES ASSUME Init PROVE EmbedInv
    OBVIOUS
  <2>1. db = [f \in Files |-> disk[f]] /\ embedded = {f \in Files : disk[f] # 0}
    BY DEF Init
  <2> QED BY <2>1 DEF EmbedInv
<1>2. TypeOK /\ OwnershipInv /\ VersionInv /\ EmbedInv /\ [Next]_vars => EmbedInv'
  <2> SUFFICES ASSUME TypeOK, OwnershipInv, VersionInv, EmbedInv, [Next]_vars
               PROVE  EmbedInv'
    OBVIOUS
  <2>1. db \in [Files -> Nat] /\ embedded \subseteq Files /\ errorCount \in Nat
        /\ disk \in [Paths -> Nat] /\ edits \in Nat
    BY DEF TypeOK, IndexType, EnvironmentType
  <2>2. \A f \in embedded' : db'[f] # 0
    <3>1. CASE UNCHANGED dbVars
      BY <3>1 DEF EmbedInv
    <3>2. CASE DeletesApplied
      BY <2>1, <3>2 DEF EmbedInv, DeletesApplied
    <3>3. CASE EmbedDone
      BY <3>3 DEF EmbedDone
    <3>4. ASSUME NEW committed \in BOOLEAN, StoreContent(committed), pc \in {"read", "store"}
          PROVE  \A f \in embedded' : db'[f] # 0
      <4>1. CASE committed /\ content # 0
        BY <2>1, <3>4, <4>1, ChangeRunning DEF EmbedInv, StoreContent
      <4>2. CASE ~ (committed /\ content # 0)
        BY <3>4, <4>2 DEF EmbedInv, StoreContent
      <4> QED BY <4>1, <4>2
    <3> QED BY <3>1, <3>2, <3>3, <3>4, IndexWriters
  <2> SUFFICES ASSUME errorCount' = 0, NEW f \in Files,
                      db'[f] # 0, db'[f] = disk'[f], f \notin embedded'
               PROVE  (EmbedAhead \/ ChangeQueued(f) \/ ChangeBuffered(f) \/ ChangeRuns(f))'
    BY <2>2 DEF EmbedInv
  <2> DEFINE Ahead == EmbedAhead \/ ChangeQueued(f) \/ ChangeBuffered(f) \/ ChangeRuns(f)
  <2>3. errorCount = 0 /\ f \in Paths
    <3>1. errorCount' \in {errorCount, errorCount + 1}
      BY ErrorsCount
    <3>2. errorCount = 0
      BY <2>1, <3>1
    <3>3. f \in Paths
      BY DEF Paths
    <3> QED BY <3>2, <3>3
  <2>4. db[f] # 0 /\ db[f] = disk[f] /\ f \notin embedded => Ahead
    BY <2>3 DEF EmbedInv
  <2>5. CASE Edit
    <3>1. UNCHANGED <<pending, buffered, pc, cur, dbVars>> /\ disk'[f] \in {disk[f], 0, edits + 1}
      BY <2>3, <2>5, EditVersions DEF EnvUnchanged
    <3>2. db[f] <= edits /\ db[f] \in Nat
      BY <2>1 DEF VersionInv
    <3>3. db[f] # 0 /\ db[f] = disk[f] /\ f \notin embedded
      BY <2>1, <3>1, <3>2
    <3> QED BY <2>4, <3>1, <3>3 DEF EmbedAhead, ChangeQueued, ChangeBuffered, ChangeRuns
  <2>6. CASE Start
    <3>1. UNCHANGED <<dbVars, disk>>
      BY <2>6 DEF Start, StartBuffered, StartQueued, StartDeletes
    <3>2. disk[f] # 0 /\ Ahead
      BY <2>4, <3>1
    <3> QED BY <2>6, <3>2, StartKeepsAhead
  <2>7. CASE StaysOwned /\ UNCHANGED disk
    <3>1. ASSUME UNCHANGED <<db, buffered>>, f \notin embedded,
                 pc = "embed" => pc' = "embed", ChangeRuns(f) => ChangeRuns(f)'
          PROVE  Ahead'
      <4>1. Ahead
        BY <2>4, <2>7, <3>1
      <4> QED BY <2>7, <3>1, <4>1, StaysAhead
    <3>2. ASSUME NEW committed \in BOOLEAN,
                 FinishChange(committed) \/ ChangeBusy(committed) \/ ChangeError(committed)
          PROVE  Ahead'
      <4>1. /\ pc \in {"read", "store"} /\ cur.path \in Files /\ UNCHANGED buffered
            /\ \/ \E g \in Files : pending'[<<"embed", g>>] # NoMutation
               \/ pending'[<<"change", cur.path>>] # NoMutation
        BY <3>2, ChangeAsks
      <4>2. CASE \E g \in Files : pending'[<<"embed", g>>] # NoMutation
        BY <4>2 DEF EmbedAhead
      <4>3. CASE pending'[<<"change", cur.path>>] # NoMutation /\ f = cur.path
        BY <4>3 DEF ChangeQueued
      <4>4. CASE f # cur.path
        <5>1. StoreContent(committed)
          BY <3>2 DEF FinishChange, ChangeBusy, ChangeError
        <5>2. db'[f] = db[f] /\ f \notin embedded
          BY <2>1, <4>1, <4>4, <5>1 DEF StoreContent
        <5>3. Ahead
          BY <2>4, <2>7, <5>2
        <5> QED BY <2>7, <4>1, <4>4, <5>3, StaysAhead DEF ChangeRuns
      <4> QED BY <4>1, <4>2, <4>3, <4>4
    <3>3. CASE UNCHANGED <<loopVars, dbVars>>
      BY <3>1, <3>3 DEF ChangeRuns
    <3>4. CASE Work
      <4>1. CASE ReadFile
        BY <3>1, <4>1 DEF ReadFile, ChangeRuns
      <4>2. CASE DeletesApplied
        <5>1. db'[f] = db[f] /\ f \notin embedded /\ pc = "delete" /\ UNCHANGED buffered
          BY <2>1, <4>2 DEF DeletesApplied, GoIdle
        <5>2. Ahead
          BY <2>4, <2>7, <5>1
        <5> QED BY <2>7, <5>1, <5>2, StaysAhead DEF ChangeRuns
      <4>3. CASE EmbedDone
        BY <2>1, <4>3 DEF EmbedDone
      <4>4. CASE DirCleanup \/ DirList \/ DirQueue
        BY <3>1, <4>4 DEF DirCleanup, DirList, DirQueue, GoIdle, ChangeRuns
      <4> QED BY <3>2, <3>4, <4>1, <4>2, <4>3, <4>4 DEF Work
    <3>5. CASE Failure
      <4>1. CASE DeletesConflict \/ DeletesBusy \/ DeletesError
        BY <3>1, <4>1 DEF DeletesConflict, DeletesBusy, DeletesError, GoIdle, ChangeRuns
      <4>2. CASE PassBusy /\ pc = "embed"
        <5>1. cur \in Mutation /\ cur.op = "embed" /\ ScheduleRetries({cur})
          BY <4>2 DEF PassBusy, TypeOK, LoopType
        <5>2. cur.path \in Files
          BY <5>1, MutationFields DEF FileOperations
        <5>3. pending'[Key(cur)] # NoMutation
          BY <5>1, RetriesOwned
        <5> QED BY <5>1, <5>2, <5>3 DEF Key, EmbedAhead
      <4>3. CASE PassBusy /\ pc = "dir_delete"
        BY <3>1, <4>3 DEF PassBusy, GoIdle, ChangeRuns
      <4>4. CASE PassError
        BY <2>1, <4>4 DEF PassError
      <4> QED BY <3>2, <3>5, <4>1, <4>2, <4>3, <4>4 DEF Failure, PassBusy
    <3>6. CASE Start
      BY <2>6, <3>6
    <3> QED BY <3>3, <3>4, <3>5, <3>6, LoopSteps
  <2> QED BY <2>5, <2>6, <2>7, OwnedOutsideStart, TreeWriters
<1> QED BY <1>1, <1>2, TypeCorrect, OwnershipHolds, VersionHolds, PTL DEF Spec

\* Nothing is pending, taken or in work once the pipeline is at rest.
LEMMA RestIsEmpty ==
  ASSUME TypeOK, PendingIsCarried, Quiescent
  PROVE  /\ pc = "idle" /\ buffered = NoMutation
         /\ \A k \in Keys : pending[k] = NoMutation
  BY DEF Quiescent, PendingIsCarried

\* At rest and without a recorded error, every file that is indexed with what
\* is on disk has its embeddings, whatever faults there were: an embed
\* mutation survives a busy database, and its pass covers all files
\* (generate_missing_embeddings).
EmbeddedAtRest ==
  Quiescent /\ errorCount = 0 =>
    \A f \in Files : db[f] # 0 /\ db[f] = disk[f] => f \in embedded

\* Files indexed with what is on disk are embedded when the pipeline rests.
THEOREM RestIsEmbedded == Spec => []EmbeddedAtRest
<1>1. TypeOK /\ PendingIsCarried /\ EmbedInv => EmbeddedAtRest
  <2> SUFFICES ASSUME TypeOK, PendingIsCarried, EmbedInv, Quiescent, errorCount = 0,
                      NEW f \in Files, db[f] # 0, db[f] = disk[f], f \notin embedded
               PROVE  FALSE
    BY DEF EmbeddedAtRest
  <2>1. EmbedAhead \/ ChangeQueued(f) \/ ChangeBuffered(f) \/ ChangeRuns(f)
    BY DEF EmbedInv
  <2> QED BY <2>1, RestIsEmpty, FileKeys DEF EmbedAhead, ChangeQueued, ChangeBuffered, ChangeRuns
<1> QED BY <1>1, TypeCorrect, PendingCarried, EmbedHolds, PTL

\* An index in step with the disk is an embedded one: where the first promise
\* of the pipeline at rest holds, so does the second.
THEOREM InStepIsEmbedded == Spec => [](QuiescentInStep => QuiescentEmbedded)
<1>1. TypeOK /\ EmbedInv /\ EmbeddedAtRest => (QuiescentInStep => QuiescentEmbedded)
  <2> SUFFICES ASSUME TypeOK, EmbedInv, EmbeddedAtRest, QuiescentInStep, Quiescent, Undisturbed
               PROVE  embedded = {f \in Files : db[f] # 0}
    BY DEF QuiescentEmbedded
  <2>1. embedded \subseteq Files /\ \A f \in embedded : db[f] # 0
    BY DEF TypeOK, IndexType, EmbedInv
  <2>2. \A f \in Files : db[f] = disk[f]
    BY DEF QuiescentInStep
  <2>3. \A f \in Files : db[f] # 0 => f \in embedded
    BY <2>2 DEF EmbeddedAtRest, Undisturbed
  <2> QED BY <2>1, <2>3
<1> QED BY <1>1, TypeCorrect, EmbedHolds, RestIsEmbedded, PTL


-----------------------------------------------------------------------------
(* Events on their way to _consume_events.                                 *)

IsChange(e, f) == e.path = f /\ e.type \in {"created", "modified"}

IsDelete(e, f) == e.path = f /\ e.type = "deleted"

\* Any other event of f: a change of it, or an access to it.
SaysExists(e, f) == e.path = f /\ e.type # "deleted"

\* The last word of the events of f is whether f exists: after a deletion of
\* an existing file its change follows, after any event of a deleted file its
\* deletion.  At most one of them is a deletion.
Truthful(s, f, exists) ==
  /\ exists => \A i \in DOMAIN s : IsDelete(s[i], f) =>
                 \E j \in DOMAIN s : j > i /\ IsChange(s[j], f)
  /\ ~exists => \A i \in DOMAIN s : SaysExists(s[i], f) =>
                  \E j \in DOMAIN s : j > i /\ IsDelete(s[j], f)
  /\ \A i, j \in DOMAIN s : IsDelete(s[i], f) /\ IsDelete(s[j], f) => i = j

\* An event of a file says that it exists or that it does not.
LEMMA FileEvent ==
  ASSUME NEW e \in Event, NEW f \in Files
  PROVE  /\ e.path = f => e.type \in FileEventTypes /\ (SaysExists(e, f) \/ IsDelete(e, f))
         /\ ~ (SaysExists(e, f) /\ IsDelete(e, f))
         /\ IsChange(e, f) => SaysExists(e, f)
         /\ IsChange(e, f) => e.type # NoEvent /\ e.type # "deleted"
<1>1. e.path = f => e.type \in FileEventTypes
  <2>1. e \in [type : FileEventTypes, path : Files] \/ e \in [type : DirEventTypes, path : Dirs]
    BY DEF Event
  <2>2. f \notin Dirs
    BY PathAssumption
  <2> QED BY <2>1, <2>2
<1> QED BY <1>1 DEF IsChange, IsDelete, SaysExists, FileEventTypes, NoEvent

\* The events in flight: the loop's queue, then the callbacks of the watcher.
Flight == eventQueue \o wire

\* A reported event is the last one in flight.
LEMMA FlightReport ==
  ASSUME NEW q \in Seq(Event), NEW w \in Seq(Event), NEW e \in Event
  PROVE  /\ q \o Append(w, e) = Append(q \o w, e)
         /\ q \o w \in Seq(Event)
<1>1. q \o Append(w, e) \in Seq(Event) /\ Append(q \o w, e) \in Seq(Event)
  OBVIOUS
<1>2. Len(q \o Append(w, e)) = Len(Append(q \o w, e))
  OBVIOUS
<1>3. \A i \in 1..Len(Append(q \o w, e)) : (q \o Append(w, e))[i] = Append(q \o w, e)[i]
  OBVIOUS
<1> QED BY <1>1, <1>2, <1>3

\* Accepting an event only moves it.
LEMMA FlightAccept ==
  ASSUME NEW q \in Seq(Event), NEW w \in Seq(Event), w # <<>>
  PROVE  Append(q, Head(w)) \o Tail(w) = q \o w
<1>1. Append(q, Head(w)) \o Tail(w) \in Seq(Event) /\ q \o w \in Seq(Event)
  OBVIOUS
<1>2. Len(Append(q, Head(w)) \o Tail(w)) = Len(q \o w)
  OBVIOUS
<1>3. \A i \in 1..Len(q \o w) : (Append(q, Head(w)) \o Tail(w))[i] = (q \o w)[i]
  OBVIOUS
<1> QED BY <1>1, <1>2, <1>3

\* A consumed event is the first one in flight.
LEMMA FlightTake ==
  ASSUME NEW q \in Seq(Event), NEW w \in Seq(Event), q # <<>>
  PROVE  /\ Tail(q) \o w = Tail(q \o w)
         /\ q \o w # <<>> /\ (q \o w)[1] = Head(q) /\ 1 \in DOMAIN (q \o w)
<1>1. Tail(q) \o w \in Seq(Event) /\ q \o w \in Seq(Event) /\ q \o w # <<>>
      /\ Len(q) \in Nat /\ Len(q) > 0 /\ Len(q \o w) = Len(q) + Len(w)
  OBVIOUS
<1>2. Len(Tail(q) \o w) = Len(Tail(q \o w))
  OBVIOUS
<1>3. \A i \in 1..Len(Tail(q \o w)) : (Tail(q) \o w)[i] = Tail(q \o w)[i]
  OBVIOUS
<1>4. (q \o w)[1] = Head(q) /\ 1 \in DOMAIN (q \o w)
  BY <1>1
<1> QED BY <1>1, <1>2, <1>3, <1>4

\* The places of a sequence after its head.
LEMMA TailPlaces ==
  ASSUME NEW s \in Seq(Event), s # <<>>
  PROVE  /\ \A i \in DOMAIN Tail(s) : i + 1 \in DOMAIN s /\ Tail(s)[i] = s[i + 1]
         /\ \A i \in DOMAIN s : i > 1 => i - 1 \in DOMAIN Tail(s) /\ Tail(s)[i - 1] = s[i]
         /\ DOMAIN s \subseteq Nat /\ DOMAIN Tail(s) \subseteq Nat /\ \A i \in DOMAIN s : i >= 1
         /\ \A i \in DOMAIN Tail(s) : i >= 1
  OBVIOUS

\* The places of a sequence with one more element.
LEMMA AppendPlaces ==
  ASSUME NEW s \in Seq(Event), NEW e \in Event
  PROVE  /\ DOMAIN s \subseteq DOMAIN Append(s, e) /\ DOMAIN Append(s, e) \subseteq Nat
         /\ \A i \in DOMAIN s : Append(s, e)[i] = s[i] /\ i < Len(s) + 1
         /\ Len(s) + 1 \in DOMAIN Append(s, e) /\ Append(s, e)[Len(s) + 1] = e
         /\ \A i \in DOMAIN Append(s, e) : i \in DOMAIN s \/ i = Len(s) + 1
  OBVIOUS

\* Consuming an event leaves the last word.
LEMMA TruthfulTail ==
  ASSUME NEW s \in Seq(Event), s # <<>>, NEW f, NEW exists \in BOOLEAN, Truthful(s, f, exists)
  PROVE  Truthful(Tail(s), f, exists)
<1> DEFINE t == Tail(s)
<1>1. /\ \A i \in DOMAIN t : i + 1 \in DOMAIN s /\ t[i] = s[i + 1]
      /\ \A i \in DOMAIN s : i > 1 => i - 1 \in DOMAIN t /\ t[i - 1] = s[i]
      /\ DOMAIN s \subseteq Nat /\ DOMAIN t \subseteq Nat /\ \A i \in DOMAIN s : i >= 1
  BY TailPlaces
<1> HIDE DEF t
<1>2. ASSUME NEW i \in DOMAIN t, NEW j \in DOMAIN s, j > i + 1
      PROVE  j - 1 \in DOMAIN t /\ t[j - 1] = s[j] /\ j - 1 > i
  BY <1>1, <1>2
<1>3. ASSUME exists, NEW i \in DOMAIN t, IsDelete(t[i], f)
      PROVE  \E j \in DOMAIN t : j > i /\ IsChange(t[j], f)
  <2>1. PICK j \in DOMAIN s : j > i + 1 /\ IsChange(s[j], f)
    BY <1>1, <1>3 DEF Truthful
  <2> QED BY <1>2, <2>1
<1>4. ASSUME ~exists, NEW i \in DOMAIN t, SaysExists(t[i], f)
      PROVE  \E j \in DOMAIN t : j > i /\ IsDelete(t[j], f)
  <2>1. PICK j \in DOMAIN s : j > i + 1 /\ IsDelete(s[j], f)
    BY <1>1, <1>4 DEF Truthful
  <2> QED BY <1>2, <2>1
<1>5. ASSUME NEW i \in DOMAIN t, NEW j \in DOMAIN t, IsDelete(t[i], f), IsDelete(t[j], f)
      PROVE  i = j
  <2>1. i + 1 = j + 1
    BY <1>1, <1>5 DEF Truthful
  <2> QED BY <1>1, <2>1
<1> QED BY <1>3, <1>4, <1>5 DEF Truthful, t

\* Reporting an edit makes its event the last word; an access to an existing
\* file and an event of another path leave it.
LEMMA TruthfulAppend ==
  ASSUME NEW s \in Seq(Event), NEW e \in Event, NEW f \in Files, NEW exists \in BOOLEAN,
         Truthful(s, f, exists)
  PROVE  /\ e.path # f => Truthful(Append(s, e), f, exists)
         /\ IsChange(e, f) => Truthful(Append(s, e), f, TRUE)
         /\ SaysExists(e, f) /\ exists => Truthful(Append(s, e), f, TRUE)
         /\ IsDelete(e, f) /\ (\A i \in DOMAIN s : ~ IsDelete(s[i], f)) =>
              Truthful(Append(s, e), f, FALSE)
<1> DEFINE t == Append(s, e)
           n == Len(s) + 1
<1>1. /\ DOMAIN s \subseteq DOMAIN t /\ DOMAIN t \subseteq Nat
      /\ \A i \in DOMAIN s : t[i] = s[i] /\ i < n
      /\ n \in DOMAIN t /\ t[n] = e
      /\ \A i \in DOMAIN t : i \in DOMAIN s \/ i = n
  BY AppendPlaces
<1>2. ~ (SaysExists(e, f) /\ IsDelete(e, f)) /\ (IsChange(e, f) => SaysExists(e, f))
  BY FileEvent
<1> HIDE DEF t, n
<1>3. CASE e.path # f
  <2>1. ~ IsChange(e, f) /\ ~ IsDelete(e, f) /\ ~ SaysExists(e, f)
    BY <1>3 DEF IsChange, IsDelete, SaysExists
  <2> QED BY <1>1, <1>3, <2>1 DEF Truthful, t, IsChange, IsDelete, SaysExists
<1>4. CASE IsChange(e, f)
  <2>1. \A i \in DOMAIN t : IsDelete(t[i], f) => i \in DOMAIN s
    BY <1>1, <1>2, <1>4
  <2>2. Truthful(t, f, TRUE)
    BY <1>1, <1>4, <2>1 DEF Truthful
  <2> QED BY <1>2, <1>4, <2>2 DEF t, IsChange
<1>6. CASE SaysExists(e, f) /\ exists
  <2>1. \A i \in DOMAIN t : IsDelete(t[i], f) => i \in DOMAIN s
    BY <1>1, <1>2, <1>6
  <2>2. Truthful(t, f, TRUE)
    BY <1>1, <1>6, <2>1 DEF Truthful
  <2> QED BY <1>2, <1>6, <2>2 DEF t, SaysExists
<1>5. CASE IsDelete(e, f) /\ \A i \in DOMAIN s : ~ IsDelete(s[i], f)
  <2>1. \A i \in DOMAIN t : SaysExists(t[i], f) => i \in DOMAIN s
    BY <1>1, <1>2, <1>5
  <2>2. \A i \in DOMAIN t : IsDelete(t[i], f) => i = n
    BY <1>1, <1>5
  <2>3. Truthful(t, f, FALSE)
    BY <1>1, <1>5, <2>1, <2>2 DEF Truthful
  <2> QED BY <1>2, <1>5, <2>3 DEF t, IsDelete
<1> QED BY <1>2, <1>3, <1>4, <1>5, <1>6


-----------------------------------------------------------------------------
(* Convergence of the files that are edited one by one.                    *)

\* The files outside every directory that is moved as a whole.
Plain == Files \ UNION {FilesUnder[d] : d \in Dirs}

DeleteReported(f) == \E i \in DOMAIN Flight : IsDelete(Flight[i], f)

\* A change in flight that will not be taken for a duplicate.
ChangeReported(f) ==
  \E i \in DOMAIN Flight : IsChange(Flight[i], f) /\ Flight[i].type # recent[f]

\* A delete is pending and not stale.
DeleteQueued(f) ==
  /\ pending[<<"delete", f>>] # NoMutation
  /\ ~ IsStale(latestGen, pending[<<"delete", f>>])

DeleteRuns(f) == pc = "delete" /\ \E m \in batch : m.path = f

\* A change is still to be taken.
ChangeAhead(f) == ChangeReported(f) \/ ChangeQueued(f) \/ reserved[f] # NoGeneration

\* process_file holds content of f that it will store.
StoreHeld(f) == pc = "store" /\ cur.path = f /\ content # 0

\* The events in flight tell the truth about f, none of them will be taken for
\* a duplicate deletion, and an accepted event has a generation.
FlightInv(f) ==
  /\ Truthful(Flight, f, disk[f] # 0)
  /\ DeleteReported(f) => recent[f] # "deleted"
  /\ \A i \in DOMAIN eventQueue : eventQueue[i].path = f => latestGen[f] # NoGeneration

\* A deleted file that is indexed, or about to be, will be deleted from the
\* index.
AbsentInv(f) ==
  disk[f] = 0 /\ (db[f] # 0 \/ StoreHeld(f)) =>
    DeleteReported(f) \/ DeleteQueued(f) \/ DeleteRuns(f)

\* An existing file that is not indexed as it is, or is about to be deleted
\* from the index, will be indexed after that.
PresentInv(f) ==
  disk[f] # 0 =>
    /\ DeleteQueued(f) => ChangeAhead(f)
    /\ DeleteRuns(f) => ChangeAhead(f) \/ ChangeBuffered(f)
    /\ pc = "store" /\ cur.path = f /\ content # disk[f] => ChangeAhead(f)
    /\ db[f] # disk[f] => ChangeAhead(f) \/ ChangeBuffered(f) \/ ChangeRuns(f)

FileInv(f) == FlightInv(f) /\ AbsentInv(f) /\ PresentInv(f)

\* No delete waits for a retry.
NoDeleteRetry == \A t \in retryTasks : t.op # "delete"

ConvergeInv == Undisturbed => \A f \in Plain : FileInv(f)

\* Edits of one path are a dedup window apart, the backend reports no access to
\* a file after it was unlinked, and the database is never busy for a delete,
\* never in conflict and never rolls a store back.
Calm ==
  /\ SpacedEdits
  /\ "unlinked" \notin AccessKinds
  /\ FaultKinds \subseteq {"busy_change", "error"}

\* A plain file is moved by no directory.
LEMMA PlainFile ==
  ASSUME NEW f \in Plain
  PROVE  f \in Files /\ f \in Paths /\ \A d \in Dirs : f # d /\ f \notin FilesUnder[d]
  BY PathAssumption DEF Plain, Paths

\* The types of what is in flight.
LEMMA FlightType ==
  ASSUME TypeOK
  PROVE  eventQueue \in Seq(Event) /\ wire \in Seq(Event) /\ Flight \in Seq(Event)
  BY DEF TypeOK, IntakeType, EnvironmentType, Flight

\* The steps that leave the events of f alone.
LEMMA FlightFrame ==
  ASSUME NEW f \in Files, FlightInv(f), UNCHANGED <<eventQueue, wire>>,
         disk'[f] = disk[f], recent'[f] \in {recent[f], NoEvent}, latestGen'[f] = latestGen[f]
  PROVE  FlightInv(f)'
<1>1. Flight' = Flight
  BY DEF Flight
<1>2. NoEvent # "deleted"
  BY DEF NoEvent
<1> QED BY <1>1, <1>2 DEF FlightInv, DeleteReported

\* A change in flight stays so while nothing is consumed.
LEMMA ReportedFrame ==
  ASSUME TypeOK, NEW f \in Files, UNCHANGED <<eventQueue, wire>>,
         recent'[f] \in {recent[f], NoEvent}
  PROVE  /\ DeleteReported(f)' = DeleteReported(f)
         /\ ChangeReported(f) => ChangeReported(f)'
<1>1. Flight' = Flight /\ Flight \in Seq(Event)
  BY FlightType DEF Flight
<1>2. \A i \in DOMAIN Flight : IsChange(Flight[i], f) => Flight[i].type # NoEvent
  BY <1>1, FileEvent
<1> QED BY <1>1, <1>2 DEF DeleteReported, ChangeReported

\* An edit of f is reported truthfully, and its change is not a duplicate.
LEMMA EditFlight ==
  ASSUME TypeOK, Calm, Edit, NEW f \in Plain, FlightInv(f)
  PROVE  /\ FlightInv(f)'
         /\ DeleteReported(f) => DeleteReported(f)'
         /\ ChangeReported(f) => ChangeReported(f)'
         /\ disk'[f] # disk[f] /\ disk'[f] # 0 => ChangeReported(f)'
         /\ disk'[f] # disk[f] /\ disk'[f] = 0 => DeleteReported(f)'
<1>1. f \in Files /\ \A d \in Dirs : f # d /\ f \notin FilesUnder[d]
  BY PlainFile
<1>2. eventQueue \in Seq(Event) /\ wire \in Seq(Event) /\ Flight \in Seq(Event)
      /\ disk \in [Paths -> Nat] /\ edits \in Nat
  BY FlightType DEF TypeOK, EnvironmentType
<1>3. UNCHANGED <<eventQueue, recent, latestGen>>
  BY DEF Edit, WriteFile, DeleteFile, AccessFile, MoveDirIn, MoveDirOut, EnvUnchanged
<1>4. PICK e \in Event :
        /\ wire' = Append(wire, e)
        /\ \/ IsChange(e, f) /\ disk'[f] # 0 /\ Spaced(e)
           \/ IsDelete(e, f) /\ disk'[f] = 0 /\ Spaced(e)
           \/ SaysExists(e, f) /\ disk[f] # 0 /\ disk'[f] = disk[f]
           \/ e.path # f /\ disk'[f] = disk[f]
  <2>1. ASSUME NEW g \in Files, WriteFile(g)
        PROVE  \E e \in Event :
                 /\ wire' = Append(wire, e) /\ Spaced(e)
                 /\ \/ IsChange(e, f) /\ disk'[f] # 0
                    \/ e.path # f /\ disk'[f] = disk[f]
    <3> DEFINE ty == IF disk[g] = 0 THEN "created" ELSE "modified"
               e == [type |-> ty, path |-> g]
    <3>1. ty \in {"created", "modified"}
      OBVIOUS
    <3>2. wire' = Append(wire, e) /\ Spaced(e)
      BY <2>1 DEF WriteFile, ReportEvent, Calm
    <3> HIDE DEF ty
    <3>3. e \in Event
      BY <3>1 DEF Event, FileEventTypes
    <3>4. (g = f => IsChange(e, f)) /\ (g # f => e.path # f)
      BY <3>1 DEF IsChange
    <3>5. (g = f => disk'[f] # 0) /\ (g # f => disk'[f] = disk[f])
      BY <1>1, <1>2, <2>1 DEF WriteFile, Paths
    <3> QED BY <3>2, <3>3, <3>4, <3>5
  <2>2. ASSUME NEW g \in Files, DeleteFile(g)
        PROVE  \E e \in Event :
                 /\ wire' = Append(wire, e) /\ Spaced(e)
                 /\ \/ IsDelete(e, f) /\ disk'[f] = 0
                    \/ e.path # f /\ disk'[f] = disk[f]
    <3> DEFINE e == [type |-> "deleted", path |-> g]
    <3>1. wire' = Append(wire, e) /\ Spaced(e)
      BY <2>2 DEF DeleteFile, ReportEvent, Calm
    <3>2. e \in Event
      BY DEF Event, FileEventTypes
    <3>3. (g = f => IsDelete(e, f)) /\ (g # f => e.path # f)
      BY DEF IsDelete
    <3>4. (g = f => disk'[f] = 0) /\ (g # f => disk'[f] = disk[f])
      BY <1>1, <1>2, <2>2 DEF DeleteFile, Paths
    <3> QED BY <3>1, <3>2, <3>3, <3>4
  <2>3. ASSUME NEW d \in Dirs, MoveDirIn(d) \/ MoveDirOut(d)
        PROVE  \E e \in Event :
                 wire' = Append(wire, e) /\ e.path # f /\ disk'[f] = disk[f]
    <3>1. PICK ty \in DirEventTypes : wire' = Append(wire, [type |-> ty, path |-> d])
      BY <2>3 DEF MoveDirIn, MoveDirOut, ReportEvent, DirEventTypes
    <3>2. [type |-> ty, path |-> d] \in Event /\ [type |-> ty, path |-> d].path # f
      BY <1>1 DEF Event
    <3>3. disk'[f] = disk[f]
      BY <1>1, <1>2, <2>3 DEF MoveDirIn, MoveDirOut, Paths
    <3> QED BY <3>1, <3>2, <3>3
  <2>4. ASSUME NEW g \in Files, AccessFile(g)
        PROVE  \E e \in Event :
                 /\ wire' = Append(wire, e) /\ disk'[f] = disk[f]
                 /\ (SaysExists(e, f) /\ disk[f] # 0) \/ e.path # f
    <3>1. PICK ty \in {"accessed", "modified"} :
            wire' = Append(wire, [type |-> ty, path |-> g])
      BY <2>4 DEF AccessFile
    <3> DEFINE e == [type |-> ty, path |-> g]
    <3>2. e \in Event
      BY DEF Event, FileEventTypes
    <3>3. disk' = disk /\ disk[g] # 0
      BY <2>4 DEF AccessFile, Calm
    <3>4. (g = f => SaysExists(e, f)) /\ (g # f => e.path # f)
      BY DEF SaysExists
    <3> QED BY <3>1, <3>2, <3>3, <3>4
  <2> QED BY <2>1, <2>2, <2>3, <2>4 DEF Edit
<1>5. Flight' = Append(Flight, e)
  BY <1>2, <1>3, <1>4, FlightReport DEF Flight
<1>6. /\ DOMAIN Flight \subseteq DOMAIN Flight' /\ DOMAIN Flight' \subseteq Nat
      /\ \A i \in DOMAIN Flight : Flight'[i] = Flight[i] /\ i < Len(Flight) + 1
      /\ Len(Flight) + 1 \in DOMAIN Flight' /\ Flight'[Len(Flight) + 1] = e
      /\ \A i \in DOMAIN Flight' : i \in DOMAIN Flight \/ i = Len(Flight) + 1
  BY <1>2, <1>5, AppendPlaces
<1>7. IsDelete(e, f) => ~ DeleteReported(f) /\ recent[f] # "deleted"
  <2> SUFFICES ASSUME IsDelete(e, f) PROVE ~ DeleteReported(f) /\ recent[f] # "deleted"
    OBVIOUS
  <2>1. recent[f] # "deleted" /\ ~ InFlight(e)
    BY <1>4 DEF Spaced, IsDelete, IsChange, SaysExists
  <2>2. ASSUME NEW i \in DOMAIN Flight, IsDelete(Flight[i], f)
        PROVE  FALSE
    <3>1. Flight[i] \in Event /\ Flight[i] = e
      <4>1. Flight[i] \in Event
        BY <1>2
      <4> QED BY <4>1, <2>2, <1>4 DEF Event, IsDelete
    <3>2. \/ \E j \in DOMAIN eventQueue : Flight[i] = eventQueue[j]
          \/ \E j \in DOMAIN wire : Flight[i] = wire[j]
      BY <1>2 DEF Flight
    <3> QED BY <2>1, <3>1, <3>2 DEF InFlight
  <2> QED BY <2>1, <2>2 DEF DeleteReported
<1>8. /\ disk'[f] # disk[f] /\ disk'[f] # 0 => IsChange(e, f) /\ e.type # recent[f]
      /\ disk'[f] # disk[f] /\ disk'[f] = 0 => IsDelete(e, f)
  BY <1>4 DEF Spaced, IsChange
<1> HIDE DEF Flight
<1>9. DeleteReported(f) => DeleteReported(f)'
  BY <1>6 DEF DeleteReported
<1>10. ChangeReported(f) => ChangeReported(f)'
  BY <1>3, <1>6 DEF ChangeReported
<1>11. disk'[f] # disk[f] /\ disk'[f] # 0 => ChangeReported(f)'
  BY <1>3, <1>6, <1>8 DEF ChangeReported
<1>12. disk'[f] # disk[f] /\ disk'[f] = 0 => DeleteReported(f)'
  BY <1>6, <1>8 DEF DeleteReported
<1>13. Truthful(Flight', f, disk'[f] # 0)
  <2>1. Truthful(Flight, f, disk[f] # 0) /\ (disk[f] # 0) \in BOOLEAN
    BY DEF FlightInv
  <2>2. IsDelete(e, f) => \A i \in DOMAIN Flight : ~ IsDelete(Flight[i], f)
    BY <1>7 DEF DeleteReported
  <2>3. CASE IsChange(e, f) /\ disk'[f] # 0
    <3>1. (disk'[f] # 0) = TRUE
      BY <2>3
    <3> QED BY <1>1, <1>2, <1>5, <2>1, <2>3, <3>1, TruthfulAppend
  <2>4. CASE IsDelete(e, f) /\ disk'[f] = 0
    <3>1. (disk'[f] # 0) = FALSE
      BY <2>4
    <3> QED BY <1>1, <1>2, <1>5, <2>1, <2>2, <2>4, <3>1, TruthfulAppend
  <2>5. CASE e.path # f /\ disk'[f] = disk[f]
    BY <1>1, <1>2, <1>5, <2>1, <2>5, TruthfulAppend
  <2>6. CASE SaysExists(e, f) /\ disk[f] # 0 /\ disk'[f] = disk[f]
    <3>1. (disk'[f] # 0) = TRUE /\ (disk[f] # 0) = TRUE
      BY <2>6
    <3> QED BY <1>1, <1>2, <1>5, <2>1, <2>6, <3>1, TruthfulAppend
  <2> QED BY <1>4, <2>3, <2>4, <2>5, <2>6
<1>14. DeleteReported(f)' => recent[f] # "deleted"
  BY <1>6, <1>7 DEF DeleteReported, FlightInv
<1> QED BY <1>3, <1>9, <1>10, <1>11, <1>12, <1>13, <1>14 DEF FlightInv


\* An edit of the tree.
LEMMA EditConverges ==
  ASSUME TypeOK, VersionInv, Calm, Edit, NEW f \in Plain, FileInv(f)
  PROVE  FileInv(f)'
<1>1. f \in Files /\ f \in Paths
  BY PlainFile
<1>2. /\ FlightInv(f)'
      /\ DeleteReported(f) => DeleteReported(f)'
      /\ ChangeReported(f) => ChangeReported(f)'
      /\ disk'[f] # disk[f] /\ disk'[f] # 0 => ChangeReported(f)'
      /\ disk'[f] # disk[f] /\ disk'[f] = 0 => DeleteReported(f)'
  BY EditFlight DEF FileInv
<1>3. UNCHANGED <<pending, latestGen, reserved>> /\ UNCHANGED <<loopVars, dbVars>>
  BY EditVersions DEF EnvUnchanged
<1>4. /\ DeleteQueued(f)' = DeleteQueued(f) /\ DeleteRuns(f)' = DeleteRuns(f)
      /\ ChangeBuffered(f)' = ChangeBuffered(f) /\ ChangeRuns(f)' = ChangeRuns(f)
      /\ StoreHeld(f)' = StoreHeld(f) /\ db' = db /\ content' = content /\ pc' = pc
      /\ cur' = cur
  BY <1>3 DEF DeleteQueued, DeleteRuns, ChangeBuffered, ChangeRuns, StoreHeld
<1>5. ChangeAhead(f) => ChangeAhead(f)'
  BY <1>2, <1>3 DEF ChangeAhead, ChangeQueued
<1>6. ChangeReported(f)' => ChangeAhead(f)'
  BY DEF ChangeAhead
<1>7. AbsentInv(f)'
  BY <1>2, <1>4 DEF FileInv, AbsentInv
<1>8. PresentInv(f)'
  BY <1>2, <1>4, <1>5, <1>6 DEF FileInv, PresentInv
<1> QED BY <1>2, <1>7, <1>8 DEF FileInv

\* Accepting an event: what becomes stale is repeated in flight.
LEMMA AcceptConverges ==
  ASSUME TypeOK, GenInv, AcceptEvent, NEW f \in Plain, FileInv(f)
  PROVE  FileInv(f)'
<1> DEFINE e == Head(wire)
<1>1. f \in Files /\ f \in Paths /\ <<"delete", f>> \in Keys /\ <<"change", f>> \in Keys
  BY PlainFile, FileKeys
<1>2. eventQueue \in Seq(Event) /\ wire \in Seq(Event) /\ Flight \in Seq(Event) /\ wire # <<>>
      /\ pending \in Table /\ latestGen \in [Paths -> Nat] /\ nextGen \in Nat
  BY FlightType, GenTypes DEF AcceptEvent
<1>3. e \in Event /\ e.path \in Paths
  BY <1>2, EventFields
<1>4. /\ eventQueue' = Append(eventQueue, e) /\ wire' = Tail(wire)
      /\ latestGen' = [latestGen EXCEPT ![e.path] = nextGen + 1]
      /\ pending' = RefreshGeneration(pending, e.path, nextGen + 1)
      /\ UNCHANGED <<disk, recent, reserved>> /\ UNCHANGED <<loopVars, dbVars>>
  BY DEF AcceptEvent
<1>5. Flight' = Flight
  BY <1>2, <1>4, FlightAccept DEF Flight
<1>6. \E i \in DOMAIN Flight : Flight[i] = e
  <2>1. Len(eventQueue) + 1 \in DOMAIN Flight /\ Flight[Len(eventQueue) + 1] = e
    BY <1>2 DEF Flight
  <2> QED BY <2>1
<1> HIDE DEF e
<1>7. /\ DeleteReported(f)' = DeleteReported(f) /\ ChangeReported(f)' = ChangeReported(f)
      /\ DeleteRuns(f)' = DeleteRuns(f) /\ ChangeBuffered(f)' = ChangeBuffered(f)
      /\ ChangeRuns(f)' = ChangeRuns(f) /\ StoreHeld(f)' = StoreHeld(f)
      /\ UNCHANGED <<db, disk, content, pc, cur>>
  BY <1>4, <1>5 DEF DeleteReported, ChangeReported, DeleteRuns, ChangeBuffered, ChangeRuns,
                    StoreHeld
<1>8. /\ pending'[<<"delete", f>>] = pending[<<"delete", f>>]
      /\ ChangeQueued(f) => ChangeQueued(f)'
  <2>1. <<"delete", f>> # <<"change", e.path>> /\ nextGen + 1 \in Nat
    BY <1>2
  <2> QED BY <1>1, <1>2, <1>3, <1>4, <2>1, RefreshGenerationType DEF ChangeQueued
<1>9. ChangeAhead(f) => ChangeAhead(f)'
  BY <1>4, <1>7, <1>8 DEF ChangeAhead
<1>10. /\ latestGen'[f] >= latestGen[f] /\ latestGen'[f] \in Nat /\ latestGen[f] \in Nat
       /\ e.path # f => latestGen'[f] = latestGen[f]
       /\ e.path = f => latestGen'[f] # NoGeneration
  <2>1. latestGen[f] <= nextGen
    BY <1>1 DEF GenInv, NumberInv
  <2> QED BY <1>1, <1>2, <1>3, <1>4, <2>1 DEF NoGeneration
<1>11. pending[<<"delete", f>>] # NoMutation =>
         pending[<<"delete", f>>] \in Mutation /\ pending[<<"delete", f>>].path = f
  BY <1>1, <1>2, TableEntry DEF Key
<1>12. DeleteQueued(f)' => DeleteQueued(f)
  <2> DEFINE m == pending[<<"delete", f>>]
  <2> SUFFICES ASSUME DeleteQueued(f)' PROVE DeleteQueued(f)
    OBVIOUS
  <2>1. m # NoMutation /\ ~ IsStale(latestGen', m)
    BY <1>8 DEF DeleteQueued
  <2>2. m.path = f /\ m.gen \in Nat
    BY <1>11, <2>1, MutationFields
  <2> HIDE DEF m
  <2>3. ~ IsStale(latestGen, m)
    BY <1>10, <2>1, <2>2 DEF IsStale
  <2> QED BY <2>1, <2>3 DEF DeleteQueued, m
<1>13. e.path # f /\ DeleteQueued(f) => DeleteQueued(f)'
  BY <1>8, <1>10, <1>11 DEF DeleteQueued, IsStale
<1>14. e.path = f /\ disk[f] = 0 => DeleteReported(f)
  <2> SUFFICES ASSUME e.path = f, disk[f] = 0 PROVE DeleteReported(f)
    OBVIOUS
  <2>1. SaysExists(e, f) \/ IsDelete(e, f)
    BY <1>1, <1>3, FileEvent
  <2> QED BY <1>6, <2>1 DEF FileInv, FlightInv, Truthful, DeleteReported
<1>15. FlightInv(f)'
  <2>1. \A i \in DOMAIN eventQueue' : eventQueue'[i] = e \/
          (i \in DOMAIN eventQueue /\ eventQueue'[i] = eventQueue[i])
    BY <1>2, <1>3, <1>4, AppendPlaces
  <2>2. \A i \in DOMAIN eventQueue' : eventQueue'[i].path = f => latestGen'[f] # NoGeneration
    BY <1>10, <2>1 DEF FileInv, FlightInv, NoGeneration
  <2> QED BY <1>4, <1>5, <1>7, <2>2 DEF FileInv, FlightInv
<1>16. AbsentInv(f)'
  BY <1>7, <1>13, <1>14 DEF FileInv, AbsentInv
<1>17. PresentInv(f)'
  BY <1>7, <1>9, <1>12 DEF FileInv, PresentInv
<1> QED BY <1>15, <1>16, <1>17 DEF FileInv


\* Consuming the first event in flight.
LEMMA TakeFlight ==
  ASSUME TypeOK, NEW f \in Plain, FileInv(f), eventQueue # <<>>,
         eventQueue' = Tail(eventQueue), UNCHANGED <<wire, disk, latestGen>>
  PROVE  LET e == Head(eventQueue) IN
         /\ e \in Event
         /\ Truthful(Flight', f, disk'[f] # 0)
         /\ \A i \in DOMAIN eventQueue' :
              eventQueue'[i].path = f => latestGen'[f] # NoGeneration
         /\ DeleteReported(f)' => DeleteReported(f)
         /\ DeleteReported(f) /\ ~ IsDelete(e, f) => DeleteReported(f)'
         /\ IsDelete(e, f) => DeleteReported(f) /\ ~ DeleteReported(f)'
         /\ e.path = f => latestGen[f] # NoGeneration
         /\ ChangeReported(f) /\ recent'[f] = recent[f] /\ (e.path # f \/ e.type = recent[f])
              => ChangeReported(f)'
         /\ IsDelete(e, f) /\ disk[f] # 0 /\ recent'[f] = "deleted" => ChangeReported(f)'
<1> DEFINE e == Head(eventQueue)
<1>1. f \in Files /\ eventQueue \in Seq(Event) /\ wire \in Seq(Event) /\ Flight \in Seq(Event)
  BY PlainFile, FlightType
<1>2. Flight' = Tail(Flight) /\ Flight # <<>> /\ Flight[1] = e /\ 1 \in DOMAIN Flight
  BY <1>1, FlightTake DEF Flight
<1>3. e \in Event /\ e = eventQueue[1] /\ 1 \in DOMAIN eventQueue
  BY <1>1
<1>4. \A i \in DOMAIN eventQueue' : i + 1 \in DOMAIN eventQueue
                                    /\ eventQueue'[i] = eventQueue[i + 1]
  BY <1>1, TailPlaces
<1> HIDE DEF e, Flight
<1>5. /\ \A i \in DOMAIN Flight' : i + 1 \in DOMAIN Flight /\ Flight'[i] = Flight[i + 1]
      /\ \A i \in DOMAIN Flight : i > 1 => i - 1 \in DOMAIN Flight' /\ Flight'[i - 1] = Flight[i]
      /\ DOMAIN Flight \subseteq Nat /\ DOMAIN Flight' \subseteq Nat
      /\ \A i \in DOMAIN Flight : i >= 1
      /\ \A i \in DOMAIN Flight' : i >= 1
  BY <1>1, <1>2, TailPlaces
<1>6. Truthful(Flight', f, disk'[f] # 0)
  <2>1. Truthful(Flight, f, disk[f] # 0) /\ (disk[f] # 0) \in BOOLEAN
    BY DEF FileInv, FlightInv
  <2> QED BY <1>1, <1>2, <2>1, TruthfulTail
<1>7. /\ \A i \in DOMAIN eventQueue' : eventQueue'[i].path = f => latestGen'[f] # NoGeneration
      /\ e.path = f => latestGen[f] # NoGeneration
  BY <1>3, <1>4 DEF FileInv, FlightInv
<1>8. DeleteReported(f)' => DeleteReported(f)
  BY <1>5 DEF DeleteReported
<1>9. ASSUME NEW i \in DOMAIN Flight, i # 1
      PROVE  \E j \in DOMAIN Flight' : Flight'[j] = Flight[i]
  BY <1>5, <1>9
<1>10. DeleteReported(f) /\ ~ IsDelete(e, f) => DeleteReported(f)'
  BY <1>2, <1>9 DEF DeleteReported
<1>11. IsDelete(e, f) => DeleteReported(f) /\ ~ DeleteReported(f)'
  <2> SUFFICES ASSUME IsDelete(e, f) PROVE DeleteReported(f) /\ ~ DeleteReported(f)'
    OBVIOUS
  <2>1. \A i \in DOMAIN Flight : IsDelete(Flight[i], f) => i = 1
    BY <1>2 DEF FileInv, FlightInv, Truthful
  <2>2. \A i \in DOMAIN Flight' : ~ IsDelete(Flight'[i], f)
    BY <1>5, <2>1
  <2> QED BY <1>2, <2>2 DEF DeleteReported
<1>12. ChangeReported(f) /\ recent'[f] = recent[f] /\ (e.path # f \/ e.type = recent[f])
         => ChangeReported(f)'
  <2> SUFFICES ASSUME ChangeReported(f), recent'[f] = recent[f],
                      e.path # f \/ e.type = recent[f]
               PROVE  ChangeReported(f)'
    OBVIOUS
  <2>1. PICK i \in DOMAIN Flight : IsChange(Flight[i], f) /\ Flight[i].type # recent[f]
    BY DEF ChangeReported
  <2>2. i # 1
    BY <1>2, <2>1 DEF IsChange
  <2> QED BY <1>9, <2>1, <2>2 DEF ChangeReported
<1>13. IsDelete(e, f) /\ disk[f] # 0 /\ recent'[f] = "deleted" => ChangeReported(f)'
  <2> SUFFICES ASSUME IsDelete(e, f), disk[f] # 0, recent'[f] = "deleted"
               PROVE  ChangeReported(f)'
    OBVIOUS
  <2>1. PICK j \in DOMAIN Flight : j > 1 /\ IsChange(Flight[j], f)
    BY <1>2 DEF FileInv, FlightInv, Truthful
  <2>2. j # 1 /\ Flight[j] \in Event
    BY <1>1, <1>5, <2>1
  <2>3. Flight[j].type # "deleted"
    BY <1>1, <2>1, <2>2, FileEvent
  <2> QED BY <1>9, <2>1, <2>2, <2>3 DEF ChangeReported
<1> QED BY <1>3, <1>6, <1>7, <1>8, <1>10, <1>11, <1>12, <1>13 DEF e

\* A duplicate is dropped: it is neither a deletion nor a change that counts.
LEMMA SuppressConverges ==
  ASSUME TypeOK, SuppressDuplicate, NEW f \in Plain, FileInv(f)
  PROVE  FileInv(f)'
<1> DEFINE e == Head(eventQueue)
<1>1. /\ eventQueue # <<>> /\ eventQueue' = Tail(eventQueue) /\ recent[e.path] = e.type
      /\ UNCHANGED <<wire, disk, latestGen, recent, pending, reserved>>
      /\ UNCHANGED <<loopVars, dbVars>>
  BY DEF SuppressDuplicate, TakeEvent, IsDuplicate
<1>2. /\ Truthful(Flight', f, disk'[f] # 0)
      /\ \A i \in DOMAIN eventQueue' : eventQueue'[i].path = f => latestGen'[f] # NoGeneration
      /\ DeleteReported(f)' => DeleteReported(f)
      /\ DeleteReported(f) /\ ~ IsDelete(e, f) => DeleteReported(f)'
      /\ IsDelete(e, f) => DeleteReported(f)
      /\ ChangeReported(f) /\ recent'[f] = recent[f] /\ (e.path # f \/ e.type = recent[f])
           => ChangeReported(f)'
  BY <1>1, TakeFlight
<1> HIDE DEF e
<1>3. ~ IsDelete(e, f)
  BY <1>1, <1>2 DEF FileInv, FlightInv, IsDelete
<1>4. ChangeReported(f) => ChangeReported(f)'
  BY <1>1, <1>2
<1>5. /\ DeleteQueued(f)' = DeleteQueued(f) /\ DeleteRuns(f)' = DeleteRuns(f)
      /\ ChangeBuffered(f)' = ChangeBuffered(f) /\ ChangeRuns(f)' = ChangeRuns(f)
      /\ StoreHeld(f)' = StoreHeld(f) /\ UNCHANGED <<db, disk, content, pc, cur>>
  BY <1>1 DEF DeleteQueued, DeleteRuns, ChangeBuffered, ChangeRuns, StoreHeld
<1>6. ChangeAhead(f) => ChangeAhead(f)'
  BY <1>1, <1>4 DEF ChangeAhead, ChangeQueued
<1>7. FlightInv(f)'
  BY <1>1, <1>2 DEF FileInv, FlightInv
<1>8. AbsentInv(f)'
  BY <1>2, <1>3, <1>5 DEF FileInv, AbsentInv
<1>9. PresentInv(f)'
  BY <1>5, <1>6 DEF FileInv, PresentInv
<1> QED BY <1>7, <1>8, <1>9 DEF FileInv

\* add_file leaves a change of the file ahead: pending, or reserved behind the
\* one that is processed.
LEMMA AddChangesAhead ==
  ASSUME TypeOK, OwnershipInv, NEW S \in SUBSET Files, AddChanges(S), NEW f \in Files
  PROVE  /\ ChangeQueued(f) => ChangeQueued(f)'
         /\ reserved[f] # NoGeneration => reserved'[f] # NoGeneration
         /\ f \in S /\ latestGen[f] # NoGeneration =>
              ChangeQueued(f)' \/ reserved'[f] # NoGeneration
         /\ pending'[<<"delete", f>>] = pending[<<"delete", f>>]
<1>1. PICK new \in SUBSET S :
        /\ \A g \in S : \/ pending[<<"change", g>>] # NoMutation
                        \/ g \in active \/ g \in debounce \/ g \in new
        /\ \A g \in new : pending'[<<"change", g>>] = NewChange(g)
        /\ \A k \in Keys : k[1] # "change" => pending'[k] = pending[k]
        /\ \A k \in Keys : pending[k] # NoMutation =>
             pending'[k] # NoMutation /\ pending'[k].id = pending[k].id
  BY AddChangesOwners
<1>2. <<"change", f>> \in Keys /\ <<"delete", f>> \in Keys /\ f \in Paths
  BY FileKeys
<1>3. ChangeQueued(f) => ChangeQueued(f)'
  BY <1>1, <1>2 DEF ChangeQueued
<1>4. pending'[<<"delete", f>>] = pending[<<"delete", f>>]
  <2>1. <<"delete", f>>[1] # "change"
    OBVIOUS
  <2> QED BY <1>1, <1>2, <2>1
<1>5. reserved[f] \in Nat /\ latestGen[f] \in Nat
  BY <1>2, GenTypes
<1>6. reserved'[f] = IF /\ f \in S /\ pending[<<"change", f>>] = NoMutation /\ f \in active
                        /\ latestGen[f] > reserved[f]
                     THEN latestGen[f] ELSE reserved[f]
  BY DEF AddChanges
<1>7. reserved[f] # NoGeneration => reserved'[f] # NoGeneration
  BY <1>5, <1>6 DEF NoGeneration
<1>8. ASSUME f \in S, latestGen[f] # NoGeneration
      PROVE  ChangeQueued(f)' \/ reserved'[f] # NoGeneration
  <2>1. CASE pending[<<"change", f>>] # NoMutation
    BY <1>3, <2>1 DEF ChangeQueued
  <2>2. CASE pending[<<"change", f>>] = NoMutation /\ f \in active
    BY <1>5, <1>6, <1>8, <2>2 DEF NoGeneration
  <2>3. CASE f \in debounce
    <3>1. PICK t \in debounceTasks : t.path = f /\ t.op = "change"
      BY <2>3 DEF OwnershipInv, DebounceInv
    <3>2. Owns(pending, t)
      BY <3>1 DEF OwnershipInv, Sole
    <3> QED BY <1>3, <3>1, <3>2 DEF Owns, Key, ChangeQueued
  <2>4. CASE f \in new
    <3>1. NewChange(f) \in Mutation
      BY BuiltMutations DEF TypeOK
    <3> QED BY <1>1, <2>4, <3>1, MutationFields DEF ChangeQueued
  <2> QED BY <1>1, <1>8, <2>1, <2>2, <2>3, <2>4
<1> QED BY <1>3, <1>4, <1>7, <1>8

\* A consumed change is ahead from then on.
LEMMA ConsumeChangeConverges ==
  ASSUME TypeOK, OwnershipInv, eventQueue # <<>>, ConsumeChange(Head(eventQueue)),
         NEW f \in Plain, FileInv(f)
  PROVE  FileInv(f)'
<1> DEFINE e == Head(eventQueue)
<1>1. /\ eventQueue' = Tail(eventQueue) /\ recent' = [recent EXCEPT ![e.path] = e.type]
      /\ e.type \in {"created", "modified"} /\ AddChanges({e.path})
      /\ UNCHANGED <<wire, disk, latestGen>> /\ UNCHANGED <<loopVars, dbVars>>
  BY DEF ConsumeChange, TakeEvent
<1>2. /\ e \in Event
      /\ Truthful(Flight', f, disk'[f] # 0)
      /\ \A i \in DOMAIN eventQueue' : eventQueue'[i].path = f => latestGen'[f] # NoGeneration
      /\ DeleteReported(f)' => DeleteReported(f)
      /\ DeleteReported(f) /\ ~ IsDelete(e, f) => DeleteReported(f)'
      /\ e.path = f => latestGen[f] # NoGeneration
      /\ ChangeReported(f) /\ recent'[f] = recent[f] /\ (e.path # f \/ e.type = recent[f])
           => ChangeReported(f)'
  BY <1>1, TakeFlight
<1>3. f \in Files /\ f \in Paths /\ e.path \in Files
  BY <1>1, <1>2, PlainFile, EventFields DEF FileEventTypes
<1>4. recent \in [Paths -> EventTypes \cup {NoEvent}]
  BY DEF TypeOK, IntakeType
<1>5. /\ ChangeQueued(f) => ChangeQueued(f)'
      /\ reserved[f] # NoGeneration => reserved'[f] # NoGeneration
      /\ f = e.path /\ latestGen[f] # NoGeneration =>
           ChangeQueued(f)' \/ reserved'[f] # NoGeneration
      /\ pending'[<<"delete", f>>] = pending[<<"delete", f>>]
  BY <1>1, <1>3, AddChangesAhead
<1> HIDE DEF e
<1>6. recent'[f] = IF e.path = f THEN e.type ELSE recent[f]
  BY <1>1, <1>3, <1>4
<1>7. ~ IsDelete(e, f) /\ (recent'[f] = "deleted" => recent[f] = "deleted")
  BY <1>1, <1>6 DEF IsDelete
<1>8. ChangeAhead(f) => ChangeAhead(f)'
  <2>1. CASE e.path = f
    BY <1>2, <1>5, <2>1 DEF ChangeAhead
  <2>2. CASE e.path # f
    BY <1>2, <1>5, <1>6, <2>2 DEF ChangeAhead
  <2> QED BY <2>1, <2>2
<1>9. /\ DeleteQueued(f)' = DeleteQueued(f) /\ DeleteRuns(f)' = DeleteRuns(f)
      /\ ChangeBuffered(f)' = ChangeBuffered(f) /\ ChangeRuns(f)' = ChangeRuns(f)
      /\ StoreHeld(f)' = StoreHeld(f) /\ UNCHANGED <<db, disk, content, pc, cur>>
  BY <1>1, <1>5 DEF DeleteQueued, DeleteRuns, ChangeBuffered, ChangeRuns, StoreHeld
<1>10. FlightInv(f)'
  BY <1>2, <1>7 DEF FileInv, FlightInv
<1>11. AbsentInv(f)'
  BY <1>2, <1>7, <1>9 DEF FileInv, AbsentInv
<1>12. PresentInv(f)'
  BY <1>8, <1>9 DEF FileInv, PresentInv
<1> QED BY <1>10, <1>11, <1>12 DEF FileInv


\* A consumed deletion is queued or stands behind one as new; when the file
\* exists again, the change that says so is still in flight.
LEMMA ConsumeImmediateConverges ==
  ASSUME TypeOK, eventQueue # <<>>, ConsumeImmediate(Head(eventQueue)),
         NEW f \in Plain, FileInv(f)
  PROVE  FileInv(f)'
<1> DEFINE e == Head(eventQueue)
<1>1. /\ eventQueue' = Tail(eventQueue) /\ recent' = [recent EXCEPT ![e.path] = e.type]
      /\ UNCHANGED <<wire, disk, latestGen, reserved>> /\ UNCHANGED <<loopVars, dbVars>>
      /\ e.type \in {"deleted", "dir_created", "dir_deleted"}
  BY DEF ConsumeImmediate, TakeEvent
<1>2. /\ e \in Event
      /\ Truthful(Flight', f, disk'[f] # 0)
      /\ \A i \in DOMAIN eventQueue' : eventQueue'[i].path = f => latestGen'[f] # NoGeneration
      /\ DeleteReported(f)' => DeleteReported(f)
      /\ DeleteReported(f) /\ ~ IsDelete(e, f) => DeleteReported(f)'
      /\ IsDelete(e, f) => ~ DeleteReported(f)'
      /\ e.path = f => latestGen[f] # NoGeneration
      /\ ChangeReported(f) /\ recent'[f] = recent[f] /\ (e.path # f \/ e.type = recent[f])
           => ChangeReported(f)'
      /\ IsDelete(e, f) /\ disk[f] # 0 /\ recent'[f] = "deleted" => ChangeReported(f)'
  BY <1>1, TakeFlight
<1>3. PICK m \in Mutation :
        /\ EnqueueNew(m) /\ m.path = e.path
        /\ e.type = "deleted" => m.op = "delete" /\ m.gen = latestGen[e.path]
        /\ e.type # "deleted" => m.op \in {"dir_delete", "dir_index"}
  BY <1>2, ImmediateFields
<1>4. f \in Files /\ f \in Paths /\ e.path \in Paths
      /\ <<"change", f>> \in Keys /\ <<"delete", f>> \in Keys
  BY <1>2, PlainFile, EventFields, FileKeys
<1>5. recent \in [Paths -> EventTypes \cup {NoEvent}] /\ pending \in Table
      /\ latestGen[f] \in Nat
  BY <1>4, GenTypes DEF TypeOK, IntakeType
<1>6. pending' = Register(pending, m)
  BY <1>3 DEF EnqueueNew
<1>7. (e.path = f <=> IsDelete(e, f)) /\ (IsDelete(e, f) => e.type = "deleted")
  <2>1. e.path = f => e.type \in FileEventTypes
    BY <1>2, <1>4, FileEvent
  <2> QED BY <1>1, <2>1 DEF FileEventTypes, IsDelete
<1> HIDE DEF e
<1>8. recent'[f] = IF e.path = f THEN e.type ELSE recent[f]
  BY <1>1, <1>4, <1>5
<1>9. ChangeQueued(f) => ChangeQueued(f)'
  BY <1>4, <1>5, <1>6, TableKeeps DEF ChangeQueued
<1>10. /\ DeleteRuns(f)' = DeleteRuns(f)
       /\ ChangeBuffered(f)' = ChangeBuffered(f) /\ ChangeRuns(f)' = ChangeRuns(f)
       /\ StoreHeld(f)' = StoreHeld(f) /\ UNCHANGED <<db, disk, content, pc, cur>>
  BY <1>1 DEF DeleteRuns, ChangeBuffered, ChangeRuns, StoreHeld
<1>11. CASE ~ IsDelete(e, f)
  <2>1. Key(m) # <<"delete", f>>
    BY <1>3, <1>7, <1>11 DEF Key
  <2>2. pending'[<<"delete", f>>] = pending[<<"delete", f>>]
    BY <1>4, <1>5, <1>6, <2>1, RegisterType
  <2>3. DeleteQueued(f)' = DeleteQueued(f)
    BY <1>1, <2>2 DEF DeleteQueued
  <2>4. ChangeAhead(f) => ChangeAhead(f)'
    BY <1>1, <1>2, <1>7, <1>8, <1>9, <1>11 DEF ChangeAhead
  <2>5. FlightInv(f)'
    BY <1>2, <1>7, <1>8, <1>11 DEF FileInv, FlightInv
  <2>6. AbsentInv(f)'
    BY <1>2, <1>10, <1>11, <2>3 DEF FileInv, AbsentInv
  <2>7. PresentInv(f)'
    BY <1>10, <2>3, <2>4 DEF FileInv, PresentInv
  <2> QED BY <2>5, <2>6, <2>7 DEF FileInv
<1>12. CASE IsDelete(e, f)
  <2>1. m.op = "delete" /\ m.path = f /\ m.gen = latestGen[f] /\ Key(m) = <<"delete", f>>
        /\ recent'[f] = "deleted" /\ m.gen # NoGeneration
    BY <1>2, <1>3, <1>7, <1>8, <1>12 DEF Key
  <2>2. DeleteQueued(f)'
    <3> DEFINE old == pending[Key(m)]
    <3>1. pending'[<<"delete", f>>] = IF CanRegister(pending, m) THEN m ELSE old
      BY <1>5, <1>6, <2>1, RegisterType
    <3>2. CASE CanRegister(pending, m)
      <4>1. ~ IsStale(latestGen, m)
        BY <1>5, <2>1 DEF IsStale
      <4> QED BY <1>1, <3>1, <3>2, <4>1, MutationFields DEF DeleteQueued
    <3>3. CASE ~ CanRegister(pending, m)
      <4>1. old # NoMutation /\ ~ Supersedes(m, old)
        BY <3>3 DEF CanRegister
      <4>2. old \in Mutation /\ Key(old) = <<"delete", f>>
        BY <1>4, <1>5, <2>1, <4>1, TableEntry
      <4>3. old.gen \in Nat /\ old.op = "delete" /\ old.path = f
        BY <4>2, MutationFields DEF Key
      <4> HIDE DEF old
      <4>4. ~ (m.gen > old.gen)
        BY <2>1, <4>1, <4>3 DEF Supersedes
      <4>5. ~ IsStale(latestGen, old)
        BY <1>5, <2>1, <4>3, <4>4 DEF IsStale
      <4> QED BY <1>1, <3>1, <3>3, <4>1, <4>5 DEF DeleteQueued
    <3> QED BY <3>2, <3>3
  <2>3. disk[f] # 0 => ChangeAhead(f)'
    BY <1>2, <1>12, <2>1 DEF ChangeAhead
  <2>4. FlightInv(f)'
    BY <1>2, <1>12 DEF FileInv, FlightInv
  <2>5. AbsentInv(f)'
    BY <2>2 DEF AbsentInv
  <2>6. PresentInv(f)'
    BY <1>10, <2>3 DEF PresentInv
  <2> QED BY <2>4, <2>5, <2>6 DEF FileInv
<1> QED BY <1>11, <1>12

\* An access leads to nothing; what is in flight behind it still counts.
LEMMA ConsumeAccessConverges ==
  ASSUME TypeOK, eventQueue # <<>>, ConsumeAccess(Head(eventQueue)),
         NEW f \in Plain, FileInv(f)
  PROVE  FileInv(f)'
<1> DEFINE e == Head(eventQueue)
<1>1. /\ eventQueue' = Tail(eventQueue) /\ recent' = [recent EXCEPT ![e.path] = e.type]
      /\ e.type = "accessed"
      /\ UNCHANGED <<wire, disk, latestGen, pending, reserved>>
      /\ UNCHANGED <<loopVars, dbVars>>
  BY DEF ConsumeAccess, TakeEvent, envVars
<1>2. /\ Truthful(Flight', f, disk'[f] # 0)
      /\ \A i \in DOMAIN eventQueue' : eventQueue'[i].path = f => latestGen'[f] # NoGeneration
      /\ DeleteReported(f)' => DeleteReported(f)
      /\ DeleteReported(f) /\ ~ IsDelete(e, f) => DeleteReported(f)'
  BY <1>1, TakeFlight
<1>3. f \in Files /\ f \in Paths /\ recent \in [Paths -> EventTypes \cup {NoEvent}]
  BY PlainFile DEF TypeOK, IntakeType
<1>4. recent'[f] = "accessed" \/ recent'[f] = recent[f]
  BY <1>1, <1>3
<1>5. ChangeReported(f) => ChangeReported(f)'
  <2> SUFFICES ASSUME ChangeReported(f) PROVE ChangeReported(f)'
    OBVIOUS
  <2>1. eventQueue \in Seq(Event) /\ wire \in Seq(Event) /\ Flight \in Seq(Event)
    BY FlightType
  <2>2. Flight' = Tail(Flight) /\ Flight # <<>> /\ Flight[1] = e
    BY <1>1, <2>1, FlightTake DEF Flight
  <2>3. PICK i \in DOMAIN Flight : IsChange(Flight[i], f) /\ Flight[i].type # recent[f]
    BY DEF ChangeReported
  <2>4. i # 1 /\ Flight[i].type # "accessed"
    BY <1>1, <2>2, <2>3 DEF IsChange
  <2> HIDE DEF Flight, e
  <2>5. i > 1
    BY <2>1, <2>2, <2>4, TailPlaces
  <2>6. i - 1 \in DOMAIN Flight' /\ Flight'[i - 1] = Flight[i]
    BY <2>1, <2>2, <2>5, TailPlaces
  <2> QED BY <1>4, <2>3, <2>4, <2>6 DEF ChangeReported
<1>6. ~ IsDelete(e, f)
  BY <1>1 DEF IsDelete
<1> HIDE DEF e
<1>7. /\ DeleteQueued(f)' = DeleteQueued(f) /\ DeleteRuns(f)' = DeleteRuns(f)
      /\ ChangeBuffered(f)' = ChangeBuffered(f) /\ ChangeRuns(f)' = ChangeRuns(f)
      /\ StoreHeld(f)' = StoreHeld(f) /\ UNCHANGED <<db, disk, content, pc, cur>>
  BY <1>1 DEF DeleteQueued, DeleteRuns, ChangeBuffered, ChangeRuns, StoreHeld
<1>8. ChangeAhead(f) => ChangeAhead(f)'
  BY <1>1, <1>5 DEF ChangeAhead, ChangeQueued
<1>9. FlightInv(f)'
  BY <1>2, <1>4 DEF FileInv, FlightInv
<1>10. AbsentInv(f)'
  BY <1>2, <1>6, <1>7 DEF FileInv, AbsentInv
<1>11. PresentInv(f)'
  BY <1>7, <1>8 DEF FileInv, PresentInv
<1> QED BY <1>9, <1>10, <1>11 DEF FileInv

\* Consuming an event.
LEMMA ConsumeConverges ==
  ASSUME TypeOK, OwnershipInv, Consume, NEW f \in Plain, FileInv(f)
  PROVE  FileInv(f)'
  BY SuppressConverges, ConsumeChangeConverges, ConsumeImmediateConverges,
     ConsumeAccessConverges DEF Consume

\* Steps that keep what is in flight, the processing task and the index as
\* they are, and what is pending for the file.
LEMMA FileFrame ==
  ASSUME TypeOK, NEW f \in Plain, FileInv(f), UNCHANGED <<wire, eventQueue, latestGen>>,
         disk'[f] = disk[f], recent'[f] \in {recent[f], NoEvent},
         pending'[<<"delete", f>>] = pending[<<"delete", f>>],
         ChangeQueued(f) \/ reserved[f] # NoGeneration =>
           ChangeQueued(f)' \/ reserved'[f] # NoGeneration
  PROVE  /\ FlightInv(f)'
         /\ DeleteReported(f)' = DeleteReported(f) /\ DeleteQueued(f)' = DeleteQueued(f)
         /\ ChangeAhead(f) => ChangeAhead(f)'
<1>1. f \in Files
  BY PlainFile
<1>2. FlightInv(f)'
  BY <1>1, FlightFrame DEF FileInv
<1>3. DeleteReported(f)' = DeleteReported(f) /\ (ChangeReported(f) => ChangeReported(f)')
  BY <1>1, ReportedFrame
<1>4. DeleteQueued(f)' = DeleteQueued(f)
  BY DEF DeleteQueued
<1>5. ChangeAhead(f) => ChangeAhead(f)'
  BY <1>3 DEF ChangeAhead
<1> QED BY <1>2, <1>3, <1>4, <1>5

\* ... and the rest, when the task and the index are as they were.
LEMMA IdleFrame ==
  ASSUME TypeOK, NEW f \in Plain, FileInv(f), UNCHANGED <<wire, eventQueue, latestGen>>,
         disk' = disk, recent'[f] \in {recent[f], NoEvent},
         UNCHANGED <<pending, reserved>>, UNCHANGED <<loopVars, dbVars>>
  PROVE  FileInv(f)'
<1>1. /\ FlightInv(f)'
      /\ DeleteReported(f)' = DeleteReported(f) /\ DeleteQueued(f)' = DeleteQueued(f)
      /\ ChangeAhead(f) => ChangeAhead(f)'
  BY FileFrame DEF ChangeQueued
<1>2. /\ DeleteRuns(f)' = DeleteRuns(f)
      /\ ChangeBuffered(f)' = ChangeBuffered(f) /\ ChangeRuns(f)' = ChangeRuns(f)
      /\ StoreHeld(f)' = StoreHeld(f) /\ UNCHANGED <<db, disk, content, pc, cur>>
  BY DEF DeleteRuns, ChangeBuffered, ChangeRuns, StoreHeld
<1>3. AbsentInv(f)'
  BY <1>1, <1>2 DEF FileInv, AbsentInv
<1>4. PresentInv(f)'
  BY <1>1, <1>2 DEF FileInv, PresentInv
<1> QED BY <1>1, <1>3, <1>4 DEF FileInv

\* Time passes, and sleeping tasks wake up.
LEMMA SleepersConverge ==
  ASSUME TypeOK, OwnershipInv, NoDeleteRetry,
         Sleepers \/ (\E p \in Paths : DedupExpires(p)) \/ UNCHANGED vars,
         NEW f \in Plain, FileInv(f)
  PROVE  FileInv(f)'
<1>1. CASE UNCHANGED vars
  BY <1>1, IdleFrame DEF vars
<1>2. CASE \E p \in Paths : DedupExpires(p)
  <2>1. PICK p \in Paths : DedupExpires(p)
    BY <1>2
  <2>2. recent'[f] \in {recent[f], NoEvent}
    BY <2>1, PlainFile DEF DedupExpires, TypeOK, IntakeType
  <2> QED BY <2>1, <2>2, IdleFrame DEF DedupExpires
<1>3. ASSUME NEW t \in debounceTasks, DebounceElapses(t)
      PROVE  FileInv(f)'
  <2>1. pending' = pending
    BY <1>3, DebounceHandsOver
  <2> QED BY <1>3, <2>1, IdleFrame DEF DebounceElapses
<1>4. ASSUME NEW t \in retryTasks, RetryElapses(t)
      PROVE  FileInv(f)'
  <2>1. pending' = pending
    BY <1>4 DEF RetryElapses, NoDeleteRetry
  <2> QED BY <1>4, <2>1, IdleFrame DEF RetryElapses
<1> QED BY <1>1, <1>2, <1>3, <1>4 DEF Sleepers


\* A pending delete waits in the first queue.
LEMMA DeleteWaitsFirst ==
  ASSUME TypeOK, OwnershipInv, NoDeleteRetry, PendingIsCarried, NEW f \in Files,
         pending[<<"delete", f>>] # NoMutation
  PROVE  \E i \in DOMAIN fileQueue[0] :
           /\ Key(fileQueue[0][i]) = <<"delete", f>>
           /\ fileQueue[0][i].id = pending[<<"delete", f>>].id
<1>1. PICK m \in Carried : Key(m) = <<"delete", f>> /\ m.id = pending[<<"delete", f>>].id
  BY FileKeys DEF PendingIsCarried
<1>2. m.op = "delete"
  BY <1>1 DEF Key
<1>3. Carried = debounceTasks \cup retryTasks \cup Queued(fileQueue)
  BY CarriedIsCovered
<1>4. m \notin debounceTasks /\ m \notin retryTasks
  BY <1>2 DEF OwnershipInv, DebounceInv, NoDeleteRetry
<1>5. PICK pr \in Priorities : \E i \in DOMAIN fileQueue[pr] : fileQueue[pr][i] = m
  BY <1>1, <1>3, <1>4, QueuedAt
<1>6. pr = 0
  BY <1>2, <1>5 DEF OwnershipInv, ByPriority, MutationPriority
<1> QED BY <1>1, <1>5, <1>6

\* Dispatching a mutation runs no delete and holds no content.
LEMMA DispatchQuiet ==
  ASSUME NEW m, StartMutation(m), NEW f
  PROVE  /\ ~ DeleteRuns(f)' /\ pc' # "store" /\ ~ StoreHeld(f)'
         /\ Dispatched(m)
  BY DEF StartMutation, Begin, DeleteRuns, StoreHeld, Dispatched

\* The buffered mutation is dispatched.
LEMMA StartBufferedConverges ==
  ASSUME TypeOK, StartBuffered, NEW f \in Plain, FileInv(f)
  PROVE  FileInv(f)'
<1>1. /\ pc = "idle" /\ buffered # NoMutation /\ StartMutation(buffered)
      /\ UNCHANGED <<wire, eventQueue, latestGen, disk, recent, pending, reserved, db>>
  BY DEF StartBuffered
<1>2. /\ FlightInv(f)'
      /\ DeleteReported(f)' = DeleteReported(f) /\ DeleteQueued(f)' = DeleteQueued(f)
      /\ ChangeAhead(f) => ChangeAhead(f)'
  BY <1>1, FileFrame DEF ChangeQueued
<1>3. /\ ~ DeleteRuns(f)' /\ pc' # "store" /\ ~ StoreHeld(f)' /\ Dispatched(buffered)
  BY <1>1, DispatchQuiet
<1>4. disk[f] # 0 /\ ChangeBuffered(f) => ChangeRuns(f)'
  BY <1>3 DEF ChangeBuffered, ChangeRuns, Dispatched
<1>5. ~ ChangeRuns(f) /\ ~ DeleteRuns(f)
  BY <1>1 DEF ChangeRuns, DeleteRuns
<1>6. AbsentInv(f)'
  BY <1>1, <1>2, <1>3, <1>5 DEF FileInv, AbsentInv
<1>7. PresentInv(f)'
  BY <1>1, <1>2, <1>3, <1>4, <1>5 DEF FileInv, PresentInv
<1> QED BY <1>2, <1>6, <1>7 DEF FileInv

\* The head of the queue is dispatched: a change is taken only when no delete
\* waits.
LEMMA StartQueuedConverges ==
  ASSUME TypeOK, OwnershipInv, NoDeleteRetry, PendingIsCarried, StartQueued,
         NEW f \in Plain, FileInv(f)
  PROVE  FileInv(f)'
<1>1. /\ pc = "idle" /\ buffered = NoMutation
      /\ UNCHANGED <<wire, eventQueue, latestGen, disk, recent, reserved, db, buffered>>
  BY DEF StartQueued
<1>2. PICK pr \in Priorities :
        /\ IsHead(fileQueue, pr) /\ Head(fileQueue[pr]).op # "delete"
        /\ pending' = Release(pending, Head(fileQueue[pr]))
        /\ StartMutation(ForProcessing(latestGen, Head(fileQueue[pr])))
  BY DEF StartQueued
<1> DEFINE m == Head(fileQueue[pr])
           n == ForProcessing(latestGen, m)
<1>3. /\ pending \in Table /\ fileQueue \in [Priorities -> Seq(Mutation)]
      /\ latestGen \in [Paths -> Nat] /\ fileQueue[pr] # <<>>
  BY <1>2, GenTypes DEF IsHead
<1>4. m \in Mutation /\ 1 \in DOMAIN fileQueue[pr] /\ m = fileQueue[pr][1]
  BY <1>3, DequeueType
<1>5. n \in Mutation /\ n.op = m.op /\ n.path = m.path
  BY <1>3, <1>4, ForProcessingType
<1>6. /\ ~ DeleteRuns(f)' /\ pc' # "store" /\ ~ StoreHeld(f)' /\ Dispatched(n)
  BY <1>2, DispatchQuiet
<1>7. f \in Files /\ <<"delete", f>> \in Keys /\ <<"change", f>> \in Keys
  BY PlainFile, FileKeys
<1>8. m.op = "change" => fileQueue[0] = <<>>
  <2> SUFFICES ASSUME m.op = "change" PROVE fileQueue[0] = <<>>
    OBVIOUS
  <2>1. MutationPriority(m.op) = pr
    BY <1>4 DEF OwnershipInv, ByPriority
  <2>2. pr = 1
    BY <2>1 DEF MutationPriority
  <2> QED BY <1>2, <2>2 DEF IsHead
<1>9. m.op # "delete" /\ pending' = Release(pending, m)
  BY <1>2
<1> HIDE DEF m, n
<1>10. ASSUME NEW k \in Keys, k # Key(m)
       PROVE  pending'[k] = pending[k]
  BY <1>3, <1>9, <1>10 DEF Release, Table
<1>11. pending'[<<"delete", f>>] = pending[<<"delete", f>>]
  <2>1. Key(m) # <<"delete", f>>
    BY <1>9 DEF Key
  <2> QED BY <1>7, <1>10, <2>1
<1>12. ~ ChangeRuns(f) /\ ~ DeleteRuns(f) /\ ~ ChangeBuffered(f)
  BY <1>1 DEF ChangeRuns, DeleteRuns, ChangeBuffered
<1>13. CASE Key(m) # <<"change", f>>
  <2>1. pending'[<<"change", f>>] = pending[<<"change", f>>]
    BY <1>7, <1>10, <1>13
  <2>2. /\ FlightInv(f)'
        /\ DeleteReported(f)' = DeleteReported(f) /\ DeleteQueued(f)' = DeleteQueued(f)
        /\ ChangeAhead(f) => ChangeAhead(f)'
    BY <1>1, <1>11, <2>1, FileFrame DEF ChangeQueued
  <2>3. AbsentInv(f)'
    BY <1>1, <1>6, <1>12, <2>2 DEF FileInv, AbsentInv
  <2>4. PresentInv(f)'
    BY <1>1, <1>6, <1>12, <2>2 DEF FileInv, PresentInv
  <2> QED BY <2>2, <2>3, <2>4 DEF FileInv
<1>14. CASE Key(m) = <<"change", f>>
  <2>1. m.op = "change" /\ m.path = f
    BY <1>14 DEF Key
  <2>2. pending[<<"delete", f>>] = NoMutation
    <3> SUFFICES ASSUME pending[<<"delete", f>>] # NoMutation PROVE FALSE
      OBVIOUS
    <3>1. DOMAIN fileQueue[0] = {}
      BY <1>8, <2>1
    <3> QED BY <1>7, <3>1, DeleteWaitsFirst
  <2>3. ~ DeleteQueued(f) /\ ~ DeleteQueued(f)'
    BY <1>11, <2>2 DEF DeleteQueued
  <2>4. disk[f] # 0 => ChangeRuns(f)'
    BY <1>5, <1>6, <2>1 DEF Dispatched, ChangeRuns
  <2>5. DeleteReported(f)' = DeleteReported(f)
    BY <1>1, <1>7, ReportedFrame
  <2>6. FlightInv(f)'
    BY <1>1, <1>7, FlightFrame DEF FileInv
  <2>7. AbsentInv(f)'
    BY <1>1, <1>6, <1>12, <2>3, <2>5 DEF FileInv, AbsentInv
  <2>8. PresentInv(f)'
    BY <1>1, <1>6, <2>3, <2>4 DEF FileInv, PresentInv
  <2> QED BY <2>6, <2>7, <2>8 DEF FileInv
<1> QED BY <1>13, <1>14


\* What is left of a queue after its first n entries.
LEMMA RestOfRun ==
  ASSUME NEW q \in Seq(Mutation), NEW n \in Nat, n <= Len(q)
  PROVE  /\ SubSeq(q, n + 1, Len(q)) = <<>> => n = Len(q)
         /\ SubSeq(q, n + 1, Len(q)) # <<>> =>
              n < Len(q) /\ Head(SubSeq(q, n + 1, Len(q))) = q[n + 1]
<1>1. Len(q) \in Nat /\ Len(SubSeq(q, n + 1, Len(q))) = Len(q) - n
  OBVIOUS
<1>2. SubSeq(q, n + 1, Len(q)) \in Seq(Mutation)
  OBVIOUS
<1>3. SubSeq(q, n + 1, Len(q)) = <<>> <=> Len(q) - n = 0
  BY <1>1, <1>2, EmptySeq
<1>4. n < Len(q) => SubSeq(q, n + 1, Len(q))[1] = q[n + 1]
  OBVIOUS
<1>5. SubSeq(q, n + 1, Len(q)) # <<>> =>
        Head(SubSeq(q, n + 1, Len(q))) = SubSeq(q, n + 1, Len(q))[1]
  BY <1>2
<1> QED BY <1>1, <1>3, <1>4, <1>5

\* What a delete batch takes from the ownership table: the owners of the run
\* of deletes, and perhaps the mutation after it, which is buffered.  A change
\* is buffered only when the run was all of the first queue.
LEMMA StartDeletesMoves ==
  ASSUME TypeOK, OwnershipInv, GenInv, NoDeleteRetry, PendingIsCarried, StartDeletes,
         NEW f \in Files
  PROVE  /\ DeleteQueued(f) => DeleteQueued(f)' \/ DeleteRuns(f)'
         /\ DeleteQueued(f)' => DeleteQueued(f)
         /\ DeleteRuns(f)' => DeleteQueued(f)
         /\ ChangeQueued(f) => ChangeQueued(f)' \/ (ChangeBuffered(f)' /\ ~ DeleteQueued(f)')
<1> DEFINE run(n) == {fileQueue[0][i] : i \in 1..n}
           rest(n) == [fileQueue EXCEPT ![0] = SubSeq(@, n + 1, Len(@))]
           kd == <<"delete", f>>
           kc == <<"change", f>>
<1>1. /\ pending \in Table /\ fileQueue \in [Priorities -> Seq(Mutation)]
      /\ latestGen \in [Paths -> Nat] /\ 0 \in Priorities
      /\ kd \in Keys /\ kc \in Keys
  <2>1. kd \in Keys /\ kc \in Keys
    BY FileKeys
  <2> QED BY <2>1, GenTypes DEF Priorities
<1>2. PICK n \in 1..DeleteBatchSize :
        /\ n \in Nat /\ n <= Len(fileQueue[0])
        /\ rest(n) \in [Priorities -> Seq(Mutation)] /\ run(n) \in SUBSET Mutation
        /\ \A m \in run(n) : m.op = "delete"
        /\ batch' = {m \in run(n) : Owns(pending, m) /\ ~IsStale(latestGen, m)}
        /\ \/ pending' = ReleaseAll(pending, run(n)) /\ buffered' = NoMutation
           \/ \E pr \in Priorities :
                /\ rest(n)[pr] # <<>>
                /\ \A higher \in 0..(pr - 1) : rest(n)[higher] = <<>>
                /\ Head(rest(n)[pr]) \in Mutation
                /\ pending' = ReleaseAll(pending, run(n) \cup {Head(rest(n)[pr])})
                /\ buffered' = ForProcessing(latestGen, Head(rest(n)[pr]))
  BY StartDeletesTakes
<1>3. UNCHANGED latestGen /\ pc' = IF batch' = {} THEN "idle" ELSE "delete"
  BY DEF StartDeletes
<1>4. DOMAIN fileQueue[0] = 1..Len(fileQueue[0]) /\ Len(fileQueue[0]) \in Nat
  BY <1>1
<1>5. ASSUME NEW m \in run(n), Owns(pending, m)
      PROVE  m = pending[Key(m)] /\ m \in Mutation /\ m.op = "delete"
  <2>1. PICK i \in 1..n : m = fileQueue[0][i]
    OBVIOUS
  <2>2. i \in DOMAIN fileQueue[0] /\ m.op = "delete"
    BY <1>2, <1>4, <2>1
  <2>3. m = pending[Key(m)]
    BY <1>1, <1>5, <2>1, <2>2 DEF GenInv, FitInv, Identified
  <2> QED BY <1>2, <2>2, <2>3
<1>6. \A i \in DOMAIN fileQueue[0] : i <= n => fileQueue[0][i] \in run(n)
  BY <1>2, <1>4
<1>7. ASSUME NEW pr \in Priorities, rest(n)[pr] # <<>>,
             \A higher \in 0..(pr - 1) : rest(n)[higher] = <<>>,
             Head(rest(n)[pr]).op = "change"
      PROVE  Len(fileQueue[0]) = n
  <2>1. ASSUME pr = 0 PROVE FALSE
    <3> DEFINE q == fileQueue[0]
    <3>1. q \in Seq(Mutation) /\ rest(n)[pr] = SubSeq(q, n + 1, Len(q))
      BY <1>1, <2>1
    <3>2. n < Len(q) /\ Head(rest(n)[pr]) = q[n + 1]
      <4>1. SubSeq(q, n + 1, Len(q)) # <<>> /\ n \in Nat /\ n <= Len(q)
        BY <1>2, <1>7, <3>1
      <4> HIDE DEF rest, q
      <4> QED BY <3>1, <4>1, RestOfRun
    <3>3. n + 1 \in DOMAIN q
      BY <1>2, <3>1, <3>2
    <3>4. MutationPriority(q[n + 1].op) = 0
      BY <1>1, <3>3 DEF OwnershipInv, ByPriority
    <3> QED BY <1>7, <3>2, <3>4 DEF MutationPriority
  <2>2. rest(n)[pr] = fileQueue[pr] /\ fileQueue[pr] \in Seq(Mutation) /\ pr # 0
    BY <1>1, <2>1
  <2>3. rest(n)[0] = <<>>
    BY <1>7, <2>2 DEF Priorities
  <2>4. SubSeq(fileQueue[0], n + 1, Len(fileQueue[0])) = <<>> /\ fileQueue[0] \in Seq(Mutation)
    BY <1>1, <2>3
  <2> QED BY <1>2, <2>4, RestOfRun
<1>8. ASSUME NEW pr \in Priorities, Head(rest(n)[pr]) \in Mutation,
             buffered' = ForProcessing(latestGen, Head(rest(n)[pr]))
      PROVE  /\ buffered' # NoMutation /\ buffered'.op = Head(rest(n)[pr]).op
             /\ buffered'.path = Head(rest(n)[pr]).path
             /\ Head(rest(n)[pr]).op # "delete"
  <2>1. /\ buffered' \in Mutation /\ buffered'.op = Head(rest(n)[pr]).op
        /\ buffered'.path = Head(rest(n)[pr]).path
    BY <1>1, <1>8, ForProcessingType
  <2>2. buffered' # NoMutation
    BY <2>1, MutationFields
  <2> QED BY <2>1, <2>2, BufferedIsNoDelete
<1> HIDE DEF run, rest, kd, kc
<1>9. PICK taken \in SUBSET Mutation :
        /\ run(n) \subseteq taken /\ pending' = ReleaseAll(pending, taken)
        /\ \A m \in taken : m.op = "delete" => m \in run(n)
        /\ \A m \in taken : m.op = "change" =>
             /\ buffered' # NoMutation /\ buffered'.op = "change" /\ buffered'.path = m.path
             /\ Len(fileQueue[0]) = n
  <2>1. CASE pending' = ReleaseAll(pending, run(n))
    BY <1>2, <2>1
  <2>2. CASE \E pr \in Priorities :
                /\ rest(n)[pr] # <<>>
                /\ \A higher \in 0..(pr - 1) : rest(n)[higher] = <<>>
                /\ Head(rest(n)[pr]) \in Mutation
                /\ pending' = ReleaseAll(pending, run(n) \cup {Head(rest(n)[pr])})
                /\ buffered' = ForProcessing(latestGen, Head(rest(n)[pr]))
    <3>1. PICK pr \in Priorities :
                /\ rest(n)[pr] # <<>>
                /\ \A higher \in 0..(pr - 1) : rest(n)[higher] = <<>>
                /\ Head(rest(n)[pr]) \in Mutation
                /\ pending' = ReleaseAll(pending, run(n) \cup {Head(rest(n)[pr])})
                /\ buffered' = ForProcessing(latestGen, Head(rest(n)[pr]))
      BY <2>2
    <3> DEFINE h == Head(rest(n)[pr])
    <3>2. h \in Mutation /\ h.op # "delete" /\ buffered' # NoMutation
          /\ buffered'.op = h.op /\ buffered'.path = h.path
      BY <1>8, <3>1
    <3>3. h.op = "change" => Len(fileQueue[0]) = n
      BY <1>7, <3>1
    <3>4. pending' = ReleaseAll(pending, run(n) \cup {h})
      BY <3>1
    <3> HIDE DEF h
    <3> QED BY <1>2, <3>2, <3>3, <3>4
  <2> QED BY <1>2, <2>1, <2>2
<1>10. \A k \in Keys : pending'[k] =
         IF \E m \in taken : Key(m) = k /\ Owns(pending, m) THEN NoMutation ELSE pending[k]
  BY <1>9 DEF ReleaseAll
<1>11. DeleteQueued(f)' => DeleteQueued(f)
  <2>1. pending'[kd] # NoMutation => pending'[kd] = pending[kd]
    BY <1>1, <1>10
  <2> QED BY <1>3, <2>1 DEF DeleteQueued, kd
<1>12. DeleteQueued(f) => DeleteQueued(f)' \/ DeleteRuns(f)'
  <2> SUFFICES ASSUME DeleteQueued(f), pending'[kd] # pending[kd]
               PROVE  DeleteRuns(f)'
    BY <1>3 DEF DeleteQueued, kd
  <2>1. PICK m \in taken : Key(m) = kd /\ Owns(pending, m)
    BY <1>1, <1>10
  <2>2. m.op = "delete" /\ m.path = f
    BY <2>1 DEF Key, kd
  <2>3. m \in run(n)
    BY <1>9, <2>2
  <2>4. m = pending[kd]
    BY <1>5, <2>1, <2>3
  <2>5. m \in batch'
    BY <1>2, <2>1, <2>3, <2>4 DEF DeleteQueued, kd
  <2> QED BY <1>3, <2>2, <2>5 DEF DeleteRuns
<1>13. DeleteRuns(f)' => DeleteQueued(f)
  <2> SUFFICES ASSUME DeleteRuns(f)' PROVE DeleteQueued(f)
    OBVIOUS
  <2>1. PICK m \in batch' : m.path = f
    BY DEF DeleteRuns
  <2>2. m \in run(n) /\ Owns(pending, m) /\ ~ IsStale(latestGen, m)
    BY <1>2, <2>1
  <2>3. m = pending[Key(m)] /\ m \in Mutation /\ m.op = "delete"
    BY <1>5, <2>2
  <2>4. Key(m) = kd
    BY <2>1, <2>3 DEF Key, kd
  <2> QED BY <2>2, <2>3, <2>4, MutationFields DEF DeleteQueued, kd
<1>14. ChangeQueued(f) => ChangeQueued(f)' \/ (ChangeBuffered(f)' /\ ~ DeleteQueued(f)')
  <2> SUFFICES ASSUME ChangeQueued(f), ~ ChangeQueued(f)'
               PROVE  ChangeBuffered(f)' /\ ~ DeleteQueued(f)'
    OBVIOUS
  <2>1. PICK m \in taken : Key(m) = kc
    BY <1>1, <1>10 DEF ChangeQueued, kc
  <2>2. m.op = "change" /\ m.path = f
    BY <2>1 DEF Key, kc
  <2>3. ChangeBuffered(f)' /\ Len(fileQueue[0]) = n
    BY <1>9, <2>2 DEF ChangeBuffered
  <2>4. ASSUME DeleteQueued(f)' PROVE FALSE
    <3>1. pending'[kd] # NoMutation
      BY <2>4 DEF DeleteQueued, kd
    <3>2. pending[kd] # NoMutation
      BY <1>1, <1>10, <3>1
    <3>3. PICK i \in DOMAIN fileQueue[0] :
            Key(fileQueue[0][i]) = kd /\ fileQueue[0][i].id = pending[kd].id
      BY <3>2, DeleteWaitsFirst DEF kd
    <3>4. fileQueue[0][i] \in taken
      BY <1>4, <1>6, <1>9, <2>3
    <3>5. Owns(pending, fileQueue[0][i])
      BY <3>2, <3>3 DEF Owns
    <3> QED BY <1>1, <1>10, <3>1, <3>3, <3>4, <3>5
  <2> QED BY <2>3, <2>4
<1> QED BY <1>11, <1>12, <1>13, <1>14

\* A batch of deletes is started.
LEMMA StartDeletesConverges ==
  ASSUME TypeOK, OwnershipInv, GenInv, NoDeleteRetry, PendingIsCarried, StartDeletes,
         NEW f \in Plain, FileInv(f)
  PROVE  FileInv(f)'
<1>1. /\ pc = "idle" /\ buffered = NoMutation /\ pc' # "store"
      /\ UNCHANGED <<wire, eventQueue, latestGen, disk, recent, reserved, db>>
  BY DEF StartDeletes
<1>2. f \in Files
  BY PlainFile
<1>3. /\ DeleteQueued(f) => DeleteQueued(f)' \/ DeleteRuns(f)'
      /\ DeleteQueued(f)' => DeleteQueued(f)
      /\ DeleteRuns(f)' => DeleteQueued(f)
      /\ ChangeQueued(f) => ChangeQueued(f)' \/ (ChangeBuffered(f)' /\ ~ DeleteQueued(f)')
  BY <1>2, StartDeletesMoves
<1>4. DeleteReported(f)' = DeleteReported(f) /\ (ChangeReported(f) => ChangeReported(f)')
  BY <1>1, <1>2, ReportedFrame
<1>5. FlightInv(f)'
  BY <1>1, <1>2, FlightFrame DEF FileInv
<1>6. ChangeAhead(f) => ChangeAhead(f)' \/ (ChangeBuffered(f)' /\ ~ DeleteQueued(f)')
  BY <1>1, <1>3, <1>4 DEF ChangeAhead
<1>7. ~ StoreHeld(f)' /\ ~ StoreHeld(f) /\ ~ DeleteRuns(f) /\ ~ ChangeRuns(f)
      /\ ~ ChangeBuffered(f)
  BY <1>1 DEF StoreHeld, DeleteRuns, ChangeRuns, ChangeBuffered
<1>8. AbsentInv(f)'
  BY <1>1, <1>3, <1>4, <1>7 DEF FileInv, AbsentInv
<1>9. PresentInv(f)'
  BY <1>1, <1>3, <1>6, <1>7 DEF FileInv, PresentInv
<1> QED BY <1>5, <1>8, <1>9 DEF FileInv


\* A follow-up owns the change of its file and touches nothing else.
LEMMA DrainedOwns ==
  ASSUME TypeOK, NEW f \in Files, NEW table \in Table
  PROVE  /\ \A k \in Keys : k # <<"change", f>> => DrainedTable(table, f)[k] = table[k]
         /\ reserved[f] # NoGeneration => DrainedTable(table, f)[<<"change", f>>] # NoMutation
<1> DEFINE key == <<"change", f>>
<1>1. FollowUp(f) \in Mutation /\ Key(FollowUp(f)) = key /\ reserved[f] \in Nat /\ f \in Paths
      /\ key \in Keys
  BY BuiltMutations, FileKeys, GenTypes DEF TypeOK
<1>2. ASSUME NEW k \in Keys, k # key
      PROVE  DrainedTable(table, f)[k] = table[k]
  <2>1. Register(table, FollowUp(f))[k] = table[k]
    BY <1>1, <1>2, RegisterType
  <2>2. RefreshGeneration(table, f, reserved[f])[k] = table[k]
    BY <1>1, <1>2, RefreshGenerationType
  <2> QED BY <2>1, <2>2 DEF DrainedTable
<1>3. ASSUME reserved[f] # NoGeneration
      PROVE  DrainedTable(table, f)[key] # NoMutation
  <2>1. CASE CanRegister(table, FollowUp(f))
    <3>1. Register(table, FollowUp(f))[key] = FollowUp(f)
      BY <1>1, <2>1, RegisterType
    <3> QED BY <1>1, <1>3, <2>1, <3>1, MutationFields DEF DrainedTable
  <2>2. CASE ~ CanRegister(table, FollowUp(f))
    <3>1. table[key] # NoMutation
      BY <1>1, <2>2 DEF CanRegister
    <3>2. RefreshGeneration(table, f, reserved[f])[key] # NoMutation
      BY <1>1, <3>1, TableKeeps
    <3> QED BY <1>3, <2>2, <3>2 DEF DrainedTable
  <2> QED BY <2>1, <2>2
<1> QED BY <1>2, <1>3

\* The end of a change, finished or to be retried: nothing changes for a
\* pending delete, and a reserved follow-up becomes pending.
LEMMA EndChangeKeeps ==
  ASSUME TypeOK, NEW committed \in BOOLEAN,
         FinishChange(committed) \/ ChangeBusy(committed), NEW f \in Files
  PROVE  /\ pending'[<<"delete", f>>] = pending[<<"delete", f>>]
         /\ ChangeQueued(f) => ChangeQueued(f)'
         /\ reserved[f] # NoGeneration => ChangeQueued(f)' \/ reserved'[f] # NoGeneration
<1> DEFINE g == cur.path
           kd == <<"delete", f>>
           kc == <<"change", f>>
           Reg(t) == \E m \in Mutation : m.op \in {"change", "embed"} /\ t = Register(pending, m)
<1>1. cur \in Mutation /\ cur.op = "change" /\ g \in Files
  BY ChangeRunning DEF FinishChange, ChangeBusy
<1>2. kd \in Keys /\ kc \in Keys /\ pending \in Table /\ reserved \in [Files -> Nat]
  <2>1. kd \in Keys /\ kc \in Keys
    BY FileKeys
  <2> QED BY <2>1, GenTypes
<1>3. ASSUME NEW t \in Table, NEW m \in Mutation, m.op \in {"change", "embed"}
      PROVE  /\ Register(t, m) \in Table /\ Register(t, m)[kd] = t[kd]
             /\ t[kc] # NoMutation => Register(t, m)[kc] # NoMutation
  <2>1. Key(m) # kd
    BY <1>3 DEF Key
  <2> HIDE DEF kd, kc
  <2> QED BY <1>2, <1>3, <2>1, RegisterType, TableKeeps
<1>4. ASSUME NEW t \in Table
      PROVE  /\ DrainedTable(t, g) \in Table /\ DrainedTable(t, g)[kd] = t[kd]
             /\ t[kc] # NoMutation => DrainedTable(t, g)[kc] # NoMutation
             /\ g = f /\ reserved[f] # NoGeneration => DrainedTable(t, g)[kc] # NoMutation
  <2>1. DrainedTable(t, g) \in Table
    BY <1>1, DrainedType, GenTypes DEF TypeOK
  <2>2. kd # <<"change", g>>
    OBVIOUS
  <2>3. DrainedTable(t, g)[kd] = t[kd]
    BY <1>1, <1>2, <2>2, DrainedOwns
  <2>4. t[kc] # NoMutation => DrainedTable(t, g)[kc] # NoMutation
    BY <1>1, <1>2, DrainedKeeps
  <2>5. g = f /\ reserved[f] # NoGeneration => DrainedTable(t, g)[kc] # NoMutation
    BY <1>1, DrainedOwns
  <2> QED BY <2>1, <2>3, <2>4, <2>5
<1>5. g # f => reserved'[f] = reserved[f]
  BY <1>1, <1>2 DEF FinishChange, ChangeBusy, EndChange
<1>6. /\ pending'[kd] = pending[kd]
      /\ pending[kc] # NoMutation => pending'[kc] # NoMutation
      /\ g = f /\ reserved[f] # NoGeneration => pending'[kc] # NoMutation
  <2>1. CASE FinishChange(committed)
    <3> DEFINE embed == FreshMutation(nextId[<<"embed", g>>] + 1, "embed", g, NoGeneration)
               table == Register(pending, embed)
    <3>1. embed \in Mutation /\ embed.op = "embed"
      BY <1>1, EmbedMutation
    <3>2. pending' = DrainedTable(table, g)
      BY <2>1 DEF FinishChange
    <3> HIDE DEF embed, g, kd, kc
    <3>3. /\ table \in Table /\ table[kd] = pending[kd]
          /\ pending[kc] # NoMutation => table[kc] # NoMutation
      BY <1>2, <1>3, <3>1
    <3> HIDE DEF table
    <3> QED BY <1>4, <3>2, <3>3
  <2>2. CASE ChangeBusy(committed)
    <3> DEFINE table == DrainedTable(pending, g)
               retry == RetryOf(cur, DrainedId(g) + 1)
    <3>1. DrainedId(g) + 1 \in Nat
      BY <1>1, BuiltMutations DEF TypeOK
    <3>2. retry \in Mutation /\ retry.op = "change"
      BY <1>1, <3>1, RetryMutationType
    <3>3. pending' \in {table, Register(table, retry)}
      BY <2>2 DEF ChangeBusy
    <3> HIDE DEF retry, g, kd, kc
    <3>4. /\ table \in Table /\ table[kd] = pending[kd]
          /\ pending[kc] # NoMutation => table[kc] # NoMutation
          /\ g = f /\ reserved[f] # NoGeneration => table[kc] # NoMutation
      BY <1>2, <1>4
    <3> HIDE DEF table
    <3>5. /\ Register(table, retry)[kd] = table[kd]
          /\ table[kc] # NoMutation => Register(table, retry)[kc] # NoMutation
      BY <1>3, <3>2, <3>4
    <3> QED BY <3>3, <3>4, <3>5
  <2> QED BY <2>1, <2>2
<1> QED BY <1>5, <1>6 DEF ChangeQueued

\* A step of the processing task on something else.
LEMMA QuietFrame ==
  ASSUME TypeOK, NEW f \in Plain, FileInv(f), UNCHANGED <<wire, eventQueue, latestGen, disk>>,
         recent'[f] \in {recent[f], NoEvent},
         pending'[<<"delete", f>>] = pending[<<"delete", f>>],
         ChangeQueued(f) \/ reserved[f] # NoGeneration =>
           ChangeQueued(f)' \/ reserved'[f] # NoGeneration,
         db'[f] = db[f], UNCHANGED buffered, pc # "delete", ~ ChangeRuns(f),
         pc' \notin {"read", "store", "delete"}
  PROVE  FileInv(f)'
<1>1. /\ FlightInv(f)'
      /\ DeleteReported(f)' = DeleteReported(f) /\ DeleteQueued(f)' = DeleteQueued(f)
      /\ ChangeAhead(f) => ChangeAhead(f)'
  BY FileFrame
<1>2. /\ ~ DeleteRuns(f) /\ ~ DeleteRuns(f)' /\ ~ StoreHeld(f) /\ ~ StoreHeld(f)'
      /\ ChangeBuffered(f)' = ChangeBuffered(f)
  BY DEF DeleteRuns, StoreHeld, ChangeRuns, ChangeBuffered
<1>3. AbsentInv(f)'
  BY <1>1, <1>2 DEF FileInv, AbsentInv
<1>4. PresentInv(f)'
  BY <1>1, <1>2 DEF FileInv, PresentInv
<1> QED BY <1>1, <1>3, <1>4 DEF FileInv


\* A change ends, and its store, if any, is committed: the file is indexed with
\* the newest content, or a change of it is still ahead.
LEMMA EndChangeConverges ==
  ASSUME TypeOK, NEW committed \in BOOLEAN,
         \/ FinishChange(committed) /\ committed
         \/ ChangeBusy(committed) /\ errorCount' = 0,
         NEW f \in Plain, FileInv(f)
  PROVE  FileInv(f)'
<1>1. /\ committed => pc = "store"
      /\ UNCHANGED <<wire, eventQueue, latestGen, disk, buffered>>
      /\ StoreContent(committed)
  BY DEF FinishChange, ChangeBusy, EndChange, GoIdle
<1>2. pc \in {"read", "store"} /\ pc' = "idle" /\ f \in Files /\ f \in Paths /\ cur.path \in Files
  <2>1. pc \in {"read", "store"} /\ pc' = "idle"
    BY DEF FinishChange, ChangeBusy, EndChange, GoIdle
  <2> QED BY <2>1, PlainFile, ChangeRunning
<1>3. recent'[f] \in {recent[f], NoEvent}
  BY <1>2 DEF FinishChange, ChangeBusy, TypeOK, IntakeType
<1>4. db \in [Files -> Nat]
  BY DEF TypeOK, IndexType
<1>5. \/ db'[f] = db[f]
      \/ cur.path = f /\ pc = "store" /\ content # 0 /\ db'[f] = content
  BY <1>1, <1>2, <1>4 DEF StoreContent
<1>6. /\ pending'[<<"delete", f>>] = pending[<<"delete", f>>]
      /\ ChangeQueued(f) => ChangeQueued(f)'
      /\ reserved[f] # NoGeneration => ChangeQueued(f)' \/ reserved'[f] # NoGeneration
  BY <1>2, EndChangeKeeps
<1>7. CASE cur.path # f
  <2>1. ~ ChangeRuns(f) /\ db'[f] = db[f]
    BY <1>5, <1>7 DEF ChangeRuns
  <2> QED BY <1>1, <1>2, <1>3, <1>6, <2>1, QuietFrame
<1>8. CASE cur.path = f
  <2>1. /\ FlightInv(f)'
        /\ DeleteReported(f)' = DeleteReported(f) /\ DeleteQueued(f)' = DeleteQueued(f)
        /\ ChangeAhead(f) => ChangeAhead(f)'
    BY <1>1, <1>3, <1>6, FileFrame
  <2>2. ~ DeleteRuns(f) /\ ~ DeleteRuns(f)' /\ ~ StoreHeld(f)'
        /\ ChangeBuffered(f)' = ChangeBuffered(f)
    BY <1>1, <1>2 DEF DeleteRuns, StoreHeld, ChangeBuffered
  <2>3. db'[f] = db[f] \/ StoreHeld(f)
    BY <1>5, <1>8 DEF StoreHeld
  <2>4. AbsentInv(f)'
    BY <1>1, <2>1, <2>2, <2>3 DEF FileInv, AbsentInv
  <2>5. disk[f] # 0 => db'[f] = disk[f] \/ ChangeAhead(f)'
    <3>1. CASE FinishChange(committed) /\ committed
      <4>1. pc = "store" /\ (content # 0 => db'[f] = content)
        BY <1>2, <1>4, <1>8, <3>1 DEF FinishChange, StoreContent
      <4> QED BY <1>8, <2>1, <4>1 DEF FileInv, PresentInv
    <3>2. CASE ChangeBusy(committed) /\ errorCount' = 0
      <4>1. ChangeQueued(f)'
        BY <1>8, <3>2, BusyRetries DEF ChangeQueued
      <4> QED BY <4>1 DEF ChangeAhead
    <3> QED BY <3>1, <3>2
  <2>6. PresentInv(f)'
    BY <1>1, <1>2, <2>1, <2>2, <2>5 DEF FileInv, PresentInv
  <2> QED BY <2>1, <2>4, <2>6 DEF FileInv
<1> QED BY <1>7, <1>8

\* A parser worker reads what is on disk.
LEMMA ReadConverges ==
  ASSUME TypeOK, ReadFile, NEW f \in Plain, FileInv(f)
  PROVE  FileInv(f)'
<1>1. /\ pc = "read" /\ pc' = "store" /\ content' = disk[cur.path]
      /\ UNCHANGED <<wire, eventQueue, latestGen, disk, recent, pending, reserved, buffered,
                     cur, db>>
  BY DEF ReadFile
<1>2. /\ FlightInv(f)'
      /\ DeleteReported(f)' = DeleteReported(f) /\ DeleteQueued(f)' = DeleteQueued(f)
      /\ ChangeAhead(f) => ChangeAhead(f)'
  BY <1>1, FileFrame DEF ChangeQueued
<1>3. /\ ~ DeleteRuns(f) /\ ~ DeleteRuns(f)' /\ ChangeBuffered(f)' = ChangeBuffered(f)
      /\ ChangeRuns(f)' = ChangeRuns(f)
      /\ StoreHeld(f)' => disk[f] # 0
  BY <1>1 DEF DeleteRuns, ChangeBuffered, ChangeRuns, StoreHeld
<1>4. AbsentInv(f)'
  BY <1>1, <1>2, <1>3 DEF FileInv, AbsentInv
<1>5. PresentInv(f)'
  BY <1>1, <1>2, <1>3 DEF FileInv, PresentInv
<1> QED BY <1>2, <1>4, <1>5 DEF FileInv

\* The deletes of a batch are applied.
LEMMA DeletesConverge ==
  ASSUME TypeOK, DeletesApplied, NEW f \in Plain, FileInv(f)
  PROVE  FileInv(f)'
<1>1. /\ pc = "delete" /\ pc' = "idle"
      /\ UNCHANGED <<wire, eventQueue, latestGen, disk, recent, pending, reserved, buffered>>
  BY DEF DeletesApplied, GoIdle
<1>2. /\ FlightInv(f)'
      /\ DeleteReported(f)' = DeleteReported(f) /\ DeleteQueued(f)' = DeleteQueued(f)
      /\ ChangeAhead(f) => ChangeAhead(f)'
  BY <1>1, FileFrame DEF ChangeQueued
<1>3. /\ ~ DeleteRuns(f)' /\ ChangeBuffered(f)' = ChangeBuffered(f)
      /\ ~ ChangeRuns(f) /\ ~ StoreHeld(f) /\ ~ StoreHeld(f)'
  BY <1>1 DEF DeleteRuns, ChangeBuffered, ChangeRuns, StoreHeld
<1>4. db'[f] = IF DeleteRuns(f) THEN 0 ELSE db[f]
  BY <1>1, PlainFile DEF DeletesApplied, DeleteRuns
<1>5. AbsentInv(f)'
  BY <1>1, <1>2, <1>3, <1>4 DEF FileInv, AbsentInv
<1>6. PresentInv(f)'
  BY <1>1, <1>2, <1>3, <1>4 DEF FileInv, PresentInv
<1> QED BY <1>2, <1>5, <1>6 DEF FileInv

\* An embedding pass, directory work, or a busy database for either.
LEMMA PassesConverge ==
  ASSUME TypeOK, OwnershipInv, NEW f \in Plain, FileInv(f),
         EmbedDone \/ DirCleanup \/ DirList \/ DirQueue \/ (PassBusy /\ pc = "embed")
  PROVE  FileInv(f)'
<1>1. /\ pc \in {"embed", "dir_delete", "dir_index", "dir_queue"}
      /\ pc' \in {"idle", "dir_queue"}
      /\ UNCHANGED <<wire, eventQueue, latestGen, disk, recent, buffered, db>>
  BY DEF EmbedDone, DirCleanup, DirList, DirQueue, PassBusy, GoIdle
<1>2. f \in Files /\ <<"delete", f>> \in Keys /\ <<"change", f>> \in Keys
      /\ \A d \in Dirs : f \notin FilesUnder[d]
  BY PlainFile, FileKeys
<1>3. /\ pending'[<<"delete", f>>] = pending[<<"delete", f>>]
      /\ ChangeQueued(f) \/ reserved[f] # NoGeneration =>
           ChangeQueued(f)' \/ reserved'[f] # NoGeneration
  <2>1. CASE EmbedDone \/ DirList
    BY <2>1 DEF EmbedDone, DirList, ChangeQueued
  <2>2. CASE DirQueue
    <3>1. listed \in SUBSET Files /\ AddChanges(listed)
      BY <2>2 DEF DirQueue, TypeOK, LoopType
    <3> QED BY <1>2, <3>1, AddChangesAhead
  <2>3. CASE DirCleanup
    <3>1. cur \in Mutation /\ cur.op = "dir_delete"
      BY <2>3 DEF DirCleanup, TypeOK, LoopType
    <3>2. f \notin FilesUnder[cur.path] /\ reserved' = reserved
      BY <1>2, <2>3, <3>1, MutationFields DEF DirOperations, DirCleanup
    <3>3. pending'[<<"delete", f>>] = pending[<<"delete", f>>]
      BY <1>2, <2>3, <3>2 DEF DirCleanup
    <3>4. pending'[<<"change", f>>] = pending[<<"change", f>>]
      BY <1>2, <2>3 DEF DirCleanup
    <3> QED BY <3>2, <3>3, <3>4 DEF ChangeQueued
  <2>4. CASE PassBusy /\ pc = "embed"
    <3>1. cur \in Mutation /\ cur.op = "embed" /\ ScheduleRetries({cur}) /\ reserved' = reserved
      BY <2>4 DEF PassBusy, TypeOK, LoopType
    <3>2. {cur} \in SUBSET Mutation
      BY <3>1
    <3>3. Key(cur) # <<"delete", f>> /\ Key(cur) # <<"change", f>>
      BY <3>1 DEF Key
    <3>4. \A k \in Keys : Key(cur) # k => pending'[k] = pending[k]
      BY <3>1, <3>2, RetriesOwned
    <3> QED BY <1>2, <3>1, <3>3, <3>4 DEF ChangeQueued
  <2> QED BY <2>1, <2>2, <2>3, <2>4
<1>4. ~ ChangeRuns(f) /\ pc # "delete" /\ pc' \notin {"read", "store", "delete"}
  BY <1>1 DEF ChangeRuns
<1>5. recent'[f] \in {recent[f], NoEvent} /\ db'[f] = db[f]
  BY <1>1
<1> QED BY <1>1, <1>3, <1>4, <1>5, QuietFrame


\* The processing task's steps when the call succeeds.
LEMMA WorkConverges ==
  ASSUME TypeOK, OwnershipInv, Work, NEW f \in Plain, FileInv(f)
  PROVE  FileInv(f)'
<1>1. CASE ReadFile
  BY <1>1, ReadConverges
<1>2. CASE FinishChange(TRUE)
  BY <1>2, EndChangeConverges
<1>3. CASE DeletesApplied
  BY <1>3, DeletesConverge
<1>4. CASE EmbedDone \/ DirCleanup \/ DirList \/ DirQueue
  BY <1>4, PassesConverge
<1> QED BY <1>1, <1>2, <1>3, <1>4 DEF Work

\* The failures that are left when the database is calm: a change or an
\* embedding pass that meets a busy database, and errors, which are recorded.
LEMMA CalmFailures ==
  ASSUME TypeOK, Calm, Failure
  PROVE  \/ \E committed \in BOOLEAN : ChangeBusy(committed)
         \/ PassBusy /\ pc = "embed"
         \/ errorCount' # 0 /\ UNCHANGED retryTasks
<1>1. errorCount \in Nat
  BY DEF TypeOK, IndexType
<1>2. "busy_delete" \notin FaultKinds /\ "conflict" \notin FaultKinds /\ "rejected" \notin FaultKinds
  BY DEF Calm
<1>3. ~ FinishChange(FALSE) /\ ~ DeletesConflict /\ ~ DeletesBusy
  BY <1>2 DEF FinishChange, DeletesConflict, DeletesBusy, Fault
<1>4. ASSUME NEW committed \in BOOLEAN, ChangeError(committed)
      PROVE  errorCount' # 0 /\ UNCHANGED retryTasks
  BY <1>1, <1>4 DEF ChangeError, workVars
<1>5. DeletesError \/ PassError => errorCount' # 0 /\ UNCHANGED retryTasks
  BY <1>1 DEF DeletesError, PassError, GiveUp, workVars
<1>6. PassBusy => pc = "embed"
  BY <1>2 DEF PassBusy, Fault
<1> QED BY <1>3, <1>4, <1>5, <1>6 DEF Failure

\* The processing task's steps when the call fails.
LEMMA FailureConverges ==
  ASSUME TypeOK, OwnershipInv, Calm, Failure, errorCount' = 0, NEW f \in Plain, FileInv(f)
  PROVE  FileInv(f)'
<1>1. ASSUME NEW committed \in BOOLEAN, ChangeBusy(committed)
      PROVE  FileInv(f)'
  BY <1>1, EndChangeConverges
<1>2. CASE PassBusy /\ pc = "embed"
  BY <1>2, PassesConverge
<1> QED BY <1>1, <1>2, CalmFailures

\* When the database is calm, only changes and embedding passes are retried.
LEMMA CalmRetries ==
  ASSUME TypeOK, Calm, NoDeleteRetry, [Next]_vars
  PROVE  NoDeleteRetry'
<1>1. CASE UNCHANGED vars \/ Edit \/ (\E p \in Paths : DedupExpires(p))
  BY <1>1 DEF vars, Edit, WriteFile, DeleteFile, AccessFile, MoveDirIn, MoveDirOut, EnvUnchanged,
              DedupExpires, workVars, NoDeleteRetry
<1>2. CASE Intake \/ Consume
  BY <1>2 DEF Intake, Consume, AcceptEvent, DropEvent, SuppressDuplicate, ConsumeChange,
              ConsumeImmediate, ConsumeAccess, workVars, NoDeleteRetry
<1>3. CASE Sleepers
  BY <1>3 DEF Sleepers, DebounceElapses, RetryElapses, NoDeleteRetry
<1>4. CASE Start \/ Work
  BY <1>4 DEF Start, StartBuffered, StartQueued, StartDeletes, Work, ReadFile, FinishChange,
              DeletesApplied, EmbedDone, DirCleanup, DirList, DirQueue, workVars, NoDeleteRetry
<1>5. ASSUME NEW committed \in BOOLEAN, ChangeBusy(committed)
      PROVE  NoDeleteRetry'
  <2> DEFINE retry == RetryOf(cur, DrainedId(cur.path) + 1)
  <2>1. cur \in Mutation /\ cur.op = "change" /\ cur.path \in Files
    BY <1>5, ChangeRunning DEF ChangeBusy
  <2>2. DrainedId(cur.path) + 1 \in Nat
    BY <2>1, BuiltMutations DEF TypeOK
  <2>3. retry.op = "change"
    BY <2>1, <2>2, RetryMutationType
  <2>4. retryTasks' \subseteq retryTasks \cup {retry}
    BY <1>5 DEF ChangeBusy
  <2> QED BY <2>3, <2>4 DEF NoDeleteRetry
<1>6. CASE PassBusy /\ pc = "embed"
  <2>1. cur \in Mutation /\ cur.op = "embed" /\ {cur} \in SUBSET Mutation
        /\ ScheduleRetries({cur})
    BY <1>6 DEF PassBusy, TypeOK, LoopType
  <2>2. \A r \in Retries({cur}) : r.op = "embed"
    BY <2>1 DEF Retries, RetryMutation, RetryOf
  <2>3. retryTasks' \subseteq retryTasks \cup Retries({cur})
    BY <2>1 DEF ScheduleRetries, Retries
  <2> QED BY <2>2, <2>3 DEF NoDeleteRetry
<1>7. CASE UNCHANGED retryTasks
  BY <1>7 DEF NoDeleteRetry
<1>8. CASE Failure
  BY <1>5, <1>6, <1>7, <1>8, CalmFailures
<1> QED BY <1>1, <1>2, <1>3, <1>4, <1>8 DEF Next

\* What is lost or given up is never forgotten.
LEMMA DisturbanceStays ==
  ASSUME TypeOK, [Next]_vars, Undisturbed'
  PROVE  Undisturbed /\ ~ DropEvent
<1>1. errorCount = 0
  BY ErrorsCount DEF Undisturbed, TypeOK, IndexType
<1>2. ~ DropEvent
  BY DEF DropEvent, Undisturbed
<1>3. UNCHANGED dropped
  <2>1. CASE UNCHANGED vars \/ Edit \/ (\E p \in Paths : DedupExpires(p))
    BY <2>1 DEF vars, Edit, WriteFile, DeleteFile, AccessFile, MoveDirIn, MoveDirOut, EnvUnchanged,
                DedupExpires, intakeVars
  <2>2. CASE Intake \/ Consume
    BY <1>2, <2>2 DEF Intake, Consume, AcceptEvent, SuppressDuplicate, ConsumeChange,
                      ConsumeImmediate, ConsumeAccess
  <2>3. CASE Sleepers \/ Start
    BY <2>3 DEF Sleepers, DebounceElapses, RetryElapses, Start, StartBuffered, StartQueued,
                StartDeletes, intakeVars
  <2>4. CASE Work
    BY <2>4 DEF Work, ReadFile, FinishChange, DeletesApplied, EmbedDone, DirCleanup, DirList,
                DirQueue, intakeVars
  <2>5. CASE Failure
    BY <2>5 DEF Failure, FinishChange, ChangeBusy, ChangeError, DeletesConflict, DeletesBusy,
                DeletesError, PassBusy, PassError, intakeVars
  <2> QED BY <2>1, <2>2, <2>3, <2>4, <2>5 DEF Next
<1> QED BY <1>1, <1>2, <1>3 DEF Undisturbed

\* Every step keeps a plain file on its way.
LEMMA StepConverges ==
  ASSUME TypeOK, OwnershipInv, GenInv, VersionInv, PendingIsCarried, NoDeleteRetry, Calm,
         [Next]_vars, ConvergeInv
  PROVE  ConvergeInv'
<1> SUFFICES ASSUME Undisturbed', NEW f \in Plain PROVE FileInv(f)'
  BY DEF ConvergeInv, Plain
<1>1. Undisturbed /\ ~ DropEvent /\ FileInv(f) /\ errorCount' = 0
  BY DisturbanceStays DEF ConvergeInv, Undisturbed
<1>2. CASE Edit
  BY <1>1, <1>2, EditConverges
<1>3. CASE Intake
  BY <1>1, <1>3, AcceptConverges DEF Intake
<1>4. CASE Consume
  BY <1>1, <1>4, ConsumeConverges
<1>5. CASE Sleepers \/ (\E p \in Paths : DedupExpires(p)) \/ UNCHANGED vars
  BY <1>1, <1>5, SleepersConverge
<1>6. CASE Start
  BY <1>1, <1>6, StartBufferedConverges, StartQueuedConverges, StartDeletesConverges DEF Start
<1>7. CASE Work
  BY <1>1, <1>7, WorkConverges
<1>8. CASE Failure
  BY <1>1, <1>8, FailureConverges
<1> QED BY <1>2, <1>3, <1>4, <1>5, <1>6, <1>7, <1>8 DEF Next


\* In Init no event is in flight and the index agrees with the disk.
LEMMA InitConverges ==
  ASSUME Init
  PROVE  ConvergeInv
<1> SUFFICES ASSUME NEW f \in Plain PROVE FileInv(f)
  BY DEF ConvergeInv
<1>1. f \in Files /\ <<"delete", f>> \in Keys
  BY PlainFile, FileKeys
<1>2. Flight = <<>> /\ DOMAIN Flight = {}
  BY DEF Init, Flight
<1>3. DOMAIN eventQueue = {}
  BY DEF Init
<1>4. pc = "idle" /\ db[f] = disk[f] /\ pending[<<"delete", f>>] = NoMutation
  BY <1>1 DEF Init, EmptyTable
<1>5. FlightInv(f)
  BY <1>2, <1>3 DEF FlightInv, Truthful, DeleteReported
<1>6. AbsentInv(f)
  BY <1>4 DEF AbsentInv, StoreHeld
<1>7. PresentInv(f)
  BY <1>4 DEF PresentInv, DeleteQueued, DeleteRuns
<1> QED BY <1>5, <1>6, <1>7 DEF FileInv

\* In a calm environment no delete ever waits for a retry.
LEMMA CalmRetriesHold == ASSUME Calm PROVE Spec => []NoDeleteRetry
<1>1. Init => NoDeleteRetry
  BY DEF Init, NoDeleteRetry
<1>2. TypeOK /\ NoDeleteRetry /\ [Next]_vars => NoDeleteRetry'
  BY CalmRetries
<1> QED BY <1>1, <1>2, TypeCorrect, PTL DEF Spec

\* In a calm environment every plain file that is not in step is on its way.
LEMMA ConvergeHolds == ASSUME Calm PROVE Spec => []ConvergeInv
<1>1. Init => ConvergeInv
  BY InitConverges
<1>2. TypeOK /\ OwnershipInv /\ GenInv /\ VersionInv /\ PendingIsCarried /\ NoDeleteRetry
        /\ ConvergeInv /\ [Next]_vars => ConvergeInv'
  BY StepConverges
<1>3. Spec => []NoDeleteRetry
  BY CalmRetriesHold
<1> QED BY <1>1, <1>2, <1>3, TypeCorrect, OwnershipHolds, GenHolds, VersionHolds,
           PendingCarried, PTL DEF Spec

\* The files marked as being processed are the one the task processes.
ActiveInv == \A f \in active : ChangeRuns(f)

\* A file is marked while the task processes it, and no longer.
LEMMA ActiveHolds == Spec => []ActiveInv
<1>1. Init => ActiveInv
  BY DEF Init, ActiveInv
<1>2. TypeOK /\ ActiveInv /\ [Next]_vars => ActiveInv'
  <2> SUFFICES ASSUME TypeOK, ActiveInv, [Next]_vars PROVE ActiveInv'
    OBVIOUS
  <2>1. ASSUME UNCHANGED <<active, pc, cur>>
        PROVE  ActiveInv'
    BY <2>1 DEF ActiveInv, ChangeRuns
  <2>2. ASSUME active = {}, UNCHANGED active
        PROVE  ActiveInv'
    BY <2>2 DEF ActiveInv
  <2>3. ASSUME NEW m, StartMutation(m), active = {}
        PROVE  ActiveInv'
    BY <2>3 DEF StartMutation, Begin, ActiveInv, ChangeRuns
  <2>4. ASSUME pc \in {"read", "store"}, EndChange(cur.path)
        PROVE  ActiveInv'
    BY <2>4 DEF EndChange, ActiveInv, ChangeRuns
  <2>5. pc \notin {"read", "store"} => active = {}
    BY DEF ActiveInv, ChangeRuns
  <2>6. CASE UNCHANGED vars \/ Edit \/ (\E p \in Paths : DedupExpires(p))
    BY <2>1, <2>6 DEF vars, Edit, WriteFile, DeleteFile, AccessFile, MoveDirIn, MoveDirOut, EnvUnchanged,
                      DedupExpires, loopVars
  <2>7. CASE Intake \/ Consume \/ Sleepers
    BY <2>1, <2>7 DEF Intake, Consume, AcceptEvent, DropEvent, SuppressDuplicate, ConsumeChange,
                      ConsumeImmediate, ConsumeAccess, Sleepers, DebounceElapses, RetryElapses, loopVars
  <2>8. CASE StartBuffered \/ StartQueued
    BY <2>3, <2>5, <2>8 DEF StartBuffered, StartQueued
  <2>9. CASE StartDeletes
    BY <2>2, <2>5, <2>9 DEF StartDeletes
  <2>10. CASE ReadFile
    BY <2>10 DEF ReadFile, ActiveInv, ChangeRuns
  <2>11. ASSUME NEW committed \in BOOLEAN,
                FinishChange(committed) \/ ChangeBusy(committed) \/ ChangeError(committed)
         PROVE  ActiveInv'
    BY <2>4, <2>11 DEF FinishChange, ChangeBusy, ChangeError
  <2>12. CASE DeletesApplied \/ EmbedDone \/ DirCleanup \/ DirList \/ DirQueue
    BY <2>2, <2>5, <2>12 DEF DeletesApplied, EmbedDone, DirCleanup, DirList, DirQueue
  <2>13. CASE DeletesConflict \/ DeletesBusy \/ DeletesError \/ PassBusy \/ PassError
    BY <2>2, <2>5, <2>13 DEF DeletesConflict, DeletesBusy, DeletesError, PassBusy, PassError
  <2> QED BY <2>6, <2>7, <2>8, <2>9, <2>10, <2>11, <2>12, <2>13
          DEF Next, Start, Work, Failure
<1> QED BY <1>1, <1>2, TypeCorrect, PTL DEF Spec

\* At rest, undisturbed, the index holds the files that are edited one by one
\* exactly as they are on disk.
PlainInStep == Quiescent /\ Undisturbed => \A f \in Plain : db[f] = disk[f]

\* At rest nothing is on its way, so a file on its way is in step.
LEMMA RestIsInStep ==
  ASSUME TypeOK, PendingIsCarried, ReservedIsDrained, ActiveInv, ConvergeInv
  PROVE  PlainInStep
<1> SUFFICES ASSUME Quiescent, Undisturbed, NEW f \in Plain PROVE db[f] = disk[f]
  BY DEF PlainInStep
<1>1. FileInv(f) /\ f \in Files /\ <<"change", f>> \in Keys /\ <<"delete", f>> \in Keys
  BY PlainFile, FileKeys DEF ConvergeInv
<1>2. pc = "idle" /\ buffered = NoMutation /\ \A k \in Keys : pending[k] = NoMutation
  BY RestIsEmpty
<1>3. DOMAIN Flight = {}
  BY DEF Quiescent, Flight
<1>4. reserved[f] = NoGeneration
  BY <1>1, <1>2 DEF ReservedIsDrained, ActiveInv, ChangeRuns
<1>5. /\ ~ ChangeAhead(f) /\ ~ ChangeBuffered(f) /\ ~ ChangeRuns(f)
      /\ ~ DeleteReported(f) /\ ~ DeleteQueued(f) /\ ~ DeleteRuns(f)
  BY <1>1, <1>2, <1>3, <1>4 DEF ChangeAhead, ChangeReported, ChangeQueued, ChangeBuffered,
     ChangeRuns, DeleteReported, DeleteQueued, DeleteRuns
<1> QED BY <1>1, <1>5 DEF FileInv, AbsentInv, PresentInv

\* However the edits of a file, its events, its debounce, its retries, its
\* follow-ups and its deletions interleave, the pipeline comes to rest with the
\* file indexed as it is on disk, unless an event was dropped or an error
\* recorded: for every set of files and directories, every number of edits, of
\* accesses and of busy or failing database calls, and every queue size, batch
\* size and retry budget, in a calm environment.  watchdog on Linux is not calm
\* when a file is closed after it was unlinked.
THEOREM PlainFilesConverge == ASSUME Calm PROVE Spec => []PlainInStep
<1>1. TypeOK /\ PendingIsCarried /\ ReservedIsDrained /\ ActiveInv /\ ConvergeInv => PlainInStep
  BY RestIsInStep
<1>2. Spec => []ConvergeInv
  BY ConvergeHolds
<1> QED BY <1>1, <1>2, TypeCorrect, PendingCarried, ReservedDrained, ActiveHolds, PTL

\* No directory that is moved as a whole holds a file.
FlatTree == \A d \in Dirs : FilesUnder[d] = {}

\* Where files are only edited one by one, the whole index is in step with the
\* disk when the pipeline rests.
THEOREM IndexConverges == ASSUME Calm, FlatTree PROVE Spec => []QuiescentInStep
<1>1. PlainInStep => QuiescentInStep
  <2>1. Plain = Files
    BY DEF FlatTree, Plain
  <2> QED BY <2>1 DEF PlainInStep, QuiescentInStep
<1>2. Spec => []PlainInStep
  BY PlainFilesConverge
<1> QED BY <1>1, <1>2, PTL

\* ... and every indexed file has its embeddings.
THEOREM IndexIsEmbedded == ASSUME Calm, FlatTree PROVE Spec => []QuiescentEmbedded
<1>1. Spec => []QuiescentInStep
  BY IndexConverges
<1> QED BY <1>1, InStepIsEmbedded, PTL
=============================================================================
