------------------------ MODULE SerialExecutorProofs ------------------------
(***************************************************************************)
(* Proofs about SerialExecutor: the type invariant, the exclusive hand-over *)
(* of the file and the atomic store, for any number of versions, worker    *)
(* threads, failures, cancellations and timeouts.                          *)
(***************************************************************************)
EXTENDS SerialExecutor, SequenceTheorems, TLAPS

\* The flags say what is going on, and a compaction that runs is the head of
\* the queue.
FlagInv ==
  /\ compFlag = "set" <=> comp # "none"
  /\ comp # "none" => queue # <<>> /\ Running.op = "compact"
  /\ rustFlag = "set" <=> scan \in {"publish", "releasing", "close", "running", "finished"}

\* A caller has an operation in the queue exactly while it waits, the one its
\* state names, and only one.
CallerInv ==
  /\ \A i, j \in DOMAIN queue :
       queue[i].by = queue[j].by /\ queue[i].by # "nobody" => i = j
  /\ \A i \in DOMAIN queue :
       queue[i].by # "nobody" => reply[queue[i].by] = "wait"
  /\ \A i \in DOMAIN queue : queue[i].by = "writer" => queue[i].op = wpc
  /\ \A i \in DOMAIN queue :
       queue[i].by = "scan" =>
         \/ scan = "releasing" /\ queue[i].op = "disconnect"
         \/ scan = "attaching" /\ queue[i].op = "connect"
  /\ \A i \in DOMAIN queue :
       queue[i].by \in Threads => queue[i].op \in {"embed", "compact", "connect"}
  /\ reply["writer"] = "wait" => \E i \in DOMAIN queue : queue[i].by = "writer"
  /\ reply["scan"] = "wait" => \E i \in DOMAIN queue : queue[i].by = "scan"
  /\ \A i \in DOMAIN queue : queue[i].op = "insert" => queue[i].ver # NoVersion
  /\ wpc \in StoreOps => wver # NoVersion
  /\ wpc = "idle" => reply["writer"] = "none"
  /\ scan \notin {"releasing", "attaching"} => reply["scan"] = "none"

\* A worker thread has no answer unless it waits for one.
ThreadInv == \A t \in Threads : tpc[t] # "waiting" => reply[t] = "none"

\* Nothing is left to the executor.
Drained == queue = <<>> /\ execConn = "closed"

\* Without an intrusion the disconnect is the last operation before Rust.
ExclusiveInv ==
  intruded = "no" =>
    /\ scan = "releasing" /\ reply["scan"] = "wait" => queue[Len(queue)].by = "scan"
    /\ scan = "releasing" /\ reply["scan"] = "ok" => Drained
    /\ scan = "close" /\ released = "ok" => Drained
    /\ scan = "running" => Drained /\ cmConn = "closed"
    /\ scan = "finished" => Drained
    /\ scan \in {"connect", "opening"} /\ released = "ok" => queue = <<>>

\* What the transaction of a store must look like before an operation runs.
Ready(op) ==
  /\ op # "begin" => tx # "none"
  /\ op \in {"lookup", "record"} => Consistent(work)
  /\ op = "record" /\ wseen = "new" => work.rec = NoVersion
  /\ op \in {"chunks", "delete", "insert", "commit"} => work.rec = wver /\ wver # NoVersion
  /\ op = "delete" => work.chunks = wold
  /\ op = "insert" => work.chunks \subseteq {wver}
  /\ op = "commit" => work.chunks = {wver}

\* The disconnect has succeeded and the connection is not reopened yet.
AfterRelease ==
  \/ scan = "releasing" /\ reply["scan"] = "ok"
  \/ scan = "close" /\ released = "ok"
  \/ scan \in {"running", "finished"}

\* A clean release has closed the connection under the store.
CutOff == tx = "none" /\ scan \in {"releasing", "close", "running", "finished"}

\* Disconnects come from the scan and rollbacks from the writer, nothing of the
\* writer follows a disconnect, and the writer's job carries what it stores.
JobInv ==
  /\ \A i \in DOMAIN queue : queue[i].op = "disconnect" => queue[i].by = "scan"
  /\ \A i \in DOMAIN queue : queue[i].op = "rollback" => queue[i].by = "writer"
  /\ \A i, j \in DOMAIN queue :
       queue[i].op = "disconnect" /\ i < j => queue[j].by # "writer"
  /\ \A i \in DOMAIN queue :
       queue[i].by = "writer" /\ queue[i].op \in {"record", "insert"} => queue[i].ver = wver
  /\ \A i \in DOMAIN queue :
       queue[i].by = "writer" /\ queue[i].op = "delete" => queue[i].gone = wold \ {wver}

\* An operation of a cancelled store that is running is inside its
\* transaction, with the rollback behind it.
OrphanInv ==
  \A i \in DOMAIN queue :
    queue[i].op \in StoreOps /\ queue[i].by = "nobody" =>
      /\ i = 1
      /\ wpc = "rollback" /\ reply["writer"] = "wait"
      /\ queue[i].op # "begin" => tx # "none"
      /\ queue[i].op = "commit" => Consistent(work)

\* A clean release leaves no operation of the writer behind.
ReleaseInv ==
  /\ released = "ok"
  /\ AfterRelease => reply["writer"] # "wait"

\* A store's operation finds the transaction it needs, now or after the next
\* answer, unless the connection has been closed under it.
ReadyInv ==
  /\ wpc \in StoreOps /\ reply["writer"] = "wait" => Ready(wpc)
  /\ wpc \in StoreOps \ {"commit"} /\ reply["writer"] = "ok" => CutOff \/ Ready(NextOp)

\* Until a release fails, a store runs inside its transaction from the first
\* operation to the last, or is refused before its next one.
StoreInv ==
  releaseFailed = "no" =>
    Consistent(disk) /\ JobInv /\ OrphanInv /\ ReleaseInv /\ ReadyInv

HandoverInv == TypeOK /\ FlagInv /\ CallerInv /\ ThreadInv /\ ExclusiveInv

-----------------------------------------------------------------------------
(* The queue.                                                              *)

\* The executor takes the head of its queue.
LEMMA PopQueue ==
  ASSUME NEW S, NEW q \in Seq(S), q # <<>>
  PROVE  /\ 1 \in DOMAIN q /\ q[1] \in S
         /\ Tail(q) \in Seq(S)
         /\ \A i \in DOMAIN Tail(q) : i + 1 \in DOMAIN q /\ Tail(q)[i] = q[i + 1] /\ i \in Nat /\ i > 0
         /\ \A i \in DOMAIN q : i # 1 => i - 1 \in DOMAIN Tail(q) /\ Tail(q)[i - 1] = q[i]
         /\ Tail(q) # <<>> => Tail(q)[Len(Tail(q))] = q[Len(q)]
         /\ Tail(q) = <<>> <=> Len(q) = 1
<1>1. Len(q) \in Nat /\ Len(q) > 0 /\ DOMAIN q = 1..Len(q)
  OBVIOUS
<1>2. Tail(q) \in Seq(S) /\ Len(Tail(q)) = Len(q) - 1 /\ DOMAIN Tail(q) = 1..(Len(q) - 1)
  BY <1>1
<1>3. \A i \in 1..(Len(q) - 1) : Tail(q)[i] = q[i + 1]
  BY <1>1
<1>4. Tail(q) = <<>> <=> Len(q) = 1
  <2>1. \A t \in Seq(S) : t = <<>> <=> Len(t) = 0
    BY EmptySeq
  <2>. QED
    BY <1>1, <1>2, <2>1
<1>5. \A i \in DOMAIN q : i # 1 => i - 1 \in DOMAIN Tail(q) /\ Tail(q)[i - 1] = q[i]
  BY <1>1, <1>2, <1>3
<1>6. Tail(q) # <<>> => Tail(q)[Len(Tail(q))] = q[Len(q)]
  BY <1>1, <1>2, <1>3, <1>4
<1>. QED
  BY <1>1, <1>2, <1>3, <1>4, <1>5, <1>6

\* A job is appended.
LEMMA PushQueue ==
  ASSUME NEW S, NEW q \in Seq(S), NEW e \in S
  PROVE  /\ Append(q, e) \in Seq(S) /\ Append(q, e) # <<>>
         /\ \A i \in DOMAIN Append(q, e) :
              \/ i \in DOMAIN q /\ Append(q, e)[i] = q[i] /\ i # Len(q) + 1
              \/ i = Len(q) + 1 /\ Append(q, e)[i] = e
         /\ \A i \in DOMAIN q : i \in DOMAIN Append(q, e) /\ Append(q, e)[i] = q[i]
         /\ Len(q) + 1 \in DOMAIN Append(q, e) /\ Append(q, e)[Len(q) + 1] = e
         /\ Append(q, e)[Len(Append(q, e))] = e
         /\ \A i \in DOMAIN q : i < Len(q) + 1
         /\ q # <<>> => Append(q, e)[1] = q[1]
<1>1. Len(q) \in Nat /\ DOMAIN q = 1..Len(q)
  OBVIOUS
<1>2. Append(q, e) \in Seq(S) /\ Len(Append(q, e)) = Len(q) + 1 /\ DOMAIN Append(q, e) = 1..(Len(q) + 1)
  BY <1>1
<1>3. \A i \in 1..Len(q) : Append(q, e)[i] = q[i]
  BY <1>1
<1>4. Append(q, e)[Len(q) + 1] = e
  BY <1>1
<1>5. Append(q, e) # <<>>
  BY <1>1, <1>2
<1>6. q # <<>> => 1 \in 1..Len(q)
  BY <1>1
<1>. QED
  BY <1>1, <1>2, <1>3, <1>4, <1>5, <1>6

\* Jobs are relabelled in place.
LEMMA RelabelQueue ==
  ASSUME NEW S, NEW q \in Seq(S), NEW r,
         r = [i \in DOMAIN q |-> r[i]],
         \A i \in DOMAIN q : r[i] \in S
  PROVE  /\ r \in Seq(S) /\ DOMAIN r = DOMAIN q /\ Len(r) = Len(q)
         /\ r = <<>> <=> q = <<>>
  OBVIOUS

\* The jobs of a caller that has stopped waiting.
LEMMA AbandonedQueue ==
  ASSUME queue \in Seq(Entry), NEW c
  PROVE  /\ Abandoned(c) \in Seq(Entry)
         /\ DOMAIN Abandoned(c) = DOMAIN queue /\ Len(Abandoned(c)) = Len(queue)
         /\ Abandoned(c) = <<>> <=> queue = <<>>
         /\ \A i \in DOMAIN queue :
              /\ Abandoned(c)[i].op = queue[i].op
              /\ Abandoned(c)[i].ver = queue[i].ver
              /\ Abandoned(c)[i].gone = queue[i].gone
              /\ Abandoned(c)[i].by = IF queue[i].by = c THEN "nobody" ELSE queue[i].by
<1>1. \A i \in DOMAIN queue : queue[i] \in Entry
  OBVIOUS
<1>2. \A i \in DOMAIN queue :
        /\ Abandoned(c)[i] \in Entry
        /\ Abandoned(c)[i].op = queue[i].op
        /\ Abandoned(c)[i].ver = queue[i].ver
        /\ Abandoned(c)[i].gone = queue[i].gone
        /\ Abandoned(c)[i].by = IF queue[i].by = c THEN "nobody" ELSE queue[i].by
  BY <1>1 DEF Abandoned, Entry
<1>3. Abandoned(c) = [i \in DOMAIN queue |-> Abandoned(c)[i]]
  BY DEF Abandoned
<1>. QED
  BY <1>2, <1>3, RelabelQueue

\* The job of a cancelled task is skipped.
LEMMA CancelledQueue ==
  ASSUME queue \in Seq(Entry), NEW c
  PROVE  /\ Cancelled(c) \in Seq(Entry)
         /\ DOMAIN Cancelled(c) = DOMAIN queue /\ Len(Cancelled(c)) = Len(queue)
         /\ Cancelled(c) = <<>> <=> queue = <<>>
         /\ \A i \in DOMAIN queue :
              /\ queue[i].by # c => Cancelled(c)[i] = queue[i]
              /\ queue[i].by = c => Cancelled(c)[i].by = "nobody" /\ Cancelled(c)[i].op = "skip"
<1>1. \A i \in DOMAIN queue : queue[i] \in Entry
  OBVIOUS
<1>2. \A i \in DOMAIN queue :
        /\ Cancelled(c)[i] \in Entry
        /\ queue[i].by # c => Cancelled(c)[i] = queue[i]
        /\ queue[i].by = c => Cancelled(c)[i].by = "nobody" /\ Cancelled(c)[i].op = "skip"
  BY <1>1 DEF Cancelled, Job, Entry, Ops
<1>3. Cancelled(c) = [i \in DOMAIN queue |-> Cancelled(c)[i]]
  BY DEF Cancelled
<1>. QED
  BY <1>2, <1>3, RelabelQueue

-----------------------------------------------------------------------------
(* Types.                                                                  *)

\* The head of the queue answers its caller.
LEMMA AnswerType ==
  ASSUME TypeOK, queue # <<>>, NEW r \in {"ok", "error"}, Answer(r)
  PROVE  /\ queue' \in Seq(Entry)
         /\ reply' \in [Callers -> {"none", "wait", "ok", "error"}]
         /\ Running \in Entry
  BY PopQueue DEF TypeOK, Answer, Running

\* A caller's job enters the queue.
LEMMA SubmitType ==
  ASSUME TypeOK, NEW c \in Callers, NEW op \in Ops, NEW v \in Versions \cup {NoVersion},
         NEW g \in SUBSET Versions, Submit(c, op, v, g)
  PROVE  /\ queue' \in Seq(Entry)
         /\ reply' \in [Callers -> {"none", "wait", "ok", "error"}]
<1>1. Job(c, op, v, g) \in Entry
  BY DEF Job, Entry
<1>. QED
  BY <1>1, PushQueue DEF TypeOK, Submit

\* What a statement sees, and what it may write.
LEMMA VisibleType ==
  ASSUME TypeOK
  PROVE  /\ Visible \in Rows
         /\ Visible.rec \in Versions \cup {NoVersion} /\ Visible.chunks \subseteq Versions
         /\ NoRows \in Rows
         /\ \A v \in Versions \cup {NoVersion} : [Visible EXCEPT !.rec = v] \in Rows
         /\ \A g : [Visible EXCEPT !.chunks = @ \ g] \in Rows
         /\ \A v \in Versions : [Visible EXCEPT !.chunks = @ \cup {v}] \in Rows
<1>1. Visible \in Rows
  BY DEF TypeOK, Visible
<1>2. Visible.rec \in Versions \cup {NoVersion} /\ Visible.chunks \subseteq Versions
  BY <1>1 DEF Rows
<1>3. NoRows \in Rows
  BY DEF NoRows, Rows
<1>4. \A v \in Versions \cup {NoVersion} : [Visible EXCEPT !.rec = v] \in Rows
  BY <1>1 DEF Rows
<1>5. ASSUME NEW g PROVE [Visible EXCEPT !.chunks = @ \ g] \in Rows
  BY <1>1, <1>2 DEF Rows
<1>6. ASSUME NEW v \in Versions PROVE [Visible EXCEPT !.chunks = @ \cup {v}] \in Rows
  BY <1>1, <1>2 DEF Rows
<1>. QED
  BY <1>1, <1>2, <1>3, <1>4, <1>5, <1>6

LEMMA ChangeType ==
  ASSUME TypeOK, NEW rows \in Rows, Change(rows)
  PROVE  /\ disk' \in Rows /\ work' \in Rows
         /\ tx' \in {"none", "clean", "dirty"}
         /\ tx' = "none" <=> tx = "none"
  BY DEF TypeOK, Change

LEMMA ExecutorType ==
  ASSUME TypeOK, FlagInv, CallerInv, Executor PROVE TypeOK'
<1>. USE DEF TypeOK, conns, flags, db, writer, scanner, workers, history, bounds
<1>1. CASE ExecSkip
  <2>1. Answer("ok") /\ queue # <<>>
    BY <1>1 DEF ExecSkip, Turn
  <2>. QED
    BY <1>1, <2>1, AnswerType DEF ExecSkip
<1>2. CASE ExecBegin
  <2>1. queue # <<>> /\ (Answer("ok") \/ Answer("error"))
    BY <1>2 DEF ExecBegin, Turn
  <2>. QED
    BY <1>2, <2>1, AnswerType DEF ExecBegin, Attached
<1>3. CASE ExecRead
  <2>1. Answer("ok") /\ queue # <<>>
    BY <1>3 DEF ExecRead, Turn
  <2>. QED
    BY <1>3, <2>1, AnswerType, VisibleType DEF ExecRead, Attached
<1>4. CASE ExecRecord
  <2>1. Answer("ok") /\ queue # <<>>
    BY <1>4 DEF ExecRecord, Turn
  <2>. QED
    BY <1>4, <2>1, AnswerType, VisibleType, ChangeType DEF ExecRecord, Attached, Entry
<1>5. CASE ExecDelete
  <2>1. Answer("ok") /\ queue # <<>>
    BY <1>5 DEF ExecDelete, Turn
  <2>. QED
    <3>1. [Visible EXCEPT !.chunks = @ \ Running.gone] \in Rows
      BY VisibleType
    <3>. QED
      BY <1>5, <2>1, <3>1, AnswerType, ChangeType DEF ExecDelete, Attached
<1>6. CASE ExecInsert
  <2>1. queue # <<>> /\ (Answer("ok") \/ Answer("error"))
    BY <1>6 DEF ExecInsert, Turn
  <2>. QED
    <3>1. Running.ver \in Versions
      BY <1>6, <2>1, PopQueue, AnswerType DEF ExecInsert, Turn, Running, CallerInv, Entry
    <3>2. [Visible EXCEPT !.chunks = @ \cup {Running.ver}] \in Rows
      BY <3>1, VisibleType
    <3>. QED
      BY <1>6, <2>1, <3>2, AnswerType, ChangeType DEF ExecInsert, Attached
<1>7. CASE ExecCommit
  <2>1. queue # <<>> /\ (Answer("ok") \/ Answer("error"))
    BY <1>7 DEF ExecCommit, Turn
  <2>. QED
    BY <1>7, <2>1, AnswerType, ExecutorAssumption DEF ExecCommit, Attached, NoTransaction, NoRows, Rows
<1>8. CASE ExecRollback
  <2>1. Answer("ok") /\ queue # <<>>
    BY <1>8 DEF ExecRollback, Turn
  <2>. QED
    BY <1>8, <2>1, AnswerType DEF ExecRollback, Attached, NoTransaction, NoRows, Rows
<1>9. CASE ExecRemove
  <2>1. queue # <<>> /\ (Answer("ok") \/ Answer("error"))
    BY <1>9 DEF ExecRemove, Turn
  <2>. QED
    BY <1>9, <2>1, AnswerType DEF ExecRemove, Attached, Change, NoRows, Rows
<1>10. CASE ExecEmbed
  <2>1. Answer("ok") /\ queue # <<>>
    BY <1>10 DEF ExecEmbed, Turn
  <2>. QED
    BY <1>10, <2>1, AnswerType DEF ExecEmbed, Attached
<1>11. CASE ExecConnect
  <2>1. Answer("ok") /\ queue # <<>>
    BY <1>11 DEF ExecConnect, Turn
  <2>. QED
    BY <1>11, <2>1, AnswerType DEF ExecConnect, Attached
<1>12. CASE ExecDisconnect
  <2>1. queue # <<>> /\ (Answer("ok") \/ Answer("error"))
    BY <1>12 DEF ExecDisconnect, Turn
  <2>. QED
    BY <1>12, <2>1, AnswerType DEF ExecDisconnect, NoTransaction, NoRows, Rows
<1>13. CASE ExecFails
  <2>1. Answer("error") /\ queue # <<>>
    BY <1>13 DEF ExecFails
  <2>. QED
    BY <1>13, <2>1, AnswerType DEF ExecFails, Attached
<1>14. CASE CompactSkips
  <2>1. Answer("ok") /\ queue # <<>>
    BY <1>14 DEF CompactSkips, Turn
  <2>. QED
    BY <1>14, <2>1, AnswerType DEF CompactSkips, Attached
<1>15. CASE CompactBegins
  BY <1>15 DEF CompactBegins, NoTransaction, NoRows, Rows
<1>16. CASE CompactReopens
  BY <1>16 DEF CompactReopens
<1>17. CASE CompactEnds
  <2>1. Answer("ok") /\ queue # <<>>
    BY <1>17 DEF CompactEnds, FlagInv
  <2>. QED
    BY <1>17, <2>1, AnswerType DEF CompactEnds
<1>. QED
  BY <1>1, <1>2, <1>3, <1>4, <1>5, <1>6, <1>7, <1>8, <1>9, <1>10, <1>11, <1>12, <1>13,
     <1>14, <1>15, <1>16, <1>17 DEF Executor

LEMMA NextOpType ==
  ASSUME wpc \in StoreOps
  PROVE  NextOp \in StoreOps \ {"begin"}
  BY DEF NextOp, StoreOps

\* A store that is given up.
LEMMA RollBackType ==
  ASSUME TypeOK, NEW jobs \in Seq(Entry), RollBack(jobs)
  PROVE  /\ queue' \in Seq(Entry)
         /\ reply' \in [Callers -> {"none", "wait", "ok", "error"}]
         /\ wpc' \in {"idle", "rollback"}
         /\ wver' = NoVersion /\ wseen' = "new" /\ wold' = {}
<1>1. Job("writer", "rollback", NoVersion, {}) \in Entry
  BY DEF Job, Entry, Callers, Ops
<1>2. Append(jobs, Job("writer", "rollback", NoVersion, {})) \in Seq(Entry)
  BY <1>1, PushQueue
<1>3. \A x \in {"none", "wait"} :
        [reply EXCEPT !["writer"] = x] \in [Callers -> {"none", "wait", "ok", "error"}]
  BY DEF TypeOK, Callers
<1>4. queue' \in Seq(Entry)
  BY <1>2 DEF RollBack
<1>5. reply' \in [Callers -> {"none", "wait", "ok", "error"}]
  BY <1>3 DEF RollBack
<1>. QED
  BY <1>4, <1>5 DEF RollBack, Forget

LEMMA WriterType ==
  ASSUME TypeOK,
         \/ \E v \in Versions : StoreBegins(v)
         \/ WriterSteps \/ StoreIsCancelled \/ RemoveBegins
  PROVE  TypeOK'
<1>. USE DEF TypeOK, conns, flags, db, writer, scanner, workers, history, bounds
<1>0. /\ "writer" \in Callers /\ StoreOps \subseteq Ops
      /\ "begin" \in Ops /\ "remove" \in Ops /\ "compact" \in Ops
      /\ {} \in SUBSET Versions /\ NoVersion \in Versions \cup {NoVersion}
  BY DEF Callers, Ops, StoreOps
<1>1. ASSUME NEW v \in Versions, StoreBegins(v) PROVE TypeOK'
  <2>1. Submit("writer", "begin", NoVersion, {}) /\ "begin" \in Ops
    BY <1>0, <1>1 DEF StoreBegins, StoreOps
  <2>2. queue' \in Seq(Entry) /\ reply' \in [Callers -> {"none", "wait", "ok", "error"}]
    BY <1>0, <2>1, SubmitType
  <2>. QED
    BY <1>1, <2>2 DEF StoreBegins, StoreOps
<1>2. CASE StoreContinues
  <2>. DEFINE v == IF NextOp \in {"record", "insert"} THEN wver ELSE NoVersion
              g == IF NextOp = "delete" THEN wold \ {wver} ELSE {}
  <2>1. NextOp \in StoreOps /\ NextOp \in Ops
    BY <1>0, <1>2, NextOpType DEF StoreContinues
  <2>2. v \in Versions \cup {NoVersion} /\ g \in SUBSET Versions
    OBVIOUS
  <2>3. Submit("writer", NextOp, v, g)
    BY <1>2 DEF StoreContinues
  <2>. HIDE DEF v, g
  <2>4. queue' \in Seq(Entry) /\ reply' \in [Callers -> {"none", "wait", "ok", "error"}]
    BY <1>0, <2>1, <2>2, <2>3, SubmitType
  <2>. QED
    BY <1>2, <2>1, <2>4 DEF StoreContinues
<1>3. CASE StoreEnds
  BY <1>0, <1>3 DEF StoreEnds, Forget
<1>4. CASE StoreFails
  BY <1>4, RollBackType DEF StoreFails
<1>5. CASE StoreIsCancelled
  <2>1. PICK jobs \in Seq(Entry) : RollBack(jobs)
    BY <1>5, AbandonedQueue, CancelledQueue DEF StoreIsCancelled
  <2>. QED
    BY <1>5, <2>1, RollBackType DEF StoreIsCancelled
<1>6. CASE RemoveBegins
  <2>1. Submit("writer", "remove", NoVersion, {})
    BY <1>6 DEF RemoveBegins
  <2>. QED
    BY <1>0, <1>6, <2>1, SubmitType DEF RemoveBegins
<1>7. CASE RemoveEnds
  <2>1. Submit("writer", "compact", NoVersion, {}) => queue' \in Seq(Entry)
          /\ reply' \in [Callers -> {"none", "wait", "ok", "error"}]
    BY <1>0, SubmitType
  <2>2. queue' \in Seq(Entry) /\ reply' \in [Callers -> {"none", "wait", "ok", "error"}]
    BY <1>0, <1>7, <2>1 DEF RemoveEnds
  <2>. QED
    BY <1>7, <2>2 DEF RemoveEnds
<1>. QED
  BY <1>1, <1>2, <1>3, <1>4, <1>5, <1>6, <1>7 DEF WriterSteps

LEMMA ScanType ==
  ASSUME TypeOK, ScanPublishes \/ ScanSteps \/ ScanTimesOut
  PROVE  TypeOK'
<1>. USE DEF TypeOK, conns, flags, db, writer, scanner, workers, history, bounds
<1>0. /\ "scan" \in Callers /\ "connect" \in Ops /\ "disconnect" \in Ops
      /\ {} \in SUBSET Versions /\ NoVersion \in Versions \cup {NoVersion}
  BY DEF Callers, Ops
<1>1. CASE ScanPublishes
  BY <1>1 DEF ScanPublishes, Blocking
<1>2. CASE ScanReleases
  <2>1. Submit("scan", "disconnect", NoVersion, {}) => queue' \in Seq(Entry)
          /\ reply' \in [Callers -> {"none", "wait", "ok", "error"}]
    BY <1>0, SubmitType
  <2>2. queue' \in Seq(Entry) /\ reply' \in [Callers -> {"none", "wait", "ok", "error"}]
    BY <1>2, <2>1 DEF ScanReleases
  <2>. QED
    BY <1>2, <2>2 DEF ScanReleases, Blocking
<1>3. CASE ScanReleased
  BY <1>0, <1>3 DEF ScanReleased, Blocking
<1>4. CASE ScanCloses \/ ScanRaises
  BY <1>4 DEF ScanCloses, ScanRaises, Blocking
<1>5. CASE RustFinishes
  <2>1. \A v \in Versions : [rec |-> v, chunks |-> {v}] \in Rows
    BY DEF Rows
  <2>2. disk' \in Rows
    BY <1>5, <2>1 DEF RustFinishes
  <2>. QED
    BY <1>5, <2>2 DEF RustFinishes
<1>6. CASE ScanTakesBack
  BY <1>6 DEF ScanTakesBack, Blocking
<1>7. CASE ScanConnects
  BY <1>7 DEF ScanConnects, ScanEnds, Blocking
<1>8. CASE ScanOpens
  BY <1>8 DEF ScanOpens, Blocking
<1>9. CASE ScanAttaches
  <2>1. Submit("scan", "connect", NoVersion, {}) => queue' \in Seq(Entry)
          /\ reply' \in [Callers -> {"none", "wait", "ok", "error"}]
    BY <1>0, SubmitType
  <2>2. queue' \in Seq(Entry) /\ reply' \in [Callers -> {"none", "wait", "ok", "error"}]
    BY <1>9, <2>1 DEF ScanAttaches
  <2>. QED
    BY <1>9, <2>2 DEF ScanAttaches, ScanEnds, Blocking
<1>10. CASE ScanAttached
  BY <1>0, <1>10 DEF ScanAttached, ScanEnds
<1>11. CASE ScanTimesOut
  BY <1>0, <1>11, AbandonedQueue DEF ScanTimesOut, ScanEnds, Blocking
<1>. QED
  BY <1>1, <1>2, <1>3, <1>4, <1>5, <1>6, <1>7, <1>8, <1>9, <1>10, <1>11 DEF ScanSteps

LEMMA ThreadType ==
  ASSUME TypeOK, NEW t \in Threads, ThreadSteps(t)
  PROVE  TypeOK'
<1>. USE DEF TypeOK, conns, flags, db, writer, scanner, workers, history, bounds
<1>0. /\ t \in Callers /\ {"embed", "compact", "connect"} \subseteq Ops
      /\ {} \in SUBSET Versions /\ NoVersion \in Versions \cup {NoVersion}
  BY DEF Callers, Ops
<1>1. CASE ThreadChecks(t)
  BY <1>1 DEF ThreadChecks
<1>2. CASE ThreadIsRefused(t)
  BY <1>2 DEF ThreadIsRefused, ThreadEnds
<1>3. CASE ThreadOpens(t)
  BY <1>3 DEF ThreadOpens, Intrudes
<1>4. CASE ThreadSubmits(t)
  <2>1. Submit(t, top[t], NoVersion, {}) /\ top[t] \in Ops
    BY <1>0, <1>4 DEF ThreadSubmits
  <2>2. queue' \in Seq(Entry) /\ reply' \in [Callers -> {"none", "wait", "ok", "error"}]
    BY <1>0, <2>1, SubmitType
  <2>. QED
    BY <1>4, <2>2 DEF ThreadSubmits, Intrudes
<1>5. CASE ThreadReturns(t)
  BY <1>0, <1>5 DEF ThreadReturns, ThreadEnds
<1>6. CASE ThreadTimesOut(t)
  BY <1>0, <1>6, AbandonedQueue DEF ThreadTimesOut, ThreadEnds
<1>. QED
  BY <1>1, <1>2, <1>3, <1>4, <1>5, <1>6 DEF ThreadSteps

-----------------------------------------------------------------------------
(* Flags.                                                                  *)

\* The head of a queue stays when a job is appended.
LEMMA HeadStays ==
  ASSUME TypeOK, NEW e \in Entry, queue # <<>>, queue' = Append(queue, e)
  PROVE  queue' # <<>> /\ Running' = Running
  BY PushQueue DEF TypeOK, Running

LEMMA JobType ==
  ASSUME NEW c \in Callers, NEW op \in Ops, NEW v \in Versions \cup {NoVersion},
         NEW g \in SUBSET Versions
  PROVE  Job(c, op, v, g) \in Entry
  BY DEF Job, Entry

\* Appending a job disturbs no compaction.
LEMMA FlagSubmit ==
  ASSUME TypeOK, FlagInv, NEW e \in Entry, queue' = Append(queue, e), UNCHANGED comp
  PROVE  comp' # "none" => queue' # <<>> /\ (Running.op = "compact")'
  BY HeadStays DEF FlagInv

LEMMA FlagStep ==
  ASSUME TypeOK, TypeOK', FlagInv, CallerInv, Next
  PROVE  FlagInv'
<1>. USE DEF conns, flags, db, writer, scanner, workers, history, bounds
<1>1. CASE Executor
  <2>1. UNCHANGED <<scan, rustFlag>>
    BY <1>1 DEF Executor, ExecSkip, ExecBegin, ExecRead, ExecRecord, ExecDelete, ExecInsert,
       ExecCommit, ExecRollback, ExecRemove, ExecEmbed, ExecConnect, ExecDisconnect, ExecFails,
       CompactSkips, CompactBegins, CompactReopens, CompactEnds
  <2>2. \/ comp = "none" /\ UNCHANGED <<comp, compFlag>>
        \/ CompactBegins \/ CompactReopens \/ CompactEnds
    BY <1>1 DEF Executor, ExecSkip, ExecBegin, ExecRead, ExecRecord, ExecDelete, ExecInsert,
       ExecCommit, ExecRollback, ExecRemove, ExecEmbed, ExecConnect, ExecDisconnect, ExecFails,
       CompactSkips, Turn
  <2>3. CASE comp = "none" /\ UNCHANGED <<comp, compFlag>>
    BY <2>1, <2>3 DEF FlagInv
  <2>4. CASE CompactBegins
    BY <2>1, <2>4 DEF FlagInv, CompactBegins, Turn, Running
  <2>5. CASE CompactReopens
    BY <2>1, <2>5 DEF FlagInv, CompactReopens, Running
  <2>6. CASE CompactEnds
    BY <2>1, <2>6 DEF FlagInv, CompactEnds
  <2>. QED
    BY <2>2, <2>3, <2>4, <2>5, <2>6
<1>2. ASSUME \/ \E v \in Versions : StoreBegins(v)
             \/ WriterSteps \/ StoreIsCancelled \/ RemoveBegins
      PROVE FlagInv'
  <2>1. UNCHANGED <<comp, compFlag, rustFlag, scan>>
    BY <1>2 DEF WriterSteps, StoreBegins, StoreContinues, StoreEnds, StoreFails, RemoveEnds,
       StoreIsCancelled, RemoveBegins
  <2>2. comp # "none" => queue' # <<>> /\ (Running.op = "compact")'
    <3>1. ASSUME NEW v \in Versions, StoreBegins(v) PROVE comp = "none"
      BY <3>1 DEF StoreBegins, Guard, FlagInv, TypeOK
    <3>2. CASE StoreContinues \/ RemoveBegins
      BY <3>2 DEF StoreContinues, RemoveBegins, Guard, FlagInv, TypeOK
    <3>3. CASE StoreEnds
      BY <3>3 DEF StoreEnds, FlagInv, Running
    <3>4. CASE RemoveEnds
      <4>1. comp # "none" => UNCHANGED queue
        BY <3>4 DEF RemoveEnds, Guard, FlagInv, TypeOK
      <4>. QED
        BY <4>1 DEF FlagInv, Running
    <3>5. ASSUME NEW jobs \in Seq(Entry), RollBack(jobs), jobs # <<>>, jobs[1].op = "compact"
          PROVE  queue' # <<>> /\ (Running.op = "compact")'
      <4>1. Job("writer", "rollback", NoVersion, {}) \in Entry
        BY JobType DEF Callers, Ops
      <4>. QED
        BY <3>5, <4>1, PushQueue DEF RollBack, Running
    <3>6. CASE StoreFails
      <4>1. RollBack(queue) /\ queue \in Seq(Entry)
        BY <3>6 DEF StoreFails, TypeOK
      <4>. QED
        BY <4>1, <3>5 DEF FlagInv, Running
    <3>7. CASE StoreIsCancelled
      <4>. SUFFICES ASSUME comp # "none" PROVE queue' # <<>> /\ (Running.op = "compact")'
        OBVIOUS
      <4>1. RollBack(Cancelled("writer"))
        BY <3>7 DEF StoreIsCancelled
      <4>2. queue \in Seq(Entry) /\ queue # <<>> /\ queue[1].op = "compact" /\ 1 \in DOMAIN queue
        BY PopQueue DEF FlagInv, Running, TypeOK
      <4>3. queue[1].by # "writer"
        BY <3>7, <4>2 DEF CallerInv, StoreIsCancelled, StoreOps
      <4>. QED
        BY <4>1, <4>2, <4>3, <3>5, CancelledQueue
    <3>. QED
      BY <1>2, <3>1, <3>2, <3>3, <3>4, <3>6, <3>7 DEF WriterSteps
  <2>. QED
    BY <2>1, <2>2 DEF FlagInv
<1>3. ASSUME ScanPublishes \/ ScanSteps \/ ScanTimesOut PROVE FlagInv'
  <2>1. UNCHANGED <<comp, compFlag>>
    BY <1>3 DEF ScanSteps, ScanPublishes, ScanTimesOut, ScanReleases, ScanReleased, ScanCloses,
       ScanRaises, RustFinishes, ScanTakesBack, ScanConnects, ScanOpens, ScanAttaches, ScanAttached
  <2>2. (rustFlag = "set" <=> scan \in {"publish", "releasing", "close", "running", "finished"})'
    BY <1>3 DEF ScanSteps, ScanPublishes, ScanTimesOut, ScanReleases, ScanReleased, ScanCloses,
       ScanRaises, RustFinishes, ScanTakesBack, ScanConnects, ScanOpens, ScanAttaches, ScanAttached, ScanEnds,
       FlagInv, Submit, TypeOK
  <2>3. \/ UNCHANGED queue
        \/ \E e \in Entry : queue' = Append(queue, e)
        \/ queue' = Abandoned("scan")
    <3>1. /\ Job("scan", "disconnect", NoVersion, {}) \in Entry
          /\ Job("scan", "connect", NoVersion, {}) \in Entry
      BY JobType DEF Callers, Ops
    <3>. QED
      BY <1>3, <3>1 DEF ScanSteps, ScanPublishes, ScanTimesOut, ScanReleases, ScanReleased, ScanCloses,
         ScanRaises, RustFinishes, ScanTakesBack, ScanConnects, ScanOpens, ScanAttaches, ScanAttached, Submit
  <2>4. comp # "none" => queue' # <<>> /\ (Running.op = "compact")'
    <3>1. CASE UNCHANGED queue
      BY <3>1 DEF FlagInv, Running
    <3>2. CASE \E e \in Entry : queue' = Append(queue, e)
      BY <2>1, <3>2, FlagSubmit
    <3>3. CASE queue' = Abandoned("scan")
      BY <3>3, AbandonedQueue, PopQueue DEF FlagInv, Running, TypeOK
    <3>. QED
      BY <2>3, <3>1, <3>2, <3>3
  <2>. QED
    BY <2>1, <2>2, <2>4 DEF FlagInv
<1>4. ASSUME NEW t \in Threads, ThreadSteps(t) PROVE FlagInv'
  <2>1. UNCHANGED <<comp, compFlag, rustFlag, scan>>
    BY <1>4 DEF ThreadSteps, ThreadChecks, ThreadIsRefused, ThreadOpens, ThreadSubmits,
       ThreadReturns, ThreadTimesOut
  <2>2. \/ UNCHANGED queue
        \/ \E e \in Entry : queue' = Append(queue, e)
        \/ queue' = Abandoned(t)
    <3>1. Job(t, top[t], NoVersion, {}) \in Entry
      BY JobType DEF Callers, Ops, TypeOK
    <3>. QED
      BY <1>4, <3>1 DEF ThreadSteps, ThreadChecks, ThreadIsRefused, ThreadOpens, ThreadSubmits,
         ThreadReturns, ThreadTimesOut, Submit
  <2>3. comp # "none" => queue' # <<>> /\ (Running.op = "compact")'
    <3>1. CASE UNCHANGED queue
      BY <3>1 DEF FlagInv, Running
    <3>2. CASE \E e \in Entry : queue' = Append(queue, e)
      BY <2>1, <3>2, FlagSubmit
    <3>3. CASE queue' = Abandoned(t)
      BY <3>3, AbandonedQueue, PopQueue DEF FlagInv, Running, TypeOK
    <3>. QED
      BY <2>2, <3>1, <3>2, <3>3
  <2>. QED
    BY <2>1, <2>3 DEF FlagInv
<1>. QED
  BY <1>1, <1>2, <1>3, <1>4 DEF Next

-----------------------------------------------------------------------------
(* Callers and their jobs.                                                 *)

LEMMA JobOwner ==
  ASSUME TypeOK
  PROVE  \A i \in DOMAIN queue : queue[i].by \in Callers \/ queue[i].by = "nobody"
<1>1. \A i \in DOMAIN queue : queue[i] \in Entry
  BY DEF TypeOK
<1>. QED
  BY <1>1 DEF Entry

LEMMA CallerAnswer ==
  ASSUME TypeOK, CallerInv, queue # <<>>, NEW r \in {"ok", "error"}, Answer(r),
         UNCHANGED <<wpc, wver, scan>>
  PROVE  CallerInv'
<1>1. queue \in Seq(Entry) /\ queue' = Tail(queue) /\ Running = queue[1] /\ 1 \in DOMAIN queue
  BY PopQueue DEF TypeOK, Answer, Running
<1>2. \A i \in DOMAIN queue' : i + 1 \in DOMAIN queue /\ queue'[i] = queue[i + 1] /\ i \in Nat /\ i > 0
  BY <1>1, PopQueue
<1>3. \A i \in DOMAIN queue : i # 1 => i - 1 \in DOMAIN queue' /\ queue'[i - 1] = queue[i]
  BY <1>1, PopQueue
<1>4. \A c \in Callers : c # queue[1].by => reply'[c] = reply[c]
  BY <1>1 DEF Answer, TypeOK
<1>5. \A c \in Callers : c = queue[1].by => reply'[c] = r
  BY <1>1 DEF Answer, TypeOK
<1>6. "writer" \in Callers /\ "scan" \in Callers /\ Threads \subseteq Callers
  BY DEF Callers
<1>7. \A i \in DOMAIN queue : queue[i].by \in Callers \/ queue[i].by = "nobody"
  BY JobOwner
<1>8. \A i, j \in DOMAIN queue' :
        queue'[i].by = queue'[j].by /\ queue'[i].by # "nobody" => i = j
  BY <1>2 DEF CallerInv
<1>9. \A i \in DOMAIN queue' : queue'[i].by # "nobody" => queue'[i].by # queue[1].by
  BY <1>1, <1>2 DEF CallerInv
<1>10. \A i \in DOMAIN queue' : queue'[i].by # "nobody" => reply'[queue'[i].by] = "wait"
  BY <1>2, <1>4, <1>7, <1>9 DEF CallerInv
<1>11. reply'["writer"] = "wait" => \E i \in DOMAIN queue' : queue'[i].by = "writer"
  BY <1>3, <1>4, <1>5, <1>6 DEF CallerInv
<1>12. reply'["scan"] = "wait" => \E i \in DOMAIN queue' : queue'[i].by = "scan"
  BY <1>3, <1>4, <1>5, <1>6 DEF CallerInv
<1>13. /\ \A i \in DOMAIN queue' : queue'[i].by = "writer" => queue'[i].op = wpc'
       /\ \A i \in DOMAIN queue' :
            queue'[i].by = "scan" =>
              \/ scan' = "releasing" /\ queue'[i].op = "disconnect"
              \/ scan' = "attaching" /\ queue'[i].op = "connect"
       /\ \A i \in DOMAIN queue' :
            queue'[i].by \in Threads => queue'[i].op \in {"embed", "compact", "connect"}
       /\ \A i \in DOMAIN queue' : queue'[i].op = "insert" => queue'[i].ver # NoVersion
       /\ wpc' \in StoreOps => wver' # NoVersion
  BY <1>2 DEF CallerInv
<1>14. wpc' = "idle" => reply'["writer"] = "none"
  BY <1>1, <1>4, <1>6 DEF CallerInv
<1>15. scan' \notin {"releasing", "attaching"} => reply'["scan"] = "none"
  BY <1>1, <1>4, <1>6 DEF CallerInv
<1>. QED
  BY <1>8, <1>10, <1>11, <1>12, <1>13, <1>14, <1>15 DEF CallerInv

\* A caller that does not wait submits a job.
LEMMA CallerSubmit ==
  ASSUME TypeOK, CallerInv, NEW c \in Callers, NEW op \in Ops,
         NEW v \in Versions \cup {NoVersion}, NEW g \in SUBSET Versions,
         Submit(c, op, v, g), reply[c] # "wait", ExecutorAssumption,
         c = "writer" => wpc' = op /\ UNCHANGED scan,
         c = "scan" => /\ UNCHANGED wpc
                       /\ \/ scan' = "releasing" /\ op = "disconnect"
                          \/ scan' = "attaching" /\ op = "connect",
         c \in Threads => op \in {"embed", "compact", "connect"} /\ UNCHANGED <<wpc, scan>>,
         op = "insert" => v # NoVersion,
         op # "idle",
         wpc' \in StoreOps => wver' # NoVersion
  PROVE  CallerInv'
<1>1. queue \in Seq(Entry) /\ Job(c, op, v, g) \in Entry /\ queue' = Append(queue, Job(c, op, v, g))
  BY JobType DEF TypeOK, Submit
<1>. DEFINE e == Job(c, op, v, g)
<1>2. e.by = c /\ e.op = op /\ e.ver = v
  BY DEF Job
<1>3. /\ \A i \in DOMAIN queue' :
           \/ i \in DOMAIN queue /\ queue'[i] = queue[i] /\ i # Len(queue) + 1
           \/ i = Len(queue) + 1 /\ queue'[i] = e
      /\ \A i \in DOMAIN queue : i \in DOMAIN queue' /\ queue'[i] = queue[i]
      /\ Len(queue) + 1 \in DOMAIN queue' /\ queue'[Len(queue) + 1] = e
  BY <1>1, PushQueue
<1>. HIDE DEF e
<1>4. \A d \in Callers : d # c => reply'[d] = reply[d]
  BY DEF Submit, TypeOK
<1>5. reply'[c] = "wait"
  BY DEF Submit, TypeOK
<1>6. "writer" \in Callers /\ "scan" \in Callers /\ Threads \subseteq Callers /\ c # "nobody"
  BY ExecutorAssumption DEF Callers, ExecutorAssumption
<1>7. \A i \in DOMAIN queue : queue[i].by \in Callers \/ queue[i].by = "nobody"
  BY JobOwner
<1>8. \A i \in DOMAIN queue : queue[i].by # c
  BY <1>6 DEF CallerInv
<1>9. \A i, j \in DOMAIN queue' :
        queue'[i].by = queue'[j].by /\ queue'[i].by # "nobody" => i = j
  BY <1>2, <1>3, <1>8 DEF CallerInv
<1>10. \A i \in DOMAIN queue' : queue'[i].by # "nobody" => reply'[queue'[i].by] = "wait"
  BY <1>2, <1>3, <1>4, <1>5, <1>7, <1>8 DEF CallerInv
<1>11. reply'["writer"] = "wait" => \E i \in DOMAIN queue' : queue'[i].by = "writer"
  BY <1>2, <1>3, <1>4, <1>6 DEF CallerInv
<1>12. reply'["scan"] = "wait" => \E i \in DOMAIN queue' : queue'[i].by = "scan"
  BY <1>2, <1>3, <1>4, <1>6 DEF CallerInv
<1>13. c \in Threads => c # "writer" /\ c # "scan"
  BY ExecutorAssumption DEF ExecutorAssumption
<1>14. \A i \in DOMAIN queue' : queue'[i].by = "writer" => queue'[i].op = wpc'
  BY <1>2, <1>3, <1>8, <1>13 DEF CallerInv, Callers
<1>15. \A i \in DOMAIN queue' :
         queue'[i].by = "scan" =>
           \/ scan' = "releasing" /\ queue'[i].op = "disconnect"
           \/ scan' = "attaching" /\ queue'[i].op = "connect"
  BY <1>2, <1>3, <1>8, <1>13 DEF CallerInv, Callers
<1>16. \A i \in DOMAIN queue' :
         queue'[i].by \in Threads => queue'[i].op \in {"embed", "compact", "connect"}
  BY <1>2, <1>3 DEF CallerInv
<1>17. \A i \in DOMAIN queue' : queue'[i].op = "insert" => queue'[i].ver # NoVersion
  BY <1>2, <1>3 DEF CallerInv
<1>18. wpc' = "idle" => reply'["writer"] = "none"
  BY <1>4, <1>6, <1>13 DEF CallerInv, Callers
<1>19. scan' \notin {"releasing", "attaching"} => reply'["scan"] = "none"
  BY <1>4, <1>6, <1>13 DEF CallerInv, Callers
<1>. QED
  BY <1>9, <1>10, <1>11, <1>12, <1>14, <1>15, <1>16, <1>17, <1>18, <1>19 DEF CallerInv

\* A caller drops out: it does not wait any more and none of its jobs is left
\* under its name.
LEMMA CallerLeaves ==
  ASSUME TypeOK, CallerInv, ExecutorAssumption, NEW c \in Callers,
         DOMAIN queue' = DOMAIN queue,
         \A i \in DOMAIN queue : queue[i].by # c => queue'[i] = queue[i],
         \A i \in DOMAIN queue :
           queue[i].by = c => queue'[i].by = "nobody"
                              /\ (queue'[i].op = "insert" => queue'[i].ver # NoVersion),
         reply' = [reply EXCEPT ![c] = "none"],
         wpc' = wpc \/ (c = "writer" /\ wpc' = "idle"),
         UNCHANGED scan \/ (c = "scan" /\ scan' \notin {"releasing", "attaching"}),
         wpc' \in StoreOps => UNCHANGED wver
  PROVE  CallerInv'
<1>1. \A d \in Callers : d # c => reply'[d] = reply[d]
  BY DEF TypeOK
<1>2. reply'[c] = "none"
  BY DEF TypeOK
<1>3. "writer" \in Callers /\ "scan" \in Callers /\ Threads \subseteq Callers /\ c # "nobody"
  BY ExecutorAssumption DEF Callers, ExecutorAssumption
<1>4. \A i \in DOMAIN queue : queue[i].by \in Callers \/ queue[i].by = "nobody"
  BY JobOwner
<1>5. \A i \in DOMAIN queue : queue'[i].by # "nobody" => queue'[i] = queue[i] /\ queue[i].by # c
  OBVIOUS
<1>6. \A i, j \in DOMAIN queue' :
        queue'[i].by = queue'[j].by /\ queue'[i].by # "nobody" => i = j
  BY <1>5 DEF CallerInv
<1>7. \A i \in DOMAIN queue' : queue'[i].by # "nobody" => reply'[queue'[i].by] = "wait"
  BY <1>1, <1>4, <1>5 DEF CallerInv
<1>8. reply'["writer"] = "wait" => \E i \in DOMAIN queue' : queue'[i].by = "writer"
  BY <1>1, <1>2, <1>3 DEF CallerInv
<1>9. reply'["scan"] = "wait" => \E i \in DOMAIN queue' : queue'[i].by = "scan"
  BY <1>1, <1>2, <1>3 DEF CallerInv
<1>10. \A i \in DOMAIN queue' : queue'[i].by = "writer" => queue'[i].op = wpc'
  BY <1>5 DEF CallerInv
<1>11. \A i \in DOMAIN queue' :
         queue'[i].by = "scan" =>
           \/ scan' = "releasing" /\ queue'[i].op = "disconnect"
           \/ scan' = "attaching" /\ queue'[i].op = "connect"
  BY <1>5 DEF CallerInv
<1>12. \A i \in DOMAIN queue' :
         queue'[i].by \in Threads => queue'[i].op \in {"embed", "compact", "connect"}
  BY <1>5, ExecutorAssumption DEF CallerInv, ExecutorAssumption
<1>13. \A i \in DOMAIN queue' : queue'[i].op = "insert" => queue'[i].ver # NoVersion
  BY DEF CallerInv
<1>14. wpc' \in StoreOps => wver' # NoVersion
  BY DEF CallerInv, StoreOps
<1>15. wpc' = "idle" => reply'["writer"] = "none"
  BY <1>1, <1>2, <1>3 DEF CallerInv
<1>16. scan' \notin {"releasing", "attaching"} => reply'["scan"] = "none"
  BY <1>1, <1>2, <1>3 DEF CallerInv
<1>. QED
  BY <1>6, <1>7, <1>8, <1>9, <1>10, <1>11, <1>12, <1>13, <1>14, <1>15, <1>16 DEF CallerInv

\* A caller takes note of an answer it has got.
LEMMA CallerReads ==
  ASSUME TypeOK, CallerInv, ExecutorAssumption, NEW c \in Callers, reply[c] # "wait",
         reply' = [reply EXCEPT ![c] = "none"], UNCHANGED queue,
         wpc' = wpc \/ (c = "writer" /\ wpc' = "idle"),
         UNCHANGED scan \/ (c = "scan" /\ scan' \notin {"releasing", "attaching"}),
         wpc' \in StoreOps => UNCHANGED wver
  PROVE  CallerInv'
<1>1. \A i \in DOMAIN queue : queue[i].by # c
  BY ExecutorAssumption DEF CallerInv, ExecutorAssumption, Callers
<1>. QED
  BY <1>1, CallerLeaves

\* A store is given up: the rollback replaces the writer's job.
LEMMA CallerRollBack ==
  ASSUME TypeOK, CallerInv, ExecutorAssumption, wpc \in StoreOps,
         NEW jobs \in Seq(Entry), RollBack(jobs), UNCHANGED scan,
         DOMAIN jobs = DOMAIN queue, Len(jobs) = Len(queue),
         \A i \in DOMAIN queue : queue[i].by # "writer" => jobs[i] = queue[i],
         \A i \in DOMAIN queue :
           queue[i].by = "writer" => jobs[i].by = "nobody"
                                     /\ (jobs[i].op = "insert" => jobs[i].ver # NoVersion)
  PROVE  CallerInv'
<1>1. CASE queue' = jobs /\ wpc' = "idle" /\ reply' = [reply EXCEPT !["writer"] = "none"]
  BY <1>1, CallerLeaves DEF Callers, StoreOps
<1>2. CASE /\ wpc' = "rollback"
           /\ queue' = Append(jobs, Job("writer", "rollback", NoVersion, {}))
           /\ reply' = [reply EXCEPT !["writer"] = "wait"]
  <2>. DEFINE e == Job("writer", "rollback", NoVersion, {})
  <2>1. e \in Entry /\ e.by = "writer" /\ e.op = "rollback"
    BY JobType DEF Callers, Ops, Job
  <2>2. /\ \A i \in DOMAIN queue' :
             \/ i \in DOMAIN queue /\ queue'[i] = jobs[i] /\ i # Len(queue) + 1
             \/ i = Len(queue) + 1 /\ queue'[i] = e
        /\ \A i \in DOMAIN queue : i \in DOMAIN queue' /\ queue'[i] = jobs[i]
        /\ Len(queue) + 1 \in DOMAIN queue' /\ queue'[Len(queue) + 1] = e
    BY <1>2, <2>1, PushQueue
  <2>. HIDE DEF e
  <2>3. /\ \A d \in Callers : d # "writer" => reply'[d] = reply[d]
        /\ reply'["writer"] = "wait"
    BY <1>2 DEF TypeOK, Callers
  <2>4. \A i \in DOMAIN queue : queue[i].by \in Callers \/ queue[i].by = "nobody"
    BY JobOwner
  <2>5. \A i \in DOMAIN queue :
          jobs[i].by # "nobody" => jobs[i] = queue[i] /\ queue[i].by # "writer"
    OBVIOUS
  <2>6. \A i, j \in DOMAIN queue' :
          queue'[i].by = queue'[j].by /\ queue'[i].by # "nobody" => i = j
    BY <2>1, <2>2, <2>5 DEF CallerInv
  <2>7. \A i \in DOMAIN queue' : queue'[i].by # "nobody" => reply'[queue'[i].by] = "wait"
    BY <2>1, <2>2, <2>3, <2>4, <2>5 DEF CallerInv
  <2>8. \E i \in DOMAIN queue' : queue'[i].by = "writer"
    BY <2>1, <2>2
  <2>9. reply'["scan"] = "wait" => \E i \in DOMAIN queue' : queue'[i].by = "scan"
    BY <2>1, <2>2, <2>3, <2>5 DEF CallerInv, Callers
  <2>10. \A i \in DOMAIN queue' : queue'[i].by = "writer" => queue'[i].op = wpc'
    BY <1>2, <2>1, <2>2, <2>5
  <2>11. \A i \in DOMAIN queue' :
           queue'[i].by = "scan" =>
             \/ scan' = "releasing" /\ queue'[i].op = "disconnect"
             \/ scan' = "attaching" /\ queue'[i].op = "connect"
    BY <2>1, <2>2, <2>5 DEF CallerInv
  <2>12. \A i \in DOMAIN queue' :
           queue'[i].by \in Threads => queue'[i].op \in {"embed", "compact", "connect"}
    BY <2>1, <2>2, <2>5, ExecutorAssumption DEF CallerInv, ExecutorAssumption
  <2>13. \A i \in DOMAIN queue' : queue'[i].op = "insert" => queue'[i].ver # NoVersion
    BY <2>1, <2>2 DEF CallerInv
  <2>14. scan' \notin {"releasing", "attaching"} => reply'["scan"] = "none"
    BY <2>3 DEF CallerInv, Callers
  <2>. QED
    BY <1>2, <2>3, <2>6, <2>7, <2>8, <2>9, <2>10, <2>11, <2>12, <2>13, <2>14 DEF CallerInv, StoreOps
<1>. QED
  BY <1>1, <1>2 DEF RollBack

LEMMA CallerSame ==
  ASSUME CallerInv, UNCHANGED <<queue, reply, wpc, wver>>,
         UNCHANGED scan \/ {scan, scan'} \cap {"releasing", "attaching"} = {}
  PROVE  CallerInv'
  BY DEF CallerInv

LEMMA CallerStep ==
  ASSUME TypeOK, FlagInv, CallerInv, ThreadInv, ExecutorAssumption, Next
  PROVE  CallerInv'
<1>. USE DEF conns, flags, db, writer, scanner, workers, history, bounds
<1>0. /\ "writer" \in Callers /\ "scan" \in Callers /\ Threads \subseteq Callers
      /\ {} \in SUBSET Versions /\ NoVersion \in Versions \cup {NoVersion}
      /\ StoreOps \subseteq Ops
      /\ {"begin", "remove", "compact", "connect", "disconnect", "embed"} \subseteq Ops
  BY DEF Callers, Ops, StoreOps
<1>1. CASE Executor
  <2>1. UNCHANGED <<wpc, wver, scan>>
    BY <1>1 DEF Executor, ExecSkip, ExecBegin, ExecRead, ExecRecord, ExecDelete, ExecInsert,
       ExecCommit, ExecRollback, ExecRemove, ExecEmbed, ExecConnect, ExecDisconnect, ExecFails,
       CompactSkips, CompactBegins, CompactReopens, CompactEnds
  <2>2. \/ UNCHANGED <<queue, reply>>
        \/ queue # <<>> /\ (Answer("ok") \/ Answer("error"))
    BY <1>1 DEF Executor, ExecSkip, ExecBegin, ExecRead, ExecRecord, ExecDelete, ExecInsert,
       ExecCommit, ExecRollback, ExecRemove, ExecEmbed, ExecConnect, ExecDisconnect, ExecFails,
       CompactSkips, CompactBegins, CompactReopens, CompactEnds, Turn, FlagInv
  <2>. QED
    BY <2>1, <2>2, CallerAnswer, CallerSame
<1>2. ASSUME NEW v \in Versions, StoreBegins(v) PROVE CallerInv'
  <2>1. Submit("writer", "begin", NoVersion, {}) /\ "begin" \in Ops /\ wpc' = "begin" /\ wver' = v
        /\ UNCHANGED scan /\ reply["writer"] # "wait"
    BY <1>0, <1>2 DEF StoreBegins, CallerInv
  <2>2. v # NoVersion /\ "writer" \notin Threads
    BY ExecutorAssumption DEF ExecutorAssumption
  <2>. QED
    BY <1>0, <2>1, <2>2, CallerSubmit
<1>3. CASE StoreContinues
  <2>. DEFINE v == IF NextOp \in {"record", "insert"} THEN wver ELSE NoVersion
              g == IF NextOp = "delete" THEN wold \ {wver} ELSE {}
  <2>1. NextOp \in StoreOps /\ NextOp \in Ops /\ NextOp # "idle" /\ wver # NoVersion
    BY <1>0, <1>3, NextOpType DEF StoreContinues, CallerInv, StoreOps
  <2>2. v \in Versions \cup {NoVersion} /\ g \in SUBSET Versions /\ (NextOp = "insert" => v # NoVersion)
    BY <2>1 DEF TypeOK
  <2>3. Submit("writer", NextOp, v, g)
    BY <1>3 DEF StoreContinues
  <2>4. wpc' = NextOp /\ UNCHANGED <<wver, scan>> /\ reply["writer"] # "wait" /\ "writer" \notin Threads
    BY <1>3, ExecutorAssumption DEF StoreContinues, ExecutorAssumption
  <2>. HIDE DEF v, g
  <2>. QED
    BY <1>0, <2>1, <2>2, <2>3, <2>4, CallerSubmit
<1>4. CASE StoreEnds
  <2>1. /\ reply["writer"] # "wait" /\ wpc' = "idle" /\ UNCHANGED <<queue, scan>>
        /\ reply' = [reply EXCEPT !["writer"] = "none"]
    BY <1>4 DEF StoreEnds
  <2>. QED
    BY <1>0, <2>1, CallerReads DEF StoreOps
<1>5. CASE StoreFails
  <2>1. queue \in Seq(Entry) /\ RollBack(queue) /\ UNCHANGED scan /\ reply["writer"] # "wait"
        /\ wpc \in StoreOps
    BY <1>5 DEF StoreFails, TypeOK
  <2>2. \A i \in DOMAIN queue : queue[i].by # "writer"
    BY <2>1 DEF CallerInv
  <2>. QED
    BY <2>1, <2>2, CallerRollBack
<1>6. CASE StoreIsCancelled
  <2>1. UNCHANGED scan /\ wpc \in StoreOps /\ queue \in Seq(Entry)
    BY <1>6 DEF StoreIsCancelled, TypeOK
  <2>2. CASE RollBack(Cancelled("writer"))
    BY <2>1, <2>2, CancelledQueue, CallerRollBack
  <2>3. CASE RollBack(Abandoned("writer"))
    <3>1. \A i \in DOMAIN queue : queue[i].by # "writer" => Abandoned("writer")[i] = queue[i]
      BY DEF Abandoned
    <3>2. \A i \in DOMAIN queue : queue[i].by = "writer" =>
            Abandoned("writer")[i].by = "nobody"
            /\ (Abandoned("writer")[i].op = "insert" => Abandoned("writer")[i].ver # NoVersion)
      BY <2>1, AbandonedQueue DEF CallerInv
    <3>. QED
      BY <2>1, <2>3, <3>1, <3>2, AbandonedQueue, CallerRollBack
  <2>. QED
    BY <1>6, <2>2, <2>3 DEF StoreIsCancelled
<1>7. CASE RemoveBegins
  <2>1. /\ Submit("writer", "remove", NoVersion, {}) /\ wpc' = "remove" /\ "remove" \in Ops
        /\ UNCHANGED <<wver, scan>> /\ reply["writer"] # "wait" /\ "writer" \notin Threads
    BY <1>0, <1>7, ExecutorAssumption DEF RemoveBegins, CallerInv, ExecutorAssumption
  <2>. QED
    BY <1>0, <2>1, CallerSubmit DEF StoreOps
<1>8. CASE RemoveEnds
  <2>1. /\ UNCHANGED <<wver, scan>> /\ reply["writer"] # "wait" /\ "writer" \notin Threads
        /\ "compact" \in Ops
    BY <1>0, <1>8, ExecutorAssumption DEF RemoveEnds, CallerInv, ExecutorAssumption
  <2>2. CASE Submit("writer", "compact", NoVersion, {}) /\ wpc' = "compact"
    BY <1>0, <2>1, <2>2, CallerSubmit DEF StoreOps
  <2>3. CASE wpc' = "idle" /\ reply' = [reply EXCEPT !["writer"] = "none"] /\ UNCHANGED queue
    BY <1>0, <2>1, <2>3, CallerReads DEF StoreOps
  <2>. QED
    BY <1>8, <2>2, <2>3 DEF RemoveEnds
<1>9. CASE ScanReleases \/ ScanAttaches
  <2>1. /\ UNCHANGED <<wpc, wver>> /\ reply["scan"] # "wait" /\ "scan" \notin Threads
        /\ "disconnect" \in Ops /\ "connect" \in Ops
    BY <1>0, <1>9, ExecutorAssumption DEF ScanReleases, ScanAttaches, CallerInv, ExecutorAssumption
  <2>2. wpc' \in StoreOps => wver' # NoVersion
    BY <2>1 DEF CallerInv
  <2>3. CASE Submit("scan", "disconnect", NoVersion, {}) /\ scan' = "releasing"
    BY <1>0, <2>1, <2>2, <2>3, CallerSubmit
  <2>4. CASE Submit("scan", "connect", NoVersion, {}) /\ scan' = "attaching"
    BY <1>0, <2>1, <2>2, <2>4, CallerSubmit
  <2>5. CASE UNCHANGED <<queue, reply>> /\ {scan, scan'} \cap {"releasing", "attaching"} = {}
    BY <2>1, <2>5, CallerSame
  <2>. QED
    BY <1>9, <2>3, <2>4, <2>5 DEF ScanReleases, ScanAttaches, ScanEnds
<1>10. CASE ScanReleased \/ ScanAttached
  <2>1. /\ UNCHANGED <<wpc, wver, queue>> /\ reply["scan"] # "wait"
        /\ scan' \notin {"releasing", "attaching"}
        /\ reply' = [reply EXCEPT !["scan"] = "none"]
    BY <1>10 DEF ScanReleased, ScanAttached, ScanEnds
  <2>. QED
    BY <1>0, <2>1, CallerReads
<1>11. CASE ScanTimesOut
  <2>1. /\ UNCHANGED <<wpc, wver>> /\ queue' = Abandoned("scan")
        /\ scan' \notin {"releasing", "attaching"}
        /\ reply' = [reply EXCEPT !["scan"] = "none"] /\ queue \in Seq(Entry)
    BY <1>11 DEF ScanTimesOut, ScanEnds, TypeOK
  <2>2. \A i \in DOMAIN queue : queue[i].by # "scan" => queue'[i] = queue[i]
    BY <2>1 DEF Abandoned
  <2>3. \A i \in DOMAIN queue : queue[i].by = "scan" =>
          queue'[i].by = "nobody" /\ (queue'[i].op = "insert" => queue'[i].ver # NoVersion)
    BY <2>1, AbandonedQueue DEF CallerInv
  <2>4. DOMAIN queue' = DOMAIN queue
    BY <2>1, AbandonedQueue
  <2>. QED
    BY <1>0, <2>1, <2>2, <2>3, <2>4, CallerLeaves
<1>12. CASE ScanPublishes \/ ScanCloses \/ ScanRaises \/ RustFinishes \/ ScanTakesBack
            \/ ScanConnects \/ ScanOpens
  <2>1. /\ UNCHANGED <<queue, reply, wpc, wver>>
        /\ {scan, scan'} \cap {"releasing", "attaching"} = {}
    BY <1>12 DEF ScanPublishes, ScanCloses, ScanRaises, RustFinishes, ScanTakesBack, ScanConnects, ScanOpens, ScanEnds
  <2>. QED
    BY <2>1, CallerSame
<1>13. ASSUME NEW t \in Threads, ThreadSteps(t) PROVE CallerInv'
  <2>1. /\ UNCHANGED <<wpc, wver, scan>> /\ t \in Callers /\ t # "writer" /\ t # "scan"
        /\ queue \in Seq(Entry)
    BY <1>0, <1>13, ExecutorAssumption DEF ThreadSteps, ThreadChecks, ThreadIsRefused, ThreadOpens,
       ThreadSubmits, ThreadReturns, ThreadTimesOut, ExecutorAssumption, TypeOK
  <2>2. CASE UNCHANGED <<queue, reply>>
    BY <2>1, <2>2, CallerSame
  <2>3. CASE ThreadReturns(t)
    <3>1. reply[t] # "wait" /\ reply' = [reply EXCEPT ![t] = "none"] /\ UNCHANGED queue
      BY <2>3 DEF ThreadReturns
    <3>. QED
      BY <2>1, <3>1, CallerReads
  <2>4. CASE ThreadTimesOut(t)
    <3>1. reply' = [reply EXCEPT ![t] = "none"] /\ queue' = Abandoned(t)
      BY <2>4 DEF ThreadTimesOut
    <3>2. \A i \in DOMAIN queue : queue[i].by # t => queue'[i] = queue[i]
      BY <3>1 DEF Abandoned
    <3>3. \A i \in DOMAIN queue : queue[i].by = t =>
            queue'[i].by = "nobody" /\ (queue'[i].op = "insert" => queue'[i].ver # NoVersion)
      BY <2>1, <3>1, AbandonedQueue DEF CallerInv
    <3>4. DOMAIN queue' = DOMAIN queue
      BY <2>1, <3>1, AbandonedQueue
    <3>. QED
      BY <2>1, <3>1, <3>2, <3>3, <3>4, CallerLeaves
  <2>5. CASE ThreadSubmits(t)
    <3>1. /\ Submit(t, top[t], NoVersion, {}) /\ top[t] \in {"embed", "compact", "connect"}
          /\ top[t] \in Ops /\ tpc[t] = "checked"
      BY <1>0, <2>5 DEF ThreadSubmits, TypeOK
    <3>2. reply[t] # "wait"
      BY <3>1 DEF ThreadInv
    <3>. QED
      BY <1>0, <2>1, <3>1, <3>2, CallerSubmit DEF CallerInv
  <2>. QED
    BY <1>13, <2>2, <2>3, <2>4, <2>5 DEF ThreadSteps, ThreadChecks, ThreadIsRefused, ThreadOpens
<1>. QED
  BY <1>1, <1>2, <1>3, <1>4, <1>5, <1>6, <1>7, <1>8, <1>9, <1>10, <1>11, <1>12, <1>13
     DEF Next, WriterSteps, ScanSteps

LEMMA ThreadStep ==
  ASSUME TypeOK, FlagInv, CallerInv, ThreadInv, ExecutorAssumption, Next
  PROVE  ThreadInv'
<1>. USE DEF conns, flags, db, writer, scanner, workers, history, bounds
<1>0. \A t \in Threads : t \in Callers /\ t # "writer" /\ t # "scan" /\ t # "nobody"
  BY ExecutorAssumption DEF ExecutorAssumption, Callers
<1>1. CASE Executor
  <2>1. UNCHANGED tpc
    BY <1>1 DEF Executor, ExecSkip, ExecBegin, ExecRead, ExecRecord, ExecDelete, ExecInsert,
       ExecCommit, ExecRollback, ExecRemove, ExecEmbed, ExecConnect, ExecDisconnect, ExecFails,
       CompactSkips, CompactBegins, CompactReopens, CompactEnds
  <2>2. \/ UNCHANGED reply
        \/ queue # <<>> /\ (Answer("ok") \/ Answer("error"))
    BY <1>1 DEF Executor, ExecSkip, ExecBegin, ExecRead, ExecRecord, ExecDelete, ExecInsert,
       ExecCommit, ExecRollback, ExecRemove, ExecEmbed, ExecConnect, ExecDisconnect, ExecFails,
       CompactSkips, CompactBegins, CompactReopens, CompactEnds, Turn, FlagInv
  <2>3. queue # <<>> => \A t \in Threads : queue[1].by = t => reply[t] = "wait"
    BY <1>0, PopQueue DEF CallerInv, TypeOK
  <2>. QED
    BY <1>0, <2>1, <2>2, <2>3 DEF ThreadInv, Answer, Running, TypeOK
<1>2. ASSUME \/ \E v \in Versions : StoreBegins(v)
             \/ WriterSteps \/ StoreIsCancelled \/ RemoveBegins
             \/ ScanPublishes \/ ScanSteps \/ ScanTimesOut
      PROVE  ThreadInv'
  <2>1. UNCHANGED tpc
    BY <1>2 DEF WriterSteps, StoreBegins, StoreContinues, StoreEnds, StoreFails, RemoveEnds,
       StoreIsCancelled, RemoveBegins, ScanSteps, ScanPublishes, ScanTimesOut, ScanReleases,
       ScanReleased, ScanCloses, ScanRaises, RustFinishes, ScanTakesBack, ScanConnects, ScanOpens,
       ScanAttaches, ScanAttached
  <2>2. \/ UNCHANGED reply
        \/ \E c \in {"writer", "scan"}, x \in {"none", "wait"} : reply' = [reply EXCEPT ![c] = x]
    BY <1>2 DEF WriterSteps, StoreBegins, StoreContinues, StoreEnds, StoreFails, RemoveEnds,
       StoreIsCancelled, RemoveBegins, RollBack, Submit, ScanSteps, ScanPublishes, ScanTimesOut,
       ScanReleases, ScanReleased, ScanCloses, ScanRaises, RustFinishes, ScanTakesBack, ScanConnects, ScanOpens,
       ScanAttaches, ScanAttached
  <2>. QED
    BY <1>0, <2>1, <2>2 DEF ThreadInv, TypeOK
<1>3. ASSUME NEW t \in Threads, ThreadSteps(t) PROVE ThreadInv'
  BY <1>0, <1>3 DEF ThreadSteps, ThreadChecks, ThreadIsRefused, ThreadOpens, ThreadSubmits,
     ThreadReturns, ThreadTimesOut, ThreadEnds, Submit, ThreadInv, TypeOK
<1>. QED
  BY <1>1, <1>2, <1>3 DEF Next

-----------------------------------------------------------------------------
(* The hand-over is exclusive.                                             *)

\* While the queue only loses its head and the scan stays where it is, a
\* disconnect at the end stays there until its turn comes.
LEMMA ExclusiveExecutor ==
  ASSUME TypeOK, FlagInv, CallerInv, ExclusiveInv, ExecutorAssumption, Executor
  PROVE  ExclusiveInv'
<1>. USE DEF conns, flags, db, writer, scanner, workers, history, bounds
<1>. SUFFICES ASSUME intruded' = "no" PROVE ExclusiveInv'
  BY DEF ExclusiveInv
<1>1. UNCHANGED <<scan, released, intruded>>
  BY DEF Executor, ExecSkip, ExecBegin, ExecRead, ExecRecord, ExecDelete, ExecInsert,
     ExecCommit, ExecRollback, ExecRemove, ExecEmbed, ExecConnect, ExecDisconnect, ExecFails,
     CompactSkips, CompactBegins, CompactReopens, CompactEnds
<1>2. queue # <<>>
  BY DEF Executor, ExecSkip, ExecBegin, ExecRead, ExecRecord, ExecDelete, ExecInsert,
     ExecCommit, ExecRollback, ExecRemove, ExecEmbed, ExecConnect, ExecDisconnect, ExecFails,
     CompactSkips, CompactBegins, CompactReopens, CompactEnds, Turn, FlagInv
<1>3. /\ scan # "running" /\ scan # "finished"
      /\ scan \in {"close", "connect", "opening"} => released # "ok"
      /\ scan = "releasing" => reply["scan"] # "ok"
  BY <1>1, <1>2 DEF ExclusiveInv, Drained
<1>4. CASE scan # "releasing"
  BY <1>1, <1>3, <1>4 DEF ExclusiveInv
<1>5. CASE scan = "releasing" /\ UNCHANGED <<queue, reply>>
  BY <1>1, <1>3, <1>5 DEF ExclusiveInv
<1>6. CASE scan = "releasing" /\ (Answer("ok") \/ Answer("error"))
  <2>1. queue \in Seq(Entry) /\ queue' = Tail(queue) /\ Running = queue[1] /\ 1 \in DOMAIN queue
    BY <1>2, <1>6, PopQueue DEF TypeOK, Answer, Running
  <2>2. CASE queue[1].by = "scan"
    <3>1. reply["scan"] = "wait" /\ queue[1].op = "disconnect"
      BY <1>6, <2>1, <2>2 DEF CallerInv
    <3>2. queue[Len(queue)].by = "scan" /\ Len(queue) \in DOMAIN queue
      BY <1>1, <1>2, <1>6, <2>1, <3>1 DEF ExclusiveInv
    <3>3. Len(queue) = 1
      BY <2>1, <2>2, <3>2 DEF CallerInv
    <3>4. queue' = <<>>
      BY <1>2, <2>1, <3>3, PopQueue
    <3>5. reply'["scan"] # "wait"
      BY <1>6, <2>1, <2>2 DEF Answer, TypeOK, Callers
    <3>6. reply'["scan"] = "ok" => execConn' = "closed"
      <4>1. comp = "none"
        BY <2>1, <3>1 DEF FlagInv
      <4>2. Answer("error") => reply'["scan"] = "error"
        BY <2>1, <2>2 DEF Answer, TypeOK, Callers
      <4>3. ExecDisconnect \/ ExecFails
        BY <2>1, <3>1, <4>1 DEF Executor, ExecSkip, ExecBegin, ExecRead, ExecRecord, ExecDelete,
           ExecInsert, ExecCommit, ExecRollback, ExecRemove, ExecEmbed, ExecConnect, CompactSkips,
           CompactBegins, CompactReopens, CompactEnds, Turn
      <4>. QED
        BY <4>2, <4>3 DEF ExecDisconnect, ExecFails
    <3>. QED
      BY <1>1, <1>6, <3>4, <3>5, <3>6 DEF ExclusiveInv, Drained
  <2>3. CASE queue[1].by # "scan"
    <3>1. reply'["scan"] = reply["scan"]
      BY <1>6, <2>1, <2>3 DEF Answer, TypeOK, Callers
    <3>2. reply["scan"] = "wait" => queue'[Len(queue')].by = "scan"
      <4>. SUFFICES ASSUME reply["scan"] = "wait" PROVE queue'[Len(queue')].by = "scan"
        OBVIOUS
      <4>1. queue[Len(queue)].by = "scan"
        BY <1>1, <1>6 DEF ExclusiveInv
      <4>2. Len(queue) # 1
        BY <2>3, <4>1
      <4>. QED
        BY <1>2, <2>1, <4>1, <4>2, PopQueue
    <3>. QED
      BY <1>1, <1>3, <1>6, <3>1, <3>2 DEF ExclusiveInv
  <2>. QED
    BY <2>2, <2>3
<1>7. UNCHANGED <<queue, reply>> \/ Answer("ok") \/ Answer("error")
  BY DEF Executor, ExecSkip, ExecBegin, ExecRead, ExecRecord, ExecDelete, ExecInsert,
     ExecCommit, ExecRollback, ExecRemove, ExecEmbed, ExecConnect, ExecDisconnect, ExecFails,
     CompactSkips, CompactBegins, CompactReopens, CompactEnds
<1>. QED
  BY <1>4, <1>5, <1>6, <1>7

\* The writer can neither act while the scan blocks the event loop nor submit
\* while Rust owns the file.
LEMMA ExclusiveWriter ==
  ASSUME TypeOK, FlagInv, ExclusiveInv,
         \/ \E v \in Versions : StoreBegins(v)
         \/ WriterSteps \/ StoreIsCancelled \/ RemoveBegins
  PROVE  ExclusiveInv'
<1>. USE DEF conns, flags, db, writer, scanner, workers, history, bounds
<1>1. UNCHANGED <<scan, released, intruded, execConn, cmConn>> /\ scan \notin Blocking
  BY DEF WriterSteps, StoreBegins, StoreContinues, StoreEnds, StoreFails, RemoveEnds,
     StoreIsCancelled, RemoveBegins, EventLoopFree
<1>2. scan \in {"running", "finished"} => rustFlag = "set"
  BY DEF FlagInv
<1>3. scan \in {"running", "finished"} /\ queue = <<>> => queue' = <<>>
  <2>. SUFFICES ASSUME scan \in {"running", "finished"}, queue = <<>> PROVE queue' = <<>>
    OBVIOUS
  <2>1. ~ Guard /\ rustFlag # "clear"
    BY <1>2 DEF Guard
  <2>2. Cancelled("writer") = <<>> /\ Abandoned("writer") = <<>>
    BY CancelledQueue, AbandonedQueue DEF TypeOK
  <2>. QED
    BY <2>1, <2>2 DEF WriterSteps, StoreBegins, StoreContinues, StoreEnds, StoreFails, RemoveEnds,
       StoreIsCancelled, RemoveBegins, RollBack
<1>. QED
  BY <1>1, <1>3 DEF ExclusiveInv, Drained, Blocking

LEMMA ExclusiveScan ==
  ASSUME TypeOK, FlagInv, CallerInv, ExclusiveInv, ScanPublishes \/ ScanSteps \/ ScanTimesOut
  PROVE  ExclusiveInv'
<1>. USE DEF conns, flags, db, writer, scanner, workers, history, bounds
<1>0. queue \in Seq(Entry)
  BY DEF TypeOK
<1>1. CASE ScanPublishes
  BY <1>1 DEF ScanPublishes, ExclusiveInv
<1>2. CASE ScanReleases
  <2>1. CASE Submit("scan", "disconnect", NoVersion, {}) /\ scan' = "releasing"
    <3>1. Job("scan", "disconnect", NoVersion, {}) \in Entry
          /\ Job("scan", "disconnect", NoVersion, {}).by = "scan"
      BY JobType DEF Callers, Ops, Job
    <3>2. queue'[Len(queue')].by = "scan" /\ reply'["scan"] = "wait"
      BY <1>0, <2>1, <3>1, PushQueue DEF Submit, TypeOK, Callers
    <3>. QED
      BY <2>1, <3>2 DEF ExclusiveInv
  <2>2. CASE scan' = "close" /\ released' = "failed"
    BY <2>2 DEF ExclusiveInv
  <2>. QED
    BY <1>2, <2>1, <2>2 DEF ScanReleases
<1>3. CASE ScanReleased
  BY <1>3 DEF ScanReleased, ExclusiveInv, Drained
<1>4. CASE ScanCloses \/ ScanRaises
  BY <1>4 DEF ScanCloses, ScanRaises, ExclusiveInv, Drained
<1>5. CASE RustFinishes
  BY <1>5 DEF RustFinishes, ExclusiveInv, Drained
<1>6. CASE ScanTakesBack
  BY <1>6 DEF ScanTakesBack, ExclusiveInv, Drained
<1>7. CASE ScanConnects
  BY <1>7 DEF ScanConnects, ScanEnds, ExclusiveInv, Drained
<1>8. CASE ScanOpens
  BY <1>8 DEF ScanOpens, ExclusiveInv
<1>9. CASE ScanAttaches
  BY <1>9 DEF ScanAttaches, ScanEnds, ExclusiveInv
<1>10. CASE ScanAttached
  BY <1>10 DEF ScanAttached, ScanEnds, ExclusiveInv
<1>11. CASE ScanTimesOut
  BY <1>11 DEF ScanTimesOut, ScanEnds, ExclusiveInv
<1>. QED
  BY <1>1, <1>2, <1>3, <1>4, <1>5, <1>6, <1>7, <1>8, <1>9, <1>10, <1>11 DEF ScanSteps

LEMMA ExclusiveThread ==
  ASSUME TypeOK, CallerInv, ExclusiveInv, ExecutorAssumption, NEW t \in Threads, ThreadSteps(t)
  PROVE  ExclusiveInv'
<1>. USE DEF conns, flags, db, writer, scanner, workers, history, bounds
<1>0. t \in Callers /\ t # "writer" /\ t # "scan" /\ queue \in Seq(Entry) /\ "scan" \in Callers
  BY ExecutorAssumption DEF ExecutorAssumption, Callers, TypeOK
<1>1. CASE ThreadChecks(t) \/ ThreadIsRefused(t)
  BY <1>1 DEF ThreadChecks, ThreadIsRefused, ExclusiveInv, Drained
<1>2. CASE ThreadOpens(t)
  BY <1>2 DEF ThreadOpens, Intrudes, ExclusiveInv, Drained
<1>3. CASE ThreadSubmits(t)
  BY <1>3 DEF ThreadSubmits, Intrudes, ExclusiveInv, Drained
<1>4. CASE ThreadReturns(t)
  <2>1. reply'["scan"] = reply["scan"]
    BY <1>0, <1>4 DEF ThreadReturns, TypeOK
  <2>. QED
    BY <1>4, <2>1 DEF ThreadReturns, ExclusiveInv, Drained
<1>5. CASE ThreadTimesOut(t)
  <2>1. reply'["scan"] = reply["scan"] /\ queue' = Abandoned(t)
    BY <1>0, <1>5 DEF ThreadTimesOut, TypeOK
  <2>2. queue = <<>> => queue' = <<>>
    BY <1>0, <2>1, AbandonedQueue
  <2>3. queue # <<>> /\ queue[Len(queue)].by = "scan" => queue'[Len(queue')].by = "scan"
    BY <1>0, <2>1, AbandonedQueue
  <2>4. reply["scan"] = "wait" => queue # <<>>
    BY DEF CallerInv
  <2>. QED
    BY <1>5, <2>1, <2>2, <2>3, <2>4 DEF ThreadTimesOut, ExclusiveInv, Drained
<1>. QED
  BY <1>1, <1>2, <1>3, <1>4, <1>5 DEF ThreadSteps

LEMMA ExclusiveStep ==
  ASSUME TypeOK, FlagInv, CallerInv, ExclusiveInv, ExecutorAssumption, Next
  PROVE  ExclusiveInv'
  BY ExclusiveExecutor, ExclusiveWriter, ExclusiveScan, ExclusiveThread DEF Next

\* Every step of the specification preserves the types.
LEMMA TypeStep ==
  ASSUME TypeOK, FlagInv, CallerInv, Next
  PROVE  TypeOK'
  BY ExecutorType, WriterType, ScanType, ThreadType DEF Next

\* The invariant of the hand-over is inductive.
LEMMA HandoverStep ==
  ASSUME HandoverInv, [Next]_vars
  PROVE  HandoverInv'
<1>1. CASE Next
  <2>1. TypeOK /\ FlagInv /\ CallerInv /\ ThreadInv /\ ExclusiveInv
    BY DEF HandoverInv
  <2>2. TypeOK'
    BY <1>1, <2>1, TypeStep
  <2>3. FlagInv'
    BY <1>1, <2>1, <2>2, FlagStep
  <2>4. CallerInv'
    BY <1>1, <2>1, CallerStep, ExecutorAssumption
  <2>5. ThreadInv'
    BY <1>1, <2>1, ThreadStep, ExecutorAssumption
  <2>6. ExclusiveInv'
    BY <1>1, <2>1, ExclusiveStep, ExecutorAssumption
  <2>. QED
    BY <2>2, <2>3, <2>4, <2>5, <2>6 DEF HandoverInv
<1>2. CASE UNCHANGED vars
  BY <1>2 DEF vars, conns, flags, db, writer, scanner, workers, history, bounds, HandoverInv,
     TypeOK, FlagInv, CallerInv, ThreadInv, ExclusiveInv, Drained, Running
<1>. QED
  BY <1>1, <1>2

LEMMA HandoverInit ==
  ASSUME Init
  PROVE  HandoverInv
<1>1. /\ queue \in Seq(Entry) /\ DOMAIN queue = {}
      /\ "writer" \in Callers /\ "scan" \in Callers /\ Threads \subseteq Callers
  BY DEF Init, Callers
<1>2. TypeOK
  BY <1>1 DEF Init, TypeOK, NoRows, Rows, StoreOps, Blocking
<1>3. FlagInv /\ ThreadInv /\ ExclusiveInv
  BY <1>1 DEF Init, FlagInv, ThreadInv, ExclusiveInv
<1>4. CallerInv
  BY <1>1 DEF Init, CallerInv, StoreOps
<1>. QED
  BY <1>2, <1>3, <1>4 DEF HandoverInv

LEMMA HandoverAlways == Spec => []HandoverInv
<1>1. Init => HandoverInv
  BY HandoverInit
<1>2. HandoverInv /\ [Next]_vars => HandoverInv'
  BY HandoverStep
<1>. QED
  BY <1>1, <1>2, PTL DEF Spec

\* The variables of the executor, its callers and the hand-over keep their
\* types; in particular an open transaction is on record and has a connection.
THEOREM ExecutorTypeCorrect == Spec => []TypeOK
<1>1. HandoverInv => TypeOK
  BY DEF HandoverInv
<1>. QED
  BY <1>1, HandoverAlways, PTL

\* While Rust owns the database file no connection of this process is open,
\* no operation waits and no compaction runs, for any number of threads and
\* faults.
THEOREM HandoverIsExclusive == Spec => []RustOwnsFile
<1>1. HandoverInv => RustOwnsFile
  BY DEF HandoverInv, TypeOK, FlagInv, ExclusiveInv, Drained, RustOwnsFile
<1>. QED
  BY <1>1, HandoverAlways, PTL

\* A caller is refused only while a compaction or a hand-over is under way.
THEOREM RefusalsAreOwned == Spec => []RefusalsHaveOwner
<1>1. HandoverInv => RefusalsHaveOwner
  BY DEF HandoverInv, FlagInv, RefusalsHaveOwner
<1>. QED
  BY <1>1, HandoverAlways, PTL

-----------------------------------------------------------------------------
(* A store is atomic.                                                      *)

\* A job at the end of the queue: nothing of the writer's may follow a
\* disconnect, and no abandoned operation of a store is added.
LEMMA JobsPushed ==
  ASSUME JobInv, NEW q \in Seq(Entry), NEW e \in Entry, queue' = Append(q, e),
         DOMAIN q = DOMAIN queue,
         \A i \in DOMAIN queue :
           \/ q[i] = queue[i] /\ (queue[i].by = "writer" => UNCHANGED <<wver, wold>>)
           \/ q[i].by = "nobody" /\ q[i].op \notin {"disconnect", "rollback"},
         e.op = "disconnect" => e.by = "scan",
         e.op = "rollback" => e.by = "writer",
         e.by = "writer" => \A i \in DOMAIN queue : queue[i].op # "disconnect",
         e.by = "writer" /\ e.op \in {"record", "insert"} => e.ver = wver',
         e.by = "writer" /\ e.op = "delete" => e.gone = wold' \ {wver'}
  PROVE  JobInv'
<1>1. /\ \A i \in DOMAIN queue' :
           \/ i \in DOMAIN q /\ queue'[i] = q[i] /\ i # Len(q) + 1
           \/ i = Len(q) + 1 /\ queue'[i] = e
      /\ \A i \in DOMAIN q : i < Len(q) + 1
      /\ \A i \in DOMAIN q : ~ (Len(q) + 1 < i)
      /\ ~ (Len(q) + 1 < Len(q) + 1)
  BY PushQueue
<1>2. \A i \in DOMAIN queue' :
        /\ queue'[i].op = "disconnect" => queue'[i].by = "scan"
        /\ queue'[i].op = "rollback" => queue'[i].by = "writer"
        /\ queue'[i].by = "writer" /\ queue'[i].op \in {"record", "insert"} => queue'[i].ver = wver'
        /\ queue'[i].by = "writer" /\ queue'[i].op = "delete" => queue'[i].gone = wold' \ {wver'}
  BY <1>1 DEF JobInv
<1>3. \A i, j \in DOMAIN queue' :
        queue'[i].op = "disconnect" /\ i < j => queue'[j].by # "writer"
  BY <1>1 DEF JobInv
<1>. QED
  BY <1>2, <1>3 DEF JobInv

\* Jobs are relabelled in place.
LEMMA JobsRelabelled ==
  ASSUME JobInv, DOMAIN queue' = DOMAIN queue,
         \A i \in DOMAIN queue :
           \/ queue'[i] = queue[i] /\ (queue[i].by = "writer" => UNCHANGED <<wver, wold>>)
           \/ queue'[i].by = "nobody" /\ queue'[i].op \notin {"disconnect", "rollback"}
  PROVE  JobInv'
  BY DEF JobInv

\* The writer's place in a store is kept while nobody touches its transaction.
LEMMA ReadySame ==
  ASSUME ReadyInv, UNCHANGED <<wpc, wver, wseen, wold>>, reply'["writer"] = reply["writer"],
         tx' = "none" <=> tx = "none", tx # "none" => work' = work, CutOff => CutOff'
  PROVE  ReadyInv'
<1>1. NextOp' = NextOp
  BY DEF NextOp
<1>2. Ready(wpc) => Ready(wpc)'
  BY DEF Ready
<1>3. Ready(NextOp) => Ready(NextOp)'
  BY <1>1 DEF Ready
<1>. QED
  BY <1>2, <1>3 DEF ReadyInv

LEMMA NoDisconnect ==
  ASSUME TypeOK, CallerInv, JobInv, scan # "releasing"
  PROVE  \A i \in DOMAIN queue : queue[i].op # "disconnect"
  BY DEF CallerInv, JobInv

\* The writer submits an operation behind the jobs, some of which it may just
\* have given up, while nothing is being handed over.
LEMMA WriterSubmits ==
  ASSUME TypeOK, FlagInv, CallerInv, JobInv, OrphanInv, ReleaseInv,
         rustFlag = "clear", EventLoopFree, UNCHANGED <<scan, released, tx, work>>,
         NEW q \in Seq(Entry), DOMAIN q = DOMAIN queue,
         NEW op \in Ops \ {"disconnect"}, NEW v \in Versions \cup {NoVersion},
         NEW g \in SUBSET Versions,
         queue' = Append(q, Job("writer", op, v, g)),
         reply' = [reply EXCEPT !["writer"] = "wait"],
         wpc' = op,
         \A i \in DOMAIN queue : queue[i].op \in StoreOps => queue[i].by # "nobody",
         \A i \in DOMAIN queue : queue[i].by # "writer" => q[i] = queue[i],
         \A i \in DOMAIN queue : queue[i].by = "writer" =>
           /\ q[i].by = "nobody" /\ q[i].op \notin {"disconnect", "rollback"}
           /\ q[i].op \in StoreOps =>
                /\ i = 1 /\ op = "rollback"
                /\ q[i].op # "begin" => tx # "none"
                /\ q[i].op = "commit" => Consistent(work),
         op \in {"record", "insert"} => v = wver',
         op = "delete" => g = wold' \ {wver'},
         op \in StoreOps => Ready(op)'
  PROVE  JobInv' /\ OrphanInv' /\ ReleaseInv' /\ ReadyInv'
<1>. DEFINE e == Job("writer", op, v, g)
<1>1. e \in Entry /\ e.by = "writer" /\ e.op = op /\ e.ver = v /\ e.gone = g
  BY JobType DEF Callers, Job
<1>. HIDE DEF e
<1>2. queue' = Append(q, e)
  BY DEF e
<1>3. \A i \in DOMAIN queue : queue[i].op # "disconnect"
  BY NoDisconnect DEF EventLoopFree, Blocking
<1>4. JobInv'
  BY <1>1, <1>2, <1>3, JobsPushed
<1>5. reply'["writer"] = "wait"
  BY DEF TypeOK, Callers
<1>6. OrphanInv'
  <2>1. \A i \in DOMAIN queue' :
           \/ i \in DOMAIN q /\ queue'[i] = q[i]
           \/ i = Len(q) + 1 /\ queue'[i] = e
    BY <1>1, <1>2, PushQueue
  <2>2. \A i \in DOMAIN queue' : queue'[i].op \in StoreOps /\ queue'[i].by = "nobody" =>
          i \in DOMAIN queue /\ queue[i].by = "writer" /\ queue'[i] = q[i]
    BY <1>1, <2>1
  <2>3. Consistent(work) => Consistent(work)'
    BY DEF Consistent
  <2>4. ASSUME NEW i \in DOMAIN queue', queue'[i].op \in StoreOps, queue'[i].by = "nobody"
        PROVE  /\ i = 1
               /\ wpc' = "rollback" /\ reply'["writer"] = "wait"
               /\ queue'[i].op # "begin" => tx' # "none"
               /\ queue'[i].op = "commit" => Consistent(work)'
    BY <1>5, <2>2, <2>3, <2>4
  <2>. QED
    BY <2>4 DEF OrphanInv
<1>7. ReleaseInv'
  BY DEF ReleaseInv, AfterRelease, FlagInv
<1>8. ReadyInv'
  BY <1>5 DEF ReadyInv
<1>. QED
  BY <1>4, <1>6, <1>7, <1>8

\* The writer stops, and waits for nothing.
LEMMA WriterStops ==
  ASSUME TypeOK, JobInv, ReleaseInv, UNCHANGED <<scan, released>>, EventLoopFree,
         reply' = [reply EXCEPT !["writer"] = "none"],
         DOMAIN queue' = DOMAIN queue,
         \A i \in DOMAIN queue : queue[i].op \in StoreOps => queue[i].by # "nobody",
         \A i \in DOMAIN queue :
           \/ queue'[i] = queue[i] /\ queue[i].by # "writer"
           \/ queue'[i].by = "nobody" /\ queue'[i].op = "skip"
  PROVE  JobInv' /\ OrphanInv' /\ ReleaseInv' /\ ReadyInv'
<1>1. reply'["writer"] = "none"
  BY DEF TypeOK, Callers
<1>2. JobInv'
  BY JobsRelabelled
<1>3. OrphanInv'
  BY DEF OrphanInv, StoreOps
<1>4. ReleaseInv' /\ ReadyInv'
  BY <1>1 DEF ReleaseInv, ReadyInv
<1>. QED
  BY <1>2, <1>3, <1>4

\* A store that is given up submits its rollback or is refused.
LEMMA WriterRollsBack ==
  ASSUME TypeOK, FlagInv, CallerInv, JobInv, OrphanInv, ReleaseInv, EventLoopFree,
         UNCHANGED <<scan, released, tx, work>>,
         NEW q \in Seq(Entry), DOMAIN q = DOMAIN queue, RollBack(q),
         \A i \in DOMAIN queue : queue[i].op \in StoreOps => queue[i].by # "nobody",
         \A i \in DOMAIN queue : queue[i].by # "writer" => q[i] = queue[i],
         \/ \A i \in DOMAIN queue : queue[i].by = "writer" => q[i].by = "nobody" /\ q[i].op = "skip"
         \/ /\ rustFlag = "set" => \A i \in DOMAIN queue : queue[i].by # "writer"
            /\ compFlag = "clear"
            /\ \A i \in DOMAIN queue : queue[i].by = "writer" =>
                 /\ q[i].by = "nobody" /\ q[i].op \in StoreOps /\ i = 1
                 /\ q[i].op # "begin" => tx # "none"
                 /\ q[i].op = "commit" => Consistent(work)
  PROVE  JobInv' /\ OrphanInv' /\ ReleaseInv' /\ ReadyInv'
<1>1. CASE /\ rustFlag = "clear" /\ wpc' = "rollback"
           /\ queue' = Append(q, Job("writer", "rollback", NoVersion, {}))
           /\ reply' = [reply EXCEPT !["writer"] = "wait"]
  <2>1. /\ "rollback" \in Ops \ {"disconnect"} /\ "rollback" \notin StoreOps
        /\ NoVersion \in Versions \cup {NoVersion} /\ {} \in SUBSET Versions
        /\ "rollback" \notin {"record", "insert"} /\ "rollback" # "delete"
    BY DEF Ops, StoreOps
  <2>2. \A i \in DOMAIN queue : queue[i].by = "writer" =>
           /\ q[i].by = "nobody" /\ q[i].op \notin {"disconnect", "rollback"}
           /\ q[i].op \in StoreOps =>
                /\ i = 1
                /\ q[i].op # "begin" => tx # "none"
                /\ q[i].op = "commit" => Consistent(work)
    BY DEF StoreOps
  <2>. QED
    BY <1>1, <2>1, <2>2, WriterSubmits
<1>2. CASE /\ ~ Guard /\ wpc' = "idle" /\ queue' = q
           /\ reply' = [reply EXCEPT !["writer"] = "none"]
  <2>1. \A i \in DOMAIN queue : queue[i].by = "writer" => q[i].by = "nobody" /\ q[i].op = "skip"
    BY <1>2 DEF Guard, TypeOK
  <2>. QED
    BY <1>2, <2>1, WriterStops
<1>. QED
  BY <1>1, <1>2 DEF RollBack

\* No step of the writer tears a store.
LEMMA StoreWriter ==
  ASSUME TypeOK, FlagInv, CallerInv, StoreInv, releaseFailed = "no", ExecutorAssumption,
         \/ \E v \in Versions : StoreBegins(v)
         \/ WriterSteps \/ StoreIsCancelled \/ RemoveBegins
  PROVE  Consistent(disk)' /\ JobInv' /\ OrphanInv' /\ ReleaseInv' /\ ReadyInv'
<1>. USE DEF conns, flags, db, writer, scanner, workers, history, bounds
<1>0. Consistent(disk) /\ JobInv /\ OrphanInv /\ ReleaseInv /\ ReadyInv
  BY DEF StoreInv
<1>1. UNCHANGED <<scan, released, tx, work, disk>> /\ EventLoopFree
  BY DEF WriterSteps, StoreBegins, StoreContinues, StoreEnds, StoreFails, RemoveEnds,
     StoreIsCancelled, RemoveBegins
<1>2. Consistent(disk)'
  BY <1>0, <1>1 DEF Consistent
<1>3. /\ "writer" \in Callers /\ StoreOps \subseteq Ops \ {"disconnect"}
      /\ {"begin", "remove", "compact"} \subseteq Ops \ {"disconnect"}
      /\ {} \in SUBSET Versions /\ NoVersion \in Versions \cup {NoVersion}
      /\ queue \in Seq(Entry)
  BY DEF Callers, Ops, StoreOps, TypeOK
<1>4. reply["writer"] # "wait" => \A i \in DOMAIN queue : queue[i].by # "writer"
  BY DEF CallerInv
<1>5. wpc # "rollback" \/ reply["writer"] # "wait" =>
        \A i \in DOMAIN queue : queue[i].op \in StoreOps => queue[i].by # "nobody"
  BY <1>0 DEF OrphanInv
<1>6. ASSUME NEW v \in Versions, StoreBegins(v)
      PROVE  JobInv' /\ OrphanInv' /\ ReleaseInv' /\ ReadyInv'
  <2>1. /\ queue' = Append(queue, Job("writer", "begin", NoVersion, {}))
        /\ reply' = [reply EXCEPT !["writer"] = "wait"]
        /\ wpc' = "begin" /\ wpc = "idle" /\ rustFlag = "clear"
    BY <1>6 DEF StoreBegins, Submit, Guard
  <2>2. reply["writer"] # "wait"
    BY <2>1 DEF CallerInv
  <2>3. Ready("begin")'
    BY DEF Ready
  <2>4. "begin" \notin {"record", "insert"} /\ "begin" # "delete"
    OBVIOUS
  <2>. QED
    BY <1>0, <1>1, <1>3, <1>4, <1>5, <2>1, <2>2, <2>3, <2>4, WriterSubmits
<1>7. ASSUME RemoveBegins
      PROVE  JobInv' /\ OrphanInv' /\ ReleaseInv' /\ ReadyInv'
  <2>1. /\ queue' = Append(queue, Job("writer", "remove", NoVersion, {}))
        /\ reply' = [reply EXCEPT !["writer"] = "wait"]
        /\ wpc' = "remove" /\ wpc = "idle" /\ rustFlag = "clear"
    BY <1>7 DEF RemoveBegins, Submit, Guard
  <2>2. reply["writer"] # "wait"
    BY <2>1 DEF CallerInv
  <2>3. "remove" \notin StoreOps \cup {"record", "insert"} /\ "remove" # "delete"
    BY DEF StoreOps
  <2>. QED
    BY <1>0, <1>1, <1>3, <1>4, <1>5, <2>1, <2>2, <2>3, WriterSubmits
<1>8. ASSUME RemoveEnds
      PROVE  JobInv' /\ OrphanInv' /\ ReleaseInv' /\ ReadyInv'
  <2>0. reply["writer"] # "wait"
    BY <1>8 DEF RemoveEnds
  <2>1. CASE /\ Guard /\ wpc' = "compact" /\ Submit("writer", "compact", NoVersion, {})
    <3>1. /\ queue' = Append(queue, Job("writer", "compact", NoVersion, {}))
          /\ reply' = [reply EXCEPT !["writer"] = "wait"]
          /\ wpc' = "compact" /\ rustFlag = "clear"
      BY <2>1 DEF Submit, Guard
    <3>2. "compact" \notin StoreOps \cup {"record", "insert"} /\ "compact" # "delete"
      BY DEF StoreOps
    <3>. QED
      BY <1>0, <1>1, <1>3, <1>4, <1>5, <2>0, <3>1, <3>2, WriterSubmits
  <2>2. CASE /\ wpc' = "idle" /\ UNCHANGED queue
             /\ reply' = [reply EXCEPT !["writer"] = "none"]
    BY <1>0, <1>1, <1>4, <1>5, <2>0, <2>2, WriterStops
  <2>. QED
    BY <1>8, <2>1, <2>2 DEF RemoveEnds
<1>9. ASSUME StoreContinues
      PROVE  JobInv' /\ OrphanInv' /\ ReleaseInv' /\ ReadyInv'
  <2>. DEFINE v == IF NextOp \in {"record", "insert"} THEN wver ELSE NoVersion
              g == IF NextOp = "delete" THEN wold \ {wver} ELSE {}
  <2>1. /\ queue' = Append(queue, Job("writer", NextOp, v, g))
        /\ reply' = [reply EXCEPT !["writer"] = "wait"]
        /\ wpc' = NextOp /\ rustFlag = "clear" /\ reply["writer"] # "wait"
    BY <1>9 DEF StoreContinues, Submit, Guard
  <2>2. v \in Versions \cup {NoVersion} /\ g \in SUBSET Versions
    BY DEF TypeOK
  <2>3. /\ NextOp \in {"record", "insert"} => v = wver'
        /\ NextOp = "delete" => g = wold' \ {wver'}
    BY <1>9 DEF StoreContinues
  <2>. HIDE DEF v, g
  <2>4. NextOp \in StoreOps
    BY <1>9, NextOpType DEF StoreContinues
  <2>5. ~ CutOff
    BY <2>1 DEF CutOff, FlagInv
  <2>6. Ready(NextOp)
    BY <1>0, <1>9, <2>5 DEF ReadyInv, StoreContinues
  <2>7. ASSUME NEW op, op = NextOp PROVE Ready(op)'
    <3>1. /\ wver' = wver /\ (op = "record" => wseen' = wseen) /\ (op = "delete" => wold' = wold)
      BY <1>9, <2>7 DEF StoreContinues
    <3>2. Ready(op)
      BY <2>6, <2>7
    <3>. QED
      BY <1>1, <3>1, <3>2 DEF Ready, Consistent
  <2>8. \E op \in Ops \ {"disconnect"} : op = NextOp
    BY <1>3, <2>4
  <2>9. PICK op \in Ops \ {"disconnect"} : op = NextOp
    BY <2>8
  <2>10. Ready(op)'
    BY <2>7, <2>9
  <2>11. /\ queue' = Append(queue, Job("writer", op, v, g)) /\ wpc' = op
         /\ op \in {"record", "insert"} => v = wver'
         /\ op = "delete" => g = wold' \ {wver'}
    BY <2>1, <2>3, <2>9
  <2>. QED
    BY <1>0, <1>1, <1>3, <1>4, <1>5, <2>1, <2>2, <2>10, <2>11, WriterSubmits
<1>10. ASSUME StoreEnds
       PROVE  JobInv' /\ OrphanInv' /\ ReleaseInv' /\ ReadyInv'
  <2>1. /\ reply["writer"] # "wait" /\ UNCHANGED queue
        /\ reply' = [reply EXCEPT !["writer"] = "none"]
    BY <1>10 DEF StoreEnds
  <2>. QED
    BY <1>0, <1>1, <1>4, <1>5, <2>1, WriterStops
<1>11. ASSUME StoreFails
       PROVE  JobInv' /\ OrphanInv' /\ ReleaseInv' /\ ReadyInv'
  <2>1. reply["writer"] # "wait" /\ RollBack(queue)
    BY <1>11 DEF StoreFails
  <2>. QED
    BY <1>0, <1>1, <1>3, <1>4, <1>5, <2>1, WriterRollsBack
<1>12. ASSUME StoreIsCancelled
       PROVE  JobInv' /\ OrphanInv' /\ ReleaseInv' /\ ReadyInv'
  <2>1. wpc # "rollback" /\ wpc \in StoreOps
    BY <1>12 DEF StoreIsCancelled, StoreOps
  <2>2. CASE RollBack(Cancelled("writer"))
    <3>1. /\ Cancelled("writer") \in Seq(Entry) /\ DOMAIN Cancelled("writer") = DOMAIN queue
          /\ \A i \in DOMAIN queue :
              /\ queue[i].by # "writer" => Cancelled("writer")[i] = queue[i]
              /\ queue[i].by = "writer" => Cancelled("writer")[i].by = "nobody"
                                           /\ Cancelled("writer")[i].op = "skip"
      BY <1>3, CancelledQueue
    <3>. QED
      BY <1>0, <1>1, <1>5, <2>1, <2>2, <3>1, WriterRollsBack
  <2>3. CASE queue # <<>> /\ comp = "none" /\ Running.by = "writer" /\ RollBack(Abandoned("writer"))
    <3>1. 1 \in DOMAIN queue /\ queue[1].by = "writer" /\ queue[1].op = wpc /\ reply["writer"] = "wait"
      BY <1>3, <2>3, PopQueue DEF Running, CallerInv
    <3>2. rustFlag = "clear" /\ compFlag = "clear"
      BY <1>0, <1>1, <2>3, <3>1 DEF FlagInv, TypeOK, ReleaseInv, AfterRelease, EventLoopFree, Blocking
    <3>3. Ready(wpc)
      BY <1>0, <2>1, <3>1 DEF ReadyInv
    <3>4. wpc # "begin" => tx # "none"
      BY <3>3 DEF Ready
    <3>5. wpc = "commit" => Consistent(work)
      BY <3>3 DEF Ready, Consistent
    <3>6. /\ Abandoned("writer") \in Seq(Entry) /\ DOMAIN Abandoned("writer") = DOMAIN queue
          /\ \A i \in DOMAIN queue :
              queue[i].by = "writer" => Abandoned("writer")[i].by = "nobody"
                                        /\ Abandoned("writer")[i].op = queue[i].op
      BY <1>3, AbandonedQueue
    <3>9. \A i \in DOMAIN queue : queue[i].by # "writer" => Abandoned("writer")[i] = queue[i]
      BY DEF Abandoned
    <3>7. \A i \in DOMAIN queue : queue[i].by = "writer" => i = 1
      BY <3>1 DEF CallerInv
    <3>8. \A i \in DOMAIN queue : queue[i].by = "writer" =>
            /\ Abandoned("writer")[i].by = "nobody" /\ Abandoned("writer")[i].op \in StoreOps /\ i = 1
            /\ Abandoned("writer")[i].op # "begin" => tx # "none"
            /\ Abandoned("writer")[i].op = "commit" => Consistent(work)
      BY <2>1, <3>1, <3>4, <3>5, <3>6, <3>7
    <3>. QED
      BY <1>0, <1>1, <1>5, <2>1, <2>3, <3>2, <3>6, <3>8, <3>9, WriterRollsBack
  <2>. QED
    BY <1>12, <2>2, <2>3 DEF StoreIsCancelled
<1>. QED
  BY <1>2, <1>6, <1>7, <1>8, <1>9, <1>10, <1>11, <1>12 DEF WriterSteps

\* A caller other than the writer submits or abandons an operation; the store
\* does not notice.
LEMMA StoreAside ==
  ASSUME JobInv, OrphanInv, ReadyInv, NEW e \in Entry, queue \in Seq(Entry),
         queue' = Append(queue, e), e.by \notin {"writer", "nobody"},
         e.op = "disconnect" => e.by = "scan", e.op # "rollback",
         UNCHANGED <<wpc, wver, wseen, wold, tx, work>>, reply'["writer"] = reply["writer"],
         CutOff => CutOff'
  PROVE  JobInv' /\ OrphanInv' /\ ReadyInv'
<1>1. JobInv'
  BY JobsPushed
<1>2. \A i \in DOMAIN queue' : \/ i \in DOMAIN queue /\ queue'[i] = queue[i]
                               \/ queue'[i] = e
  BY PushQueue
<1>3. OrphanInv'
  BY <1>2 DEF OrphanInv, Consistent
<1>4. ReadyInv'
  BY ReadySame
<1>. QED
  BY <1>1, <1>3, <1>4

LEMMA StoreAbandoned ==
  ASSUME JobInv, OrphanInv, ReadyInv, queue \in Seq(Entry), NEW c \in Callers, c # "writer",
         queue' = Abandoned(c),
         \A i \in DOMAIN queue :
           queue[i].by = c => queue[i].op \notin StoreOps \cup {"disconnect", "rollback"},
         UNCHANGED <<wpc, wver, wseen, wold, tx, work>>, reply'["writer"] = reply["writer"],
         CutOff => CutOff'
  PROVE  JobInv' /\ OrphanInv' /\ ReadyInv'
<1>1. /\ DOMAIN queue' = DOMAIN queue
      /\ \A i \in DOMAIN queue : queue[i].by = c => queue'[i].by = "nobody" /\ queue'[i].op = queue[i].op
  BY AbandonedQueue
<1>2. \A i \in DOMAIN queue : queue[i].by # c => queue'[i] = queue[i]
  BY DEF Abandoned
<1>3. JobInv'
  BY <1>1, <1>2, JobsRelabelled
<1>4. OrphanInv'
  <2>1. Consistent(work) => Consistent(work)'
    BY DEF Consistent
  <2>. QED
    BY <1>1, <1>2, <2>1 DEF OrphanInv
<1>5. ReadyInv'
  BY ReadySame
<1>. QED
  BY <1>3, <1>4, <1>5

\* The scan moves on and leaves the queue and the writer alone.
LEMMA StoreQuiet ==
  ASSUME JobInv, OrphanInv, ReadyInv, UNCHANGED <<queue, wpc, wver, wseen, wold, tx, work>>,
         reply'["writer"] = reply["writer"], CutOff => CutOff'
  PROVE  JobInv' /\ OrphanInv' /\ ReadyInv'
<1>0. Consistent(work) => Consistent(work)'
  BY DEF Consistent
<1>1. JobInv' /\ OrphanInv'
  BY <1>0 DEF JobInv, OrphanInv
<1>. QED
  BY <1>1, ReadySame

LEMMA StoreScan ==
  ASSUME TypeOK, FlagInv, CallerInv, StoreInv, releaseFailed' = "no", releaseFailed = "no",
         ScanPublishes \/ ScanSteps \/ ScanTimesOut
  PROVE  Consistent(disk)' /\ JobInv' /\ OrphanInv' /\ ReleaseInv' /\ ReadyInv'
<1>. USE DEF conns, flags, db, writer, scanner, workers, history, bounds
<1>0. Consistent(disk) /\ JobInv /\ OrphanInv /\ ReleaseInv /\ ReadyInv
  BY DEF StoreInv
<1>1. /\ "scan" \in Callers /\ "writer" \in Callers /\ queue \in Seq(Entry)
      /\ "disconnect" \in Ops /\ "connect" \in Ops
      /\ {} \in SUBSET Versions /\ NoVersion \in Versions \cup {NoVersion}
  BY DEF Callers, TypeOK, Ops
<1>2. UNCHANGED <<wpc, wver, wseen, wold, tx, work>> /\ reply'["writer"] = reply["writer"]
  BY <1>1 DEF ScanPublishes, ScanSteps, ScanTimesOut, ScanReleases, ScanReleased, ScanCloses,
     ScanRaises, RustFinishes, ScanTakesBack, ScanConnects, ScanOpens, ScanAttaches, ScanAttached, Submit,
     TypeOK
<1>a. ~ ScanRaises
  BY DEF ScanRaises
<1>3. Consistent(disk)'
  <2>1. CASE RustFinishes
    <3>1. CASE disk' = disk
      BY <1>0, <3>1 DEF Consistent
    <3>2. CASE \E v \in Versions : disk' = [rec |-> v, chunks |-> {v}]
      BY <3>2, ExecutorAssumption DEF Consistent, ExecutorAssumption
    <3>. QED
      BY <2>1, <3>1, <3>2 DEF RustFinishes
  <2>2. CASE UNCHANGED disk
    BY <1>0, <2>2 DEF Consistent
  <2>. QED
    BY <1>a, <2>1, <2>2 DEF ScanPublishes, ScanSteps, ScanTimesOut, ScanReleases, ScanReleased, ScanCloses,
       ScanTakesBack, ScanConnects, ScanOpens, ScanAttaches, ScanAttached
<1>4. released = "ok" /\ (AfterRelease => reply["writer"] # "wait")
  BY <1>0 DEF ReleaseInv
<1>5. ReleaseInv'
  <2>1. released' = "ok"
    BY <1>4 DEF ScanPublishes, ScanSteps, ScanTimesOut, ScanReleases, ScanReleased, ScanCloses,
       ScanRaises, RustFinishes, ScanTakesBack, ScanConnects, ScanOpens, ScanAttaches, ScanAttached, ScanEnds
  <2>2. AfterRelease' => AfterRelease
    BY <1>1, <1>4 DEF ScanPublishes, ScanSteps, ScanTimesOut, ScanReleases, ScanReleased, ScanCloses,
       ScanRaises, RustFinishes, ScanTakesBack, ScanConnects, ScanOpens, ScanAttaches, ScanAttached, ScanEnds,
       AfterRelease, Submit, TypeOK
  <2>. QED
    BY <1>2, <1>4, <2>1, <2>2 DEF ReleaseInv
<1>6. CASE ScanTakesBack
  <2>1. reply["writer"] \notin {"ok", "error", "wait"} /\ UNCHANGED queue
    BY <1>4, <1>6 DEF ScanTakesBack, AfterRelease
  <2>2. ReadyInv'
    BY <1>2, <2>1 DEF ReadyInv
  <2>3. JobInv' /\ OrphanInv'
    BY <1>0, <1>2, <2>1 DEF JobInv, OrphanInv, Consistent
  <2>. QED
    BY <1>3, <1>5, <2>2, <2>3
<1>7. ~ ScanTakesBack => (CutOff => CutOff')
  BY <1>a, <1>2, <1>4 DEF ScanPublishes, ScanSteps, ScanTimesOut, ScanReleases, ScanReleased, ScanCloses,
     RustFinishes, ScanConnects, ScanOpens, ScanAttaches, ScanAttached, ScanEnds, CutOff
<1>8. CASE ~ ScanTakesBack /\ UNCHANGED queue
  BY <1>0, <1>2, <1>3, <1>5, <1>7, <1>8, StoreQuiet
<1>9. ASSUME ~ ScanTakesBack, NEW op \in {"connect", "disconnect"},
             Submit("scan", op, NoVersion, {})
      PROVE  JobInv' /\ OrphanInv' /\ ReadyInv'
  <2>. DEFINE e == Job("scan", op, NoVersion, {})
  <2>1. e \in Entry /\ e.by = "scan" /\ e.op = op
    BY <1>1, JobType DEF Job
  <2>2. queue' = Append(queue, e)
    BY <1>9 DEF Submit
  <2>. HIDE DEF e
  <2>. QED
    BY <1>0, <1>1, <1>2, <1>7, <1>9, <2>1, <2>2, StoreAside
<1>10. CASE ~ ScanTakesBack /\ ScanTimesOut
  <2>1. scan = "attaching" /\ queue' = Abandoned("scan")
    BY <1>10 DEF ScanTimesOut
  <2>2. \A i \in DOMAIN queue :
          queue[i].by = "scan" => queue[i].op \notin StoreOps \cup {"disconnect", "rollback"}
    BY <2>1 DEF CallerInv, StoreOps
  <2>3. JobInv' /\ OrphanInv' /\ ReadyInv'
    BY <1>0, <1>1, <1>2, <1>7, <1>10, <2>1, <2>2, StoreAbandoned
  <2>. QED
    BY <1>3, <1>5, <2>3
<1>11. \/ ScanTakesBack \/ UNCHANGED queue \/ ScanTimesOut
       \/ \E op \in {"connect", "disconnect"} : Submit("scan", op, NoVersion, {})
  BY <1>a DEF ScanPublishes, ScanSteps, ScanReleases, ScanReleased, ScanCloses,
     RustFinishes, ScanConnects, ScanOpens, ScanAttaches, ScanAttached
<1>. QED
  BY <1>3, <1>5, <1>6, <1>8, <1>9, <1>10, <1>11

LEMMA StoreThread ==
  ASSUME TypeOK, CallerInv, StoreInv, releaseFailed = "no", ExecutorAssumption,
         NEW t \in Threads, ThreadSteps(t)
  PROVE  Consistent(disk)' /\ JobInv' /\ OrphanInv' /\ ReleaseInv' /\ ReadyInv'
<1>. USE DEF conns, flags, db, writer, scanner, workers, history, bounds
<1>0. Consistent(disk) /\ JobInv /\ OrphanInv /\ ReleaseInv /\ ReadyInv
  BY DEF StoreInv
<1>1. /\ t \in Callers /\ t # "writer" /\ t # "scan" /\ t # "nobody" /\ queue \in Seq(Entry)
      /\ {"embed", "compact", "connect"} \subseteq Ops
      /\ {} \in SUBSET Versions /\ NoVersion \in Versions \cup {NoVersion}
      /\ "writer" \in Callers /\ "scan" \in Callers
  BY ExecutorAssumption DEF ExecutorAssumption, Callers, TypeOK, Ops
<1>2. /\ UNCHANGED <<disk, wpc, wver, wseen, wold, tx, work, scan, released>>
      /\ reply'["writer"] = reply["writer"] /\ reply'["scan"] = reply["scan"]
  BY <1>1 DEF ThreadSteps, ThreadChecks, ThreadIsRefused, ThreadOpens, ThreadSubmits,
     ThreadReturns, ThreadTimesOut, Submit, TypeOK
<1>3. Consistent(disk)' /\ ReleaseInv' /\ (CutOff => CutOff')
  BY <1>0, <1>2 DEF Consistent, ReleaseInv, AfterRelease, CutOff
<1>4. CASE UNCHANGED queue
  BY <1>0, <1>2, <1>3, <1>4, StoreQuiet
<1>5. CASE ThreadSubmits(t)
  <2>. DEFINE e == Job(t, top[t], NoVersion, {})
  <2>0. top[t] \in {"embed", "compact", "connect"}
    BY DEF TypeOK
  <2>1. e \in Entry /\ e.by = t /\ e.op \in {"embed", "compact", "connect"}
    BY <1>1, <2>0, JobType DEF Job
  <2>2. queue' = Append(queue, e)
    BY <1>5 DEF ThreadSubmits, Submit
  <2>. HIDE DEF e
  <2>. QED
    BY <1>0, <1>1, <1>2, <1>3, <2>1, <2>2, StoreAside
<1>6. CASE ThreadTimesOut(t)
  <2>1. queue' = Abandoned(t)
    BY <1>6 DEF ThreadTimesOut
  <2>2. \A i \in DOMAIN queue :
          queue[i].by = t => queue[i].op \notin StoreOps \cup {"disconnect", "rollback"}
    BY DEF CallerInv, StoreOps
  <2>. QED
    BY <1>0, <1>1, <1>2, <1>3, <2>1, <2>2, StoreAbandoned
<1>. QED
  BY <1>4, <1>5, <1>6 DEF ThreadSteps, ThreadChecks, ThreadIsRefused, ThreadOpens, ThreadReturns

\* The head of the queue is answered.
LEMMA StoreAnswer ==
  ASSUME TypeOK, CallerInv, JobInv, OrphanInv, ReleaseInv, ExecutorAssumption,
         queue # <<>>, NEW r \in {"ok", "error"}, Answer(r),
         UNCHANGED <<wpc, wver, scan, released>>,
         wold' = wold \/ wpc # "delete"
  PROVE  /\ JobInv' /\ OrphanInv' /\ ReleaseInv'
         /\ reply'["writer"] = IF queue[1].by = "writer" THEN r ELSE reply["writer"]
<1>1. /\ queue \in Seq(Entry) /\ queue' = Tail(queue) /\ Running = queue[1] /\ 1 \in DOMAIN queue
      /\ "writer" \in Callers /\ "scan" \in Callers
  BY PopQueue DEF TypeOK, Answer, Running, Callers
<1>2. \A i \in DOMAIN queue' : i + 1 \in DOMAIN queue /\ queue'[i] = queue[i + 1] /\ i \in Nat /\ i > 0
  BY <1>1, PopQueue
<1>3. \A c \in Callers : reply'[c] = IF queue[1].by = c THEN r ELSE reply[c]
  BY <1>1 DEF Answer, TypeOK
<1>4. JobInv'
  <2>1. \A i \in DOMAIN queue' :
          /\ queue'[i].op = "disconnect" => queue'[i].by = "scan"
          /\ queue'[i].op = "rollback" => queue'[i].by = "writer"
          /\ queue'[i].by = "writer" /\ queue'[i].op \in {"record", "insert"} => queue'[i].ver = wver'
    BY <1>2 DEF JobInv
  <2>2. \A i \in DOMAIN queue' :
          queue'[i].by = "writer" /\ queue'[i].op = "delete" => queue'[i].gone = wold' \ {wver'}
    BY <1>2 DEF JobInv, CallerInv
  <2>3. \A i, j \in DOMAIN queue' :
          queue'[i].op = "disconnect" /\ i < j => queue'[j].by # "writer"
    <3>. SUFFICES ASSUME NEW i \in DOMAIN queue', NEW j \in DOMAIN queue',
                         queue'[i].op = "disconnect", i < j
                  PROVE  queue'[j].by # "writer"
      OBVIOUS
    <3>1. /\ i + 1 \in DOMAIN queue /\ queue[i + 1].op = "disconnect" /\ i \in Nat
          /\ j + 1 \in DOMAIN queue /\ queue'[j] = queue[j + 1] /\ j \in Nat
      BY <1>2
    <3>2. i + 1 < j + 1
      BY <3>1
    <3>. QED
      BY <3>1, <3>2 DEF JobInv
  <2>. QED
    BY <2>1, <2>2, <2>3 DEF JobInv
<1>5. OrphanInv'
  <2>1. \A i \in DOMAIN queue' : ~ (queue'[i].op \in StoreOps /\ queue'[i].by = "nobody")
    <3>. SUFFICES ASSUME NEW i \in DOMAIN queue', queue'[i].op \in StoreOps, queue'[i].by = "nobody"
                  PROVE  FALSE
      OBVIOUS
    <3>1. i + 1 \in DOMAIN queue /\ queue'[i] = queue[i + 1] /\ i \in Nat /\ i > 0
      BY <1>2
    <3>2. i + 1 = 1
      BY <3>1 DEF OrphanInv
    <3>. QED
      BY <3>1, <3>2
  <2>. QED
    BY <2>1 DEF OrphanInv
<1>6. ReleaseInv'
  <2>1. AfterRelease => reply'["writer"] # "wait"
    BY <1>1, <1>3 DEF ReleaseInv
  <2>2. ASSUME AfterRelease', ~ AfterRelease PROVE reply'["writer"] # "wait"
    <3>1. scan = "releasing" /\ reply'["scan"] = "ok" /\ reply["scan"] # "ok"
      BY <2>2 DEF AfterRelease
    <3>2. queue[1].by = "scan"
      BY <1>1, <1>3, <3>1
    <3>3. queue[1].op = "disconnect"
      BY <1>1, <3>1, <3>2 DEF CallerInv
    <3>4. \A j \in DOMAIN queue : queue[j].by # "writer"
      <4>. SUFFICES ASSUME NEW j \in DOMAIN queue PROVE queue[j].by # "writer"
        OBVIOUS
      <4>1. j = 1 \/ 1 < j
        BY <1>1
      <4>. QED
        BY <1>1, <3>2, <3>3, <4>1 DEF JobInv
    <3>5. reply["writer"] # "wait"
      BY <3>4 DEF CallerInv
    <3>. QED
      BY <1>1, <1>3, <3>2, <3>5
  <2>. QED
    BY <2>1, <2>2 DEF ReleaseInv
<1>. QED
  BY <1>1, <1>3, <1>4, <1>5, <1>6

\* The transaction of a store after each of its operations.
LEMMA StoreOperation ==
  ASSUME TypeOK, Ready(wpc), Consistent(disk), queue \in Seq(Entry), queue # <<>>, comp = "none",
         ExecutorAssumption,
         wpc \in StoreOps, Running.op = wpc, Running.by = "writer",
         wpc \in {"record", "insert"} => Running.ver = wver,
         wpc = "delete" => Running.gone = wold \ {wver},
         wver # NoVersion, Executor
  PROVE  /\ Consistent(disk)'
         /\ ~ Answer("error") /\ wpc # "commit" => Ready(NextOp)'
<1>. USE DEF conns, flags, db, writer, scanner, workers, history, bounds
<1>1. CASE ExecBegin
  <2>1. wpc = "begin" /\ NextOp' = "lookup" /\ disk' = disk
    BY <1>1 DEF ExecBegin, Turn, NextOp
  <2>2. ~ Answer("error") => tx' # "none" /\ work' = disk
    BY <1>1 DEF ExecBegin
  <2>. QED
    BY <2>1, <2>2 DEF Ready, Consistent
<1>2. CASE ExecRead /\ wpc = "lookup"
  <2>1. /\ NextOp' = "record" /\ disk' = disk /\ tx' = tx /\ work' = work /\ tx # "none"
        /\ wseen' = IF work.rec # NoVersion THEN "old" ELSE "new"
    BY <1>2 DEF ExecRead, Turn, NextOp, Ready, Visible
  <2>. QED
    BY <1>2, <2>1 DEF Ready, Consistent
<1>3. CASE ExecRecord
  <2>1. /\ wpc = "record" /\ tx # "none" /\ disk' = disk /\ tx' = "dirty"
        /\ work' = [work EXCEPT !.rec = wver]
        /\ NextOp' = IF wseen = "old" THEN "chunks" ELSE "insert"
        /\ wver' = wver
    BY <1>3 DEF ExecRecord, Turn, NextOp, Ready, Visible, Change
  <2>2. work'.rec = wver /\ work'.chunks = work.chunks
    BY <2>1 DEF TypeOK, Rows
  <2>3. wseen # "old" => work.chunks = {}
    BY <2>1 DEF Ready, Consistent, TypeOK
  <2>. QED
    BY <2>1, <2>2, <2>3 DEF Ready, Consistent
<1>4. CASE ExecRead /\ wpc = "chunks"
  <2>1. /\ disk' = disk /\ tx' = tx /\ work' = work /\ tx # "none" /\ wver' = wver
        /\ wold' = work.chunks /\ wpc' = "chunks" /\ work.rec = wver
    BY <1>4 DEF ExecRead, Turn, Ready, Visible
  <2>2. NextOp' = IF work.chunks \ {wver} # {} THEN "delete"
                  ELSE IF wver \in work.chunks THEN "commit" ELSE "insert"
    BY <2>1 DEF NextOp
  <2>3. CASE work.chunks \ {wver} # {}
    BY <2>1, <2>2, <2>3 DEF Ready, Consistent
  <2>4. CASE work.chunks \ {wver} = {}
    <3>1. work.chunks \subseteq {wver} /\ (wver \in work.chunks => work.chunks = {wver})
      BY <2>4
    <3>. QED
      BY <2>1, <2>2, <2>4, <3>1 DEF Ready, Consistent
  <2>. QED
    BY <2>3, <2>4
<1>5. CASE ExecDelete
  <2>1. /\ wpc = "delete" /\ tx # "none" /\ disk' = disk /\ tx' = "dirty"
        /\ work' = [work EXCEPT !.chunks = work.chunks \ (wold \ {wver})]
        /\ NextOp' = IF wver \in wold THEN "commit" ELSE "insert"
        /\ wver' = wver
    BY <1>5 DEF ExecDelete, Turn, NextOp, Ready, Visible, Change
  <2>2. work'.rec = wver /\ work'.chunks = wold \ (wold \ {wver})
    BY <2>1 DEF TypeOK, Rows, Ready
  <2>3. work'.chunks = IF wver \in wold THEN {wver} ELSE {}
    BY <2>2
  <2>. QED
    BY <2>1, <2>2, <2>3 DEF Ready, Consistent
<1>6. CASE ExecInsert
  <2>1. /\ wpc = "insert" /\ tx # "none" /\ disk' = disk /\ tx' = "dirty"
        /\ work' = [work EXCEPT !.chunks = work.chunks \cup {wver}]
        /\ NextOp' = "commit"
        /\ wver' = wver
    BY <1>6 DEF ExecInsert, Turn, NextOp, Ready, Visible, Change
  <2>2. work'.rec = wver /\ work'.chunks = {wver}
    BY <2>1 DEF TypeOK, Rows, Ready
  <2>. QED
    BY <2>1, <2>2 DEF Ready, Consistent
<1>7. CASE ExecCommit
  <2>1. wpc = "commit" /\ disk' = work
    BY <1>7 DEF ExecCommit, Turn, Ready
  <2>. QED
    BY <2>1 DEF Ready, Consistent
<1>8. CASE ExecFails
  BY <1>8 DEF ExecFails, Consistent
<1>. QED
  BY <1>1, <1>2, <1>3, <1>4, <1>5, <1>6, <1>7, <1>8 DEF Executor, ExecSkip, ExecRead, ExecRollback,
     ExecRemove, ExecEmbed, ExecConnect, ExecDisconnect, CompactSkips, CompactBegins,
     CompactReopens, CompactEnds, Turn, StoreOps

\* No step of the database thread tears a store.
LEMMA StoreExecutor ==
  ASSUME TypeOK, FlagInv, CallerInv, StoreInv, releaseFailed = "no", ExecutorAssumption, Executor
  PROVE  Consistent(disk)' /\ JobInv' /\ OrphanInv' /\ ReleaseInv' /\ ReadyInv'
<1>. USE DEF conns, flags, db, writer, scanner, workers, history, bounds
<1>0. Consistent(disk) /\ JobInv /\ OrphanInv /\ ReleaseInv /\ ReadyInv
  BY DEF StoreInv
<1>1. UNCHANGED <<wpc, wver, scan, released>> /\ (UNCHANGED <<wseen, wold>> \/ ExecRead)
  BY DEF Executor, ExecSkip, ExecBegin, ExecRead, ExecRecord, ExecDelete, ExecInsert,
     ExecCommit, ExecRollback, ExecRemove, ExecEmbed, ExecConnect, ExecDisconnect, ExecFails,
     CompactSkips, CompactBegins, CompactReopens, CompactEnds
<1>2. queue # <<>>
  BY DEF Executor, ExecSkip, ExecBegin, ExecRead, ExecRecord, ExecDelete, ExecInsert,
     ExecCommit, ExecRollback, ExecRemove, ExecEmbed, ExecConnect, ExecDisconnect, ExecFails,
     CompactSkips, CompactBegins, CompactReopens, CompactEnds, Turn, FlagInv
<1>3. /\ queue \in Seq(Entry) /\ 1 \in DOMAIN queue /\ Running = queue[1] /\ queue[1] \in Entry
      /\ "writer" \in Callers /\ "scan" \in Callers
  BY <1>2, PopQueue DEF TypeOK, Running, Callers
<1>4. CASE CompactBegins \/ CompactReopens
  <2>1. UNCHANGED <<queue, reply, disk>> /\ Running.op = "compact"
    BY <1>4 DEF CompactBegins, CompactReopens, Turn, FlagInv
  <2>2. (tx' = "none" <=> tx = "none") /\ (tx # "none" => work' = work)
    BY <1>4 DEF CompactBegins, CompactReopens, NoTransaction, TypeOK
  <2>3. OrphanInv'
    <3>1. \A i \in DOMAIN queue : ~ (queue[i].op \in StoreOps /\ queue[i].by = "nobody")
      BY <1>0, <1>3, <2>1 DEF OrphanInv, StoreOps
    <3>. QED
      BY <2>1, <3>1 DEF OrphanInv
  <2>4. CutOff => CutOff'
    BY <1>1, <2>2 DEF CutOff
  <2>5. UNCHANGED <<wseen, wold>>
    BY <1>4 DEF CompactBegins, CompactReopens
  <2>6. ReadyInv'
    BY <1>0, <1>1, <2>1, <2>2, <2>4, <2>5, ReadySame
  <2>. QED
    BY <1>0, <1>1, <2>1, <2>3, <2>5, <2>6 DEF Consistent, JobInv, ReleaseInv, AfterRelease
<1>5. Answer("ok") \/ Answer("error") \/ CompactBegins \/ CompactReopens
  BY DEF Executor, ExecSkip, ExecBegin, ExecRead, ExecRecord, ExecDelete, ExecInsert,
     ExecCommit, ExecRollback, ExecRemove, ExecEmbed, ExecConnect, ExecDisconnect, ExecFails,
     CompactSkips, CompactEnds
<1>6. queue[1].by = "writer" => queue[1].op = wpc /\ reply["writer"] = "wait"
  BY <1>3 DEF CallerInv
<1>7. queue[1].op \in StoreOps =>
        queue[1].by = "writer" \/ (queue[1].by = "nobody" /\ wpc = "rollback")
  <2>1. queue[1].by \in Callers \/ queue[1].by = "nobody"
    BY <1>3, JobOwner
  <2>. QED
    BY <1>0, <1>3, <2>1 DEF CallerInv, OrphanInv, Callers, StoreOps
<1>8. wold' = wold \/ wpc # "delete"
  BY <1>1, <1>3, <1>6, <1>7 DEF ExecRead, Turn, StoreOps
<1>9. ASSUME NEW r \in {"ok", "error"}, Answer(r)
      PROVE  /\ JobInv' /\ OrphanInv' /\ ReleaseInv'
             /\ reply'["writer"] = IF queue[1].by = "writer" THEN r ELSE reply["writer"]
  BY <1>0, <1>1, <1>2, <1>8, <1>9, StoreAnswer
<1>10. CASE queue[1].by = "writer" /\ queue[1].op \in StoreOps /\ (Answer("ok") \/ Answer("error"))
  <2>1. /\ wpc \in StoreOps /\ reply["writer"] = "wait" /\ Running.op = wpc /\ Running.by = "writer"
        /\ comp = "none"
    BY <1>3, <1>6, <1>10 DEF FlagInv, StoreOps
  <2>2. Ready(wpc) /\ wver # NoVersion
    BY <1>0, <2>1 DEF ReadyInv, CallerInv
  <2>3. /\ wpc \in {"record", "insert"} => Running.ver = wver
        /\ wpc = "delete" => Running.gone = wold \ {wver}
    BY <1>0, <1>3, <2>1 DEF JobInv
  <2>4. Consistent(disk)' /\ (~ Answer("error") /\ wpc # "commit" => Ready(NextOp)')
    BY <1>0, <1>2, <1>3, <2>1, <2>2, <2>3, StoreOperation
  <2>5. reply'["writer"] # "wait" /\ (reply'["writer"] = "ok" => ~ Answer("error"))
    BY <1>9, <1>10
  <2>6. ReadyInv'
    BY <1>1, <2>4, <2>5 DEF ReadyInv
  <2>. QED
    BY <1>9, <1>10, <2>4, <2>6
<1>11. CASE queue[1].by = "nobody" /\ queue[1].op \in StoreOps /\ (Answer("ok") \/ Answer("error"))
  <2>1. wpc = "rollback" /\ wpc' \notin StoreOps
    BY <1>1, <1>7, <1>11 DEF StoreOps
  <2>2. ReadyInv'
    BY <2>1 DEF ReadyInv
  <2>3. /\ queue[1].op # "begin" => tx # "none"
        /\ queue[1].op = "commit" => Consistent(work)
    BY <1>0, <1>3, <1>11 DEF OrphanInv
  <2>4. disk' = disk \/ (queue[1].op = "commit" /\ disk' = work)
    BY <1>3, <1>11, <2>3 DEF Executor, ExecSkip, ExecBegin, ExecRead, ExecRecord, ExecDelete,
       ExecInsert, ExecCommit, ExecRollback, ExecRemove, ExecEmbed, ExecConnect, ExecDisconnect,
       ExecFails, CompactSkips, CompactBegins, CompactReopens, CompactEnds, Turn, Change, StoreOps
  <2>5. Consistent(disk)'
    BY <1>0, <2>3, <2>4 DEF Consistent
  <2>. QED
    BY <1>9, <1>11, <2>2, <2>5
<1>12. CASE queue[1].op \notin StoreOps /\ (Answer("ok") \/ Answer("error"))
  <2>1. Consistent(disk)'
    <3>1. disk' = disk \/ disk' = NoRows
      BY <1>3, <1>12 DEF Executor, ExecSkip, ExecBegin, ExecRead, ExecRecord, ExecDelete,
         ExecInsert, ExecCommit, ExecRollback, ExecRemove, ExecEmbed, ExecConnect, ExecDisconnect,
         ExecFails, CompactSkips, CompactBegins, CompactReopens, CompactEnds, Turn, Change, StoreOps
    <3>. QED
      BY <1>0, <3>1 DEF Consistent, NoRows
  <2>2. CASE queue[1].by = "writer"
    <3>1. wpc' \notin StoreOps
      BY <1>1, <1>6, <1>12, <2>2
    <3>2. ReadyInv'
      BY <3>1 DEF ReadyInv
    <3>. QED
      BY <1>9, <1>12, <2>1, <3>2
  <2>3. CASE queue[1].by # "writer" /\ queue[1].op = "disconnect"
    <3>1. scan = "releasing" /\ \A j \in DOMAIN queue : queue[j].by # "writer"
      <4>1. queue[1].by = "scan"
        BY <1>0, <1>3, <2>3 DEF JobInv
      <4>2. scan = "releasing"
        BY <1>3, <2>3, <4>1 DEF CallerInv
      <4>3. ASSUME NEW j \in DOMAIN queue PROVE queue[j].by # "writer"
        <5>1. j = 1 \/ 1 < j
          BY <1>3
        <5>. QED
          BY <1>0, <1>3, <2>3, <5>1 DEF JobInv
      <4>. QED
        BY <4>2, <4>3
    <3>2. reply'["writer"] # "wait"
      BY <1>9, <1>12, <2>3, <3>1 DEF CallerInv
    <3>3. tx' = "none"
      BY <1>3, <1>12, <2>3 DEF FlagInv, Executor, ExecSkip, ExecBegin, ExecRead, ExecRecord,
         ExecDelete, ExecInsert, ExecCommit, ExecRollback, ExecRemove, ExecEmbed, ExecConnect,
         ExecDisconnect, ExecFails, CompactSkips, CompactBegins, CompactReopens, CompactEnds, Turn,
         NoTransaction
    <3>4. CutOff'
      BY <1>1, <3>1, <3>3 DEF CutOff
    <3>5. ReadyInv'
      BY <3>2, <3>4 DEF ReadyInv
    <3>. QED
      BY <1>9, <1>12, <2>1, <3>5
  <2>4. CASE queue[1].by # "writer" /\ queue[1].op # "disconnect"
    <3>1. queue[1].op # "rollback"
      BY <1>0, <1>3, <2>4 DEF JobInv
    <3>2. /\ tx' = "none" <=> tx = "none"
          /\ tx # "none" => work' = work
          /\ UNCHANGED <<wseen, wold>>
      BY <1>3, <1>12, <2>4, <3>1 DEF Executor, ExecSkip, ExecBegin, ExecRead, ExecRecord,
         ExecDelete, ExecInsert, ExecCommit, ExecRollback, ExecRemove, ExecEmbed, ExecConnect,
         ExecDisconnect, ExecFails, CompactSkips, CompactBegins, CompactReopens, CompactEnds, Turn,
         NoTransaction, Change, StoreOps, TypeOK
    <3>3. reply'["writer"] = reply["writer"]
      BY <1>9, <1>12, <2>4
    <3>4. CutOff => CutOff'
      BY <1>1, <3>2 DEF CutOff
    <3>5. ReadyInv'
      BY <1>0, <1>1, <3>2, <3>3, <3>4, ReadySame
    <3>. QED
      BY <1>9, <1>12, <2>1, <3>5
  <2>. QED
    BY <2>2, <2>3, <2>4
<1>. QED
  BY <1>4, <1>5, <1>7, <1>10, <1>11, <1>12

\* The invariant of the store is inductive relative to that of the hand-over.
LEMMA StoreStep ==
  ASSUME HandoverInv, StoreInv, [Next]_vars
  PROVE  StoreInv'
<1>. USE DEF conns, flags, db, writer, scanner, workers, history, bounds
<1>1. TypeOK /\ FlagInv /\ CallerInv
  BY DEF HandoverInv
<1>2. CASE Next
  <2>. SUFFICES ASSUME releaseFailed' = "no"
                PROVE  Consistent(disk)' /\ JobInv' /\ OrphanInv' /\ ReleaseInv' /\ ReadyInv'
    BY DEF StoreInv
  <2>1. CASE Executor
    <3>1. releaseFailed = "no"
      BY <2>1 DEF Executor, ExecSkip, ExecBegin, ExecRead, ExecRecord, ExecDelete, ExecInsert,
         ExecCommit, ExecRollback, ExecRemove, ExecEmbed, ExecConnect, ExecDisconnect, ExecFails,
         CompactSkips, CompactBegins, CompactReopens, CompactEnds
    <3>. QED
      BY <1>1, <2>1, <3>1, StoreExecutor, ExecutorAssumption
  <2>2. CASE (\E v \in Versions : StoreBegins(v)) \/ WriterSteps \/ StoreIsCancelled \/ RemoveBegins
    <3>1. releaseFailed = "no"
      BY <2>2 DEF WriterSteps, StoreBegins, StoreContinues, StoreEnds, StoreFails, RemoveEnds,
         StoreIsCancelled, RemoveBegins
    <3>. QED
      BY <1>1, <2>2, <3>1, StoreWriter, ExecutorAssumption
  <2>3. CASE ScanPublishes \/ ScanSteps \/ ScanTimesOut
    <3>1. releaseFailed = "no"
      BY <1>1, <2>3 DEF ScanPublishes, ScanSteps, ScanTimesOut, ScanReleases, ScanReleased, ScanCloses,
         ScanRaises, RustFinishes, ScanTakesBack, ScanConnects, ScanOpens, ScanAttaches, ScanAttached, TypeOK
    <3>. QED
      BY <1>1, <2>3, <3>1, StoreScan
  <2>4. ASSUME NEW t \in Threads, ThreadSteps(t)
        PROVE  Consistent(disk)' /\ JobInv' /\ OrphanInv' /\ ReleaseInv' /\ ReadyInv'
    <3>1. releaseFailed = "no"
      BY <2>4 DEF ThreadSteps, ThreadChecks, ThreadIsRefused, ThreadOpens, ThreadSubmits,
         ThreadReturns, ThreadTimesOut
    <3>. QED
      BY <1>1, <2>4, <3>1, StoreThread, ExecutorAssumption
  <2>. QED
    BY <1>2, <2>1, <2>2, <2>3, <2>4 DEF Next
<1>3. CASE UNCHANGED vars
  <2>1. UNCHANGED <<queue, reply, disk, work, tx, wpc, wver, wseen, wold, scan, released, releaseFailed>>
    BY <1>3 DEF vars
  <2>2. NextOp' = NextOp /\ (CutOff => CutOff')
    BY <2>1 DEF NextOp, CutOff
  <2>3. ReadyInv => ReadyInv'
    BY <2>1, <2>2, ReadySame
  <2>. QED
    BY <2>1, <2>3 DEF StoreInv, Consistent, JobInv, OrphanInv, ReleaseInv, AfterRelease
<1>. QED
  BY <1>2, <1>3

\* As long as every hand-over to the Rust pipeline has released the database
\* and awaited Rust, the database never shows half of a store, for any
\* versions, threads, faults, cancellations and timeouts.
THEOREM StoresAreAtomic == Spec => []StoreIsAtomic
<1>1. Init => StoreInv
  BY DEF Init, StoreInv, Consistent, NoRows, JobInv, OrphanInv, ReleaseInv, AfterRelease, ReadyInv,
     StoreOps
<1>2. HandoverInv /\ StoreInv /\ [Next]_vars => StoreInv'
  BY StoreStep
<1>3. StoreInv => StoreIsAtomic
  BY DEF StoreInv, StoreIsAtomic
<1>. QED
  BY <1>1, <1>2, <1>3, HandoverAlways, PTL DEF Spec

-----------------------------------------------------------------------------
(* The connection after a hand-over.                                       *)

\* Whoever closed the connection manager's connection is still about to open
\* it again: a compaction that has not reopened it, a scan before its open, or
\* a scan whose connect() was refused, which is on record until a later scan
\* has opened it.
ReconnectInv ==
  faults = 0 /\ cmConn = "closed" =>
    \/ comp = "closed"
    \/ scan \in {"running", "finished", "connect", "opening"}
    \/ reconnect = "refused" /\ scan \notin {"attach", "attaching"}

\* The invariant of the reconnect is inductive.
LEMMA ReconnectStep ==
  ASSUME TypeOK, ReconnectInv, [Next]_vars
  PROVE  ReconnectInv'
<1>. USE DEF conns, flags, db, writer, scanner, workers, history, bounds
<1>0. faults \in Nat
  BY DEF TypeOK
<1>1. ASSUME UNCHANGED <<cmConn, scan, reconnect>>, faults' = faults \/ faults' = faults + 1,
             comp' = comp \/ comp # "closed"
      PROVE  ReconnectInv'
  BY <1>0, <1>1 DEF ReconnectInv
<1>2. CASE Executor
  <2>1. CASE CompactBegins
    BY <2>1 DEF CompactBegins, ReconnectInv
  <2>2. CASE CompactReopens
    BY <1>0, <2>2 DEF CompactReopens, ReconnectInv
  <2>3. CASE CompactEnds
    BY <1>1, <2>3 DEF CompactEnds
  <2>4. CASE Executor /\ ~ CompactBegins /\ ~ CompactReopens /\ ~ CompactEnds
    <3>1. /\ UNCHANGED <<cmConn, scan, reconnect, comp>>
          /\ faults' = faults \/ faults' = faults + 1
      BY <2>4 DEF Executor, ExecSkip, ExecBegin, ExecRead, ExecRecord, ExecDelete, ExecInsert,
         ExecCommit, ExecRollback, ExecRemove, ExecEmbed, ExecConnect, ExecDisconnect, ExecFails,
         CompactSkips, Attached
    <3>. QED
      BY <1>1, <3>1
  <2>. QED
    BY <1>2, <2>1, <2>2, <2>3, <2>4
<1>3. CASE (\E v \in Versions : StoreBegins(v)) \/ WriterSteps \/ StoreIsCancelled \/ RemoveBegins
  BY <1>1, <1>3 DEF WriterSteps, StoreBegins, StoreContinues, StoreEnds, StoreFails, RemoveEnds,
     StoreIsCancelled, RemoveBegins
<1>4. CASE ScanPublishes \/ ScanSteps \/ ScanTimesOut
  <2>1. CASE ScanPublishes \/ ScanReleases \/ ScanReleased
    BY <2>1 DEF ScanPublishes, ScanReleases, ScanReleased, ReconnectInv
  <2>2. CASE ScanCloses \/ ScanRaises \/ RustFinishes \/ ScanTakesBack
    BY <2>2 DEF ScanCloses, ScanRaises, RustFinishes, ScanTakesBack, ReconnectInv
  <2>3. CASE ScanConnects \/ ScanOpens
    BY <2>3 DEF ScanConnects, ScanOpens, ScanEnds, ReconnectInv
  <2>4. CASE ScanAttaches \/ ScanAttached
    BY <2>4 DEF ScanAttaches, ScanAttached, ScanEnds, ReconnectInv
  <2>5. CASE ScanTimesOut
    BY <2>5 DEF ScanTimesOut, ScanEnds, ReconnectInv
  <2>. QED
    BY <1>4, <2>1, <2>2, <2>3, <2>4, <2>5 DEF ScanSteps
<1>5. ASSUME NEW t \in Threads, ThreadSteps(t)
      PROVE  ReconnectInv'
  <2>1. CASE ThreadOpens(t)
    BY <2>1 DEF ThreadOpens, ReconnectInv
  <2>2. CASE ThreadChecks(t) \/ ThreadIsRefused(t) \/ ThreadSubmits(t) \/ ThreadReturns(t)
             \/ ThreadTimesOut(t)
    BY <1>1, <2>2 DEF ThreadChecks, ThreadIsRefused, ThreadSubmits, ThreadReturns, ThreadTimesOut
  <2>. QED
    BY <1>5, <2>1, <2>2 DEF ThreadSteps
<1>6. CASE UNCHANGED vars
  BY <1>1, <1>6 DEF vars
<1>. QED
  BY <1>2, <1>3, <1>4, <1>5, <1>6 DEF Next

\* A hand-over leaves the connection manager connected however the release,
\* Rust, the writer and the worker threads fared: only a compaction that
\* refuses the reconnect, or whose own restore fails, keeps it closed.
THEOREM HandoverLeavesConnected == Spec => []HandoverReconnects
<1>1. Init => ReconnectInv
  BY DEF Init, ReconnectInv
<1>2. TypeOK /\ ReconnectInv /\ [Next]_vars => ReconnectInv'
  BY ReconnectStep
<1>3. TypeOK /\ ReconnectInv => HandoverReconnects
  BY DEF TypeOK, ReconnectInv, HandoverReconnects
<1>4. HandoverInv => TypeOK
  BY DEF HandoverInv
<1>. QED
  BY <1>1, <1>2, <1>3, <1>4, HandoverAlways, PTL DEF Spec
=============================================================================
