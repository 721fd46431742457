------------------------------ MODULE PidLock ------------------------------
(***************************************************************************)
(* The PID lock files of the daemon's start-up (_acquire_pid_lock and      *)
(* _release_pid_lock of daemon/discovery.py): a process owns a lock while  *)
(* the file it created with open("x") is there and holds its PID.  Opening *)
(* and writing are two steps, and so are reading a holder and unlinking    *)
(* the file; a process may die between any two of them, and another may    *)
(* run.  Process identifiers are not reused.                               *)
(***************************************************************************)
EXTENDS Naturals, FiniteSets

CONSTANTS
  Procs,           \* processes that take locks
  Locks            \* lock files

Nobody == "nobody"       \* no file
Past == "past"           \* a process that died before the model starts

ASSUME PidLockAssumption == {Nobody, Past} \cap Procs = {}

VARIABLES
  owner,           \* who created the file that is at the path of each lock
  text,            \* what is in it: nothing yet, or its creator's PID
  pos,             \* where each process is in acquiring or releasing a lock
  dead,            \* processes that are gone
  contested        \* two processes found the same dead holder (history)

lockVars == <<owner, text, pos, dead, contested>>

\* "again" is the second attempt; the figures mark what belongs to it.
Positions == {"out", "again", "writing", "reading", "reading2", "unlinking",
              "unlinking2", "refused", "held", "freeing"}

LockTypeOK ==
  /\ owner \in [Locks -> Procs \cup {Nobody, Past}]
  /\ text \in [Locks -> {"blank", "pid"}]
  /\ pos \in [Procs -> [Locks -> Positions]]
  /\ dead \subseteq Procs
  /\ contested \in [Locks -> {"no", "yes"}]

\* A process that died may have left a file behind, written or not.
LockInit ==
  /\ owner \in [Locks -> {Nobody, Past}]
  /\ text \in [Locks -> {"blank", "pid"}]
  /\ \A l \in Locks : owner[l] = Nobody => text[l] = "blank"
  /\ pos = [p \in Procs |-> [l \in Locks |-> "out"]]
  /\ dead = {}
  /\ contested = [l \in Locks |-> "no"]

Moves(p, l, s) == pos' = [pos EXCEPT ![p][l] = s]

\* The path of the lock leads to no file any more.
Unlinked(l) ==
  /\ owner' = [owner EXCEPT ![l] = Nobody]
  /\ text' = [text EXCEPT ![l] = "blank"]

\* pid_alive
PidAlive(o) == o \in Procs \ dead

\* The file is gone or cannot be parsed.
Unreadable(l) == owner[l] = Nobody \/ text[l] = "blank"

\* Processes that are about to remove a dead holder's file.
Takers(l) == {q \in Procs : pos[q][l] \in {"unlinking", "unlinking2"}}

-----------------------------------------------------------------------------
\* open("x") creates the file or finds one.
AcquireOpens(p, l) ==
  /\ pos[p][l] \in {"out", "again"}
  /\ \/ /\ owner[l] = Nobody
        /\ owner' = [owner EXCEPT ![l] = p]
        /\ text' = [text EXCEPT ![l] = "blank"]
        /\ Moves(p, l, "writing")
     \/ /\ owner[l] # Nobody
        /\ Moves(p, l, IF pos[p][l] = "out" THEN "reading" ELSE "reading2")
        /\ UNCHANGED <<owner, text>>
  /\ UNCHANGED <<dead, contested>>

\* The PID goes into the file that was opened, wherever the path leads now.
AcquireWrites(p, l) ==
  /\ pos[p][l] = "writing"
  /\ text' = [text EXCEPT ![l] = IF owner[l] = p THEN "pid" ELSE @]
  /\ Moves(p, l, "held")
  /\ UNCHANGED <<owner, dead, contested>>

\* Mutant of AcquireReads: a file that cannot be parsed is taken for stale.
AcquireReadsBlank(p, l) ==
  /\ pos[p][l] \in {"reading", "reading2"}
  /\ \/ /\ text[l] = "pid" /\ PidAlive(owner[l])
        /\ Moves(p, l, "refused")
        /\ UNCHANGED contested
     \/ /\ ~ (text[l] = "pid" /\ PidAlive(owner[l]))
        /\ Moves(p, l, IF pos[p][l] = "reading" THEN "unlinking" ELSE "unlinking2")
        /\ contested' = [contested EXCEPT ![l] = IF Takers(l) = {} THEN @ ELSE "yes"]
  /\ UNCHANGED <<owner, text, dead>>

\* The holder is read and looked up.
AcquireReads(p, l) ==
  /\ pos[p][l] \in {"reading", "reading2"}
  /\ \/ /\ Unreadable(l)
        /\ Moves(p, l, IF pos[p][l] = "reading" THEN "again" ELSE "refused")
        /\ UNCHANGED contested
     \/ /\ ~ Unreadable(l) /\ PidAlive(owner[l])
        /\ Moves(p, l, "refused")
        /\ UNCHANGED contested
     \/ /\ ~ Unreadable(l) /\ ~ PidAlive(owner[l])
        /\ Moves(p, l, IF pos[p][l] = "reading" THEN "unlinking" ELSE "unlinking2")
        /\ contested' = [contested EXCEPT ![l] = IF Takers(l) = {} THEN @ ELSE "yes"]
  /\ UNCHANGED <<owner, text, dead>>

\* Mutant of AcquireUnlinks: the lock is tried once only.
AcquireGivesUp(p, l) ==
  /\ pos[p][l] \in {"unlinking", "unlinking2"}
  /\ Unlinked(l)
  /\ Moves(p, l, "refused")
  /\ UNCHANGED <<dead, contested>>

\* Whatever file is there by now is removed.
AcquireUnlinks(p, l) ==
  /\ pos[p][l] \in {"unlinking", "unlinking2"}
  /\ Unlinked(l)
  /\ Moves(p, l, IF pos[p][l] = "unlinking" THEN "again" ELSE "refused")
  /\ UNCHANGED <<dead, contested>>

\* The caller is told that the lock is not to be had.
Refusal(p, l) ==
  /\ pos[p][l] = "refused"
  /\ Moves(p, l, "out")
  /\ UNCHANGED <<owner, text, dead, contested>>

\* _release_pid_lock removes the file only if it holds the own PID.
ReleaseReads(p, l) ==
  /\ pos[p][l] = "held"
  /\ Moves(p, l, IF owner[l] = p /\ text[l] = "pid" THEN "freeing" ELSE "out")
  /\ UNCHANGED <<owner, text, dead, contested>>

ReleaseUnlinks(p, l) ==
  /\ pos[p][l] = "freeing"
  /\ Unlinked(l)
  /\ Moves(p, l, "out")
  /\ UNCHANGED <<dead, contested>>

\* The process dies and leaves its files.
Dies(p) ==
  /\ p \notin dead
  /\ dead' = dead \cup {p}
  /\ pos' = [pos EXCEPT ![p] = [l \in Locks |-> "out"]]
  /\ UNCHANGED <<owner, text, contested>>

LockSteps(p, l) ==
  /\ p \notin dead
  /\ \/ AcquireOpens(p, l) \/ AcquireWrites(p, l) \/ AcquireReads(p, l)
     \/ AcquireUnlinks(p, l) \/ Refusal(p, l)
     \/ ReleaseReads(p, l) \/ ReleaseUnlinks(p, l)

LockNext == \E p \in Procs : Dies(p) \/ \E l \in Locks : LockSteps(p, l)

LockSpec == LockInit /\ [][LockNext]_lockVars

-----------------------------------------------------------------------------
Holders(l) == {p \in Procs : pos[p][l] = "held"}

\* A start-up lock has one holder, wherever processes die, release or take
\* over a dead holder's lock, unless two of them were taking over the same
\* file at once.
LockExcludes ==
  \A l \in Locks : contested[l] = "no" =>
    \A p, q \in Holders(l) : p = q
=============================================================================
