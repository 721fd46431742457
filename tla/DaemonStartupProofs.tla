------------------------ MODULE DaemonStartupProofs ------------------------
(***************************************************************************)
(* What holds of the start-up for any number of proxies, daemons and       *)
(* deaths.  The lock files exclude by themselves, and every step of the    *)
(* start-up is a step of theirs or leaves them as they are.  From the      *)
(* exclusion it follows that one daemon serves and is found and that the   *)
(* starter lock is free for whoever holds the global one.  An idle daemon  *)
(* leaves whatever happened to the locks.                                  *)
(***************************************************************************)
EXTENDS DaemonStartup, TLAPS

\* What makes the exclusion inductive for one lock: whoever removes a dead
\* holder's file is the only one to do so and the holder is still on record,
\* and whoever created the file that is there is the only one to write, hold
\* or free it.
Orderly(l) ==
  /\ \A p, q \in Takers(l) : p = q
  /\ \A p \in Takers(l) : text[l] = "pid" /\ ~ PidAlive(owner[l])
  /\ \A p \in Takers(l) : owner[l] # Nobody
  /\ \A p \in Procs : pos[p][l] \in {"held", "freeing"} => owner[l] = p /\ text[l] = "pid"
  /\ \A p \in Procs : pos[p][l] = "writing" => owner[l] = p /\ text[l] = "blank"

DeadAreOut == \A p \in dead, l \in Locks : pos[p][l] = "out"

LockInv ==
  /\ LockTypeOK
  /\ DeadAreOut
  /\ \A l \in Locks : contested[l] = "no" => Orderly(l)

-----------------------------------------------------------------------------
(* The lock files.                                                         *)

\* A process moves in one lock and nothing else does.
LEMMA MovesOne ==
  ASSUME LockTypeOK, NEW p \in Procs, NEW l \in Locks, NEW s \in Positions, Moves(p, l, s)
  PROVE  /\ pos' \in [Procs -> [Locks -> Positions]]
         /\ pos'[p][l] = s
         /\ \A m \in Locks : m # l => pos'[p][m] = pos[p][m]
         /\ \A q \in Procs, m \in Locks : q # p => pos'[q][m] = pos[q][m]
BY DEF LockTypeOK, Moves

\* The positions each step of a lock leads to.
LEMMA LockStepMoves ==
  ASSUME LockTypeOK, NEW p \in Procs, NEW l \in Locks, LockSteps(p, l)
  PROVE  \E s \in Positions : Moves(p, l, s)
BY DEF LockSteps, AcquireOpens, AcquireWrites, AcquireReads, AcquireUnlinks, Refusal,
       ReleaseReads, ReleaseUnlinks, Positions

\* Types are kept by the steps of one process on one lock.
LEMMA LockStepType ==
  ASSUME LockTypeOK, NEW p \in Procs, NEW l \in Locks, LockSteps(p, l)
  PROVE  LockTypeOK'
<1>1. PICK s \in Positions : Moves(p, l, s)
  BY LockStepMoves
<1>2. pos' \in [Procs -> [Locks -> Positions]]
  BY <1>1, MovesOne
<1>3. /\ owner' \in [Locks -> Procs \cup {Nobody, Past}]
      /\ text' \in [Locks -> {"blank", "pid"}]
      /\ dead' \subseteq Procs
  BY DEF LockTypeOK, LockSteps, AcquireOpens, AcquireWrites, AcquireReads, AcquireUnlinks,
         Refusal, ReleaseReads, ReleaseUnlinks, Unlinked
<1>4. contested' \in [Locks -> {"no", "yes"}]
  BY DEF LockTypeOK, LockSteps, AcquireOpens, AcquireWrites, AcquireReads, AcquireUnlinks,
         Refusal, ReleaseReads, ReleaseUnlinks
<1> QED
  BY <1>2, <1>3, <1>4 DEF LockTypeOK

\* A step on one lock leaves the others as they are.
LEMMA OtherLocks ==
  ASSUME LockTypeOK, NEW p \in Procs, NEW l \in Locks, LockSteps(p, l),
         NEW m \in Locks, m # l
  PROVE  /\ owner'[m] = owner[m] /\ text'[m] = text[m] /\ contested'[m] = contested[m]
         /\ dead' = dead
         /\ \A q \in Procs : pos'[q][m] = pos[q][m]
<1>1. PICK s \in Positions : Moves(p, l, s)
  BY LockStepMoves
<1>2. \A q \in Procs : pos'[q][m] = pos[q][m]
  BY <1>1, MovesOne
<1>3. /\ owner'[m] = owner[m] /\ text'[m] = text[m] /\ contested'[m] = contested[m]
      /\ dead' = dead
  BY DEF LockTypeOK, LockSteps, AcquireOpens, AcquireWrites, AcquireReads, AcquireUnlinks,
         Refusal, ReleaseReads, ReleaseUnlinks, Unlinked
<1> QED
  BY <1>2, <1>3

\* An orderly lock stays orderly under the steps of its processes.
LEMMA OrderlyStep ==
  ASSUME LockInv, NEW p \in Procs, NEW l \in Locks, LockSteps(p, l),
         contested'[l] = "no"
  PROVE  Orderly(l)'
<1> USE DEF PidAlive, Takers
<1>1. LockTypeOK /\ dead' = dead /\ p \notin dead /\ contested[l] = "no"
  BY DEF LockInv, LockTypeOK, LockSteps, AcquireOpens, AcquireWrites, AcquireReads,
         AcquireUnlinks, Refusal, ReleaseReads, ReleaseUnlinks
<1>2. Orderly(l)
  BY <1>1 DEF LockInv
<1>3. \A q \in Procs : q \in dead => pos[q][l] = "out"
  BY DEF LockInv, DeadAreOut
<1>4. owner \in [Locks -> Procs \cup {Nobody, Past}] /\ text \in [Locks -> {"blank", "pid"}]
  BY <1>1 DEF LockTypeOK
<1>5. CASE AcquireOpens(p, l)
  <2>1. CASE owner[l] = Nobody
    <3>1. Moves(p, l, "writing") /\ owner'[l] = p /\ text'[l] = "blank"
      BY <1>4, <1>5, <2>1 DEF AcquireOpens
    <3>2. pos'[p][l] = "writing" /\ \A q \in Procs : q # p => pos'[q][l] = pos[q][l]
      BY <1>1, <3>1, MovesOne DEF Positions
    <3>3. \A q \in Procs : pos[q][l] \notin {"held", "freeing", "writing",
                                              "unlinking", "unlinking2"}
      BY <1>2, <2>1, PidLockAssumption DEF Orderly
    <3> QED
      BY <3>1, <3>2, <3>3 DEF Orderly
  <2>2. CASE owner[l] # Nobody
    <3>1. /\ \/ Moves(p, l, "reading") \/ Moves(p, l, "reading2")
          /\ UNCHANGED <<owner, text>>
      BY <1>5, <2>2 DEF AcquireOpens
    <3>2. pos'[p][l] \in {"reading", "reading2"} /\ \A q \in Procs : q # p => pos'[q][l] = pos[q][l]
      BY <1>1, <3>1, MovesOne DEF Positions
    <3> QED
      BY <1>1, <1>2, <3>1, <3>2 DEF Orderly
  <2> QED
    BY <2>1, <2>2
<1>6. CASE AcquireWrites(p, l)
  <2>1. Moves(p, l, "held") /\ owner' = owner /\ owner[l] = p /\ pos[p][l] = "writing"
    BY <1>2, <1>6 DEF AcquireWrites, Orderly
  <2>2. text'[l] = "pid"
    BY <1>4, <1>6, <2>1 DEF AcquireWrites
  <2>3. pos'[p][l] = "held" /\ \A q \in Procs : q # p => pos'[q][l] = pos[q][l]
    BY <1>1, <2>1, MovesOne DEF Positions
  <2>4. \A q \in Procs : q # p => pos[q][l] \notin {"held", "freeing", "writing",
                                                    "unlinking", "unlinking2"}
    BY <1>1, <1>2, <2>1 DEF Orderly
  <2> QED
    BY <2>1, <2>2, <2>3, <2>4 DEF Orderly
<1>7. CASE AcquireReads(p, l)
  <2>1. UNCHANGED <<owner, text>>
    BY <1>7 DEF AcquireReads
  <2>2. CASE ~ Unreadable(l) /\ ~ PidAlive(owner[l])
    <3>1. Moves(p, l, "unlinking") \/ Moves(p, l, "unlinking2")
      BY <1>7, <2>2 DEF AcquireReads
    <3>2. pos'[p][l] \in {"unlinking", "unlinking2"}
          /\ \A q \in Procs : q # p => pos'[q][l] = pos[q][l]
      BY <1>1, <3>1, MovesOne DEF Positions
    <3>3. contested' = [contested EXCEPT ![l] = IF Takers(l) = {} THEN @ ELSE "yes"]
      BY <1>7, <2>2 DEF AcquireReads
    <3>4. Takers(l) = {}
      BY <1>1, <3>3 DEF LockTypeOK
    <3>5. \A q \in Procs : pos[q][l] \notin {"unlinking", "unlinking2"}
      BY <3>4
    <3>6. owner[l] # Nobody /\ text[l] = "pid" /\ ~ PidAlive(owner[l])
      BY <1>4, <2>2 DEF Unreadable
    <3>7. \A q \in Procs : q # p => pos'[q][l] \notin {"unlinking", "unlinking2"}
      BY <3>2, <3>5
    <3>8. \A q \in Takers(l)' : q = p
      BY <3>7
    <3>9. \A q \in Procs : pos'[q][l] \in {"held", "freeing", "writing"} => pos[q][l] = pos'[q][l]
      BY <3>2
    <3> QED
      BY <1>1, <1>2, <2>1, <3>6, <3>8, <3>9 DEF Orderly
  <2>3. CASE Unreadable(l) \/ PidAlive(owner[l])
    <3>1. Moves(p, l, "again") \/ Moves(p, l, "refused")
      BY <1>7, <2>3 DEF AcquireReads
    <3>2. pos'[p][l] \in {"again", "refused"} /\ \A q \in Procs : q # p => pos'[q][l] = pos[q][l]
      BY <1>1, <3>1, MovesOne DEF Positions
    <3> QED
      BY <1>1, <1>2, <2>1, <3>2 DEF Orderly
  <2> QED
    BY <2>2, <2>3
<1>8. CASE AcquireUnlinks(p, l)
  <2>1. /\ p \in Takers(l)
        /\ Moves(p, l, "again") \/ Moves(p, l, "refused")
        /\ owner'[l] = Nobody
    BY <1>4, <1>8 DEF AcquireUnlinks, Unlinked
  <2>2. \A q \in Procs : q # p => pos[q][l] \notin {"held", "freeing", "writing",
                                                    "unlinking", "unlinking2"}
    <3>1. text[l] = "pid" /\ owner[l] \notin Procs \ dead
      BY <1>2, <2>1 DEF Orderly
    <3>2. \A q \in Procs : q \in Takers(l) => q = p
      BY <1>2, <2>1 DEF Orderly
    <3> QED
      BY <1>2, <1>3, <3>1, <3>2 DEF Orderly
  <2>3. pos'[p][l] \in {"again", "refused"} /\ \A q \in Procs : q # p => pos'[q][l] = pos[q][l]
    BY <1>1, <2>1, MovesOne DEF Positions
  <2> QED
    BY <2>2, <2>3 DEF Orderly
<1>9. CASE Refusal(p, l)
  <2>1. pos'[p][l] = "out" /\ (\A q \in Procs : q # p => pos'[q][l] = pos[q][l])
        /\ UNCHANGED <<owner, text>>
    BY <1>1, <1>9, MovesOne DEF Positions, Refusal
  <2> QED
    BY <1>1, <1>2, <2>1 DEF Orderly
<1>10. CASE ReleaseReads(p, l)
  <2>1. pos[p][l] = "held" /\ owner[l] = p /\ text[l] = "pid"
    BY <1>2, <1>10 DEF ReleaseReads, Orderly
  <2>2. pos'[p][l] = "freeing" /\ (\A q \in Procs : q # p => pos'[q][l] = pos[q][l])
        /\ UNCHANGED <<owner, text>>
    BY <1>1, <1>10, <2>1, MovesOne DEF Positions, ReleaseReads
  <2> QED
    BY <1>1, <1>2, <2>1, <2>2 DEF Orderly
<1>11. CASE ReleaseUnlinks(p, l)
  <2>1. owner[l] = p /\ text[l] = "pid"
    BY <1>2, <1>11 DEF ReleaseUnlinks, Orderly
  <2>2. \A q \in Procs : q # p => pos[q][l] \notin {"held", "freeing", "writing",
                                                    "unlinking", "unlinking2"}
    BY <1>1, <1>2, <2>1 DEF Orderly
  <2>3. pos'[p][l] = "out" /\ \A q \in Procs : q # p => pos'[q][l] = pos[q][l]
    BY <1>1, <1>11, MovesOne DEF Positions, ReleaseUnlinks
  <2> QED
    BY <2>2, <2>3 DEF Orderly
<1> QED
  BY <1>5, <1>6, <1>7, <1>8, <1>9, <1>10, <1>11 DEF LockSteps

\* A death leaves every lock orderly.
LEMMA OrderlyDeath ==
  ASSUME LockInv, NEW p \in Procs, Dies(p)
  PROVE  LockInv'
<1>1. LockTypeOK'
  BY DEF LockInv, LockTypeOK, Dies, Positions
<1>2. /\ \A l \in Locks : pos'[p][l] = "out"
      /\ \A q \in Procs, l \in Locks : q # p => pos'[q][l] = pos[q][l]
      /\ dead' = dead \cup {p} /\ UNCHANGED <<owner, text, contested>>
  BY DEF LockInv, LockTypeOK, Dies
<1>3. dead \subseteq Procs
  BY DEF LockInv, LockTypeOK
<1>4. DeadAreOut'
  BY <1>2, <1>3 DEF LockInv, DeadAreOut
<1>5. ASSUME NEW l \in Locks, contested[l] = "no"
      PROVE  Orderly(l)'
  <2>1. Orderly(l)
    BY <1>5 DEF LockInv
  <2> QED
    BY <1>2, <2>1 DEF Orderly, PidAlive, Takers
<1> QED
  BY <1>1, <1>2, <1>4, <1>5 DEF LockInv

\* The inductive step of the lock files.
LEMMA LockInvNext ==
  ASSUME LockInv, [LockNext]_lockVars
  PROVE  LockInv'
<1>1. CASE UNCHANGED lockVars
  BY <1>1 DEF LockInv, lockVars, LockTypeOK, DeadAreOut, Orderly, Takers, PidAlive
<1>2. ASSUME NEW p \in Procs, Dies(p)
      PROVE  LockInv'
  BY <1>2, OrderlyDeath
<1>3. ASSUME NEW p \in Procs, NEW l \in Locks, LockSteps(p, l)
      PROVE  LockInv'
  <2>1. LockTypeOK
    BY DEF LockInv
  <2>2. LockTypeOK' /\ dead' = dead /\ p \notin dead
    <3>1. LockTypeOK'
      BY <1>3, <2>1, LockStepType
    <3> QED
      BY <1>3, <3>1 DEF LockSteps, AcquireOpens, AcquireWrites, AcquireReads, AcquireUnlinks,
                        Refusal, ReleaseReads, ReleaseUnlinks
  <2>3. PICK s \in Positions : Moves(p, l, s)
    BY <1>3, <2>1, LockStepMoves
  <2>4. \A q \in Procs, m \in Locks : q # p => pos'[q][m] = pos[q][m]
    BY <2>1, <2>3, MovesOne
  <2>5. DeadAreOut'
    BY <2>1, <2>2, <2>4 DEF LockInv, DeadAreOut, LockTypeOK
  <2>6. ASSUME NEW m \in Locks, contested'[m] = "no"
        PROVE  Orderly(m)'
    <3>1. CASE m = l
      BY <1>3, <2>6, <3>1, OrderlyStep
    <3>2. CASE m # l
      <4>1. /\ owner'[m] = owner[m] /\ text'[m] = text[m] /\ contested'[m] = contested[m]
            /\ dead' = dead
            /\ \A q \in Procs : pos'[q][m] = pos[q][m]
        BY <1>3, <2>1, <3>2, OtherLocks
      <4>2. Orderly(m)
        BY <2>6, <4>1 DEF LockInv
      <4> QED
        BY <4>1, <4>2 DEF Orderly, Takers, PidAlive
    <3> QED
      BY <3>1, <3>2
  <2> QED
    BY <2>2, <2>5, <2>6 DEF LockInv
<1> QED
  BY <1>1, <1>2, <1>3 DEF LockNext

\* Leftovers of dead processes are orderly.
LEMMA LockInvInit == LockInit => LockInv
<1> SUFFICES ASSUME LockInit PROVE LockInv
  OBVIOUS
<1>1. LockTypeOK /\ DeadAreOut
  BY DEF LockInit, LockTypeOK, DeadAreOut, Positions
<1>2. \A l \in Locks : Orderly(l)
  BY DEF LockInit, Orderly, Takers
<1> QED
  BY <1>1, <1>2 DEF LockInv

\* An orderly lock has one holder.
LEMMA LockInvExcludes == LockInv => LockExcludes
BY DEF LockInv, Orderly, LockExcludes, Holders

\* The PID lock files on their own exclude, for every number of processes and
\* locks: _acquire_pid_lock and _release_pid_lock never leave two holders of
\* one lock unless two processes took over the same dead holder's file.
THEOREM PidLockExcludes == LockSpec => []LockExcludes
<1>1. LockInit => LockInv
  BY LockInvInit
<1>2. LockInv /\ [LockNext]_lockVars => LockInv'
  BY LockInvNext
<1>3. LockInv => LockExcludes
  BY LockInvExcludes
<1> QED
  BY <1>1, <1>2, <1>3, PTL DEF LockSpec

-----------------------------------------------------------------------------
(* The start-up: proxies, daemons and the stop command.                    *)

\* The types of the proxies, of what they share with the daemons, and of the
\* daemons.
ProxyType ==
  /\ ppc \in [Procs -> {"look", "await", "erase", "eraseSocket", "acquire", "spawn", "poll",
                        "terminate", "release", "connect", "register", "ack", "session",
                        "done", "failed", "asserted", "dead"}]
  /\ level \in [Procs -> 0..3]
  /\ why \in [Procs -> {"first", "refused", "check"}]
  /\ then \in [Procs -> {"acquire", "connect", "failed", "asserted"}]
  /\ \A p \in Procs :
       ppc[p] \in {"poll", "terminate", "register", "ack", "session"} => peer[p] # Nobody
  /\ saw \in [Procs -> Pids] /\ peer \in [Procs -> Daemons \cup {Nobody}]

SharedType ==
  /\ daemonLock \in Pids /\ socket \in Daemons \cup {Nobody}
  /\ spc \in {"idle", "stopping", "cleaning", "over"} /\ target \in Daemons \cup {Nobody}
  /\ crashes \in 0..MaxCrashes
  /\ upset \subseteq Upsets

ServerType ==
  /\ dpc \in [Daemons -> {"unborn", "starting", "bound", "published", "valid", "serving",
                          "failing", "failUnlock", "failUnlink", "quitting", "closing", "unlock",
                          "unlink", "gone"}]
  /\ clients \in [Daemons -> SUBSET Procs]
  /\ timer \in [Daemons -> {"none", "pending"}]
  /\ event \in [Daemons -> {"clear", "set"}]
  /\ used \in [Daemons -> {"no", "yes"}]

\* Where a proxy is says how many locks it may have, so that it never asks for
\* a fourth one or releases one it has not; and the dead take no steps.
ProxyInv ==
  /\ \A p \in Procs :
       ppc[p] \in {"look", "await", "erase", "eraseSocket", "acquire"} => level[p] \in 0..2
  /\ \A p \in Procs : ppc[p] = "release" => level[p] \in 1..3
  /\ \A p \in Procs : p \in dead => ppc[p] = "dead"

Startup == ProxyType /\ SharedType /\ ServerType /\ ProxyInv

\* The parts make up the type invariant.
LEMMA TypeParts == TypeOK <=> LockTypeOK /\ ProxyType /\ SharedType /\ ServerType
BY DEF TypeOK, ProxyType, SharedType, ServerType

\* Every step of the start-up is one of the lock files or leaves them alone.
LEMMA NextIsLockNext ==
  ASSUME Startup, [Next]_vars
  PROVE  [LockNext]_lockVars
<1>1. CASE UNCHANGED vars
  BY <1>1 DEF vars
<1>2. ASSUME NEW p \in Procs, ProxySteps(p)
      PROVE  [LockNext]_lockVars
  <2>1. CASE Acquires(p)
    <3>1. Wanted(p) \in Locks /\ p \notin dead
      BY <2>1, StartupAssumption DEF Acquires, Startup, ProxyInv, Wanted
    <3>2. LockSteps(p, Wanted(p))
      BY <2>1, <3>1 DEF Acquires, LockSteps
    <3> QED
      BY <3>1, <3>2 DEF LockNext
  <2>2. CASE HasLock(p)
    <3>1. Wanted(p) \in Locks /\ p \notin dead
      BY <2>2, StartupAssumption DEF HasLock, Startup, ProxyInv, Wanted
    <3>2. LockSteps(p, Wanted(p))
      BY <2>2, <3>1 DEF HasLock, LockSteps
    <3> QED
      BY <3>1, <3>2 DEF LockNext
  <2>3. CASE IsRefused(p)
    <3>1. Wanted(p) \in Locks /\ p \notin dead
      BY <2>3, StartupAssumption DEF IsRefused, Startup, ProxyInv, Wanted
    <3>2. LockSteps(p, Wanted(p))
      BY <2>3, <3>1 DEF IsRefused, LockSteps
    <3> QED
      BY <3>1, <3>2 DEF LockNext
  <2>4. CASE Releases(p)
    <3>1. level[p] \in Locks /\ p \notin dead
      BY <2>4, StartupAssumption DEF Releases, Startup, ProxyInv
    <3>2. LockSteps(p, level[p])
      BY <2>4, <3>1 DEF Releases, LockSteps
    <3> QED
      BY <3>1, <3>2 DEF LockNext
  <2>5. CASE ~ (Acquires(p) \/ HasLock(p) \/ IsRefused(p) \/ Releases(p))
    <3>1. UNCHANGED lockVars
      BY <1>2, <2>5 DEF ProxySteps, Looks, Awaits, ErasesLock, ErasesSocket, TimesOut, Spawns,
                        Polls, PollTimesOut, Terminates, Connects, Registers, IsAnswered,
                        SessionEnds
    <3> QED
      BY <3>1
  <2> QED
    BY <2>1, <2>2, <2>3, <2>4, <2>5
<1>3. ASSUME NEW p \in Procs, ProxyDies(p)
      PROVE  [LockNext]_lockVars
  BY <1>3 DEF ProxyDies, LockNext
<1>4. ASSUME NEW d \in Daemons, DaemonSteps(d) \/ DaemonDies(d)
      PROVE  UNCHANGED lockVars
  BY <1>4 DEF DaemonSteps, DaemonDies, Binds, Publishes, Validates, PassesBarrier,
              RemovesClient, TimerFires, Closes, HangsUp, RemovesLock, RemovesSocket
<1>5. CASE StopSteps
  BY <1>5 DEF StopSteps, StopReads, StopWaits, StopCleans
<1> QED
  BY <1>1, <1>2, <1>3, <1>4, <1>5 DEF Next

\* What a proxy's step keeps.
LEMMA ProxyStepInv ==
  ASSUME Startup, NEW p \in Procs, ProxySteps(p)
  PROVE  Startup'
<1> USE StartupAssumption DEF Startup, ProxyInv, ProxyType, SharedType, ServerType, Goes, Pids,
                              lockVars, files, proxies, servers, stop
<1>1. CASE Looks(p)
  BY <1>1 DEF Looks, Settles, FindsNone
<1>2. CASE Awaits(p)
  BY <1>2 DEF Awaits, Settles
<1>3. CASE ErasesLock(p)
  BY <1>3 DEF ErasesLock, Erases, Upsets
<1>4. CASE ErasesSocket(p)
  BY <1>4 DEF ErasesSocket, Erases, Settles, FindsNone, Upsets
<1>5. CASE TimesOut(p)
  BY <1>5 DEF TimesOut, Settles
<1>6. CASE Acquires(p)
  BY <1>6 DEF Acquires, AcquireOpens, AcquireReads, AcquireUnlinks
<1>7. CASE HasLock(p)
  BY <1>7 DEF HasLock, AcquireWrites
<1>8. CASE IsRefused(p)
  BY <1>8 DEF IsRefused, Refusal, Settles
<1>9. CASE Polls(p)
  BY <1>9 DEF Polls, Settles
<1>10. CASE PollTimesOut(p)
  BY <1>10 DEF PollTimesOut, Signalled, DaemonAlive
<1>11. CASE Terminates(p)
  BY <1>11 DEF Terminates, Settles, Vanishes, DaemonAlive
<1>12. CASE Releases(p)
  BY <1>12 DEF Releases, ReleaseReads, ReleaseUnlinks
<1>13. CASE Connects(p)
  BY <1>13 DEF Connects, Connectable
<1>14. CASE Registers(p)
  BY <1>14 DEF Registers, Ends
<1>15. CASE IsAnswered(p)
  BY <1>15 DEF IsAnswered, Ends, DaemonAlive
<1>16. CASE SessionEnds(p)
  BY <1>16 DEF SessionEnds, Ends
<1>17. ASSUME NEW d \in Daemons, Spawns(p, d)
      PROVE  Startup'
  BY <1>17 DEF Spawns
<1> QED
  BY <1>1, <1>2, <1>3, <1>4, <1>5, <1>6, <1>7, <1>8, <1>9, <1>10, <1>11, <1>12, <1>13, <1>14, <1>15, <1>16, <1>17 DEF ProxySteps

\* What a proxy's death keeps.
LEMMA ProxyDeathInv ==
  ASSUME Startup, NEW p \in Procs, ProxyDies(p)
  PROVE  Startup'
BY StartupAssumption DEF Startup, ProxyInv, ProxyType, SharedType, ServerType, Goes, Pids,
                         ProxyDies, Dies, Ends, files, servers, stop, Upsets

\* What a daemon's step or death keeps.
LEMMA DaemonStepInv ==
  ASSUME Startup, NEW d \in Daemons, DaemonSteps(d) \/ DaemonDies(d)
  PROVE  Startup'
<1> USE StartupAssumption DEF Startup, ProxyInv, ProxyType, SharedType, ServerType, Pids,
                              lockVars, files, proxies, servers, stop, Enters
<1>1. CASE Binds(d)
  BY <1>1 DEF Binds, Upsets
<1>2. CASE Publishes(d)
  BY <1>2 DEF Publishes
<1>3. CASE Validates(d)
  BY <1>3 DEF Validates
<1>4. CASE PassesBarrier(d)
  BY <1>4 DEF PassesBarrier
<1>5. CASE TimerFires(d)
  BY <1>5 DEF TimerFires
<1>6. CASE Closes(d)
  BY <1>6 DEF Closes
<1>7. CASE HangsUp(d)
  BY <1>7 DEF HangsUp
<1>8. CASE RemovesLock(d)
  BY <1>8 DEF RemovesLock
<1>9. CASE RemovesSocket(d)
  BY <1>9 DEF RemovesSocket, Vanishes
<1>10. CASE DaemonDies(d)
  BY <1>10 DEF DaemonDies, Vanishes
<1>11. ASSUME NEW p \in Procs, RemovesClient(d, p)
      PROVE  Startup'
  BY <1>11 DEF RemovesClient, OnAllClientsGone
<1> QED
  BY <1>1, <1>2, <1>3, <1>4, <1>5, <1>6, <1>7, <1>8, <1>9, <1>10, <1>11 DEF DaemonSteps

\* What the stop command keeps.
LEMMA StopStepInv ==
  ASSUME Startup, StopSteps
  PROVE  Startup'
<1> USE StartupAssumption DEF Startup, ProxyInv, ProxyType, SharedType, ServerType, Pids,
                              lockVars, files, proxies, servers
<1>1. CASE StopReads
  BY <1>1 DEF StopReads, Signalled, DaemonAlive
<1>2. CASE StopWaits
  BY <1>2 DEF StopWaits, Vanishes, DaemonAlive
<1>3. CASE StopCleans
  BY <1>3 DEF StopCleans, Erases, Upsets
<1> QED
  BY <1>1, <1>2, <1>3 DEF StopSteps

\* The inductive step of the start-up.
LEMMA StartupNext ==
  ASSUME Startup, LockInv, [Next]_vars
  PROVE  Startup' /\ LockInv'
<1>1. LockInv'
  BY NextIsLockNext, LockInvNext
<1>2. CASE UNCHANGED vars
  BY <1>1, <1>2 DEF vars, Startup, ProxyInv, ProxyType, SharedType, ServerType, lockVars,
                    files, proxies, servers, stop
<1>3. CASE Next
  BY <1>1, <1>3, ProxyStepInv, ProxyDeathInv, DaemonStepInv, StopStepInv DEF Next
<1> QED
  BY <1>2, <1>3

\* The start-up starts well.
LEMMA StartupInit == Init => Startup /\ LockInv
<1> SUFFICES ASSUME Init PROVE Startup /\ LockInv
  OBVIOUS
<1>1. LockInv
  BY LockInvInit DEF Init
<1>2. Startup
  BY StartupAssumption DEF Init, LockInit, Startup, ProxyInv, ProxyType, SharedType, ServerType,
                           Pids
<1> QED
  BY <1>1, <1>2

\* Every reachable state of the start-up.
LEMMA StartupAlways == Spec => [](Startup /\ LockInv)
<1>1. Init => Startup /\ LockInv
  BY StartupInit
<1>2. Startup /\ LockInv /\ [Next]_vars => (Startup /\ LockInv)'
  BY StartupNext
<1> QED
  BY <1>1, <1>2, PTL DEF Spec

\* Proxies, daemons and the stop command keep to their types, whatever their
\* number: in particular a proxy that waits for a child or talks to a daemon
\* has one (find_or_start_daemon, ClientProxy.run).
THEOREM StartupTypeCorrect == Spec => []TypeOK
<1>1. Startup /\ LockInv => TypeOK
  BY TypeParts DEF Startup, LockInv
<1> QED
  BY <1>1, StartupAlways, PTL

\* find_or_start_daemon uses the PID lock files as they are meant to be used:
\* no interleaving of proxies asks for a lock twice, releases one it has not,
\* or goes on after its death.
THEOREM StartupKeepsLockProtocol == Spec => LockSpec
<1>1. Init => LockInit
  BY DEF Init
<1>2. Startup /\ [Next]_vars => [LockNext]_lockVars
  BY NextIsLockNext
<1> QED
  BY <1>1, <1>2, StartupAlways, PTL DEF Spec, LockSpec

\* However many proxies race to start the daemon and die on the way, a start-up
\* lock has one holder unless two of them took over the same dead holder's file.
THEOREM StartupLocksExclude == Spec => []LockExcludes
BY StartupKeepsLockProtocol, PidLockExcludes, PTL

-----------------------------------------------------------------------------
(* One daemon.                                                             *)

\* A proxy has the locks below its level, and its place says how many it has
\* where that matters: two when it looks again, three when it has a child.
Rank(p) ==
  /\ \A l \in Locks : l <= level[p] => pos[p][l] \in {"held", "freeing"}
  /\ why[p] = "check" => level[p] = 2
  /\ ppc[p] \in {"spawn", "poll", "terminate"} => level[p] = 3
  /\ ppc[p] \in {"look", "await", "erase", "eraseSocket", "acquire"} /\ level[p] = 2 =>
       why[p] = "check"
  /\ ppc[p] = "release" => why[p] = "first"

Ranks == \A p \in Procs : Rank(p)

\* The phases of a daemon: not yet on record, on record, and with its socket.
Young == {"starting", "bound"}
Recorded == {"published", "valid", "serving", "failing", "failUnlock", "closing", "unlock"}
Bound == {"bound"} \cup Recorded
Absent == {"unborn", "unlink", "failUnlink", "gone"}

\* A proxy that has looked under the locks and found no daemon, one that has
\* also seen to it that none is on record, and one that waits for its child.
Deciding(p) ==
  ppc[p] = "spawn" \/ (why[p] = "check" /\ ppc[p] \in {"erase", "eraseSocket", "acquire"})
Sure(p) ==
  ppc[p] = "spawn" \/ (why[p] = "check" /\ ppc[p] \in {"eraseSocket", "acquire"})
Waiting(p, d) == ppc[p] \in {"poll", "terminate"} /\ peer[p] = d

\* The starter of a daemon that is not on record waits for it; whoever decides
\* to spawn one is right that there is none; and the files name the one daemon
\* there is.
HasStarter ==
  \A d \in Daemons : dpc[d] \in Young => \E p \in Procs : Waiting(p, d)

DecidesWell ==
  \A p \in Procs :
    /\ Deciding(p) => \A d \in Daemons : dpc[d] \in Absent
    /\ Sure(p) => daemonLock = Nobody

OnRecord ==
  \A d \in Daemons :
    /\ dpc[d] \in Young => daemonLock = Nobody
    /\ dpc[d] \in Recorded => daemonLock = d
    /\ dpc[d] \in Bound => socket = d
    /\ dpc[d] # "quitting"

OnlyOne ==
  \A d, e \in Daemons : d # e =>
    /\ dpc[d] \in Young \cup Recorded => dpc[e] \in Absent
    /\ dpc[d] \in Bound => dpc[e] \in {"unborn", "gone"}

Unique == HasStarter /\ DecidesWell /\ OnRecord /\ OnlyOne

UniqueInv == Undisturbed => Unique

\* A proxy's step changes its own place and locks only.
LEMMA ProxyFrame ==
  ASSUME Startup, LockTypeOK, NEW p \in Procs, ProxySteps(p), NEW q \in Procs, q # p
  PROVE  /\ ppc'[q] = ppc[q] /\ level'[q] = level[q] /\ why'[q] = why[q] /\ peer'[q] = peer[q]
         /\ \A l \in Locks : pos'[q][l] = pos[q][l]
<1> USE DEF Startup, ProxyType, Goes, proxies, Settles
<1>1. ppc'[q] = ppc[q]
  BY DEF ProxySteps, Looks, Awaits, ErasesLock, ErasesSocket, TimesOut, Spawns, Acquires,
     HasLock, IsRefused, Polls, PollTimesOut, Terminates, Releases, Connects, Registers,
     IsAnswered, SessionEnds, FindsNone, Ends
<1>2. level'[q] = level[q]
  BY DEF ProxySteps, Looks, Awaits, ErasesLock, ErasesSocket, TimesOut, Spawns, Acquires,
     HasLock, IsRefused, Polls, PollTimesOut, Terminates, Releases, Connects, Registers,
     IsAnswered, SessionEnds
<1>3. why'[q] = why[q]
  BY DEF ProxySteps, Looks, Awaits, ErasesLock, ErasesSocket, TimesOut, Spawns, Acquires,
     HasLock, IsRefused, Polls, PollTimesOut, Terminates, Releases, Connects, Registers,
     IsAnswered, SessionEnds, FindsNone
<1>4. peer'[q] = peer[q]
  BY DEF ProxySteps, Looks, Awaits, ErasesLock, ErasesSocket, TimesOut, Spawns, Acquires,
     HasLock, IsRefused, Polls, PollTimesOut, Terminates, Releases, Connects, Registers,
     IsAnswered, SessionEnds, Ends
<1>5. UNCHANGED pos \/ \E l \in Locks : LockSteps(p, l)
  <2>1. Acquires(p) \/ HasLock(p) \/ IsRefused(p) =>
          Wanted(p) \in Locks /\ LockSteps(p, Wanted(p))
    BY StartupAssumption DEF ProxyInv, Wanted, LockSteps, Acquires, HasLock, IsRefused
  <2>2. Releases(p) => level[p] \in Locks /\ LockSteps(p, level[p])
    BY StartupAssumption DEF ProxyInv, LockSteps, Releases
  <2>3. Acquires(p) \/ HasLock(p) \/ IsRefused(p) \/ Releases(p) \/ UNCHANGED pos
    BY DEF ProxySteps, Looks, Awaits, ErasesLock, ErasesSocket, TimesOut, Spawns, Polls,
       PollTimesOut, Terminates, Connects, Registers, IsAnswered, SessionEnds, lockVars
  <2> QED
    BY <2>1, <2>2, <2>3
<1>6. \A l \in Locks : pos'[q][l] = pos[q][l]
  BY <1>5, LockStepMoves, MovesOne
<1> QED
  BY <1>1, <1>2, <1>3, <1>4, <1>6

\* A proxy's step keeps its own rank.
LEMMA RankProxyStep ==
  ASSUME Startup, LockTypeOK, NEW p \in Procs, Rank(p), ProxySteps(p)
  PROVE  Rank(p)'
<1> USE StartupAssumption DEF Startup, ProxyType, Rank, Goes
<1>1. CASE Looks(p)
  BY <1>1 DEF Looks, Settles, FindsNone, lockVars
<1>2. CASE Awaits(p)
  BY <1>2 DEF Awaits, Settles, lockVars
<1>3. CASE ErasesLock(p)
  BY <1>3 DEF ErasesLock, Erases, lockVars
<1>4. CASE ErasesSocket(p)
  BY <1>4 DEF ErasesSocket, Erases, Settles, FindsNone, lockVars
<1>5. CASE TimesOut(p)
  BY <1>5 DEF TimesOut, Settles, lockVars
<1>6. CASE Acquires(p)
  <2> DEFINE l == Wanted(p)
  <2>1. l \in Locks
    BY <1>6 DEF Acquires, Wanted, ProxyInv
  <2>2. \E s \in Positions : Moves(p, l, s)
    BY <1>6 DEF Acquires, AcquireOpens, AcquireReads, AcquireUnlinks, Positions
  <2>3. \A m \in Locks : m # l => pos'[p][m] = pos[p][m]
    BY <2>1, <2>2, MovesOne
  <2>4. \A m \in Locks : m <= level[p] => m # l
    BY DEF Wanted
  <2>5. UNCHANGED <<ppc, level, why>>
    BY <1>6 DEF Acquires, proxies
  <2> QED
    BY <2>3, <2>4, <2>5
<1>7. CASE HasLock(p)
  <2> DEFINE l == Wanted(p)
  <2>1. l \in Locks
    BY <1>7 DEF HasLock, Wanted, ProxyInv
  <2>2. \E s \in Positions : Moves(p, l, s)
    BY <1>7 DEF HasLock, AcquireWrites, Positions
  <2>3. \A m \in Locks : m # l => pos'[p][m] = pos[p][m]
    BY <2>1, <2>2, MovesOne
  <2>4. pos'[p][l] = "held"
    BY <1>7, <2>1, MovesOne DEF HasLock, AcquireWrites, Positions
  <2>5. level'[p] = level[p] + 1
    BY <1>7 DEF HasLock
  <2>6. \A m \in Locks : m <= level'[p] => pos'[p][m] \in {"held", "freeing"}
    BY <2>3, <2>4, <2>5 DEF Wanted
  <2>7. \/ level[p] = 0 /\ ppc'[p] = "acquire" /\ why'[p] = why[p]
        \/ level[p] = 1 /\ ppc'[p] = "look" /\ why'[p] = "check"
        \/ level[p] = 2 /\ ppc'[p] = "spawn" /\ why'[p] = "first"
    BY <1>7 DEF HasLock
  <2> QED
    BY <2>5, <2>6, <2>7
<1>8. CASE IsRefused(p)
  <2> DEFINE l == Wanted(p)
  <2>1. l \in Locks
    BY <1>8 DEF IsRefused, Wanted, ProxyInv
  <2>2. \E s \in Positions : Moves(p, l, s)
    BY <1>8 DEF IsRefused, Refusal, Positions
  <2>3. \A m \in Locks : m # l => pos'[p][m] = pos[p][m]
    BY <2>1, <2>2, MovesOne
  <2>4. \A m \in Locks : m <= level[p] => m # l
    BY DEF Wanted
  <2>5. level' = level
    BY <1>8 DEF IsRefused
  <2>6. \/ level[p] < 2 /\ ppc'[p] = "look" /\ why'[p] = "refused"
        \/ level[p] = 2 /\ ppc'[p] = "release" /\ why'[p] = "first"
    BY <1>8 DEF IsRefused, Settles
  <2> QED
    BY <2>3, <2>4, <2>5, <2>6
<1>9. CASE Polls(p)
  <2>1. Settles(p, "failed") \/ Settles(p, "connect")
    BY <1>9 DEF Polls
  <2>2. level[p] = 3 /\ UNCHANGED <<pos, level>>
    BY <1>9 DEF Polls, lockVars
  <2>3. ppc'[p] = "release" /\ why'[p] = "first"
    BY <2>1, <2>2 DEF Settles
  <2> QED
    BY <2>2, <2>3
<1>10. CASE PollTimesOut(p)
  BY <1>10 DEF PollTimesOut, Signalled, DaemonAlive, lockVars
<1>11. CASE Terminates(p)
  BY <1>11 DEF Terminates, Settles, Vanishes, DaemonAlive, lockVars
<1>12. CASE Releases(p)
  <2> DEFINE l == level[p]
  <2>1. l \in Locks
    BY <1>12 DEF Releases, Wanted, ProxyInv
  <2>2. \E s \in Positions : Moves(p, l, s)
    BY <1>12 DEF Releases, ReleaseReads, ReleaseUnlinks, Positions
  <2>3. \A m \in Locks : m # l => pos'[p][m] = pos[p][m]
    BY <2>1, <2>2, MovesOne
  <2>4. pos'[p][l] \in {"freeing", "out"} /\ why'[p] = "first"
    BY <1>12, <2>1, MovesOne DEF Releases, ReleaseReads, ReleaseUnlinks, Positions
  <2>5. \/ pos'[p][l] = "freeing" /\ level'[p] = level[p] /\ ppc'[p] = "release"
        \/ level[p] = 1 /\ level'[p] = 0 /\ ppc'[p] = then[p]
        \/ level[p] \in 2..3 /\ level'[p] = level[p] - 1 /\ ppc'[p] = "release"
    BY <1>12, <2>4 DEF Releases, ProxyInv
  <2> QED
    BY <2>3, <2>4, <2>5
<1>13. CASE Connects(p)
  BY <1>13 DEF Connects, Connectable, lockVars
<1>14. CASE Registers(p)
  BY <1>14 DEF Registers, Ends, lockVars
<1>15. CASE IsAnswered(p)
  BY <1>15 DEF IsAnswered, Ends, DaemonAlive, lockVars
<1>16. CASE SessionEnds(p)
  BY <1>16 DEF SessionEnds, Ends, lockVars
<1>17. ASSUME NEW d \in Daemons, Spawns(p, d)
      PROVE  Rank(p)'
  BY <1>17 DEF Spawns, lockVars
<1> QED
  BY <1>1, <1>2, <1>3, <1>4, <1>5, <1>6, <1>7, <1>8, <1>9, <1>10, <1>11, <1>12, <1>13, <1>14, <1>15, <1>16, <1>17 DEF ProxySteps

\* The inductive step of the ranks.
LEMMA RanksNext ==
  ASSUME Startup, LockTypeOK, Ranks, [Next]_vars
  PROVE  Ranks'
<1>1. CASE UNCHANGED vars
  BY <1>1 DEF vars, Ranks, Rank, lockVars, proxies
<1>2. ASSUME NEW p \in Procs, ProxySteps(p)
      PROVE  Ranks'
  <2>1. \A q \in Procs : q # p => Rank(q)'
    BY <1>2, ProxyFrame DEF Ranks, Rank
  <2>2. Rank(p)'
    BY <1>2, RankProxyStep DEF Ranks
  <2> QED
    BY <2>1, <2>2 DEF Ranks
<1>3. ASSUME NEW p \in Procs, ProxyDies(p)
      PROVE  Ranks'
  BY <1>3, StartupAssumption DEF ProxyDies, Dies, Ends, Goes, Startup, ProxyType, LockTypeOK, Ranks, Rank
<1>4. ASSUME NEW d \in Daemons, DaemonSteps(d) \/ DaemonDies(d)
      PROVE  Ranks'
  <2>1. UNCHANGED <<pos, proxies>>
    BY <1>4 DEF DaemonSteps, DaemonDies, Binds, Publishes, Validates, PassesBarrier, lockVars,
                RemovesClient, TimerFires, Closes, HangsUp, RemovesLock, RemovesSocket
  <2> QED
    BY <2>1 DEF Ranks, Rank, proxies
<1>5. CASE StopSteps
  <2>1. UNCHANGED <<pos, proxies>>
    BY <1>5 DEF StopSteps, StopReads, StopWaits, StopCleans, lockVars
  <2> QED
    BY <2>1 DEF Ranks, Rank, proxies
<1> QED
  BY <1>1, <1>2, <1>3, <1>4, <1>5 DEF Next

\* Two proxies that both have the global lock are one, while nothing disturbs.
LEMMA Alone ==
  ASSUME Startup, LockInv, Ranks, Undisturbed, NEW p \in Procs, NEW q \in Procs,
         level[p] \in 2..3, level[q] \in 2..3
  PROVE  p = q
<1>1. 2 \in Locks
  BY StartupAssumption
<1>2. pos[p][2] \in {"held", "freeing"} /\ pos[q][2] \in {"held", "freeing"}
  BY <1>1 DEF Ranks, Rank
<1> QED
  BY <1>1, <1>2 DEF LockInv, Orderly, Undisturbed

\* What has disturbed the start-up stays on record.
LEMMA UndisturbedBefore ==
  ASSUME Startup, LockInv, [Next]_vars, Undisturbed'
  PROVE  Undisturbed
<1>1. [LockNext]_lockVars
  BY NextIsLockNext
<1>2. ASSUME NEW l \in Locks
      PROVE  contested[l] = "no"
  <2>1. contested'[l] = "no"
    BY DEF Undisturbed
  <2>2. contested \in [Locks -> {"no", "yes"}]
    BY DEF LockInv, LockTypeOK
  <2> QED
    BY <1>1, <2>1, <2>2 DEF LockNext, LockSteps, Dies, AcquireOpens, AcquireWrites, AcquireReads,
       AcquireUnlinks, Refusal, ReleaseReads, ReleaseUnlinks, lockVars
<1>3. upset \subseteq upset'
  <2>1. CASE UNCHANGED vars
    BY <2>1 DEF vars
  <2>2. ASSUME NEW p \in Procs, ProxySteps(p)
        PROVE  upset \subseteq upset'
    BY <2>2 DEF ProxySteps, Looks, Awaits, ErasesLock, ErasesSocket, TimesOut, Spawns, Acquires,
       HasLock, IsRefused, Polls, PollTimesOut, Terminates, Releases, Connects, Registers,
       IsAnswered, SessionEnds, Erases
  <2>3. ASSUME NEW p \in Procs, ProxyDies(p)
        PROVE  upset \subseteq upset'
    BY <2>3 DEF ProxyDies
  <2>4. ASSUME NEW d \in Daemons, DaemonSteps(d) \/ DaemonDies(d)
        PROVE  upset \subseteq upset'
    BY <2>4 DEF DaemonSteps, DaemonDies, Binds, Publishes, Validates, PassesBarrier,
                RemovesClient, TimerFires, Closes, HangsUp, RemovesLock, RemovesSocket
  <2>5. CASE StopSteps
    BY <2>5 DEF StopSteps, StopReads, StopWaits, StopCleans, Erases
  <2> QED
    BY <2>1, <2>2, <2>3, <2>4, <2>5 DEF Next
<1> QED
  BY <1>2, <1>3 DEF Undisturbed

\* Steps that start no daemon and take none off the record keep it unique:
\* daemons may go, and files of none may be removed.
LEMMA UniqueCalm ==
  ASSUME Unique,
         \A d \in Daemons : dpc'[d] = dpc[d] \/ dpc'[d] = "gone",
         daemonLock' = daemonLock \/ (daemonLock' = Nobody /\ ~ DaemonAlive(daemonLock)),
         socket' = socket \/ (socket' = Nobody /\ ~ DaemonAlive(socket)),
         \A q \in Procs, d \in Daemons :
           Waiting(q, d) /\ dpc'[d] \in Young => Waiting(q, d)',
         \A q \in Procs : Deciding(q)' => Deciding(q) \/ \A d \in Daemons : dpc'[d] \in Absent,
         \A q \in Procs : Sure(q)' => Sure(q) \/ daemonLock' = Nobody
  PROVE  Unique'
<1>1. HasStarter'
  BY DEF Unique, HasStarter, Young
<1>2. DecidesWell'
  BY DEF Unique, DecidesWell, Absent
<1>3. OnRecord'
  <2>1. \A d \in Daemons : dpc[d] \in Young \cup Bound => DaemonAlive(d)
    BY DEF DaemonAlive, Young, Bound, Recorded
  <2> QED
    BY <2>1 DEF Unique, OnRecord, Young, Bound, Recorded
<1>4. OnlyOne'
  BY DEF Unique, OnlyOne, Absent, Young, Bound, Recorded
<1> QED
  BY <1>1, <1>2, <1>3, <1>4 DEF Unique

\* Whoever looks under two locks and finds nobody on record is right.
LEMMA NobodyThere ==
  ASSUME Startup, LockInv, Ranks, Unique, Undisturbed, NEW p \in Procs,
         ppc[p] = "look", why[p] = "check", ~ DaemonAlive(daemonLock)
  PROVE  \A d \in Daemons : dpc[d] \in Absent
<1> SUFFICES ASSUME NEW d \in Daemons PROVE dpc[d] \in Absent
  OBVIOUS
<1>1. dpc[d] \notin Young
  <2> SUFFICES ASSUME dpc[d] \in Young PROVE FALSE
    OBVIOUS
  <2>1. PICK q \in Procs : Waiting(q, d)
    BY DEF Unique, HasStarter
  <2>2. level[p] = 2 /\ level[q] = 3
    BY <2>1 DEF Ranks, Rank, Waiting
  <2>3. p = q
    BY <2>2, Alone
  <2> QED
    BY <2>1, <2>3 DEF Waiting
<1>2. dpc[d] \notin Recorded
  BY DEF Unique, OnRecord, DaemonAlive, Recorded
<1>3. dpc[d] # "quitting"
  BY DEF Unique, OnRecord
<1> QED
  BY <1>1, <1>2, <1>3 DEF Startup, ServerType, Young, Recorded, Absent

\* A proxy's step keeps the daemon unique.
LEMMA UniqueProxyStep ==
  ASSUME Startup, LockInv, Ranks, Unique, Undisturbed, Undisturbed',
         NEW p \in Procs, ProxySteps(p)
  PROVE  Unique'
<1>1. LockTypeOK
  BY DEF LockInv
<1>2. \A q \in Procs : q # p =>
        /\ ppc'[q] = ppc[q] /\ why'[q] = why[q] /\ peer'[q] = peer[q] /\ level'[q] = level[q]
  BY <1>1, ProxyFrame
<1>3. \A q \in Procs, d \in Daemons : q # p => (Waiting(q, d) => Waiting(q, d)')
  BY <1>2 DEF Waiting
<1>4. \A q \in Procs : q # p => (Deciding(q)' => Deciding(q)) /\ (Sure(q)' => Sure(q))
  BY <1>2 DEF Deciding, Sure
<1>5. /\ ppc \in [Procs -> {"look", "await", "erase", "eraseSocket", "acquire", "spawn", "poll",
                        "terminate", "release", "connect", "register", "ack", "session",
                        "done", "failed", "asserted", "dead"}]
      /\ why \in [Procs -> {"first", "refused", "check"}]
      /\ level \in [Procs -> 0..3]
      /\ peer \in [Procs -> Daemons \cup {Nobody}]
  BY DEF Startup, ProxyType
<1>6. Rank(p)
  BY DEF Ranks
<1>7. CASE Looks(p)
  <2>1. UNCHANGED <<daemonLock, socket, dpc>>
    BY <1>7 DEF Looks, files, servers
  <2>2. \A d \in Daemons : ~ Waiting(p, d)
    BY <1>7 DEF Looks, Waiting
  <2>3. Deciding(p)' => why[p] = "check" /\ ~ DaemonAlive(daemonLock)
    <3>1. CASE daemonLock = Nobody
      BY <1>5, <1>7, <3>1, StartupAssumption
         DEF Looks, FindsNone, Settles, Goes, Deciding, DaemonAlive
    <3>2. CASE DaemonAlive(daemonLock)
      BY <1>5, <1>7, <3>2, StartupAssumption DEF Looks, Goes, Deciding, DaemonAlive
    <3>3. CASE daemonLock # Nobody /\ ~ DaemonAlive(daemonLock)
      BY <1>5, <1>7, <3>3 DEF Looks, Goes, Deciding
    <3> QED
      BY <3>1, <3>2, <3>3
  <2>4. Deciding(p)' => \A d \in Daemons : dpc'[d] \in Absent
    BY <1>7, <2>1, <2>3, NobodyThere DEF Looks
  <2>5. Sure(p)' => daemonLock' = Nobody
    BY <1>5, <1>7, <2>1 DEF Looks, Goes, Sure
  <2> QED
    BY <1>3, <1>4, <2>1, <2>2, <2>4, <2>5, UniqueCalm
<1>8. CASE ErasesLock(p)
  <2>1. /\ UNCHANGED <<socket, dpc>> /\ daemonLock' = Nobody /\ ~ DaemonAlive(daemonLock)
    BY <1>8 DEF ErasesLock, servers, Erases, Undisturbed
  <2>2. \A d \in Daemons : ~ Waiting(p, d)
    BY <1>8 DEF ErasesLock, Waiting
  <2>3. Deciding(p)' => Deciding(p)
    BY <1>5, <1>8 DEF ErasesLock, Deciding, Goes
  <2> QED
    BY <1>3, <1>4, <2>1, <2>2, <2>3, UniqueCalm
<1>9. CASE ErasesSocket(p)
  <2>1. /\ UNCHANGED <<daemonLock, dpc>> /\ socket' = Nobody /\ ~ DaemonAlive(socket)
    BY <1>9 DEF ErasesSocket, servers, Erases, Undisturbed
  <2>2. \A d \in Daemons : ~ Waiting(p, d)
    BY <1>9 DEF ErasesSocket, Waiting
  <2>3. (Deciding(p)' => Deciding(p)) /\ (Sure(p)' => Sure(p))
    BY <1>5, <1>9 DEF ErasesSocket, FindsNone, Settles, Deciding, Sure, Goes
  <2> QED
    BY <1>3, <1>4, <2>1, <2>2, <2>3, UniqueCalm
<1>10. CASE HasLock(p)
  <2>1. UNCHANGED <<daemonLock, socket, dpc>>
    BY <1>10 DEF HasLock, files, servers
  <2>2. \A d \in Daemons : ~ Waiting(p, d)
    BY <1>10 DEF HasLock, Waiting
  <2>3. (Deciding(p)' => Deciding(p)) /\ (Sure(p)' => Sure(p))
    BY <1>5, <1>6, <1>10 DEF HasLock, Rank, Deciding, Sure, Goes
  <2> QED
    BY <1>3, <1>4, <2>1, <2>2, <2>3, UniqueCalm
<1>11. CASE Polls(p)
  <2>1. UNCHANGED <<daemonLock, socket, dpc>>
    BY <1>11 DEF Polls, files, servers
  <2>2. ~ DaemonAlive(peer[p]) \/ daemonLock # Nobody
    BY <1>11 DEF Polls
  <2>3. \A d \in Daemons : Waiting(p, d) => dpc[d] \notin Young
    BY <2>2 DEF Waiting, DaemonAlive, Young, Unique, OnRecord
  <2>4. ppc'[p] \in {"failed", "connect", "release"}
    BY <1>5, <1>11 DEF Polls, Settles, Goes
  <2>5. ~ Deciding(p)' /\ ~ Sure(p)'
    BY <2>4 DEF Deciding, Sure
  <2> QED
    BY <1>3, <1>4, <2>1, <2>3, <2>5, UniqueCalm
<1>12. CASE PollTimesOut(p)
  <2>1. /\ UNCHANGED <<daemonLock, socket>>
        /\ \A d \in Daemons : dpc'[d] = dpc[d] \/ dpc'[d] = "gone"
    BY <1>12 DEF PollTimesOut, files, Signalled, Startup, ServerType
  <2>2. ppc'[p] = "terminate" /\ peer'[p] = peer[p]
    BY <1>5, <1>12 DEF PollTimesOut, Goes
  <2>3. ~ Deciding(p)' /\ ~ Sure(p)' /\ \A d \in Daemons : Waiting(p, d) => Waiting(p, d)'
    BY <2>2 DEF Deciding, Sure, Waiting
  <2> QED
    BY <1>3, <1>4, <2>1, <2>3, UniqueCalm
<1>13. CASE Terminates(p)
  <2>1. /\ UNCHANGED <<daemonLock, socket>>
        /\ \A d \in Daemons : dpc'[d] = dpc[d] \/ dpc'[d] = "gone"
    BY <1>13 DEF Terminates, files, servers, Vanishes, Startup, ServerType
  <2>2. \/ ppc'[p] = "terminate" /\ peer'[p] = peer[p]
        \/ ppc'[p] \in {"failed", "release"} /\ ~ DaemonAlive(peer[p]) /\ dpc' = dpc
    BY <1>5, <1>13 DEF Terminates, Settles, Goes, servers
  <2>3. ~ Deciding(p)' /\ ~ Sure(p)'
    BY <2>2 DEF Deciding, Sure
  <2>4. \A d \in Daemons : Waiting(p, d) /\ dpc'[d] \in Young => Waiting(p, d)'
    BY <2>2 DEF Waiting, DaemonAlive, Young
  <2> QED
    BY <1>3, <1>4, <2>1, <2>3, <2>4, UniqueCalm
<1>14. ASSUME NEW d \in Daemons, Spawns(p, d)
       PROVE  Unique'
  <2>1. /\ UNCHANGED <<daemonLock, socket>>
        /\ dpc'[d] = "starting" /\ dpc[d] = "unborn"
        /\ \A e \in Daemons : e # d => dpc'[e] = dpc[e]
    BY <1>14 DEF Spawns, files, Startup, ServerType
  <2>2. Waiting(p, d)'
    BY <1>5, <1>14 DEF Spawns, Goes, Waiting
  <2>3. ppc[p] = "spawn" /\ ppc'[p] = "poll" /\ level[p] = 3
    BY <1>5, <1>6, <1>14 DEF Spawns, Goes, Rank
  <2>4. daemonLock = Nobody /\ \A e \in Daemons : dpc[e] \in Absent
    BY <2>3 DEF Unique, DecidesWell, Deciding, Sure
  <2>5. HasStarter'
    BY <2>1, <2>2, <2>4 DEF HasStarter, Young, Absent
  <2>6. \A q \in Procs : ~ Deciding(q)' /\ ~ Sure(q)'
    <3>1. \A q \in Procs : Deciding(q) => level[q] \in 2..3
      BY DEF Deciding, Ranks, Rank
    <3>2. \A q \in Procs : q # p => ~ Deciding(q)
      BY <2>3, <3>1, Alone
    <3> QED
      BY <1>2, <2>3, <3>2 DEF Deciding, Sure
  <2>7. OnRecord' /\ OnlyOne'
    BY <2>1, <2>4 DEF OnRecord, OnlyOne, Young, Recorded, Bound, Absent
  <2> QED
    BY <2>5, <2>6, <2>7 DEF Unique, DecidesWell
<1>15. CASE \/ Awaits(p) \/ TimesOut(p) \/ Acquires(p) \/ IsRefused(p) \/ Releases(p)
            \/ Connects(p) \/ Registers(p) \/ IsAnswered(p) \/ SessionEnds(p)
  <2>1. UNCHANGED <<daemonLock, socket, dpc>>
    BY <1>15 DEF Awaits, TimesOut, Acquires, IsRefused, Releases, Connects, Registers,
       IsAnswered, SessionEnds, files, servers
  <2>2. \A d \in Daemons : ~ Waiting(p, d)
    BY <1>15 DEF Awaits, TimesOut, Acquires, IsRefused, Releases, Connects, Registers,
       IsAnswered, SessionEnds, Waiting
  <2>3. \/ UNCHANGED <<ppc, why>>
        \/ ppc'[p] \notin {"spawn", "erase", "eraseSocket", "acquire"}
        \/ why'[p] # "check" /\ ppc'[p] # "spawn"
    <3>1. CASE Awaits(p) \/ TimesOut(p)
      BY <1>5, <3>1 DEF Awaits, TimesOut, Settles, Goes
    <3>2. CASE Acquires(p)
      BY <3>2 DEF Acquires, proxies
    <3>3. CASE IsRefused(p)
      BY <1>5, <3>3 DEF IsRefused, Settles, Goes
    <3>4. CASE Releases(p)
      BY <1>5, <1>6, <3>4 DEF Releases, Goes, Rank, Startup, ProxyType
    <3>5. CASE Connects(p) \/ Registers(p) \/ IsAnswered(p) \/ SessionEnds(p)
      BY <1>5, <3>5 DEF Connects, Registers, IsAnswered, SessionEnds, Ends, Goes
    <3> QED
      BY <1>15, <3>1, <3>2, <3>3, <3>4, <3>5
  <2>4. (Deciding(p)' => Deciding(p)) /\ (Sure(p)' => Sure(p))
    BY <2>3 DEF Deciding, Sure
  <2> QED
    BY <1>3, <1>4, <2>1, <2>2, <2>4, UniqueCalm
<1> QED
  BY <1>7, <1>8, <1>9, <1>10, <1>11, <1>12, <1>13, <1>14, <1>15 DEF ProxySteps

\* A proxy's death keeps the daemon unique: the death of a starter whose child
\* is alive would be a disturbance.
LEMMA UniqueProxyDeath ==
  ASSUME Startup, Unique, Undisturbed', NEW p \in Procs, ProxyDies(p)
  PROVE  Unique'
<1>1. UNCHANGED <<daemonLock, socket, dpc>>
  BY DEF ProxyDies, files, servers
<1>2. /\ ppc'[p] = "dead"
      /\ \A q \in Procs : q # p => ppc'[q] = ppc[q] /\ why'[q] = why[q] /\ peer'[q] = peer[q]
  BY DEF ProxyDies, Ends, Goes, Startup, ProxyType
<1>3. \A q \in Procs : (Deciding(q)' => Deciding(q)) /\ (Sure(q)' => Sure(q))
  BY <1>2 DEF Deciding, Sure
<1>4. ppc[p] \in {"poll", "terminate"} => ~ DaemonAlive(peer[p])
  BY DEF ProxyDies, Undisturbed
<1>5. \A q \in Procs, d \in Daemons : Waiting(q, d) /\ dpc'[d] \in Young => Waiting(q, d)'
  BY <1>1, <1>2, <1>4 DEF Waiting, DaemonAlive, Young
<1> QED
  BY <1>1, <1>3, <1>5, UniqueCalm

\* A step of a daemon that stays on record keeps it unique.
LEMMA UniqueRecorded ==
  ASSUME Startup, Unique, NEW d \in Daemons, dpc[d] \in Recorded,
         NEW s \in Recorded, dpc' = [dpc EXCEPT ![d] = s],
         UNCHANGED <<daemonLock, socket, proxies>>
  PROVE  Unique'
<1>1. dpc'[d] = s /\ \A e \in Daemons : e # d => dpc'[e] = dpc[e]
  BY DEF Startup, ServerType
<1>2. HasStarter'
  BY <1>1 DEF Unique, HasStarter, Waiting, proxies, Young, Recorded
<1>3. DecidesWell'
  <2>1. \A q \in Procs : ~ Deciding(q) /\ ~ Deciding(q)' /\ Sure(q)' = Sure(q)
    BY DEF Unique, DecidesWell, Deciding, Sure, proxies, Recorded, Absent
  <2> QED
    BY <2>1 DEF Unique, DecidesWell
<1>4. OnRecord' /\ OnlyOne'
  BY <1>1 DEF Unique, OnRecord, OnlyOne, Young, Recorded, Bound, Absent
<1> QED
  BY <1>2, <1>3, <1>4 DEF Unique

\* A daemon's step or death keeps it unique.
LEMMA UniqueDaemonStep ==
  ASSUME Startup, LockInv, Ranks, Unique, Undisturbed, Undisturbed',
         NEW d \in Daemons, DaemonSteps(d) \/ DaemonDies(d)
  PROVE  Unique'
<1>1. UNCHANGED proxies
  BY DEF DaemonSteps, DaemonDies, Binds, Publishes, Validates, PassesBarrier,
         RemovesClient, TimerFires, Closes, HangsUp, RemovesLock, RemovesSocket
<1>2. /\ \A q \in Procs : Deciding(q)' = Deciding(q) /\ Sure(q)' = Sure(q)
      /\ \A q \in Procs, e \in Daemons : Waiting(q, e)' = Waiting(q, e)
  BY <1>1 DEF proxies, Deciding, Sure, Waiting
<1>3. ASSUME dpc[d] \in Young
      PROVE  \A q \in Procs : ~ Deciding(q) /\ ~ Sure(q)
  BY <1>3 DEF Unique, DecidesWell, Deciding, Sure, Young, Absent
<1>4. dpc \in [Daemons -> {"unborn", "starting", "bound", "published", "valid", "serving",
                          "failing", "failUnlock", "failUnlink", "quitting", "closing", "unlock",
                          "unlink", "gone"}]
  BY DEF Startup, ServerType
<1>5. CASE Binds(d)
  <2>1. /\ dpc[d] = "starting" /\ dpc'[d] = "bound" /\ socket' = d /\ daemonLock' = daemonLock
        /\ \A e \in Daemons : e # d => dpc'[e] = dpc[e]
    BY <1>4, <1>5 DEF Binds, Enters
  <2>2. \A e \in Daemons : dpc[e] \notin {"unlink", "failUnlink"}
    BY <1>5 DEF Binds, Undisturbed
  <2>3. \A e \in Daemons : e # d => dpc[e] \in {"unborn", "gone"}
    BY <2>1, <2>2 DEF Unique, OnlyOne, Young, Absent
  <2>4. HasStarter' /\ DecidesWell'
    BY <1>2, <1>3, <2>1, <2>3 DEF Unique, HasStarter, DecidesWell, Young
  <2>5. OnRecord' /\ OnlyOne'
    BY <2>1, <2>3 DEF Unique, OnRecord, OnlyOne, Young, Recorded, Bound, Absent
  <2> QED
    BY <2>4, <2>5 DEF Unique
<1>6. CASE Publishes(d)
  <2>1. /\ dpc[d] = "bound" /\ dpc'[d] = "published" /\ socket' = socket /\ daemonLock' = d
        /\ \A e \in Daemons : e # d => dpc'[e] = dpc[e]
    BY <1>4, <1>6 DEF Publishes, Enters
  <2>2. \A e \in Daemons : e # d => dpc[e] \in {"unborn", "gone"}
    BY <2>1 DEF Unique, OnlyOne, Bound
  <2>3. HasStarter' /\ DecidesWell'
    BY <1>2, <1>3, <2>1, <2>2 DEF Unique, HasStarter, DecidesWell, Young
  <2>4. OnRecord' /\ OnlyOne'
    BY <2>1, <2>2 DEF Unique, OnRecord, OnlyOne, Young, Recorded, Bound, Absent
  <2> QED
    BY <2>3, <2>4 DEF Unique
<1>7. CASE Validates(d) \/ PassesBarrier(d) \/ Closes(d) \/ HangsUp(d)
  <2>1. dpc[d] \in Recorded
    BY <1>7 DEF Validates, PassesBarrier, Closes, HangsUp, Unique, OnRecord, Recorded
  <2>2. daemonLock = d /\ dpc[d] # "quitting"
    BY <2>1 DEF Unique, OnRecord
  <2>3. \E s \in Recorded : dpc' = [dpc EXCEPT ![d] = s]
    BY <1>4, <1>7, <2>2 DEF Validates, PassesBarrier, Closes, HangsUp, Enters, Recorded
  <2>4. UNCHANGED <<daemonLock, socket>>
    BY <1>7 DEF Validates, PassesBarrier, Closes, HangsUp, files
  <2> QED
    BY <1>1, <2>1, <2>3, <2>4, UniqueRecorded
<1>8. CASE RemovesLock(d)
  <2>1. /\ dpc[d] \in {"unlock", "failUnlock"} /\ dpc'[d] \in {"unlink", "failUnlink"}
        /\ socket' = socket /\ daemonLock' = Nobody
        /\ \A e \in Daemons : e # d => dpc'[e] = dpc[e]
    BY <1>4, <1>8 DEF RemovesLock, Enters
  <2>2. \A e \in Daemons : e # d => dpc[e] \in {"unborn", "gone"}
    BY <2>1 DEF Unique, OnlyOne, Bound, Recorded
  <2>3. HasStarter' /\ DecidesWell'
    BY <1>2, <2>1, <2>2 DEF Unique, HasStarter, DecidesWell, Young, Absent
  <2>4. OnRecord' /\ OnlyOne'
    BY <2>1, <2>2 DEF Unique, OnRecord, OnlyOne, Young, Recorded, Bound, Absent
  <2> QED
    BY <2>3, <2>4 DEF Unique
<1>9. CASE RemovesSocket(d)
  <2>1. /\ dpc[d] \in {"unlink", "failUnlink"} /\ dpc'[d] = "gone" /\ daemonLock' = daemonLock
        /\ \A e \in Daemons : e # d => dpc'[e] = dpc[e]
    BY <1>4, <1>9 DEF RemovesSocket, Vanishes
  <2>2. \A e \in Daemons : dpc[e] \notin Bound
    BY <2>1 DEF Unique, OnlyOne, Bound, Recorded
  <2>3. HasStarter' /\ DecidesWell'
    BY <1>2, <2>1 DEF Unique, HasStarter, DecidesWell, Young, Absent
  <2>4. OnRecord' /\ OnlyOne'
    BY <2>1, <2>2 DEF Unique, OnRecord, OnlyOne, Young, Recorded, Bound, Absent
  <2> QED
    BY <2>3, <2>4 DEF Unique
<1>10. CASE DaemonDies(d) \/ TimerFires(d) \/ \E p \in Procs : RemovesClient(d, p)
  <2>1. /\ UNCHANGED <<daemonLock, socket>>
        /\ \A e \in Daemons : dpc'[e] = dpc[e] \/ dpc'[e] = "gone"
    BY <1>4, <1>10 DEF DaemonDies, Vanishes, TimerFires, RemovesClient, files
  <2> QED
    BY <1>2, <2>1, UniqueCalm
<1> QED
  BY <1>5, <1>6, <1>7, <1>8, <1>9, <1>10 DEF DaemonSteps

\* The stop command keeps the daemon unique.
LEMMA UniqueStop ==
  ASSUME Startup, Unique, Undisturbed', StopSteps
  PROVE  Unique'
<1>1. UNCHANGED <<proxies, socket>>
  BY DEF StopSteps, StopReads, StopWaits, StopCleans, files
<1>2. /\ \A q \in Procs : Deciding(q)' = Deciding(q) /\ Sure(q)' = Sure(q)
      /\ \A q \in Procs, e \in Daemons : Waiting(q, e)' = Waiting(q, e)
  BY <1>1 DEF proxies, Deciding, Sure, Waiting
<1>3. \A e \in Daemons : dpc'[e] = dpc[e] \/ dpc'[e] = "gone"
  BY DEF StopSteps, StopReads, StopWaits, StopCleans, Signalled, Vanishes, servers, Startup,
         ServerType
<1>4. daemonLock' = daemonLock \/ (daemonLock' = Nobody /\ ~ DaemonAlive(daemonLock))
  BY DEF StopSteps, StopReads, StopWaits, StopCleans, files, Erases, Undisturbed
<1> QED
  BY <1>1, <1>2, <1>3, <1>4, UniqueCalm

\* The inductive step of the uniqueness.
LEMMA UniqueNext ==
  ASSUME Startup, LockInv, Ranks, UniqueInv, [Next]_vars
  PROVE  UniqueInv'
<1> SUFFICES ASSUME Undisturbed' PROVE Unique'
  BY DEF UniqueInv
<1>1. Undisturbed /\ Unique
  BY UndisturbedBefore DEF UniqueInv
<1>2. CASE UNCHANGED vars
  BY <1>1, <1>2 DEF vars, files, proxies, servers, Unique, HasStarter, DecidesWell, OnRecord,
     OnlyOne, Deciding, Sure, Waiting
<1>3. CASE Next
  BY <1>1, <1>3, UniqueProxyStep, UniqueProxyDeath, UniqueDaemonStep, UniqueStop DEF Next
<1> QED
  BY <1>2, <1>3

\* Every reachable state is ranked and has at most one daemon.
LEMMA UniqueAlways == Spec => [](Startup /\ Ranks /\ UniqueInv)
<1>1. Init => Ranks /\ UniqueInv
  <2> SUFFICES ASSUME Init PROVE Ranks /\ Unique
    BY DEF UniqueInv
  <2>1. Ranks
    BY StartupAssumption DEF Init, Ranks, Rank
  <2>2. Unique
    BY DEF Init, Unique, HasStarter, DecidesWell, OnRecord, OnlyOne, Deciding, Sure,
           Young, Recorded, Bound, Absent
  <2> QED
    BY <2>1, <2>2
<1>2. Startup /\ LockInv /\ Ranks /\ UniqueInv /\ [Next]_vars => Ranks' /\ UniqueInv'
  BY RanksNext, UniqueNext DEF LockInv
<1> QED
  BY <1>1, <1>2, StartupAlways, PTL DEF Spec

\* find_or_start_daemon never lets two daemons serve one project, however many
\* proxies race for it, die, time out or are refused, as long as nothing
\* disturbs the start-up.
THEOREM StartupIsUnique == Spec => []OneDaemon
<1>1. UniqueInv => OneDaemon
  BY DEF UniqueInv, Unique, OnlyOne, OneDaemon, Serving, Bound, Recorded
<1> QED
  BY <1>1, UniqueAlways, PTL

\* A daemon that passed its validation is on record with its socket until it
\* closes, so that the next proxy finds it, as long as nothing disturbs.
THEOREM ServersAreFound == Spec => []ServerIsFound
<1>1. UniqueInv => ServerIsFound
  BY DEF UniqueInv, Unique, OnRecord, ServerIsFound, Bound, Recorded
<1> QED
  BY <1>1, UniqueAlways, PTL

-----------------------------------------------------------------------------
(* Leaving.                                                                *)

\* The promise to leave holds from a daemon's start until it closes.
Leaving ==
  \A d \in Daemons :
    dpc[d] \in {"unborn", "starting", "bound", "published", "valid", "serving"} /\
    used[d] = "yes" /\ clients[d] = {} => timer[d] = "pending" \/ event[d] = "set"

\* The inductive step of the promise.
LEMMA LeavingNext ==
  ASSUME Startup, Leaving, [Next]_vars
  PROVE  Leaving'
<1> USE DEF Startup, ServerType, Leaving
<1>1. CASE UNCHANGED vars
  BY <1>1 DEF vars, servers
<1>2. ASSUME NEW p \in Procs, ProxySteps(p)
      PROVE  Leaving'
  <2>1. CASE IsAnswered(p)
    <3>1. PICK d \in Daemons : dpc' = dpc /\ timer' = timer /\ event' = event
                /\ \/ clients' = [clients EXCEPT ![d] = @ \cup {p}]
                      /\ used' = [used EXCEPT ![d] = "yes"]
                   \/ UNCHANGED <<clients, used>>
      BY <2>1 DEF IsAnswered, ProxyType, DaemonAlive
    <3> QED
      BY <3>1
  <2>2. ASSUME NEW d \in Daemons, Spawns(p, d)
        PROVE  Leaving'
    BY <2>2 DEF Spawns
  <2>3. CASE PollTimesOut(p)
    BY <2>3 DEF PollTimesOut, Signalled
  <2>4. CASE Terminates(p)
    BY <2>4 DEF Terminates, Vanishes, servers
  <2>5. CASE ~ (IsAnswered(p) \/ (\E d \in Daemons : Spawns(p, d)) \/ PollTimesOut(p)
                \/ Terminates(p))
    <3>1. UNCHANGED servers
      BY <1>2, <2>5 DEF ProxySteps, Looks, Awaits, ErasesLock, ErasesSocket, TimesOut, Acquires,
         HasLock, IsRefused, Polls, Releases, Connects, Registers, SessionEnds
    <3> QED
      BY <3>1 DEF servers
  <2> QED
    BY <2>1, <2>2, <2>3, <2>4, <2>5
<1>3. ASSUME NEW p \in Procs, ProxyDies(p)
      PROVE  Leaving'
  BY <1>3 DEF ProxyDies, servers
<1>4. ASSUME NEW d \in Daemons, DaemonSteps(d) \/ DaemonDies(d)
      PROVE  Leaving'
  <2>1. CASE Binds(d) \/ Publishes(d) \/ Validates(d) \/ PassesBarrier(d) \/ Closes(d)
             \/ RemovesLock(d)
    BY <2>1 DEF Binds, Publishes, Validates, PassesBarrier, Closes, RemovesLock, Enters
  <2>2. CASE TimerFires(d)
    BY <2>2 DEF TimerFires
  <2>3. CASE HangsUp(d)
    BY <2>3 DEF HangsUp, Enters
  <2>4. CASE RemovesSocket(d) \/ DaemonDies(d)
    BY <2>4 DEF RemovesSocket, DaemonDies, Vanishes
  <2>5. ASSUME NEW p \in Procs, RemovesClient(d, p)
        PROVE  Leaving'
    BY <2>5 DEF RemovesClient, OnAllClientsGone
  <2> QED
    BY <1>4, <2>1, <2>2, <2>3, <2>4, <2>5 DEF DaemonSteps
<1>5. CASE StopSteps
  BY <1>5 DEF StopSteps, StopReads, StopWaits, StopCleans, Signalled, Vanishes, servers
<1> QED
  BY <1>1, <1>2, <1>3, <1>4, <1>5 DEF Next

\* A daemon that has served its last client is on its way out, whichever way
\* and in whatever order its proxies came and went (_on_all_clients_gone,
\* _delayed_shutdown).
THEOREM IdleDaemonsLeave == Spec => []IdleDaemonLeaves
<1>1. Init => Leaving
  BY DEF Init, Leaving
<1>2. Startup /\ Leaving /\ [Next]_vars => Leaving'
  BY LeavingNext
<1>3. Leaving => IdleDaemonLeaves
  BY DEF Leaving, IdleDaemonLeaves
<1> QED
  BY <1>1, <1>2, <1>3, StartupAlways, PTL DEF Spec

-----------------------------------------------------------------------------
(* The starter lock.                                                       *)

\* Only a proxy with the global lock touches the starter lock; a live creator
\* of its file has it; and nobody is on the way to being refused.
Touches(p) == pos[p][3] # "out" => level[p] = 3 \/ (level[p] = 2 /\ ppc[p] = "acquire")

OwnerHolds ==
  \A p \in Procs \ dead : owner[3] = p => pos[p][3] \in {"writing", "held", "freeing"}

NotRefused(p) ==
  /\ ppc[p] # "asserted" /\ then[p] # "asserted"
  /\ pos[p][3] \notin {"refused", "reading2", "unlinking2"}
  /\ pos[p][3] = "again" => owner[3] = Nobody
  /\ pos[p][3] = "reading" => owner[3] # Nobody

StarterInv ==
  /\ \A p \in Procs : Touches(p)
  /\ Undisturbed => OwnerHolds
  /\ Undisturbed /\ ~ AbandonedBlank(3) => \A p \in Procs : NotRefused(p)

\* The lock a step of a proxy is about, if any.
LEMMA ProxyLockStep ==
  ASSUME Startup, NEW p \in Procs, ProxySteps(p)
  PROVE  \/ /\ UNCHANGED lockVars /\ level' = level
            /\ ppc[p] \notin {"acquire", "release"}
         \/ /\ Wanted(p) \in Locks /\ LockSteps(p, Wanted(p))
            /\ Acquires(p) \/ HasLock(p) \/ IsRefused(p)
         \/ level[p] \in Locks /\ LockSteps(p, level[p]) /\ Releases(p)
<1>1. CASE Acquires(p) \/ HasLock(p) \/ IsRefused(p)
  BY <1>1, StartupAssumption
     DEF Startup, ProxyInv, Wanted, LockSteps, Acquires, HasLock, IsRefused
<1>2. CASE Releases(p)
  BY <1>2, StartupAssumption DEF Startup, ProxyInv, LockSteps, Releases
<1>3. CASE ~ (Acquires(p) \/ HasLock(p) \/ IsRefused(p) \/ Releases(p))
  BY <1>3 DEF ProxySteps, Looks, Awaits, ErasesLock, ErasesSocket, TimesOut, Spawns, Polls,
     PollTimesOut, Terminates, Connects, Registers, IsAnswered, SessionEnds
<1> QED
  BY <1>1, <1>2, <1>3

\* A proxy without the global lock keeps away from the starter lock.
LEMMA TouchesStep ==
  ASSUME Startup, LockTypeOK, NEW p \in Procs, Touches(p), ProxySteps(p)
  PROVE  Touches(p)'
<1> USE StartupAssumption DEF Touches
<1>1. level \in [Procs -> 0..3] /\ level[p] \in 0..3
  BY DEF Startup, ProxyType
<1>2. ASSUME NEW l \in Locks, LockSteps(p, l), l # 3
      PROVE  pos'[p][3] = pos[p][3]
  BY <1>2, OtherLocks
<1>3. CASE UNCHANGED lockVars /\ level' = level /\ ppc[p] \notin {"acquire", "release"}
  BY <1>3 DEF lockVars
<1>4. CASE Acquires(p) /\ LockSteps(p, Wanted(p)) /\ Wanted(p) \in Locks
  <2>1. ppc' = ppc /\ level' = level /\ ppc[p] = "acquire"
    BY <1>4 DEF Acquires, proxies
  <2>2. level[p] # 2 => pos'[p][3] = pos[p][3]
    BY <1>1, <1>2, <1>4 DEF Wanted
  <2> QED
    BY <2>1, <2>2
<1>5. CASE HasLock(p) /\ LockSteps(p, Wanted(p)) /\ Wanted(p) \in Locks
  <2>1. level'[p] = level[p] + 1 /\ ppc[p] = "acquire"
    BY <1>1, <1>5 DEF HasLock
  <2>2. level[p] # 2 => pos'[p][3] = pos[p][3]
    BY <1>1, <1>2, <1>5 DEF Wanted
  <2>3. level[p] \in 0..2
    BY <2>1 DEF Startup, ProxyInv
  <2> QED
    BY <2>1, <2>2, <2>3
<1>6. CASE IsRefused(p) /\ LockSteps(p, Wanted(p)) /\ Wanted(p) \in Locks
  <2>1. level' = level /\ ppc[p] = "acquire"
    BY <1>6 DEF IsRefused
  <2>2. level[p] # 2 => pos'[p][3] = pos[p][3]
    BY <1>1, <1>2, <1>6 DEF Wanted
  <2>3. level[p] = 2 => pos'[p][3] = "out"
    BY <1>6, MovesOne DEF IsRefused, Refusal, Wanted, Positions
  <2> QED
    BY <2>1, <2>2, <2>3
<1>7. CASE Releases(p) /\ LockSteps(p, level[p]) /\ level[p] \in Locks
  <2>1. ppc[p] = "release"
    BY <1>7 DEF Releases
  <2>2. level[p] # 3 => pos'[p][3] = "out"
    BY <1>1, <1>2, <1>7, <2>1
  <2>3. level[p] = 3 => level'[p] = 3 \/ pos'[p][3] = "out"
    BY <1>1, <1>7 DEF Releases
  <2> QED
    BY <1>1, <2>2, <2>3
<1> QED
  BY <1>3, <1>4, <1>5, <1>6, <1>7, ProxyLockStep

\* A live creator of the starter lock's file has it.
LEMMA OwnerHoldsNext ==
  ASSUME LockInv, Undisturbed, 3 \in Locks, OwnerHolds, [LockNext]_lockVars
  PROVE  OwnerHolds'
<1>1. LockTypeOK /\ Orderly(3)
  BY DEF LockInv, Undisturbed
<1>2. CASE UNCHANGED lockVars
  BY <1>2 DEF lockVars, OwnerHolds
<1>3. ASSUME NEW p \in Procs, Dies(p)
      PROVE  OwnerHolds'
  BY <1>1, <1>3 DEF Dies, OwnerHolds, LockTypeOK
<1>4. ASSUME NEW p \in Procs, NEW l \in Locks, LockSteps(p, l), l # 3
      PROVE  OwnerHolds'
  <2>1. /\ owner'[3] = owner[3] /\ dead' = dead
        /\ \A q \in Procs : pos'[q][3] = pos[q][3]
    BY <1>1, <1>4, OtherLocks
  <2> QED
    BY <2>1 DEF OwnerHolds
<1>5. ASSUME NEW p \in Procs, LockSteps(p, 3)
      PROVE  OwnerHolds'
  <2>1. PICK s \in Positions : Moves(p, 3, s)
    BY <1>1, <1>5, LockStepMoves
  <2>2. pos'[p][3] = s /\ \A q \in Procs : q # p => pos'[q][3] = pos[q][3]
    BY <1>1, <2>1, MovesOne
  <2>3. p \notin dead /\ dead' = dead
    BY <1>5 DEF LockSteps, AcquireOpens, AcquireWrites, AcquireReads, AcquireUnlinks, Refusal,
                ReleaseReads, ReleaseUnlinks
  <2>4. owner'[3] = owner[3] \/ owner'[3] = Nobody \/ owner'[3] = p
    BY <1>1, <1>5 DEF LockTypeOK, LockSteps, AcquireOpens, AcquireWrites, AcquireReads,
       AcquireUnlinks, Refusal, ReleaseReads, ReleaseUnlinks, Unlinked
  <2>5. Nobody \notin Procs
    BY PidLockAssumption
  <2>6. owner'[3] = p => pos'[p][3] \in {"writing", "held", "freeing"}
    <3>1. CASE AcquireOpens(p, 3)
      <4>1. CASE owner[3] = Nobody
        BY <1>1, <3>1, <4>1, MovesOne DEF AcquireOpens, Positions
      <4>2. CASE owner[3] # Nobody
        BY <2>3, <3>1, <4>2 DEF AcquireOpens, OwnerHolds
      <4> QED
        BY <4>1, <4>2
    <3>2. CASE AcquireWrites(p, 3)
      BY <1>1, <3>2, MovesOne DEF AcquireWrites, Positions
    <3>3. CASE AcquireReads(p, 3) \/ Refusal(p, 3)
      BY <2>3, <3>3 DEF AcquireReads, Refusal, OwnerHolds
    <3>4. CASE AcquireUnlinks(p, 3) \/ ReleaseUnlinks(p, 3)
      BY <1>1, <2>5, <3>4 DEF AcquireUnlinks, ReleaseUnlinks, Unlinked, LockTypeOK
    <3>5. CASE ReleaseReads(p, 3)
      <4>1. owner[3] = p /\ text[3] = "pid"
        BY <1>1, <3>5 DEF ReleaseReads, Orderly
      <4> QED
        BY <1>1, <3>5, <4>1, MovesOne DEF ReleaseReads, Positions
    <3> QED
      BY <1>5, <3>1, <3>2, <3>3, <3>4, <3>5 DEF LockSteps
  <2> QED
    BY <2>2, <2>3, <2>4, <2>5, <2>6 DEF OwnerHolds
<1> QED
  BY <1>2, <1>3, <1>4, <1>5 DEF LockNext

\* A file that was left unwritten stays.
LEMMA BlankStays ==
  ASSUME LockInv, Undisturbed, 3 \in Locks, AbandonedBlank(3), [LockNext]_lockVars
  PROVE  AbandonedBlank(3)'
<1> USE DEF AbandonedBlank, PidAlive
<1>1. LockTypeOK /\ Orderly(3) /\ DeadAreOut
  BY DEF LockInv, Undisturbed
<1>2. CASE UNCHANGED lockVars
  BY <1>2 DEF lockVars
<1>3. ASSUME NEW p \in Procs, Dies(p)
      PROVE  AbandonedBlank(3)'
  BY <1>3 DEF Dies
<1>4. ASSUME NEW p \in Procs, NEW l \in Locks, LockSteps(p, l), l # 3
      PROVE  AbandonedBlank(3)'
  <2>1. owner'[3] = owner[3] /\ text'[3] = text[3] /\ dead' = dead
    BY <1>1, <1>4, OtherLocks
  <2> QED
    BY <2>1
<1>5. ASSUME NEW p \in Procs, LockSteps(p, 3)
      PROVE  AbandonedBlank(3)'
  <2>1. p \notin dead /\ pos[p][3] \notin {"writing", "held", "freeing", "unlinking", "unlinking2"}
    BY <1>1, <1>5 DEF LockSteps, Orderly, Takers
  <2>2. UNCHANGED <<owner, text, dead>>
    BY <1>5, <2>1 DEF LockSteps, AcquireOpens, AcquireWrites, AcquireReads, AcquireUnlinks,
       Refusal, ReleaseReads, ReleaseUnlinks
  <2> QED
    BY <2>2
<1> QED
  BY <1>2, <1>3, <1>4, <1>5 DEF LockNext

\* A step on the starter lock refuses nobody, since whoever takes it is alone
\* and its file is a dead holder's or none.
LEMMA StarterLockStep ==
  ASSUME Startup, LockInv, Ranks, Undisturbed, 3 \in Locks, OwnerHolds,
         \A q \in Procs : Touches(q), ~ AbandonedBlank(3),
         NEW p \in Procs, NotRefused(p), LockSteps(p, 3), level[p] \in 2..3
  PROVE  /\ pos'[p][3] \notin {"refused", "reading2", "unlinking2"}
         /\ pos'[p][3] = "again" => owner'[3] = Nobody
         /\ pos'[p][3] = "reading" => owner'[3] # Nobody
<1>1. LockTypeOK /\ Orderly(3)
  BY DEF LockInv, Undisturbed
<1>2. \A q \in Procs : q # p => pos[q][3] = "out"
  BY Alone DEF Touches
<1>3. ~ Refusal(p, 3) /\ pos[p][3] \notin {"reading2", "unlinking2"}
  BY DEF NotRefused, Refusal
<1>4. CASE AcquireOpens(p, 3)
  <2>1. CASE owner[3] = Nobody
    BY <1>1, <1>4, <2>1, MovesOne DEF AcquireOpens, Positions
  <2>2. CASE owner[3] # Nobody
    <3>1. pos[p][3] = "out"
      BY <1>4, <2>2 DEF AcquireOpens, NotRefused
    <3>2. Moves(p, 3, "reading") /\ owner' = owner
      BY <1>4, <2>2, <3>1 DEF AcquireOpens
    <3> QED
      BY <1>1, <2>2, <3>2, MovesOne DEF Positions
  <2> QED
    BY <2>1, <2>2
<1>5. CASE AcquireReads(p, 3)
  <2>1. pos[p][3] = "reading" /\ owner[3] # Nobody
    BY <1>3, <1>5 DEF AcquireReads, NotRefused
  <2>2. ~ PidAlive(owner[3])
    BY <1>2, <2>1 DEF PidAlive, OwnerHolds
  <2>3. text[3] = "pid"
    BY <1>1, <2>1, <2>2 DEF AbandonedBlank, LockTypeOK
  <2>4. Moves(p, 3, "unlinking")
    BY <1>5, <2>1, <2>2, <2>3 DEF AcquireReads, Unreadable
  <2> QED
    BY <1>1, <2>4, MovesOne DEF Positions
<1>6. CASE AcquireUnlinks(p, 3)
  <2>1. pos[p][3] = "unlinking"
    BY <1>3, <1>6 DEF AcquireUnlinks
  <2>2. Moves(p, 3, "again") /\ owner'[3] = Nobody
    BY <1>1, <1>6, <2>1 DEF AcquireUnlinks, Unlinked, LockTypeOK
  <2> QED
    BY <1>1, <2>2, MovesOne DEF Positions
<1>7. CASE AcquireWrites(p, 3) \/ ReleaseReads(p, 3) \/ ReleaseUnlinks(p, 3)
  <2>1. \E s \in {"held", "freeing", "out"} : Moves(p, 3, s)
    BY <1>7 DEF AcquireWrites, ReleaseReads, ReleaseUnlinks
  <2> QED
    BY <1>1, <2>1, MovesOne DEF Positions
<1> QED
  BY <1>3, <1>4, <1>5, <1>6, <1>7 DEF LockSteps

\* A proxy's step refuses nobody.
LEMMA NotRefusedStep ==
  ASSUME Startup, LockInv, Ranks, Undisturbed, OwnerHolds,
         \A q \in Procs : Touches(q) /\ NotRefused(q), ~ AbandonedBlank(3),
         NEW p \in Procs, ProxySteps(p)
  PROVE  \A q \in Procs : NotRefused(q)'
<1> USE StartupAssumption
<1>1. LockTypeOK /\ 3 \in Locks /\ level[p] \in 0..3
  BY DEF LockInv, Startup, ProxyType
<1>2. /\ ppc \in [Procs -> {"look", "await", "erase", "eraseSocket", "acquire", "spawn", "poll",
                        "terminate", "release", "connect", "register", "ack", "session",
                        "done", "failed", "asserted", "dead"}]
      /\ then \in [Procs -> {"acquire", "connect", "failed", "asserted"}]
  BY DEF Startup, ProxyType
<1>3. CASE IsRefused(p) /\ level[p] = 2
  <2>1. pos[p][3] = "refused"
    BY <1>3 DEF IsRefused, Refusal, Wanted
  <2> QED
    BY <2>1 DEF NotRefused
<1>4. CASE ~ (IsRefused(p) /\ level[p] = 2)
  <2>1. \A q \in Procs : ppc'[q] # "asserted" /\ then'[q] # "asserted"
    <3>1. CASE Looks(p) \/ Awaits(p) \/ ErasesSocket(p) \/ TimesOut(p) \/ Polls(p) \/ Terminates(p)
      BY <1>2, <3>1 DEF NotRefused, Looks, Awaits, ErasesSocket, TimesOut, Polls, Terminates,
         FindsNone, Settles, Goes
    <3>2. CASE Acquires(p) \/ HasLock(p) \/ IsRefused(p) \/ ErasesLock(p) \/ PollTimesOut(p)
               \/ \E d \in Daemons : Spawns(p, d)
      BY <1>1, <1>2, <1>4, <3>2 DEF NotRefused, Acquires, HasLock, IsRefused, ErasesLock,
         PollTimesOut, Spawns, Goes, proxies
    <3>3. CASE Releases(p)
      BY <1>2, <3>3 DEF NotRefused, Releases, Goes
    <3>4. CASE Connects(p) \/ Registers(p) \/ IsAnswered(p) \/ SessionEnds(p)
      BY <1>2, <3>4 DEF NotRefused, Connects, Registers, IsAnswered, SessionEnds, Ends, Goes
    <3> QED
      BY <3>1, <3>2, <3>3, <3>4 DEF ProxySteps
  <2>2. ASSUME owner'[3] = owner[3], \A q \in Procs : pos'[q][3] = pos[q][3]
        PROVE  \A q \in Procs : NotRefused(q)'
    BY <2>1, <2>2 DEF NotRefused
  <2>3. ASSUME NEW l \in Locks, l # 3, LockSteps(p, l)
        PROVE  \A q \in Procs : NotRefused(q)'
    BY <1>1, <2>2, <2>3, OtherLocks
  <2>4. ASSUME LockSteps(p, 3), level[p] \in 2..3
        PROVE  \A q \in Procs : NotRefused(q)'
    <3>1. \A q \in Procs : q # p => pos'[q][3] = "out"
      <4>1. PICK s \in Positions : Moves(p, 3, s)
        BY <1>1, <2>4, LockStepMoves
      <4>2. \A q \in Procs : q # p => pos'[q][3] = pos[q][3]
        BY <1>1, <4>1, MovesOne
      <4> QED
        BY <2>4, <4>2, Alone DEF Touches
    <3>2. \A q \in Procs : q # p => NotRefused(q)'
      BY <2>1, <3>1 DEF NotRefused
    <3>3. NotRefused(p)'
      BY <1>1, <2>1, <2>4, StarterLockStep DEF NotRefused
    <3> QED
      BY <3>2, <3>3
  <2>5. CASE UNCHANGED lockVars
    BY <2>2, <2>5 DEF lockVars
  <2>6. CASE Wanted(p) \in Locks /\ LockSteps(p, Wanted(p))
    BY <1>1, <2>3, <2>4, <2>6 DEF Wanted
  <2>7. CASE level[p] \in Locks /\ LockSteps(p, level[p])
    BY <1>1, <2>3, <2>4, <2>7
  <2> QED
    BY <2>5, <2>6, <2>7, ProxyLockStep
<1> QED
  BY <1>3, <1>4

\* The inductive step of the starter lock.
LEMMA StarterNext ==
  ASSUME Startup, LockInv, Ranks, StarterInv, [Next]_vars
  PROVE  StarterInv'
<1>1. [LockNext]_lockVars /\ LockTypeOK /\ 3 \in Locks
  BY NextIsLockNext, StartupAssumption DEF LockInv
<1>2. ASSUME Undisturbed'
      PROVE  OwnerHolds'
  BY <1>1, <1>2, UndisturbedBefore, OwnerHoldsNext DEF StarterInv
<1>3. ASSUME Undisturbed', ~ AbandonedBlank(3)'
      PROVE  /\ Undisturbed /\ ~ AbandonedBlank(3) /\ OwnerHolds
             /\ \A q \in Procs : NotRefused(q)
  BY <1>1, <1>3, UndisturbedBefore, BlankStays DEF StarterInv
<1>4. ASSUME UNCHANGED <<pos, owner, ppc, then, level>>
      PROVE  StarterInv'
  <2>1. \A q \in Procs : Touches(q)'
    BY <1>4 DEF StarterInv, Touches
  <2>2. ASSUME Undisturbed', ~ AbandonedBlank(3)'
        PROVE  \A q \in Procs : NotRefused(q)'
    BY <1>3, <1>4, <2>2 DEF NotRefused
  <2> QED
    BY <1>2, <2>1, <2>2 DEF StarterInv
<1>5. ASSUME NEW p \in Procs, ProxySteps(p)
      PROVE  StarterInv'
  <2>1. \A q \in Procs : q # p => Touches(q)'
    BY <1>1, <1>5, ProxyFrame DEF StarterInv, Touches
  <2>2. Touches(p)'
    BY <1>1, <1>5, TouchesStep DEF StarterInv
  <2>3. ASSUME Undisturbed', ~ AbandonedBlank(3)'
        PROVE  \A q \in Procs : NotRefused(q)'
    BY <1>3, <1>5, <2>3, NotRefusedStep DEF StarterInv
  <2> QED
    BY <1>2, <2>1, <2>2, <2>3 DEF StarterInv
<1>6. ASSUME NEW p \in Procs, ProxyDies(p)
      PROVE  StarterInv'
  <2>1. /\ ppc'[p] = "dead" /\ then'[p] = "acquire" /\ pos'[p][3] = "out" /\ owner' = owner
        /\ \A q \in Procs : q # p => /\ ppc'[q] = ppc[q] /\ then'[q] = then[q]
                                     /\ level'[q] = level[q] /\ pos'[q][3] = pos[q][3]
    BY <1>1, <1>6 DEF ProxyDies, Dies, Ends, Goes, Startup, ProxyType, LockTypeOK
  <2>2. \A q \in Procs : Touches(q)'
    BY <2>1 DEF StarterInv, Touches
  <2>3. ASSUME Undisturbed', ~ AbandonedBlank(3)'
        PROVE  \A q \in Procs : NotRefused(q)'
    BY <1>3, <2>1, <2>3 DEF NotRefused
  <2> QED
    BY <1>2, <2>2, <2>3 DEF StarterInv
<1>7. ASSUME NEW d \in Daemons, DaemonSteps(d) \/ DaemonDies(d)
      PROVE  StarterInv'
  <2>1. UNCHANGED <<pos, owner, ppc, then, level>>
    BY <1>7 DEF DaemonSteps, DaemonDies, Binds, Publishes, Validates, PassesBarrier, lockVars,
                RemovesClient, TimerFires, Closes, HangsUp, RemovesLock, RemovesSocket, proxies
  <2> QED
    BY <1>4, <2>1
<1>8. CASE StopSteps
  <2>1. UNCHANGED <<pos, owner, ppc, then, level>>
    BY <1>8 DEF StopSteps, StopReads, StopWaits, StopCleans, lockVars, proxies
  <2> QED
    BY <1>4, <2>1
<1>9. CASE UNCHANGED vars
  BY <1>4, <1>9 DEF vars, lockVars, proxies
<1> QED
  BY <1>5, <1>6, <1>7, <1>8, <1>9 DEF Next

\* The AssertionError of find_or_start_daemon is out of reach for a proxy that
\* holds the global lock, while nothing disturbs, unless a dead process left
\* the starter lock's file unwritten.
THEOREM StarterLocksAreFree == Spec => []StarterLockIsFree
<1>1. Init => StarterInv
  BY StartupAssumption, PidLockAssumption
     DEF Init, LockInit, StarterInv, Touches, OwnerHolds, NotRefused
<1>2. Startup /\ LockInv /\ Ranks /\ StarterInv /\ [Next]_vars => StarterInv'
  BY StarterNext
<1>3. StarterInv => StarterLockIsFree
  BY DEF StarterInv, NotRefused, StarterLockIsFree
<1> QED
  BY <1>1, <1>2, <1>3, StartupAlways, UniqueAlways, PTL DEF Spec
=============================================================================
