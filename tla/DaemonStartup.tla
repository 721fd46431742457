--------------------------- MODULE DaemonStartup ---------------------------
(***************************************************************************)
(* Finding, starting and leaving the daemon of a project                   *)
(* (daemon/discovery.py, server.py, client_manager.py, client_proxy.py).   *)
(* Proxies look for the daemon's lock file, race for the three nested      *)
(* start-up locks of PidLock (1 cross-runtime, 2 global, 3 starter), and   *)
(* the one that has all three spawns the daemon and waits for it to        *)
(* publish itself.  The daemon binds the socket, writes the lock file,     *)
(* serves the proxies that register with the token of the lock file, and   *)
(* leaves when the last one is gone or a signal arrives.  A command may    *)
(* stop it.  Proxies and daemons may die anywhere.  One project, one       *)
(* runtime directory, Unix sockets.                                        *)
(***************************************************************************)
EXTENDS PidLock

CONSTANTS
  Daemons,         \* daemon processes that may be spawned (bound)
  MaxCrashes       \* bound: deaths, failed barriers and stop commands

ASSUME StartupAssumption ==
  /\ Locks = 1..3
  /\ Daemons \cap (Procs \cup {Nobody, Past}) = {}
  /\ MaxCrashes \in Nat

VARIABLES
  daemonLock,      \* the PID in the daemon's lock file
  socket,          \* who bound the socket that is at the address
  ppc,             \* where each proxy is
  level,           \* how many start-up locks it has
  why,             \* what it looks for a daemon for
  then,            \* what it does once it has released its locks
  saw,             \* the PID whose token it sends
  peer,            \* its child, then the daemon it is connected to
  dpc,             \* where each daemon is
  clients,         \* _client_manager._sessions
  timer,           \* _delayed_shutdown_task
  event,           \* _shutdown_event
  used,            \* a client has registered (history)
  spc,             \* where the stop command is
  target,          \* the daemon it stops
  crashes,
  upset            \* what went wrong so far (history)

files == <<daemonLock, socket>>
proxies == <<ppc, level, why, then, saw, peer>>
servers == <<dpc, clients, timer, event, used>>
stop == <<spc, target>>
vars == <<lockVars, files, proxies, servers, stop, crashes, upset>>

Pids == Daemons \cup {Nobody, Past}

Upsets == {"orphaned", "erased", "overlapped"}

TypeOK ==
  /\ LockTypeOK
  /\ daemonLock \in Pids /\ socket \in Daemons \cup {Nobody}
  /\ ppc \in [Procs -> {"look", "await", "erase", "eraseSocket", "acquire", "spawn", "poll",
                        "terminate", "release", "connect", "register", "ack", "session",
                        "done", "failed", "asserted", "dead"}]
  /\ level \in [Procs -> 0..3]
  /\ why \in [Procs -> {"first", "refused", "check"}]
  /\ then \in [Procs -> {"acquire", "connect", "failed", "asserted"}]
  /\ \A p \in Procs :
       ppc[p] \in {"poll", "terminate", "register", "ack", "session"} => peer[p] # Nobody
  /\ saw \in [Procs -> Pids] /\ peer \in [Procs -> Daemons \cup {Nobody}]
  /\ dpc \in [Daemons -> {"unborn", "starting", "bound", "published", "valid", "serving",
                          "failing", "failUnlock", "failUnlink", "quitting", "closing", "unlock",
                          "unlink", "gone"}]
  /\ clients \in [Daemons -> SUBSET Procs]
  /\ timer \in [Daemons -> {"none", "pending"}]
  /\ event \in [Daemons -> {"clear", "set"}]
  /\ used \in [Daemons -> {"no", "yes"}]
  /\ spc \in {"idle", "stopping", "cleaning", "over"} /\ target \in Daemons \cup {Nobody}
  /\ crashes \in 0..MaxCrashes
  /\ upset \subseteq Upsets

\* A daemon may have died and left its lock file, and so may a proxy that had
\* taken some of the locks.
Init ==
  /\ LockInit
  /\ \A l \in 2..3 : owner[l] = Past => owner[l - 1] = Past /\ text[l - 1] = "pid"
  /\ daemonLock \in {Nobody, Past} /\ socket = Nobody
  /\ ppc = [p \in Procs |-> "look"] /\ level = [p \in Procs |-> 0]
  /\ why = [p \in Procs |-> "first"] /\ then = [p \in Procs |-> "acquire"]
  /\ saw = [p \in Procs |-> Nobody] /\ peer = [p \in Procs |-> Nobody]
  /\ dpc = [d \in Daemons |-> "unborn"]
  /\ clients = [d \in Daemons |-> {}]
  /\ timer = [d \in Daemons |-> "none"] /\ event = [d \in Daemons |-> "clear"]
  /\ used = [d \in Daemons |-> "no"]
  /\ spc = "idle" /\ target = Nobody
  /\ crashes = 0 /\ upset = {}

DaemonAlive(d) == d \in Daemons /\ dpc[d] \notin {"unborn", "gone"}

\* The server object is closed on leaving `async with server` only, which a
\* daemon enters after its barrier: one that failed it, or lost the race,
\* listens until its process ends.
Listening(d) ==
  dpc[d] \in {"bound", "published", "valid", "serving",
              "failing", "failUnlock", "failUnlink", "quitting"}

\* _socket_connectable
Connectable == socket \in Daemons /\ Listening(socket)

\* The shared files of a live daemon are removed by somebody else.
Erases(d) == upset' = IF DaemonAlive(d) THEN upset \cup {"erased"} ELSE upset

-----------------------------------------------------------------------------
(* Looking for a daemon: _reuse_live_daemon.                               *)

Goes(p, pc) == ppc' = [ppc EXCEPT ![p] = pc]

\* find_or_start_daemon returns or raises, or starts over, through its finally
\* blocks.
Settles(p, outcome) ==
  /\ why' = [why EXCEPT ![p] = "first"]
  /\ \/ /\ level[p] = 0
        /\ Goes(p, outcome)
        /\ UNCHANGED then
     \/ /\ level[p] > 0
        /\ Goes(p, "release")
        /\ then' = [then EXCEPT ![p] = outcome]

\* There is no daemon: try the locks, try again, or take the last one.
FindsNone(p) ==
  \/ why[p] = "refused" /\ Settles(p, "acquire")
  \/ why[p] # "refused" /\ Goes(p, "acquire") /\ UNCHANGED <<why, then>>

Looks(p) ==
  /\ ppc[p] = "look"
  /\ \/ /\ daemonLock = Nobody
        /\ FindsNone(p)
     \/ /\ DaemonAlive(daemonLock)
        /\ Goes(p, "await")
        /\ UNCHANGED <<why, then>>
     \/ /\ daemonLock # Nobody /\ ~ DaemonAlive(daemonLock)
        /\ Goes(p, "erase")
        /\ UNCHANGED <<why, then>>
  /\ UNCHANGED <<lockVars, files, level, saw, peer, servers, stop, crashes, upset>>

\* Mutant of Awaits: a live daemon that does not answer is taken for none.
AwaitsNoMore(p) ==
  /\ ppc[p] = "await"
  /\ \/ Connectable /\ Settles(p, "connect")
     \/ ~ Connectable /\ FindsNone(p)
  /\ UNCHANGED <<lockVars, files, level, saw, peer, servers, stop, crashes, upset>>

\* The live daemon answers, dies, or takes too long.
Awaits(p) ==
  /\ ppc[p] = "await"
  /\ \/ Connectable /\ Settles(p, "connect")
     \/ ~ Connectable /\ Settles(p, "failed")
  /\ UNCHANGED <<lockVars, files, level, saw, peer, servers, stop, crashes, upset>>

\* _remove_stale_lock_artifacts: the lock file, whoever's it is by now ...
ErasesLock(p) ==
  /\ ppc[p] = "erase"
  /\ daemonLock' = Nobody
  /\ Erases(daemonLock)
  /\ Goes(p, "eraseSocket")
  /\ UNCHANGED <<lockVars, socket, level, why, then, saw, peer, servers, stop, crashes>>

\* ... and the socket.
ErasesSocket(p) ==
  /\ ppc[p] = "eraseSocket"
  /\ socket' = Nobody
  /\ Erases(socket)
  /\ FindsNone(p)
  /\ UNCHANGED <<lockVars, daemonLock, level, saw, peer, servers, stop, crashes>>

\* The time for finding a daemon is up.
TimesOut(p) ==
  /\ ppc[p] = "look" /\ why[p] # "first"
  /\ Settles(p, "failed")
  /\ UNCHANGED <<lockVars, files, level, saw, peer, servers, stop, crashes, upset>>

-----------------------------------------------------------------------------
(* Starting it: find_or_start_daemon.                                      *)

Wanted(p) == level[p] + 1

Acquires(p) ==
  /\ ppc[p] = "acquire"
  /\ \/ AcquireOpens(p, Wanted(p)) \/ AcquireReads(p, Wanted(p)) \/ AcquireUnlinks(p, Wanted(p))
  /\ UNCHANGED <<files, proxies, servers, stop, crashes, upset>>

\* Mutant of HasLock: the second look under the locks is left out.
HasLockAndSpawns(p) ==
  /\ ppc[p] = "acquire"
  /\ AcquireWrites(p, Wanted(p))
  /\ level' = [level EXCEPT ![p] = @ + 1]
  /\ \/ level[p] < 2 /\ UNCHANGED <<ppc, why>>
     \/ level[p] = 2 /\ Goes(p, "spawn") /\ why' = [why EXCEPT ![p] = "first"]
  /\ UNCHANGED <<files, then, saw, peer, servers, stop, crashes, upset>>

\* With two locks the proxy looks again, with three it spawns.
HasLock(p) ==
  /\ ppc[p] = "acquire"
  /\ AcquireWrites(p, Wanted(p))
  /\ level' = [level EXCEPT ![p] = @ + 1]
  /\ \/ /\ level[p] = 0
        /\ UNCHANGED <<ppc, why>>
     \/ /\ level[p] = 1
        /\ Goes(p, "look")
        /\ why' = [why EXCEPT ![p] = "check"]
     \/ /\ level[p] = 2
        /\ Goes(p, "spawn")
        /\ why' = [why EXCEPT ![p] = "first"]
  /\ UNCHANGED <<files, then, saw, peer, servers, stop, crashes, upset>>

\* The first two locks are waited for; a refused starter lock is an
\* AssertionError.
IsRefused(p) ==
  /\ ppc[p] = "acquire"
  /\ Refusal(p, Wanted(p))
  /\ \/ /\ level[p] < 2
        /\ Goes(p, "look")
        /\ why' = [why EXCEPT ![p] = "refused"]
        /\ UNCHANGED then
     \/ /\ level[p] = 2
        /\ Settles(p, "asserted")
  /\ UNCHANGED <<files, level, saw, peer, servers, stop, crashes, upset>>

Spawns(p, d) ==
  /\ ppc[p] = "spawn"
  /\ dpc[d] = "unborn"
  /\ dpc' = [dpc EXCEPT ![d] = "starting"]
  /\ peer' = [peer EXCEPT ![p] = d]
  /\ Goes(p, "poll")
  /\ UNCHANGED <<lockVars, files, level, why, then, saw, clients, timer, event, used, stop,
                 crashes, upset>>

\* The child has exited, or some published daemon answers.
Polls(p) ==
  /\ ppc[p] = "poll"
  /\ \/ ~ DaemonAlive(peer[p]) /\ Settles(p, "failed")
     \/ DaemonAlive(peer[p]) /\ daemonLock # Nobody /\ Connectable /\ Settles(p, "connect")
  /\ peer' = [peer EXCEPT ![p] = Nobody]
  /\ UNCHANGED <<lockVars, files, level, saw, servers, stop, crashes, upset>>

\* SIGTERM: the daemon leaves when it gets to its shutdown event; before it
\* has a handler it just dies.
Signalled(d) ==
  \/ /\ dpc[d] = "starting"
     /\ dpc' = [dpc EXCEPT ![d] = "gone"]
     /\ UNCHANGED event
  \/ /\ event' = [event EXCEPT ![d] = "set"]
     /\ UNCHANGED dpc

PollTimesOut(p) ==
  /\ ppc[p] = "poll"
  /\ DaemonAlive(peer[p])
  /\ Signalled(peer[p])
  /\ Goes(p, "terminate")
  /\ UNCHANGED <<lockVars, files, level, why, then, saw, peer, clients, timer, used, stop,
                 crashes, upset>>

\* A process is gone with its sessions.
Vanishes(d) ==
  /\ dpc' = [dpc EXCEPT ![d] = "gone"]
  /\ clients' = [clients EXCEPT ![d] = {}]
  /\ timer' = [timer EXCEPT ![d] = "none"]
  /\ event' = [event EXCEPT ![d] = "clear"]
  /\ used' = [used EXCEPT ![d] = "no"]

\* _terminate_startup_handle waits for the child and kills it in the end.
Terminates(p) ==
  /\ ppc[p] = "terminate"
  /\ \/ /\ ~ DaemonAlive(peer[p])
        /\ Settles(p, "failed")
        /\ peer' = [peer EXCEPT ![p] = Nobody]
        /\ UNCHANGED servers
     \/ /\ DaemonAlive(peer[p])
        /\ Vanishes(peer[p])
        /\ UNCHANGED <<ppc, why, then, peer>>
  /\ UNCHANGED <<lockVars, files, level, saw, stop, crashes, upset>>

\* The locks are released from the innermost outwards.
Releases(p) ==
  /\ ppc[p] = "release"
  /\ \/ ReleaseReads(p, level[p])
     \/ ReleaseUnlinks(p, level[p])
  /\ \/ /\ pos'[p][level[p]] = "out"
        /\ level' = [level EXCEPT ![p] = @ - 1]
        /\ \/ level[p] = 1 /\ Goes(p, then[p]) /\ then' = [then EXCEPT ![p] = "acquire"]
           \/ level[p] > 1 /\ UNCHANGED <<ppc, then>>
     \/ /\ pos'[p][level[p]] # "out"
        /\ UNCHANGED <<ppc, level, then>>
  /\ UNCHANGED <<files, why, saw, peer, servers, stop, crashes, upset>>

-----------------------------------------------------------------------------
(* A session: ClientProxy.run.                                             *)

\* Mutant of Connects: the address of the lock file is taken for a connection.
ConnectsAnyway(p) ==
  /\ ppc[p] = "connect"
  /\ peer' = [peer EXCEPT ![p] = socket]
  /\ Goes(p, "register")
  /\ UNCHANGED <<lockVars, files, level, why, then, saw, servers, stop, crashes, upset>>

\* The connection is made or refused.
Connects(p) ==
  /\ ppc[p] = "connect"
  /\ \/ /\ Connectable
        /\ peer' = [peer EXCEPT ![p] = socket]
        /\ Goes(p, "register")
     \/ /\ ~ Connectable
        /\ Goes(p, "failed")
        /\ UNCHANGED peer
  /\ UNCHANGED <<lockVars, files, level, why, then, saw, servers, stop, crashes, upset>>

\* The connection is closed and the process ends.
Ends(p, pc) ==
  /\ Goes(p, pc)
  /\ saw' = [saw EXCEPT ![p] = Nobody]
  /\ peer' = [peer EXCEPT ![p] = Nobody]

\* The token is read from the lock file.
Registers(p) ==
  /\ ppc[p] = "register"
  /\ \/ /\ daemonLock # Nobody
        /\ saw' = [saw EXCEPT ![p] = daemonLock]
        /\ Goes(p, "ack")
        /\ UNCHANGED peer
     \/ /\ daemonLock = Nobody
        /\ Ends(p, "failed")
  /\ UNCHANGED <<lockVars, files, level, why, then, servers, stop, crashes, upset>>

\* _handle_client accepts the token of this daemon only.
IsAnswered(p) ==
  /\ ppc[p] = "ack"
  /\ \/ /\ DaemonAlive(peer[p]) /\ saw[p] = peer[p]
        /\ clients' = [clients EXCEPT ![peer[p]] = @ \cup {p}]
        /\ used' = [used EXCEPT ![peer[p]] = "yes"]
        /\ Goes(p, "session")
        /\ saw' = [saw EXCEPT ![p] = Nobody]
        /\ UNCHANGED peer
     \/ /\ ~ (DaemonAlive(peer[p]) /\ saw[p] = peer[p])
        /\ Ends(p, "failed")
        /\ UNCHANGED <<clients, used>>
  /\ UNCHANGED <<lockVars, files, level, why, then, dpc, timer, event, stop,
                 crashes, upset>>

\* stdin is closed, the parent is gone, or the daemon has hung up.
SessionEnds(p) ==
  /\ ppc[p] = "session"
  /\ Ends(p, "done")
  /\ UNCHANGED <<lockVars, files, level, why, then, servers, stop, crashes, upset>>

ProxyDies(p) ==
  /\ ppc[p] \notin {"done", "failed", "asserted", "dead"}
  /\ crashes < MaxCrashes
  /\ crashes' = crashes + 1
  /\ Dies(p)
  /\ Ends(p, "dead")
  /\ level' = [level EXCEPT ![p] = 0]
  /\ why' = [why EXCEPT ![p] = "first"]
  /\ then' = [then EXCEPT ![p] = "acquire"]
  /\ upset' = IF ppc[p] \in {"poll", "terminate"} /\ DaemonAlive(peer[p])
              THEN upset \cup {"orphaned"} ELSE upset
  /\ UNCHANGED <<files, servers, stop>>

-----------------------------------------------------------------------------
(* The daemon: ChunkHoundDaemon.run.                                       *)

Enters(d, pc) == dpc' = [dpc EXCEPT ![d] = pc]

\* create_server replaces a socket that is in its way; another daemon may not
\* have removed its own yet.
Binds(d) ==
  /\ dpc[d] = "starting"
  /\ Enters(d, "bound")
  /\ socket' = d
  /\ upset' = IF \E e \in Daemons : dpc[e] \in {"unlink", "failUnlink"}
              THEN upset \cup {"overlapped"} ELSE upset
  /\ UNCHANGED <<lockVars, daemonLock, proxies, clients, timer, event, used, stop, crashes>>

Publishes(d) ==
  /\ dpc[d] = "bound"
  /\ Enters(d, "published")
  /\ daemonLock' = d
  /\ UNCHANGED <<lockVars, socket, proxies, clients, timer, event, used, stop, crashes, upset>>

\* The lock file is read back; a daemon that lost the race leaves.
Validates(d) ==
  /\ dpc[d] = "published"
  /\ Enters(d, IF daemonLock = d THEN "valid" ELSE "quitting")
  /\ UNCHANGED <<lockVars, files, proxies, clients, timer, event, used, stop, crashes, upset>>

\* The start-up barrier is passed, or fails.
PassesBarrier(d) ==
  /\ dpc[d] = "valid"
  /\ \/ Enters(d, "serving") /\ UNCHANGED crashes
     \/ crashes < MaxCrashes /\ Enters(d, "failing") /\ crashes' = crashes + 1
  /\ UNCHANGED <<lockVars, files, proxies, clients, timer, event, used, stop, upset>>

\* _on_all_clients_gone schedules the shutdown unless it is scheduled.
OnAllClientsGone(d) == timer' = [timer EXCEPT ![d] = "pending"]

\* Mutant of RemovesClient: evicting a dead proxy does not count as its leaving.
RemovesClientQuietly(d, p) ==
  /\ p \in clients[d]
  /\ ppc[p] \in {"done", "dead"}
  /\ clients' = [clients EXCEPT ![d] = @ \ {p}]
  /\ \/ clients[d] = {p} /\ ppc[p] = "done" /\ OnAllClientsGone(d)
     \/ ~ (clients[d] = {p} /\ ppc[p] = "done") /\ UNCHANGED timer
  /\ UNCHANGED <<lockVars, files, proxies, dpc, event, used, stop, crashes, upset>>

\* ClientManager.remove, after EOF in _handle_client or by poll_pids.
RemovesClient(d, p) ==
  /\ p \in clients[d]
  /\ ppc[p] \in {"done", "dead"}
  /\ clients' = [clients EXCEPT ![d] = @ \ {p}]
  /\ \/ clients[d] = {p} /\ OnAllClientsGone(d)
     \/ clients[d] # {p} /\ UNCHANGED timer
  /\ UNCHANGED <<lockVars, files, proxies, dpc, event, used, stop, crashes, upset>>

\* _delayed_shutdown looks again before it sets the event.
TimerFires(d) ==
  /\ timer[d] = "pending"
  /\ timer' = [timer EXCEPT ![d] = "none"]
  /\ event' = IF clients[d] = {} THEN [event EXCEPT ![d] = "set"] ELSE event
  /\ UNCHANGED <<lockVars, files, proxies, dpc, clients, used, stop, crashes, upset>>

Closes(d) ==
  /\ dpc[d] = "serving" /\ event[d] = "set"
  /\ Enters(d, "closing")
  /\ UNCHANGED <<lockVars, files, proxies, clients, timer, event, used, stop, crashes, upset>>

\* _graceful_shutdown: close_all and the tasks; a daemon that did not win the
\* publication removes nothing.
HangsUp(d) ==
  /\ \/ dpc[d] = "closing" /\ Enters(d, "unlock")
     \/ dpc[d] = "failing" /\ Enters(d, "failUnlock")
     \/ dpc[d] = "quitting" /\ Enters(d, "gone")
  /\ clients' = [clients EXCEPT ![d] = {}]
  /\ timer' = [timer EXCEPT ![d] = "none"]
  /\ UNCHANGED <<lockVars, files, proxies, event, used, stop, crashes, upset>>

\* The lock file is removed before the socket.
RemovesLock(d) ==
  /\ \/ dpc[d] = "unlock" /\ Enters(d, "unlink")
     \/ dpc[d] = "failUnlock" /\ Enters(d, "failUnlink")
  /\ daemonLock' = Nobody
  /\ UNCHANGED <<lockVars, socket, proxies, clients, timer, event, used, stop, crashes, upset>>

RemovesSocket(d) ==
  /\ dpc[d] \in {"unlink", "failUnlink"}
  /\ Vanishes(d)
  /\ socket' = Nobody
  /\ UNCHANGED <<lockVars, daemonLock, proxies, stop, crashes, upset>>

DaemonDies(d) ==
  /\ DaemonAlive(d)
  /\ crashes < MaxCrashes
  /\ crashes' = crashes + 1
  /\ Vanishes(d)
  /\ UNCHANGED <<lockVars, files, proxies, stop, upset>>

-----------------------------------------------------------------------------
(* The stop command: stop_daemon.                                          *)

StopReads ==
  /\ spc = "idle" /\ crashes < MaxCrashes
  /\ crashes' = crashes + 1
  /\ \/ /\ DaemonAlive(daemonLock)
        /\ target' = daemonLock
        /\ Signalled(daemonLock)
        /\ spc' = "stopping"
     \/ /\ daemonLock # Nobody /\ ~ DaemonAlive(daemonLock)
        /\ spc' = "cleaning"
        /\ UNCHANGED <<target, dpc, event>>
  /\ UNCHANGED <<lockVars, files, proxies, clients, timer, used, upset>>

\* The daemon is gone in time, or is killed.
StopWaits ==
  /\ spc = "stopping"
  /\ \/ /\ ~ DaemonAlive(target)
        /\ spc' = "cleaning"
        /\ UNCHANGED servers
     \/ /\ DaemonAlive(target)
        /\ Vanishes(target)
        /\ UNCHANGED spc
  /\ UNCHANGED <<lockVars, files, proxies, target, crashes, upset>>

\* The lock file is removed, whoever's it is by now.
StopCleans ==
  /\ spc = "cleaning"
  /\ spc' = "over" /\ target' = Nobody
  /\ daemonLock' = Nobody
  /\ Erases(daemonLock)
  /\ UNCHANGED <<lockVars, socket, proxies, servers, crashes>>

StopSteps == StopReads \/ StopWaits \/ StopCleans

-----------------------------------------------------------------------------
ProxySteps(p) ==
  \/ Looks(p) \/ Awaits(p) \/ ErasesLock(p) \/ ErasesSocket(p) \/ TimesOut(p)
  \/ Acquires(p) \/ HasLock(p) \/ IsRefused(p) \/ (\E d \in Daemons : Spawns(p, d))
  \/ Polls(p) \/ PollTimesOut(p) \/ Terminates(p) \/ Releases(p)
  \/ Connects(p) \/ Registers(p) \/ IsAnswered(p) \/ SessionEnds(p)

DaemonSteps(d) ==
  \/ Binds(d) \/ Publishes(d) \/ Validates(d) \/ PassesBarrier(d)
  \/ (\E p \in Procs : RemovesClient(d, p)) \/ TimerFires(d)
  \/ Closes(d) \/ HangsUp(d) \/ RemovesLock(d) \/ RemovesSocket(d)

Next ==
  \/ \E p \in Procs : ProxySteps(p) \/ ProxyDies(p)
  \/ \E d \in Daemons : DaemonSteps(d) \/ DaemonDies(d)
  \/ StopSteps

Spec == Init /\ [][Next]_vars

-----------------------------------------------------------------------------
(* Properties.                                                             *)

\* Nothing has happened that the start-up locks do not cover: no lock was
\* taken over twice, no starter died with its child alive, nobody removed the
\* files of a live daemon, no daemon bound while another was still leaving.
Undisturbed == upset = {} /\ \A l \in Locks : contested[l] = "no"

Serving(d) == dpc[d] \in {"bound", "published", "valid", "serving"}

\* However proxies race, die and time out, two daemons never serve the same
\* project at once as long as nothing disturbs the start-up.
OneDaemon == Undisturbed => \A d, e \in Daemons : Serving(d) /\ Serving(e) => d = e

\* A daemon that passed its validation can be found: the lock file names it
\* and the socket leads to it until it closes.
ServerIsFound ==
  Undisturbed => \A d \in Daemons :
    dpc[d] \in {"valid", "serving"} => daemonLock = d /\ socket = d

\* A lock file that nobody can take: its creator died before writing its PID.
AbandonedBlank(l) == text[l] = "blank" /\ owner[l] # Nobody /\ ~ PidAlive(owner[l])

\* The starter lock is never refused to a proxy that holds the global one,
\* unless a lock was taken over twice or was left unwritten.
StarterLockIsFree ==
  Undisturbed /\ ~ AbandonedBlank(3) => \A p \in Procs : ppc[p] # "asserted"

\* A daemon that has served and has no client is about to leave: whichever
\* way its proxies went and came, the delayed shutdown is pending or has fired.
IdleDaemonLeaves ==
  \A d \in Daemons :
    dpc[d] = "serving" /\ used[d] = "yes" /\ clients[d] = {} =>
      timer[d] = "pending" \/ event[d] = "set"
=============================================================================
