-------------------------- MODULE WatchmanMonitor ---------------------------
(***************************************************************************)
(* Live monitoring through a private Watchman process                      *)
(* (services/realtime/adapters/watchman.py, watchman/session.py,           *)
(* watchman/sidecar.py).  The adapter starts the sidecar and one session   *)
(* per scope; each session's reader puts PDUs into a bounded queue, bridge *)
(* tasks move them into one shared bounded queue, and a consumer turns     *)
(* them into events or notices a loss of sync and asks for a resync.  A    *)
(* monitor task waits for a session to end and starts the reconnect loop;  *)
(* stop() may come at any moment.                                          *)
(*                                                                         *)
(* Tasks of one event loop: an action is what a task does between two      *)
(* suspensions.  Sessions are the direct socket sessions of Unix hosts.    *)
(* A PDU is a "change" or a "notice" (fresh instance, recrawl).  The       *)
(* resync machinery of RealtimeResync is reduced to what the adapter sees: *)
(* requested is a request no scan has begun for, scanning a running scan.  *)
(* missed and unreported are history: the scopes with a change that will   *)
(* reach nobody and that no scan has begun after; unreported are those     *)
(* dropped while needs_resync stood for a scan already begun.              *)
(***************************************************************************)
EXTENDS Naturals, FiniteSets, Sequences

CONSTANTS
  Scopes,          \* scopes of the Watchman scope plan
  Capacity,        \* _SUBSCRIPTION_QUEUE_MAXSIZE
  MaxUpsets        \* bound: changes of files, lost connections, failing steps

ASSUME WatchmanAssumption ==
  /\ Capacity \in Nat \ {0}
  /\ MaxUpsets \in Nat

VARIABLES
  service,      \* where start() and stop() of the service are
  sidecar,      \* the Watchman process: "none", "alive" or "dead"
  session,      \* the latest session of each scope
  stream,       \* PDUs in its socket
  inbox,        \* its subscription_queue
  owned,        \* _sessions: the scopes whose session the adapter holds
  shared,       \* _shared_subscription_queue, with the PDUs' scopes
  pumping,      \* the bridge tasks and the consumer task run
  monitor,      \* the _monitor_unexpected_session_exits task
  builder,      \* where _establish_monitoring of start() or of the reconnect loop is
  cancelling,   \* that task was cancelled and has not been resumed since
  fallback,     \* polling: "disabled" when the backend was configured explicitly
  owed,         \* calls of request_resync that have not run yet
  needsResync, requested, scanning, resyncError,
  missed, unreported,
  upsets

queueVars == <<stream, inbox, shared>>
linkVars == <<sidecar, session, owned>>
taskVars == <<service, pumping, monitor, builder, cancelling, fallback>>
resyncVars == <<owed, needsResync, requested, scanning, resyncError>>
lossVars == <<missed, unreported>>
vars == <<queueVars, linkVars, taskVars, resyncVars, lossVars, upsets>>

Kinds == {"change", "notice"}

\* The fields have their types, the queues keep their bounds, tasks that read
\* the shared queue exist only for sessions the adapter holds, and a builder
\* never works beside them.
TypeOK ==
  /\ service \in {"off", "starting", "on", "failed", "stopping", "clearing", "stopped"}
  /\ sidecar \in {"none", "alive", "dead"}
  /\ session \in [Scopes -> {"none", "live", "cut", "deaf", "dead"}]
  /\ stream \in [Scopes -> Seq(Kinds)]
  /\ inbox \in [Scopes -> Seq(Kinds)]
  /\ \A s \in Scopes : Len(inbox[s]) <= Capacity
  /\ owned \in {{}, Scopes}
  /\ shared \in Seq(Scopes \X Kinds) /\ Len(shared) <= Capacity
  /\ pumping \in BOOLEAN /\ cancelling \in BOOLEAN
  /\ fallback \in {"disabled", "standby", "active"}
  /\ monitor \in {"none", "waiting", "woken"}
  /\ builder \in {"none", "stops", "sidecar", "sessions", "undo", "sleep"}
  /\ owed \in Nat
  /\ needsResync \in BOOLEAN /\ requested \in BOOLEAN
  /\ scanning \in BOOLEAN /\ resyncError \in BOOLEAN
  /\ missed \subseteq Scopes /\ unreported \subseteq Scopes
  /\ upsets \in Nat
  /\ pumping => owned = Scopes /\ builder = "none"

Init ==
  /\ service = "off" /\ sidecar = "none"
  /\ session = [s \in Scopes |-> "none"]
  /\ stream = [s \in Scopes |-> <<>>] /\ inbox = [s \in Scopes |-> <<>>]
  /\ owned = {} /\ shared = <<>> /\ pumping = FALSE
  /\ monitor = "none" /\ builder = "none" /\ cancelling = FALSE
  /\ fallback \in {"disabled", "standby"}
  /\ owed = 0 /\ needsResync = FALSE /\ requested = FALSE
  /\ scanning = FALSE /\ resyncError = FALSE
  /\ missed = {} /\ unreported = {}
  /\ upsets = 0

Upset == upsets < MaxUpsets /\ upsets' = upsets + 1

-----------------------------------------------------------------------------
(* The file tree and Watchman.                                             *)

\* A file of the scope changes.  Watchman reports it on an open subscription;
\* while the service starts, the initial scan is still to come.
Change(s) ==
  /\ Upset
  /\ service \in {"starting", "on"}
  /\ IF session[s] \in {"live", "deaf"}
     THEN stream' = [stream EXCEPT ![s] = Append(@, "change")] /\ UNCHANGED missed
     ELSE /\ missed' = IF service = "on" /\ fallback # "active" THEN missed \cup {s} ELSE missed
          /\ UNCHANGED stream
  /\ UNCHANGED <<inbox, shared, linkVars, taskVars, resyncVars, unreported>>

\* Watchman loses track of the scope and says so.
Recrawl(s) ==
  /\ Upset
  /\ session[s] = "live"
  /\ stream' = [stream EXCEPT ![s] = Append(@, "notice")]
  /\ missed' = missed \cup {s}
  /\ UNCHANGED <<inbox, shared, linkVars, taskVars, resyncVars, unreported>>

\* The connection of a session is closed by the other side.
Cut(s) ==
  /\ Upset
  /\ session[s] = "live"
  /\ session' = [session EXCEPT ![s] = "cut"]
  /\ UNCHANGED <<sidecar, owned, queueVars, taskVars, resyncVars, lossVars>>

\* The Watchman process dies, and every connection to it.
SidecarDies ==
  /\ Upset
  /\ sidecar = "alive"
  /\ sidecar' = "dead"
  /\ session' = [s \in Scopes |-> IF session[s] = "live" THEN "cut" ELSE session[s]]
  /\ UNCHANGED <<owned, queueVars, taskVars, resyncVars, lossVars>>

-----------------------------------------------------------------------------
(* Losses and requests.                                                    *)

\* _record_loss_of_sync: a task that will call request_resync.
Report(s) ==
  /\ missed' = missed \cup {s}
  /\ owed' = owed + 1
  /\ UNCHANGED <<unreported, needsResync, requested, scanning, resyncError>>

\* _handle_subscription_queue_overflow: nothing is reported while
\* needs_resync is set.
Overflow(s) ==
  \/ ~needsResync /\ Report(s)
  \/ /\ needsResync /\ (requested \/ owed > 0)
     /\ missed' = missed \cup {s}
     /\ UNCHANGED <<unreported, resyncVars>>
  \/ /\ needsResync /\ ~requested /\ owed = 0
     /\ missed' = missed \ {s}
     /\ unreported' = unreported \cup {s}
     /\ UNCHANGED resyncVars

\* request_resync
Request == needsResync' = TRUE /\ requested' = TRUE

\* The task of _schedule_resync_request runs.
Ask ==
  /\ owed > 0
  /\ owed' = owed - 1
  /\ Request
  /\ UNCHANGED <<scanning, resyncError, queueVars, linkVars, taskVars, lossVars, upsets>>

\* _dispatch_resync: a scan begins; it looks at everything changed so far.
ScanStarts ==
  /\ requested /\ ~scanning
  /\ requested' = FALSE /\ scanning' = TRUE /\ resyncError' = FALSE
  /\ missed' = {} /\ unreported' = {}
  /\ UNCHANGED <<owed, needsResync, queueVars, linkVars, taskVars, upsets>>

\* The scan succeeds.
ScanReturns ==
  /\ scanning
  /\ scanning' = FALSE /\ needsResync' = FALSE
  /\ UNCHANGED <<owed, requested, resyncError, queueVars, linkVars, taskVars, lossVars, upsets>>

\* The scan fails; a request made since it began is not served either.
ScanFails ==
  /\ Upset
  /\ scanning
  /\ scanning' = FALSE /\ requested' = FALSE /\ resyncError' = TRUE
  /\ UNCHANGED <<owed, needsResync, queueVars, linkVars, taskVars, lossVars>>

-----------------------------------------------------------------------------
(* Sessions: _reader_loop.                                                 *)

\* _queue_subscription_pdu
Read(s) ==
  /\ session[s] \in {"live", "cut"}
  /\ stream[s] # <<>>
  /\ stream' = [stream EXCEPT ![s] = Tail(@)]
  /\ \/ /\ Len(inbox[s]) < Capacity
        /\ inbox' = [inbox EXCEPT ![s] = Append(@, Head(stream[s]))]
        /\ UNCHANGED <<lossVars, resyncVars>>
     \/ /\ Len(inbox[s]) = Capacity
        /\ Overflow(s)
        /\ UNCHANGED inbox
  /\ UNCHANGED <<shared, linkVars, taskVars, upsets>>

\* The end of the stream: the future of wait_for_unexpected_exit is resolved.
SeesEnd(s) ==
  /\ session[s] = "cut"
  /\ stream[s] = <<>>
  /\ session' = [session EXCEPT ![s] = "dead"]
  /\ UNCHANGED <<sidecar, owned, queueVars, taskVars, resyncVars, lossVars, upsets>>

\* The reader raises (a line over the stream's limit, a connection reset):
\* the error is recorded, the future is not resolved.
ReaderFails(s) ==
  /\ Upset
  /\ session[s] \in {"live", "cut"}
  /\ session' = [session EXCEPT ![s] = "deaf"]
  /\ UNCHANGED <<sidecar, owned, queueVars, taskVars, resyncVars, lossVars>>

-----------------------------------------------------------------------------
(* Bridges and consumer.                                                   *)

\* _bridge_session_subscription_pdus
Bridge(s) ==
  /\ pumping
  /\ inbox[s] # <<>>
  /\ inbox' = [inbox EXCEPT ![s] = Tail(@)]
  /\ \/ /\ Len(shared) < Capacity
        /\ shared' = Append(shared, <<s, Head(inbox[s])>>)
        /\ UNCHANGED <<lossVars, resyncVars>>
     \/ /\ Len(shared) = Capacity
        /\ Overflow(s)
        /\ UNCHANGED shared
  /\ UNCHANGED <<stream, linkVars, taskVars, upsets>>

\* _consume_subscription_pdus: a notice is reported, a change is handed on.
Consume ==
  /\ pumping
  /\ shared # <<>>
  /\ shared' = Tail(shared)
  /\ \/ Head(shared)[2] = "notice" /\ Report(Head(shared)[1])
     \/ Head(shared)[2] = "change" /\ UNCHANGED <<lossVars, resyncVars>>
  /\ UNCHANGED <<stream, inbox, linkVars, taskVars, upsets>>

\* The translation of a change fails.
TranslationFails ==
  /\ Upset
  /\ pumping
  /\ shared # <<>>
  /\ Head(shared)[2] = "change"
  /\ shared' = Tail(shared)
  /\ Report(Head(shared)[1])
  /\ UNCHANGED <<stream, inbox, linkVars, taskVars>>

-----------------------------------------------------------------------------
(* _monitor_unexpected_session_exits.                                      *)

\* Mutant of MonitorWakes: the monitor waits for all sessions to end.
MonitorWakesForAll ==
  /\ monitor = "waiting"
  /\ \A s \in owned : session[s] = "dead"
  /\ monitor' = "woken"
  /\ UNCHANGED <<service, pumping, builder, cancelling, fallback, queueVars, linkVars, resyncVars,
                 lossVars, upsets>>

\* A session has ended; the monitor forgets itself, and cancels the others.
MonitorWakes ==
  /\ monitor = "waiting"
  /\ \E s \in owned : session[s] = "dead"
  /\ monitor' = "woken"
  /\ UNCHANGED <<service, pumping, builder, cancelling, fallback, queueVars, linkVars, resyncVars,
                 lossVars, upsets>>

\* The PDUs of the shared queue are given up.
DropShared ==
  /\ shared' = <<>>
  /\ missed' = IF service = "on" THEN missed \cup {shared[i][1] : i \in DOMAIN shared} ELSE missed

\* Mutant of MonitorEnds: an outage is left to the next one.
MonitorEndsQuietly ==
  /\ monitor = "woken"
  /\ monitor' = "none" /\ pumping' = FALSE
  /\ DropShared
  /\ owed' = owed + 1
  /\ UNCHANGED <<builder, service, cancelling, fallback, stream, inbox, linkVars, needsResync,
                 requested, scanning, resyncError, unreported, upsets>>

\* Mutant of MonitorEnds: the bridges and the consumer work on.
MonitorEndsPumping ==
  /\ monitor = "woken"
  /\ monitor' = "none"
  /\ DropShared
  /\ owed' = owed + 1
  /\ builder' = IF builder = "none" /\ service = "on" THEN "stops" ELSE builder
  /\ UNCHANGED <<service, pumping, cancelling, fallback, stream, inbox, linkVars, needsResync,
                 requested, scanning, resyncError, unreported, upsets>>

\* The disconnect is reported and the reconnect loop begins, unless the
\* adapter is being stopped or the loop is running.
MonitorEnds ==
  /\ monitor = "woken"
  /\ monitor' = "none" /\ pumping' = FALSE
  /\ DropShared
  /\ owed' = owed + 1
  /\ builder' = IF builder = "none" /\ service = "on" THEN "stops" ELSE builder
  /\ UNCHANGED <<service, cancelling, fallback, stream, inbox, linkVars, needsResync, requested,
                 scanning, resyncError, unreported, upsets>>

-----------------------------------------------------------------------------
(* _establish_monitoring, for start() or in the reconnect loop.            *)

\* The task may run on: a cancelled task is resumed with CancelledError.
Building(step) == builder = step /\ ~cancelling

\* start() of the service and the adapter.
Start ==
  /\ service = "off"
  /\ service' = "starting" /\ builder' = "sidecar"
  /\ UNCHANGED <<pumping, monitor, cancelling, fallback, queueVars, linkVars, resyncVars, lossVars, upsets>>

\* WatchmanCliSession.stop: what the session has not handed on is given up.
StopSession(s) ==
  /\ session[s] # "none"
  /\ session' = [session EXCEPT ![s] = "none"]
  /\ stream' = [stream EXCEPT ![s] = <<>>]
  /\ inbox' = [inbox EXCEPT ![s] = <<>>]
  /\ missed' = IF service = "on" /\ stream[s] \o inbox[s] # <<>> THEN missed \cup {s} ELSE missed
  /\ UNCHANGED <<sidecar, owned, shared, unreported, resyncVars, upsets>>

\* _clear_monitoring_runtime or the error path stops a session.  A
\* cancellation that arrives while it awaits the session's reader task is
\* taken for the reader's and swallowed.
BuilderStops(s) ==
  /\ builder \in {"stops", "undo"}
  /\ builder = "stops" => s \in owned
  /\ StopSession(s)
  /\ \/ ~cancelling /\ UNCHANGED cancelling
     \/ cancelling /\ session[s] \in {"live", "cut"} /\ cancelling' = FALSE
  /\ UNCHANGED <<service, pumping, monitor, builder, fallback>>

\* The old sessions are gone.
BuilderClears ==
  /\ Building("stops")
  /\ \A s \in owned : session[s] = "none"
  /\ owned' = {}
  /\ builder' = "sidecar"
  /\ UNCHANGED <<service, pumping, monitor, cancelling, fallback, sidecar, session, queueVars,
                 resyncVars, lossVars, upsets>>

\* PrivateWatchmanSidecar.start: a live process is used again, a dead one
\* replaced.
SidecarStarts ==
  /\ Building("sidecar")
  /\ sidecar' = "alive"
  /\ builder' = "sessions"
  /\ UNCHANGED <<service, pumping, monitor, cancelling, fallback, session, owned, queueVars,
                 resyncVars, lossVars, upsets>>

\* An attempt failed: start() raises, the loop sleeps before the next one.
AttemptFails ==
  IF service = "starting"
  THEN service' = "failed" /\ builder' = "none"
  ELSE builder' = (IF service \in {"on", "stopping"} THEN "sleep" ELSE "none") /\ UNCHANGED service

\* The sidecar does not start: an error if the backend was configured
\* explicitly, polling otherwise.
SidecarFails ==
  /\ Upset
  /\ Building("sidecar")
  /\ sidecar # "alive"
  /\ sidecar' = "none"
  /\ \/ /\ fallback = "disabled"
        /\ AttemptFails
        /\ UNCHANGED <<fallback, needsResync, requested>>
     \/ /\ fallback = "standby"
        /\ fallback' = "active" /\ builder' = "none"
        /\ IF service = "starting"
           THEN service' = "on" /\ UNCHANGED <<needsResync, requested>>
           ELSE Request /\ UNCHANGED service
  /\ UNCHANGED <<session, owned, pumping, monitor, cancelling, queueVars, owed, scanning,
                 resyncError, lossVars>>

\* A session connects and subscribes; Watchman may begin with a notice of a
\* fresh instance.
SessionStarts(s) ==
  /\ Building("sessions")
  /\ sidecar = "alive"
  /\ session[s] = "none"
  /\ session' = [session EXCEPT ![s] = "live"]
  /\ \/ stream' = [stream EXCEPT ![s] = <<"notice">>]
     \/ UNCHANGED stream
  /\ UNCHANGED <<sidecar, owned, inbox, shared, taskVars, resyncVars, lossVars, upsets>>

\* A session cannot connect, or a command of it times out.
SessionFails ==
  /\ Building("sessions")
  /\ \E s \in Scopes : session[s] = "none"
  /\ IF sidecar = "alive" THEN Upset ELSE UNCHANGED upsets
  /\ builder' = "undo"
  /\ UNCHANGED <<service, pumping, monitor, cancelling, fallback, linkVars, queueVars, resyncVars,
                 lossVars>>

\* The sessions of the failed attempt are stopped, and the sidecar is.
BuilderUndoes ==
  /\ Building("undo")
  /\ \A s \in Scopes : session[s] = "none"
  /\ sidecar' = "none"
  /\ AttemptFails
  /\ UNCHANGED <<pumping, monitor, cancelling, fallback, session, owned, queueVars, resyncVars,
                 lossVars, upsets>>

\* Mutant of BuilderEnds: no reconciliation after the reconnect.
BuilderEndsUnreconciled ==
  /\ Building("sessions")
  /\ \A s \in Scopes : session[s] # "none"
  /\ owned' = Scopes /\ shared' = <<>> /\ pumping' = TRUE /\ monitor' = "waiting"
  /\ builder' = "none"
  /\ service' = IF service = "starting" THEN "on" ELSE service
  /\ UNCHANGED <<cancelling, fallback, sidecar, session, stream, inbox, resyncVars, lossVars, upsets>>

\* All sessions are set up: the adapter holds them, the tasks are created,
\* start() returns or the loop asks for a resync and ends, all without a
\* suspension.
BuilderEnds ==
  /\ Building("sessions")
  /\ \A s \in Scopes : session[s] # "none"
  /\ owned' = Scopes /\ shared' = <<>> /\ pumping' = TRUE /\ monitor' = "waiting"
  /\ builder' = "none"
  /\ IF service = "starting"
     THEN service' = "on" /\ UNCHANGED <<needsResync, requested>>
     ELSE Request /\ UNCHANGED service
  /\ UNCHANGED <<cancelling, fallback, sidecar, session, stream, inbox, owed, scanning, resyncError,
                 lossVars, upsets>>

\* Mutant of RetryElapses: the loop sleeps on once the service is stopping.
RetryElapsesWhileOn ==
  /\ Building("sleep")
  /\ service = "on"
  /\ builder' = "stops"
  /\ UNCHANGED <<service, pumping, monitor, cancelling, fallback, queueVars, linkVars, resyncVars,
                 lossVars, upsets>>

\* The delay before the next attempt is over.
RetryElapses ==
  /\ Building("sleep")
  /\ builder' = "stops"
  /\ UNCHANGED <<service, pumping, monitor, cancelling, fallback, queueVars, linkVars, resyncVars,
                 lossVars, upsets>>

-----------------------------------------------------------------------------
(* stop().                                                                 *)

\* stop() of the service: a start() under way is cancelled and not waited
\* for, a reconnect loop is cancelled and waited for.
Stop ==
  /\ service \in {"starting", "on", "failed"}
  /\ service' = IF service = "starting" THEN "clearing" ELSE "stopping"
  /\ cancelling' = (builder # "none")
  /\ UNCHANGED <<pumping, monitor, builder, fallback, queueVars, linkVars, resyncVars, lossVars, upsets>>

\* CancelledError ends the task; what it had set up is left as it is.
CancelArrives ==
  /\ cancelling
  /\ cancelling' = FALSE /\ builder' = "none"
  /\ UNCHANGED <<service, pumping, monitor, fallback, queueVars, linkVars, resyncVars, lossVars, upsets>>

\* Mutant of StopWaits: the reconnect loop is not waited for.
StopWaitsForNothing ==
  /\ service = "stopping"
  /\ service' = "clearing"
  /\ pumping' = FALSE /\ shared' = <<>>
  /\ monitor' = IF monitor = "woken" THEN "woken" ELSE "none"
  /\ UNCHANGED <<builder, cancelling, fallback, stream, inbox, linkVars, resyncVars, lossVars, upsets>>

\* The loop is over; _clear_monitoring_runtime cancels the tasks, but not a
\* monitor that has already forgotten itself.
StopWaits ==
  /\ service = "stopping"
  /\ builder = "none"
  /\ service' = "clearing"
  /\ pumping' = FALSE /\ shared' = <<>>
  /\ monitor' = IF monitor = "woken" THEN "woken" ELSE "none"
  /\ UNCHANGED <<builder, cancelling, fallback, stream, inbox, linkVars, resyncVars, lossVars, upsets>>

\* It stops the sessions the adapter holds.
StopperStops(s) ==
  /\ service = "clearing"
  /\ s \in owned
  /\ StopSession(s)
  /\ UNCHANGED taskVars

\* It stops the sidecar, whose death closes every connection left; the
\* service cancels the resync and the requests on their way.
StopEnds ==
  /\ service = "clearing"
  /\ \A s \in owned : session[s] = "none"
  /\ service' = "stopped"
  /\ owned' = {}
  /\ sidecar' = "none"
  /\ session' = [s \in Scopes |-> IF session[s] = "live" THEN "cut" ELSE session[s]]
  /\ owed' = 0 /\ requested' = FALSE /\ scanning' = FALSE
  /\ UNCHANGED <<pumping, monitor, builder, cancelling, fallback, queueVars, needsResync,
                 resyncError, lossVars, upsets>>

-----------------------------------------------------------------------------
Environment ==
  \/ \E s \in Scopes : Change(s) \/ Recrawl(s) \/ Cut(s) \/ ReaderFails(s)
  \/ SidecarDies \/ ScanFails \/ TranslationFails \/ SidecarFails
  \/ Start \/ Stop

Progress ==
  \/ \E s \in Scopes : Read(s) \/ SeesEnd(s) \/ Bridge(s)
  \/ Consume \/ Ask \/ ScanStarts \/ ScanReturns
  \/ MonitorWakes \/ MonitorEnds

Build ==
  \/ \E s \in Scopes : BuilderStops(s) \/ SessionStarts(s)
  \/ BuilderClears \/ SidecarStarts \/ SessionFails \/ BuilderUndoes \/ BuilderEnds
  \/ RetryElapses \/ CancelArrives

Teardown ==
  \/ StopWaits \/ StopEnds
  \/ \E s \in Scopes : StopperStops(s)

Next == Environment \/ Progress \/ Build \/ Teardown

\* The event loop runs every task that can run.
Fairness ==
  /\ \A s \in Scopes : WF_vars(Read(s)) /\ WF_vars(SeesEnd(s)) /\ WF_vars(Bridge(s))
  /\ WF_vars(Consume) /\ WF_vars(Ask) /\ WF_vars(ScanStarts) /\ WF_vars(ScanReturns)
  /\ WF_vars(MonitorWakes) /\ WF_vars(MonitorEnds)
  /\ WF_vars(Build) /\ WF_vars(Teardown)

Spec == Init /\ [][Next]_vars

FairSpec == Spec /\ Fairness

-----------------------------------------------------------------------------
(* Properties.                                                             *)

\* The end of a session is on its way to the reconnect loop, or the loop runs.
OutageIsHandled ==
  \/ \E s \in Scopes : session[s] = "cut"
  \/ monitor = "waiting" /\ \E s \in owned : session[s] = "dead"
  \/ monitor = "woken"
  \/ builder # "none"

\* A notice of the loss is on its way to the consumer.
Announced(s) ==
  \/ \E i \in DOMAIN stream[s] : stream[s][i] = "notice"
  \/ \E i \in DOMAIN inbox[s] : inbox[s][i] = "notice"
  \/ \E i \in DOMAIN shared : shared[i] = <<s, "notice">>

\* Every session that lost its connection is on its way to the reconnect loop:
\* its end was not seen yet, or the monitor has still to see it, or the loop
\* runs.  No session stays dead behind a service that believes it is watching.
OutageIsAttended ==
  /\ service = "on" /\ fallback # "active"
  /\ \E s \in Scopes : session[s] \notin {"live", "deaf"}
  => OutageIsHandled

Hearing == \A s \in Scopes : session[s] # "deaf"

\* No change gets lost in silence: while the service is on and every session
\* is read, a scope with a change that will reach nobody has a resync asked
\* for, a notice on its way, or an outage whose end asks for a resync,
\* wherever the PDUs were dropped and however many reconnects failed.  Three
\* losses are outside it: those of a deaf session, PDUs dropped without a
\* report while needs_resync was set (unreported), and everything once a scan
\* has failed.
LossIsFollowed ==
  service = "on" /\ Hearing /\ ~resyncError =>
    \A s \in missed : requested \/ owed > 0 \/ (pumping /\ Announced(s)) \/ OutageIsHandled

\* After stop() nothing of the adapter is left that could work on or come
\* back: no Watchman process, no session it holds, no task that reads or
\* reconnects, even if a start or a reconnect was in the middle of anything.
StoppedIsQuiet ==
  service = "stopped" =>
    /\ sidecar # "alive" /\ owned = {} /\ ~pumping /\ monitor # "waiting"
    /\ builder \in {"none", "undo"} \/ cancelling

\* A lost connection ends in monitoring restored on all scopes, in polling,
\* or with the service.
OutageEnds ==
  (service = "on" /\ \E s \in Scopes : session[s] = "cut") ~>
    \/ service # "on" \/ fallback = "active"
    \/ builder = "none" /\ monitor = "waiting" /\ \A s \in Scopes : session[s] \in {"live", "deaf"}

\* stop() returns.
StopReturns == service \in {"stopping", "clearing"} ~> service = "stopped"

\* Without faults to come, a service at rest knows every change: no session
\* is left unread while the service looks healthy.
RestKnowsAll ==
  /\ service = "on" /\ fallback # "active" /\ builder = "none" /\ monitor = "waiting"
  /\ \A s \in Scopes : session[s] \in {"live", "deaf"} /\ inbox[s] = <<>>
  /\ \A s \in Scopes : session[s] = "live" => stream[s] = <<>>
  /\ shared = <<>> /\ owed = 0 /\ ~requested /\ ~scanning /\ ~resyncError
  => missed = {} /\ \A s \in Scopes : stream[s] = <<>>
=============================================================================
