--------------------------- MODULE RealtimeResync ---------------------------
(***************************************************************************)
(* Reconciliation after the realtime service lost track of the file tree   *)
(* (chunkhound/services/realtime/pipeline.py): a dropped event or a        *)
(* watcher's loss of sync leads to a call of request_resync; one           *)
(* _dispatch_resync task coalesces the requests, runs the resync callback  *)
(* (a scan of the tree) and runs it again when a request arrived           *)
(* meanwhile.                                                              *)
(*                                                                         *)
(* missed and unreported are the history the properties are about: the     *)
(* files the service lost track of and no scan has looked at since, with a *)
(* resync asked for or without.  The reason and details of a request are   *)
(* left out; time.monotonic() of the latest request is the number of       *)
(* requests so far.                                                        *)
(***************************************************************************)
EXTENDS Naturals, FiniteSets

CONSTANTS
  Files,             \* files of the watched tree
  MaxLosses,         \* bound: dropped events and losses of sync
  MaxFailures        \* bound: failing runs of the callback

ASSUME ResyncAssumption ==
  /\ MaxLosses \in Nat
  /\ MaxFailures \in Nat

VARIABLES
  resyncCallback, \* _resync_callback: none or the directory scan
  missed,       \* files out of sync, a resync was asked for
  unreported,   \* files out of sync, no resync was asked for
  losses,       \* losses so far
  failures,     \* failed callbacks so far
  owed,         \* calls of request_resync that have not run yet
  lastRequest,  \* _last_resync_request_monotonic
  needsResync,  \* _needs_resync
  dispatch,     \* where the _dispatch_resync task is, "none" without one
  seenRequest,  \* its requested_at, then its started_request_at
  visited,      \* files the running callback has looked at
  overflow,     \* _event_queue_overflow_state
  resyncError   \* _last_resync_error is set

requestVars == <<owed, lastRequest, needsResync>>
taskVars == <<dispatch, seenRequest, visited>>
vars == <<resyncCallback, missed, unreported, losses, failures, owed, lastRequest,
          needsResync, dispatch, seenRequest, visited, overflow, resyncError>>

FlagsType == needsResync \in BOOLEAN /\ resyncError \in BOOLEAN

\* The fields have their types, and the dispatch task never claims to have
\* seen a request that was not made.
TypeOK ==
  /\ FlagsType
  /\ resyncCallback \in {"none", "scan"}
  /\ missed \subseteq Files /\ unreported \subseteq Files
  /\ losses \in Nat /\ failures \in Nat /\ owed \in Nat
  /\ lastRequest \in Nat /\ seenRequest \in 0..lastRequest
  /\ dispatch \in {"none", "debounce", "callback"}
  /\ visited \subseteq Files
  /\ overflow \in {"idle", "reconciling", "failed"}

Init ==
  /\ resyncCallback \in {"none", "scan"}
  /\ missed = {} /\ unreported = {} /\ losses = 0 /\ failures = 0
  /\ owed = 0 /\ lastRequest = 0 /\ needsResync = FALSE
  /\ dispatch = "none" /\ seenRequest = 0 /\ visited = {}
  /\ overflow = "idle" /\ resyncError = FALSE

-----------------------------------------------------------------------------
\* _handle_queue_result with queue_full, _record_event_queue_overflow: only
\* the first drop of a burst asks for a resync, in a task of its own.
DropEvent(f) ==
  /\ losses < MaxLosses
  /\ losses' = losses + 1
  /\ IF overflow = "idle"
     THEN /\ overflow' = "reconciling"
          /\ owed' = owed + 1
          /\ missed' = missed \cup {f}
          /\ unreported' = unreported \ {f}
     ELSE /\ unreported' = unreported \cup ({f} \ missed)
          /\ UNCHANGED <<overflow, owed, missed>>
  /\ UNCHANGED <<resyncCallback, failures, lastRequest, needsResync, taskVars, resyncError>>

\* The Watchman adapter notices a loss of sync and is about to report it.
LoseSync(f) ==
  /\ losses < MaxLosses
  /\ losses' = losses + 1
  /\ missed' = missed \cup {f}
  /\ unreported' = unreported \ {f}
  /\ owed' = owed + 1
  /\ UNCHANGED <<resyncCallback, failures, lastRequest, needsResync, taskVars, overflow, resyncError>>

\* Mutant of RequestResync: a request during a dispatch is not timestamped.
RequestResyncUnstamped ==
  /\ owed > 0
  /\ owed' = owed - 1
  /\ needsResync' = TRUE
  /\ IF dispatch = "none"
     THEN dispatch' = "debounce" /\ seenRequest' = lastRequest + 1 /\ lastRequest' = lastRequest + 1
     ELSE UNCHANGED <<dispatch, seenRequest, lastRequest>>
  /\ UNCHANGED <<resyncCallback, missed, unreported, losses, failures, visited, overflow, resyncError>>

\* Mutant of RequestResync: the new task takes a timestamp of its own.
RequestResyncUnrecorded ==
  /\ owed > 0
  /\ owed' = owed - 1
  /\ needsResync' = TRUE
  /\ IF dispatch = "none"
     THEN dispatch' = "debounce" /\ seenRequest' = lastRequest + 1
     ELSE UNCHANGED <<dispatch, seenRequest>>
  /\ UNCHANGED <<resyncCallback, missed, unreported, losses, failures, lastRequest, visited, overflow, resyncError>>

\* request_resync: a running dispatch task will see the newer request.
RequestResync ==
  /\ owed > 0
  /\ owed' = owed - 1
  /\ needsResync' = TRUE
  /\ lastRequest' = lastRequest + 1
  /\ IF dispatch = "none"
     THEN dispatch' = "debounce" /\ seenRequest' = lastRequest + 1
     ELSE UNCHANGED <<dispatch, seenRequest>>
  /\ UNCHANGED <<resyncCallback, missed, unreported, losses, failures, visited, overflow, resyncError>>

-----------------------------------------------------------------------------
(* _dispatch_resync.                                                       *)

\* Mutant of CompleteBurst: a failed burst stays in reconciliation.
CompleteBurstOnSuccess(success) ==
  overflow' = IF success THEN "idle" ELSE overflow

\* _complete_event_queue_overflow_burst
CompleteBurst(success) ==
  overflow' = IF overflow = "idle" \/ success THEN "idle" ELSE "failed"

\* Mutant of StartCallback: the files seen by the previous run still count.
StartCallbackKeepsVisited ==
  /\ dispatch' = "callback"
  /\ seenRequest' = lastRequest
  /\ resyncError' = FALSE
  /\ UNCHANGED visited

\* A run of the callback begins with the newest request.
StartCallback ==
  /\ dispatch' = "callback"
  /\ seenRequest' = lastRequest
  /\ visited' = {}
  /\ resyncError' = FALSE

\* The task is over.
EndDispatch ==
  /\ dispatch' = "none"
  /\ visited' = {}
  /\ UNCHANGED seenRequest

\* Mutant of DebounceEnds: the test for a newer request is inverted.
DebounceEndsInverted ==
  /\ dispatch = "debounce"
  /\ seenRequest # lastRequest
  /\ resyncCallback = "scan"
  /\ StartCallback
  /\ UNCHANGED <<resyncCallback, missed, unreported, losses, failures, requestVars, overflow>>

\* The debounce sleep ends; a request that arrived meanwhile prolongs it.
DebounceEnds ==
  /\ dispatch = "debounce"
  /\ \/ /\ seenRequest # lastRequest
        /\ seenRequest' = lastRequest
        /\ UNCHANGED <<dispatch, visited, overflow, resyncError>>
     \/ /\ seenRequest = lastRequest
        /\ resyncCallback = "scan"
        /\ StartCallback
        /\ UNCHANGED overflow
     \/ /\ seenRequest = lastRequest
        /\ resyncCallback = "none"
        /\ EndDispatch
        /\ resyncError' = TRUE
        /\ CompleteBurst(FALSE)
  /\ UNCHANGED <<resyncCallback, missed, unreported, losses, failures, requestVars>>

\* _request_realtime_resync: the directory scan looks at one more file.
VisitFile(f) ==
  /\ dispatch = "callback"
  /\ f \notin visited
  /\ visited' = visited \cup {f}
  /\ missed' = missed \ {f}
  /\ unreported' = unreported \ {f}
  /\ UNCHANGED <<resyncCallback, losses, failures, requestVars, dispatch, seenRequest, overflow,
                 resyncError>>

\* The callback returns without an error status.  It runs again when a
\* request arrived since it began.
CallbackReturns ==
  /\ dispatch = "callback"
  /\ visited = Files
  /\ needsResync' = FALSE
  /\ CompleteBurst(TRUE)
  /\ IF seenRequest = lastRequest
     THEN EndDispatch /\ resyncError' = FALSE
     ELSE StartCallback
  /\ UNCHANGED <<resyncCallback, missed, unreported, losses, failures, owed, lastRequest>>

\* The callback raises or reports an error status: the task ends, whatever
\* arrived since it began.
CallbackFails ==
  /\ dispatch = "callback"
  /\ failures < MaxFailures
  /\ failures' = failures + 1
  /\ resyncError' = TRUE
  /\ CompleteBurst(FALSE)
  /\ EndDispatch
  /\ UNCHANGED <<resyncCallback, missed, unreported, losses, requestVars>>

Next ==
  \/ \E f \in Files : DropEvent(f) \/ LoseSync(f) \/ VisitFile(f)
  \/ RequestResync
  \/ DebounceEnds
  \/ CallbackReturns
  \/ CallbackFails

\* The loop runs every task that can run, the sleep ends, and the callback
\* makes progress.
Fairness ==
  /\ WF_vars(RequestResync)
  /\ WF_vars(DebounceEnds)
  /\ WF_vars((\E f \in Files : VisitFile(f)) \/ CallbackReturns)

Spec == Init /\ [][Next]_vars

FairSpec == Spec /\ Fairness

-----------------------------------------------------------------------------
(* Properties.                                                             *)

\* No reconciliation is under way or on its way.
AtRest == dispatch = "none" /\ owed = 0

\* Coalescing requests never skips the work they ask for: when the service
\* comes to rest without a resync error, a scan has looked at every file a
\* resync was asked for, however the requests, the drops and the runs of the
\* callback interleaved.
RestIsInSync == AtRest /\ ~resyncError => missed = {}

\* After an overflow the service either returns to idle or stays visibly
\* failed: "reconciling" is never left behind without a task.
OverflowIsAttended == AtRest => overflow # "reconciling"

\* Every loss a resync was asked for is eventually repaired, or the error of
\* the resync is recorded.
LossIsRepaired == missed # {} ~> missed = {} \/ resyncError
=============================================================================
