------------------------ MODULE RealtimeResyncProofs ------------------------
(***************************************************************************)
(* What holds of RealtimeResync for every set of files and every bound.    *)
(*                                                                         *)
(* RestIsInSync is not inductive: it says nothing while a dispatch task is *)
(* under way.  LossIsTracked says who will repair a loss at every moment:  *)
(* a call of request_resync that has not run, the debounce (a scan         *)
(* follows), a scan that will run again or has not passed a missed file    *)
(* yet, or the recorded error.                                             *)
(***************************************************************************)
EXTENDS RealtimeResync, TLAPS

LossIsTracked ==
  missed # {} =>
    \/ owed > 0
    \/ dispatch = "debounce"
    \/ dispatch = "callback" /\ (seenRequest < lastRequest \/ missed \cap visited = {})
    \/ dispatch = "none" /\ resyncError

\* A burst in reconciliation has a request on its way or a dispatch task.
BurstIsTracked ==
  overflow = "reconciling" => owed > 0 \/ dispatch # "none"

-----------------------------------------------------------------------------
\* Every step keeps the flags Boolean.
LEMMA FlagsStep == FlagsType /\ [Next]_vars => FlagsType'
<1> SUFFICES ASSUME FlagsType, [Next]_vars PROVE FlagsType'
  OBVIOUS
<1> USE DEF FlagsType
<1>1. CASE \E f \in Files : DropEvent(f) \/ LoseSync(f) \/ VisitFile(f)
  BY <1>1, Zenon DEF DropEvent, LoseSync, VisitFile, requestVars
<1>2. CASE RequestResync
  BY <1>2, Zenon DEF RequestResync
<1>3. CASE DebounceEnds
  BY <1>3, Zenon DEF DebounceEnds, StartCallback, requestVars
<1>4. CASE CallbackReturns
  BY <1>4, Zenon DEF CallbackReturns, StartCallback
<1>5. CASE CallbackFails
  BY <1>5, Zenon DEF CallbackFails, requestVars
<1>6. CASE UNCHANGED vars
  BY <1>6, Zenon DEF vars
<1> QED BY <1>1, <1>2, <1>3, <1>4, <1>5, <1>6, Zenon DEF Next

\* The types hold in every initial state.
LEMMA TypeInit == Init => TypeOK
<1> SUFFICES ASSUME Init PROVE TypeOK
  OBVIOUS
<1>1. FlagsType
  BY Zenon DEF Init, FlagsType
<1> QED BY <1>1 DEF Init, TypeOK

\* Every step keeps the types.
LEMMA TypeStep == TypeOK /\ [Next]_vars => TypeOK'
<1> SUFFICES ASSUME TypeOK, [Next]_vars PROVE TypeOK'
  OBVIOUS
<1>0. FlagsType'
  BY FlagsStep DEF TypeOK
<1> USE <1>0, ResyncAssumption DEF TypeOK
<1>1. ASSUME NEW f \in Files, DropEvent(f) PROVE TypeOK'
  BY <1>1 DEF DropEvent, taskVars
<1>2. ASSUME NEW f \in Files, LoseSync(f) PROVE TypeOK'
  BY <1>2 DEF LoseSync, taskVars
<1>3. ASSUME NEW f \in Files, VisitFile(f) PROVE TypeOK'
  BY <1>3 DEF VisitFile, requestVars
<1>4. CASE RequestResync
  BY <1>4 DEF RequestResync
<1>5. CASE DebounceEnds
  BY <1>5 DEF DebounceEnds, StartCallback, EndDispatch, CompleteBurst, requestVars
<1>6. CASE CallbackReturns
  BY <1>6 DEF CallbackReturns, StartCallback, EndDispatch, CompleteBurst
<1>7. CASE CallbackFails
  BY <1>7 DEF CallbackFails, EndDispatch, CompleteBurst, requestVars
<1>8. CASE UNCHANGED vars
  BY <1>8 DEF vars
<1> QED BY <1>1, <1>2, <1>3, <1>4, <1>5, <1>6, <1>7, <1>8 DEF Next

\* The fields of the resync machinery keep their types, and the dispatch task
\* never claims to have seen a request that was not made.
THEOREM ResyncTypeCorrect == Spec => []TypeOK
<1> QED BY TypeInit, TypeStep, PTL DEF Spec

-----------------------------------------------------------------------------
\* Every step keeps each loss tracked.
LEMMA LossStep == TypeOK /\ LossIsTracked /\ [Next]_vars => LossIsTracked'
<1> SUFFICES ASSUME TypeOK, LossIsTracked, [Next]_vars PROVE LossIsTracked'
  OBVIOUS
<1> USE DEF LossIsTracked, TypeOK
<1>1. ASSUME NEW f \in Files, DropEvent(f) PROVE LossIsTracked'
  \* A drop adds a missed file only when it asks for a resync.
  BY <1>1 DEF DropEvent, taskVars
<1>2. ASSUME NEW f \in Files, LoseSync(f) PROVE LossIsTracked'
  BY <1>2 DEF LoseSync
<1>3. ASSUME NEW f \in Files, VisitFile(f) PROVE LossIsTracked'
  BY <1>3 DEF VisitFile, requestVars
<1>4. CASE RequestResync
  \* A task in its callback now has an unseen request.
  BY <1>4 DEF RequestResync
<1>5. CASE DebounceEnds
  BY <1>5 DEF DebounceEnds, StartCallback, EndDispatch, requestVars
<1>6. CASE CallbackReturns
  <2>1. CASE seenRequest = lastRequest
    \* The scan passed every file, so a missed one has a request on its way.
    <3>1. missed \cap visited = missed
      BY <1>6 DEF CallbackReturns
    <3> QED BY <1>6, <2>1, <3>1 DEF CallbackReturns
  <2>2. CASE seenRequest # lastRequest
    BY <1>6, <2>2 DEF CallbackReturns, StartCallback
  <2> QED BY <2>1, <2>2
<1>7. CASE CallbackFails
  BY <1>7 DEF CallbackFails, EndDispatch, requestVars
<1>8. CASE UNCHANGED vars
  BY <1>8 DEF vars
<1> QED BY <1>1, <1>2, <1>3, <1>4, <1>5, <1>6, <1>7, <1>8 DEF Next

\* A service that comes to rest without a resync error has scanned every file
\* a resync was asked for (request_resync and _dispatch_resync lose no
\* request).
THEOREM RestInSync == Spec => []RestIsInSync
<1>1. Init => TypeOK /\ LossIsTracked
  BY TypeInit DEF Init, LossIsTracked
<1>2. TypeOK /\ LossIsTracked /\ [Next]_vars => (TypeOK /\ LossIsTracked)'
  BY TypeStep, LossStep
<1>3. TypeOK /\ LossIsTracked => RestIsInSync
  BY DEF TypeOK, LossIsTracked, RestIsInSync, AtRest
<1> QED BY <1>1, <1>2, <1>3, PTL DEF Spec

-----------------------------------------------------------------------------
\* Every step keeps a burst in reconciliation attended.
LEMMA BurstStep == TypeOK /\ BurstIsTracked /\ [Next]_vars => BurstIsTracked'
<1> SUFFICES ASSUME TypeOK, BurstIsTracked, [Next]_vars PROVE BurstIsTracked'
  OBVIOUS
<1> USE DEF BurstIsTracked, TypeOK
<1>1. ASSUME NEW f \in Files, DropEvent(f) PROVE BurstIsTracked'
  BY <1>1 DEF DropEvent, taskVars
<1>2. ASSUME NEW f \in Files, LoseSync(f) PROVE BurstIsTracked'
  BY <1>2 DEF LoseSync
<1>3. ASSUME NEW f \in Files, VisitFile(f) PROVE BurstIsTracked'
  BY <1>3 DEF VisitFile, requestVars
<1>4. CASE RequestResync
  BY <1>4 DEF RequestResync
<1>5. CASE DebounceEnds
  BY <1>5 DEF DebounceEnds, StartCallback, EndDispatch, CompleteBurst, requestVars
<1>6. CASE CallbackReturns
  BY <1>6 DEF CallbackReturns, CompleteBurst
<1>7. CASE CallbackFails
  BY <1>7 DEF CallbackFails, CompleteBurst
<1>8. CASE UNCHANGED vars
  BY <1>8 DEF vars
<1> QED BY <1>1, <1>2, <1>3, <1>4, <1>5, <1>6, <1>7, <1>8 DEF Next

\* An overflow burst is never left in reconciliation without a task: not by a
\* failing callback, by a missing one, nor by drops during the scan
\* (_record_event_queue_overflow, _complete_event_queue_overflow_burst).
THEOREM OverflowAttended == Spec => []OverflowIsAttended
<1>1. Init => TypeOK /\ BurstIsTracked
  BY TypeInit DEF Init, BurstIsTracked
<1>2. TypeOK /\ BurstIsTracked /\ [Next]_vars => (TypeOK /\ BurstIsTracked)'
  BY TypeStep, BurstStep
<1>3. TypeOK /\ BurstIsTracked => OverflowIsAttended
  BY DEF TypeOK, BurstIsTracked, OverflowIsAttended, AtRest
<1> QED BY <1>1, <1>2, <1>3, PTL DEF Spec
=============================================================================
