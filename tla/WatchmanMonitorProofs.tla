----------------------- MODULE WatchmanMonitorProofs ------------------------
(***************************************************************************)
(* What holds of WatchmanMonitor for every set of scopes, every queue      *)
(* capacity and every number of changes and faults.                        *)
(*                                                                         *)
(* None of the properties is inductive alone.  Control relates where       *)
(* start(), stop(), the monitor and the builder are; Links says which      *)
(* sessions can exist at each step of the builder; Watching says that a    *)
(* service that is on is watched over by a builder, a woken monitor, or a  *)
(* waiting monitor with its tasks; Followed is LossIsFollowed carried back *)
(* to the time before start() has returned, when no task reads the queues. *)
(***************************************************************************)
EXTENDS WatchmanMonitor, TLAPS

Flags ==
  /\ pumping \in BOOLEAN /\ cancelling \in BOOLEAN
  /\ needsResync \in BOOLEAN /\ requested \in BOOLEAN
  /\ scanning \in BOOLEAN /\ resyncError \in BOOLEAN

\* The fields that are not Boolean.
Fields ==
  /\ service \in {"off", "starting", "on", "failed", "stopping", "clearing", "stopped"}
  /\ sidecar \in {"none", "alive", "dead"}
  /\ session \in [Scopes -> {"none", "live", "cut", "deaf", "dead"}]
  /\ owned \in {{}, Scopes}
  /\ fallback \in {"disabled", "standby", "active"}
  /\ monitor \in {"none", "waiting", "woken"}
  /\ builder \in {"none", "stops", "sidecar", "sessions", "undo", "sleep"}

Queues ==
  /\ stream \in [Scopes -> Seq(Kinds)]
  /\ inbox \in [Scopes -> Seq(Kinds)]
  /\ \A s \in Scopes : Len(inbox[s]) <= Capacity
  /\ shared \in Seq(Scopes \X Kinds) /\ Len(shared) <= Capacity

Counters ==
  /\ owed \in Nat /\ upsets \in Nat
  /\ missed \subseteq Scopes /\ unreported \subseteq Scopes

NoSession == \A s \in Scopes : session[s] = "none"

Control ==
  /\ service \in {"off", "starting", "failed"} => owned = {} /\ ~pumping /\ monitor = "none"
  /\ service \in {"clearing", "stopped"} =>
       ~pumping /\ monitor # "waiting" /\ (builder \in {"none", "undo"} \/ cancelling)
  /\ service \notin {"on", "stopping"} => builder \notin {"stops", "sleep"}
  /\ service \in {"off", "failed"} => builder = "none"
  /\ service = "stopped" => owned = {} /\ sidecar # "alive"
  /\ cancelling => service \in {"stopping", "clearing", "stopped"}
  /\ service \in {"on", "stopping"} /\ monitor # "none" => owned = Scopes /\ builder = "none"
  /\ fallback = "active" => service # "off" /\ builder = "none" /\ monitor = "none"
  /\ pumping => owned = Scopes /\ builder = "none"

Links ==
  /\ \A s \in Scopes : session[s] = "none" => stream[s] = <<>> /\ inbox[s] = <<>>
  /\ service = "off" \/ builder \in {"sidecar", "sleep"} => NoSession
  /\ builder = "stops" => owned = Scopes \/ NoSession
  /\ fallback = "active" => NoSession
  /\ service \in {"off", "starting"} => shared = <<>>

Watching ==
  service = "on" /\ fallback # "active" =>
    \/ builder # "none"
    \/ monitor = "woken"
    \/ monitor = "waiting" /\ pumping /\ owned = Scopes /\ \A s \in Scopes : session[s] # "none"

\* A loss before start() has returned.
StartFollowed ==
  service = "starting" /\ Hearing /\ ~resyncError /\ builder # "undo" =>
    \A s \in missed : \/ requested \/ owed > 0 \/ Announced(s)
                      \/ \E t \in Scopes : session[t] \in {"cut", "dead"}

Followed ==
  /\ service = "off" => missed = {}
  /\ StartFollowed
  /\ LossIsFollowed

-----------------------------------------------------------------------------
(* Types.                                                                  *)

\* The first element of a queue and what is left after it.
LEMMA TakesOne ==
  ASSUME NEW S, NEW q \in Seq(S), q # <<>>
  PROVE  /\ Head(q) \in S /\ Head(q) = q[1]
         /\ Tail(q) \in Seq(S)
         /\ Len(q) \in Nat \ {0} /\ Len(Tail(q)) = Len(q) - 1
         /\ DOMAIN q = 1..Len(q) /\ DOMAIN Tail(q) = 1..(Len(q) - 1)
         /\ \A i \in 1..(Len(q) - 1) : Tail(q)[i] = q[i + 1]
         /\ \A i \in DOMAIN q : i # 1 => i - 1 \in DOMAIN Tail(q) /\ Tail(q)[i - 1] = q[i]
  OBVIOUS

\* One more element at the end of a queue.
LEMMA PutsOne ==
  ASSUME NEW S, NEW q \in Seq(S), NEW e \in S
  PROVE  /\ Append(q, e) \in Seq(S)
         /\ Len(q) \in Nat /\ Len(Append(q, e)) = Len(q) + 1
         /\ DOMAIN q = 1..Len(q) /\ DOMAIN Append(q, e) = 1..(Len(q) + 1)
         /\ \A i \in 1..Len(q) : Append(q, e)[i] = q[i]
         /\ Append(q, e)[Len(q) + 1] = e
         /\ Len(q) + 1 \in DOMAIN Append(q, e)
         /\ \A i \in DOMAIN q : i \in DOMAIN Append(q, e) /\ Append(q, e)[i] = q[i]
  OBVIOUS

\* Every step keeps the flags Boolean.
LEMMA FlagsStep == Flags /\ [Next]_vars => Flags'
<1> SUFFICES ASSUME Flags, [Next]_vars PROVE Flags'
  OBVIOUS
<1> USE DEF Flags
<1>1. ASSUME NEW s \in Scopes, Change(s) PROVE Flags'
  BY <1>1, Zenon DEF Change, Upset, linkVars, resyncVars, taskVars
<1>2. ASSUME NEW s \in Scopes, Recrawl(s) PROVE Flags'
  BY <1>2, Zenon DEF Recrawl, Upset, linkVars, resyncVars, taskVars
<1>3. ASSUME NEW s \in Scopes, Cut(s) PROVE Flags'
  BY <1>3, Zenon DEF Cut, Upset, lossVars, queueVars, resyncVars, taskVars
<1>4. ASSUME NEW s \in Scopes, ReaderFails(s) PROVE Flags'
  BY <1>4, Zenon DEF ReaderFails, Upset, lossVars, queueVars, resyncVars, taskVars
<1>5. CASE SidecarDies
  BY <1>5, Zenon DEF SidecarDies, Upset, lossVars, queueVars, resyncVars, taskVars
<1>6. CASE ScanFails
  BY <1>6, Zenon DEF ScanFails, Upset, linkVars, lossVars, queueVars, taskVars
<1>7. CASE TranslationFails
  BY <1>7, Zenon DEF TranslationFails, Upset, Report, linkVars, taskVars
<1>8. CASE SidecarFails
  BY <1>8, Zenon DEF SidecarFails, Upset, Request, AttemptFails, Building, lossVars,
      queueVars
<1>9. CASE Start
  BY <1>9, Zenon DEF Start, linkVars, lossVars, queueVars, resyncVars
<1>10. CASE Stop
  BY <1>10, Zenon DEF Stop, linkVars, lossVars, queueVars, resyncVars
<1>11. ASSUME NEW s \in Scopes, Read(s) PROVE Flags'
  BY <1>11, Zenon DEF Read, Overflow, Report, linkVars, lossVars, resyncVars, taskVars
<1>12. ASSUME NEW s \in Scopes, SeesEnd(s) PROVE Flags'
  BY <1>12, Zenon DEF SeesEnd, lossVars, queueVars, resyncVars, taskVars
<1>13. ASSUME NEW s \in Scopes, Bridge(s) PROVE Flags'
  BY <1>13, Zenon DEF Bridge, Overflow, Report, linkVars, lossVars, resyncVars, taskVars
<1>14. CASE Consume
  BY <1>14, Zenon DEF Consume, Report, linkVars, lossVars, resyncVars, taskVars
<1>15. CASE Ask
  BY <1>15, Zenon DEF Ask, Request, linkVars, lossVars, queueVars, taskVars
<1>16. CASE ScanStarts
  BY <1>16, Zenon DEF ScanStarts, linkVars, queueVars, taskVars
<1>17. CASE ScanReturns
  BY <1>17, Zenon DEF ScanReturns, linkVars, lossVars, queueVars, taskVars
<1>18. CASE MonitorWakes
  BY <1>18, Zenon DEF MonitorWakes, linkVars, lossVars, queueVars, resyncVars
<1>19. CASE MonitorEnds
  BY <1>19, Zenon DEF MonitorEnds, DropShared, linkVars
<1>20. ASSUME NEW s \in Scopes, BuilderStops(s) PROVE Flags'
  BY <1>20, Zenon DEF BuilderStops, StopSession, resyncVars
<1>21. ASSUME NEW s \in Scopes, SessionStarts(s) PROVE Flags'
  BY <1>21, Zenon DEF SessionStarts, Building, lossVars, resyncVars, taskVars
<1>22. CASE BuilderClears
  BY <1>22, Zenon DEF BuilderClears, Building, lossVars, queueVars, resyncVars
<1>23. CASE SidecarStarts
  BY <1>23, Zenon DEF SidecarStarts, Building, lossVars, queueVars, resyncVars
<1>24. CASE SessionFails
  BY <1>24, Zenon DEF SessionFails, Upset, Building, linkVars, lossVars, queueVars,
      resyncVars
<1>25. CASE BuilderUndoes
  BY <1>25, Zenon DEF BuilderUndoes, AttemptFails, Building, lossVars, queueVars,
      resyncVars
<1>26. CASE BuilderEnds
  BY <1>26, Zenon DEF BuilderEnds, Request, Building, lossVars
<1>27. CASE RetryElapses
  BY <1>27, Zenon DEF RetryElapses, Building, linkVars, lossVars, queueVars, resyncVars
<1>28. CASE CancelArrives
  BY <1>28, Zenon DEF CancelArrives, linkVars, lossVars, queueVars, resyncVars
<1>29. CASE StopWaits
  BY <1>29, Zenon DEF StopWaits, linkVars, lossVars, resyncVars
<1>30. CASE StopEnds
  BY <1>30, Zenon DEF StopEnds, lossVars, queueVars
<1>31. ASSUME NEW s \in Scopes, StopperStops(s) PROVE Flags'
  BY <1>31, Zenon DEF StopperStops, StopSession, taskVars, resyncVars
<1>32. CASE UNCHANGED vars
  BY <1>32, Zenon DEF vars, linkVars, lossVars, queueVars, resyncVars, taskVars
<1> QED BY <1>1, <1>2, <1>3, <1>4, <1>5, <1>6, <1>7, <1>8, <1>9, <1>10, <1>11, <1>12,
    <1>13, <1>14, <1>15, <1>16, <1>17, <1>18, <1>19, <1>20, <1>21, <1>22, <1>23, <1>24,
    <1>25, <1>26, <1>27, <1>28, <1>29, <1>30, <1>31, <1>32 DEF Next, Environment, Progress,
    Build, Teardown

\* Every step keeps the types of the other fields.
LEMMA FieldsStep == Fields /\ [Next]_vars => Fields'
<1> SUFFICES ASSUME Fields, [Next]_vars PROVE Fields'
  OBVIOUS
<1> USE DEF Fields
<1>1. ASSUME NEW s \in Scopes, Change(s) PROVE Fields'
  BY <1>1 DEF Change, Upset, linkVars, resyncVars, taskVars
<1>2. ASSUME NEW s \in Scopes, Recrawl(s) PROVE Fields'
  BY <1>2 DEF Recrawl, Upset, linkVars, resyncVars, taskVars
<1>3. ASSUME NEW s \in Scopes, Cut(s) PROVE Fields'
  BY <1>3 DEF Cut, Upset, lossVars, queueVars, resyncVars, taskVars
<1>4. ASSUME NEW s \in Scopes, ReaderFails(s) PROVE Fields'
  BY <1>4 DEF ReaderFails, Upset, lossVars, queueVars, resyncVars, taskVars
<1>5. CASE SidecarDies
  BY <1>5 DEF SidecarDies, Upset, lossVars, queueVars, resyncVars, taskVars
<1>6. CASE ScanFails
  BY <1>6 DEF ScanFails, Upset, linkVars, lossVars, queueVars, taskVars
<1>7. CASE TranslationFails
  BY <1>7 DEF TranslationFails, Upset, Report, linkVars, taskVars
<1>8. CASE SidecarFails
  BY <1>8 DEF SidecarFails, Upset, Request, AttemptFails, Building, lossVars, queueVars
<1>9. CASE Start
  BY <1>9 DEF Start, linkVars, lossVars, queueVars, resyncVars
<1>10. CASE Stop
  BY <1>10 DEF Stop, linkVars, lossVars, queueVars, resyncVars
<1>11. ASSUME NEW s \in Scopes, Read(s) PROVE Fields'
  BY <1>11 DEF Read, Overflow, Report, linkVars, lossVars, resyncVars, taskVars
<1>12. ASSUME NEW s \in Scopes, SeesEnd(s) PROVE Fields'
  BY <1>12 DEF SeesEnd, lossVars, queueVars, resyncVars, taskVars
<1>13. ASSUME NEW s \in Scopes, Bridge(s) PROVE Fields'
  BY <1>13 DEF Bridge, Overflow, Report, linkVars, lossVars, resyncVars, taskVars
<1>14. CASE Consume
  BY <1>14 DEF Consume, Report, linkVars, lossVars, resyncVars, taskVars
<1>15. CASE Ask
  BY <1>15 DEF Ask, Request, linkVars, lossVars, queueVars, taskVars
<1>16. CASE ScanStarts
  BY <1>16 DEF ScanStarts, linkVars, queueVars, taskVars
<1>17. CASE ScanReturns
  BY <1>17 DEF ScanReturns, linkVars, lossVars, queueVars, taskVars
<1>18. CASE MonitorWakes
  BY <1>18 DEF MonitorWakes, linkVars, lossVars, queueVars, resyncVars
<1>19. CASE MonitorEnds
  BY <1>19 DEF MonitorEnds, DropShared, linkVars
<1>20. ASSUME NEW s \in Scopes, BuilderStops(s) PROVE Fields'
  BY <1>20 DEF BuilderStops, StopSession, resyncVars
<1>21. ASSUME NEW s \in Scopes, SessionStarts(s) PROVE Fields'
  BY <1>21 DEF SessionStarts, Building, lossVars, resyncVars, taskVars
<1>22. CASE BuilderClears
  BY <1>22 DEF BuilderClears, Building, lossVars, queueVars, resyncVars
<1>23. CASE SidecarStarts
  BY <1>23 DEF SidecarStarts, Building, lossVars, queueVars, resyncVars
<1>24. CASE SessionFails
  BY <1>24 DEF SessionFails, Upset, Building, linkVars, lossVars, queueVars, resyncVars
<1>25. CASE BuilderUndoes
  BY <1>25 DEF BuilderUndoes, AttemptFails, Building, lossVars, queueVars, resyncVars
<1>26. CASE BuilderEnds
  BY <1>26 DEF BuilderEnds, Request, Building, lossVars
<1>27. CASE RetryElapses
  BY <1>27 DEF RetryElapses, Building, linkVars, lossVars, queueVars, resyncVars
<1>28. CASE CancelArrives
  BY <1>28 DEF CancelArrives, linkVars, lossVars, queueVars, resyncVars
<1>29. CASE StopWaits
  BY <1>29 DEF StopWaits, linkVars, lossVars, resyncVars
<1>30. CASE StopEnds
  BY <1>30 DEF StopEnds, lossVars, queueVars
<1>31. ASSUME NEW s \in Scopes, StopperStops(s) PROVE Fields'
  BY <1>31 DEF StopperStops, StopSession, taskVars, resyncVars
<1>32. CASE UNCHANGED vars
  BY <1>32 DEF vars, linkVars, lossVars, queueVars, resyncVars, taskVars
<1> QED BY <1>1, <1>2, <1>3, <1>4, <1>5, <1>6, <1>7, <1>8, <1>9, <1>10, <1>11, <1>12,
    <1>13, <1>14, <1>15, <1>16, <1>17, <1>18, <1>19, <1>20, <1>21, <1>22, <1>23, <1>24,
    <1>25, <1>26, <1>27, <1>28, <1>29, <1>30, <1>31, <1>32 DEF Next, Environment, Progress,
    Build, Teardown

\* Every step keeps the queues within their bound.
LEMMA QueuesStep == Fields /\ Queues /\ [Next]_vars => Queues'
<1> SUFFICES ASSUME Fields, Queues, [Next]_vars PROVE Queues'
  OBVIOUS
<1> USE WatchmanAssumption DEF Queues, Kinds
<1>1. ASSUME NEW s \in Scopes, Change(s) PROVE Queues'
  <2>1. stream[s] \in Seq(Kinds) /\ "change" \in Kinds /\ inbox' = inbox /\ shared' = shared
    BY <1>1 DEF Change
  <2>2. Append(stream[s], "change") \in Seq(Kinds)
    BY <2>1, PutsOne
  <2>3. stream' = stream \/ stream' = [stream EXCEPT ![s] = Append(stream[s], "change")]
    BY <1>1 DEF Change
  <2> HIDE DEF Kinds
  <2> QED BY <2>1, <2>2, <2>3
<1>2. ASSUME NEW s \in Scopes, Recrawl(s) PROVE Queues'
  BY <1>2 DEF Recrawl, Upset, linkVars, resyncVars, taskVars
<1>3. ASSUME NEW s \in Scopes, Cut(s) PROVE Queues'
  BY <1>3 DEF Cut, Upset, lossVars, queueVars, resyncVars, taskVars
<1>4. ASSUME NEW s \in Scopes, ReaderFails(s) PROVE Queues'
  BY <1>4 DEF ReaderFails, Upset, lossVars, queueVars, resyncVars, taskVars
<1>5. CASE SidecarDies
  BY <1>5 DEF SidecarDies, Upset, lossVars, queueVars, resyncVars, taskVars
<1>6. CASE ScanFails
  BY <1>6 DEF ScanFails, Upset, linkVars, lossVars, queueVars, taskVars
<1>7. CASE TranslationFails
  <2>1. shared' = Tail(shared) /\ stream' = stream /\ inbox' = inbox /\ shared # <<>>
    BY <1>7 DEF TranslationFails
  <2> QED BY <2>1, TakesOne
<1>8. CASE SidecarFails
  BY <1>8 DEF SidecarFails, Upset, Request, AttemptFails, Building, lossVars, queueVars
<1>9. CASE Start
  BY <1>9 DEF Start, linkVars, lossVars, queueVars, resyncVars
<1>10. CASE Stop
  BY <1>10 DEF Stop, linkVars, lossVars, queueVars, resyncVars
<1>11. ASSUME NEW s \in Scopes, Read(s) PROVE Queues'
  <2>1. /\ stream[s] \in Seq(Kinds) /\ stream[s] # <<>> /\ inbox[s] \in Seq(Kinds)
        /\ stream' = [stream EXCEPT ![s] = Tail(stream[s])]
        /\ shared' = shared
    BY <1>11 DEF Read
  <2>2. Head(stream[s]) \in Kinds /\ Tail(stream[s]) \in Seq(Kinds)
    BY <2>1, TakesOne
  <2>3. stream' \in [Scopes -> Seq(Kinds)]
    BY <2>1, <2>2
  <2>4. CASE Len(inbox[s]) < Capacity /\ inbox' = [inbox EXCEPT ![s] = Append(inbox[s], Head(stream[s]))]
    <3>1. Append(inbox[s], Head(stream[s])) \in Seq(Kinds)
          /\ Len(Append(inbox[s], Head(stream[s]))) <= Capacity
      BY <2>1, <2>2, <2>4, PutsOne
    <3> HIDE DEF Kinds
    <3> QED BY <2>1, <2>3, <2>4, <3>1
  <2>5. CASE inbox' = inbox
    BY <2>1, <2>3, <2>5
  <2> QED BY <1>11, <2>4, <2>5 DEF Read
<1>12. ASSUME NEW s \in Scopes, SeesEnd(s) PROVE Queues'
  BY <1>12 DEF SeesEnd, lossVars, queueVars, resyncVars, taskVars
<1>13. ASSUME NEW s \in Scopes, Bridge(s) PROVE Queues'
  <2>1. /\ inbox[s] \in Seq(Kinds) /\ inbox[s] # <<>>
        /\ inbox' = [inbox EXCEPT ![s] = Tail(inbox[s])]
        /\ stream' = stream
    BY <1>13 DEF Bridge
  <2>2. /\ Head(inbox[s]) \in Kinds /\ Tail(inbox[s]) \in Seq(Kinds)
        /\ Len(Tail(inbox[s])) <= Capacity
    BY <2>1, TakesOne
  <2>3. inbox' \in [Scopes -> Seq(Kinds)] /\ \A t \in Scopes : Len(inbox'[t]) <= Capacity
    BY <2>1, <2>2
  <2>4. CASE Len(shared) < Capacity /\ shared' = Append(shared, <<s, Head(inbox[s])>>)
    <3>1. <<s, Head(inbox[s])>> \in Scopes \X Kinds
      BY <2>2
    <3>2. shared' \in Seq(Scopes \X Kinds) /\ Len(shared') <= Capacity
      BY <2>4, <3>1, PutsOne
    <3> QED BY <2>1, <2>3, <3>2
  <2>5. CASE shared' = shared
    BY <2>1, <2>3, <2>5
  <2> QED BY <1>13, <2>4, <2>5 DEF Bridge
<1>14. CASE Consume
  <2>1. shared' = Tail(shared) /\ stream' = stream /\ inbox' = inbox /\ shared # <<>>
    BY <1>14 DEF Consume
  <2> QED BY <2>1, TakesOne
<1>15. CASE Ask
  BY <1>15 DEF Ask, Request, linkVars, lossVars, queueVars, taskVars
<1>16. CASE ScanStarts
  BY <1>16 DEF ScanStarts, linkVars, queueVars, taskVars
<1>17. CASE ScanReturns
  BY <1>17 DEF ScanReturns, linkVars, lossVars, queueVars, taskVars
<1>18. CASE MonitorWakes
  BY <1>18 DEF MonitorWakes, linkVars, lossVars, queueVars, resyncVars
<1>19. CASE MonitorEnds
  BY <1>19 DEF MonitorEnds, DropShared, linkVars
<1>20. ASSUME NEW s \in Scopes, BuilderStops(s) PROVE Queues'
  BY <1>20 DEF BuilderStops, StopSession, resyncVars
<1>21. ASSUME NEW s \in Scopes, SessionStarts(s) PROVE Queues'
  <2>1. <<"notice">> \in Seq(Kinds)
    OBVIOUS
  <2> QED BY <1>21, <2>1 DEF SessionStarts
<1>22. CASE BuilderClears
  BY <1>22 DEF BuilderClears, Building, lossVars, queueVars, resyncVars
<1>23. CASE SidecarStarts
  BY <1>23 DEF SidecarStarts, Building, lossVars, queueVars, resyncVars
<1>24. CASE SessionFails
  BY <1>24 DEF SessionFails, Upset, Building, linkVars, lossVars, queueVars, resyncVars
<1>25. CASE BuilderUndoes
  BY <1>25 DEF BuilderUndoes, AttemptFails, Building, lossVars, queueVars, resyncVars
<1>26. CASE BuilderEnds
  BY <1>26 DEF BuilderEnds, Request, Building, lossVars
<1>27. CASE RetryElapses
  BY <1>27 DEF RetryElapses, Building, linkVars, lossVars, queueVars, resyncVars
<1>28. CASE CancelArrives
  BY <1>28 DEF CancelArrives, linkVars, lossVars, queueVars, resyncVars
<1>29. CASE StopWaits
  BY <1>29 DEF StopWaits, linkVars, lossVars, resyncVars
<1>30. CASE StopEnds
  BY <1>30 DEF StopEnds, lossVars, queueVars
<1>31. ASSUME NEW s \in Scopes, StopperStops(s) PROVE Queues'
  BY <1>31 DEF StopperStops, StopSession, taskVars, resyncVars
<1>32. CASE UNCHANGED vars
  BY <1>32 DEF vars, linkVars, lossVars, queueVars, resyncVars, taskVars
<1> QED BY <1>1, <1>2, <1>3, <1>4, <1>5, <1>6, <1>7, <1>8, <1>9, <1>10, <1>11, <1>12,
    <1>13, <1>14, <1>15, <1>16, <1>17, <1>18, <1>19, <1>20, <1>21, <1>22, <1>23, <1>24,
    <1>25, <1>26, <1>27, <1>28, <1>29, <1>30, <1>31, <1>32 DEF Next, Environment, Progress,
    Build, Teardown

\* Every step keeps the counters and the history within their types.
LEMMA CountersStep == Fields /\ Queues /\ Counters /\ [Next]_vars => Counters'
<1> SUFFICES ASSUME Fields, Queues, Counters, [Next]_vars PROVE Counters'
  OBVIOUS
<1> USE DEF Counters
<1>1. ASSUME NEW s \in Scopes, Change(s) PROVE Counters'
  BY <1>1 DEF Change, Upset, linkVars, resyncVars, taskVars
<1>2. ASSUME NEW s \in Scopes, Recrawl(s) PROVE Counters'
  BY <1>2 DEF Recrawl, Upset, linkVars, resyncVars, taskVars
<1>3. ASSUME NEW s \in Scopes, Cut(s) PROVE Counters'
  BY <1>3 DEF Cut, Upset, lossVars, queueVars, resyncVars, taskVars
<1>4. ASSUME NEW s \in Scopes, ReaderFails(s) PROVE Counters'
  BY <1>4 DEF ReaderFails, Upset, lossVars, queueVars, resyncVars, taskVars
<1>5. CASE SidecarDies
  BY <1>5 DEF SidecarDies, Upset, lossVars, queueVars, resyncVars, taskVars
<1>6. CASE ScanFails
  BY <1>6 DEF ScanFails, Upset, linkVars, lossVars, queueVars, taskVars
<1>7. CASE TranslationFails
  <2>1. shared \in Seq(Scopes \X Kinds) /\ shared # <<>>
    BY <1>7 DEF Queues, TranslationFails
  <2>2. Head(shared) \in Scopes \X Kinds
    BY <2>1, TakesOne
  <2>3. Head(shared)[1] \in Scopes
    BY <2>2
  <2> QED BY <1>7, <2>3 DEF TranslationFails, Upset, Report, linkVars, taskVars
<1>8. CASE SidecarFails
  BY <1>8 DEF SidecarFails, Upset, Request, AttemptFails, Building, lossVars, queueVars
<1>9. CASE Start
  BY <1>9 DEF Start, linkVars, lossVars, queueVars, resyncVars
<1>10. CASE Stop
  BY <1>10 DEF Stop, linkVars, lossVars, queueVars, resyncVars
<1>11. ASSUME NEW s \in Scopes, Read(s) PROVE Counters'
  BY <1>11 DEF Read, Overflow, Report, linkVars, lossVars, resyncVars, taskVars
<1>12. ASSUME NEW s \in Scopes, SeesEnd(s) PROVE Counters'
  BY <1>12 DEF SeesEnd, lossVars, queueVars, resyncVars, taskVars
<1>13. ASSUME NEW s \in Scopes, Bridge(s) PROVE Counters'
  BY <1>13 DEF Bridge, Overflow, Report, linkVars, lossVars, resyncVars, taskVars
<1>14. CASE Consume
  <2>1. shared \in Seq(Scopes \X Kinds) /\ shared # <<>>
    BY <1>14 DEF Queues, Consume
  <2>2. Head(shared) \in Scopes \X Kinds
    BY <2>1, TakesOne
  <2>3. Head(shared)[1] \in Scopes
    BY <2>2
  <2> QED BY <1>14, <2>3 DEF Consume, Report, linkVars, lossVars, resyncVars, taskVars
<1>15. CASE Ask
  BY <1>15 DEF Ask, Request, linkVars, lossVars, queueVars, taskVars
<1>16. CASE ScanStarts
  BY <1>16 DEF ScanStarts, linkVars, queueVars, taskVars
<1>17. CASE ScanReturns
  BY <1>17 DEF ScanReturns, linkVars, lossVars, queueVars, taskVars
<1>18. CASE MonitorWakes
  BY <1>18 DEF MonitorWakes, linkVars, lossVars, queueVars, resyncVars
<1>19. CASE MonitorEnds
  <2>1. \A i \in DOMAIN shared : shared[i] \in Scopes \X Kinds
    BY DEF Queues
  <2>2. {shared[i][1] : i \in DOMAIN shared} \subseteq Scopes
    BY <2>1
  <2> QED BY <1>19, <2>2 DEF MonitorEnds, DropShared
<1>20. ASSUME NEW s \in Scopes, BuilderStops(s) PROVE Counters'
  BY <1>20 DEF BuilderStops, StopSession, resyncVars
<1>21. ASSUME NEW s \in Scopes, SessionStarts(s) PROVE Counters'
  BY <1>21 DEF SessionStarts, Building, lossVars, resyncVars, taskVars
<1>22. CASE BuilderClears
  BY <1>22 DEF BuilderClears, Building, lossVars, queueVars, resyncVars
<1>23. CASE SidecarStarts
  BY <1>23 DEF SidecarStarts, Building, lossVars, queueVars, resyncVars
<1>24. CASE SessionFails
  BY <1>24 DEF SessionFails, Upset, Building, linkVars, lossVars, queueVars, resyncVars
<1>25. CASE BuilderUndoes
  BY <1>25 DEF BuilderUndoes, AttemptFails, Building, lossVars, queueVars, resyncVars
<1>26. CASE BuilderEnds
  BY <1>26 DEF BuilderEnds, Request, Building, lossVars
<1>27. CASE RetryElapses
  BY <1>27 DEF RetryElapses, Building, linkVars, lossVars, queueVars, resyncVars
<1>28. CASE CancelArrives
  BY <1>28 DEF CancelArrives, linkVars, lossVars, queueVars, resyncVars
<1>29. CASE StopWaits
  BY <1>29 DEF StopWaits, linkVars, lossVars, resyncVars
<1>30. CASE StopEnds
  BY <1>30 DEF StopEnds, lossVars, queueVars
<1>31. ASSUME NEW s \in Scopes, StopperStops(s) PROVE Counters'
  BY <1>31 DEF StopperStops, StopSession, taskVars, resyncVars
<1>32. CASE UNCHANGED vars
  BY <1>32 DEF vars, linkVars, lossVars, queueVars, resyncVars, taskVars
<1> QED BY <1>1, <1>2, <1>3, <1>4, <1>5, <1>6, <1>7, <1>8, <1>9, <1>10, <1>11, <1>12,
    <1>13, <1>14, <1>15, <1>16, <1>17, <1>18, <1>19, <1>20, <1>21, <1>22, <1>23, <1>24,
    <1>25, <1>26, <1>27, <1>28, <1>29, <1>30, <1>31, <1>32 DEF Next, Environment, Progress,
    Build, Teardown

-----------------------------------------------------------------------------
(* Tasks and sessions.                                                     *)

\* Every step keeps start(), stop(), the monitor and the builder in step.
LEMMA ControlStep == Flags /\ Fields /\ Control /\ [Next]_vars => Control'
<1> SUFFICES ASSUME Flags, Fields, Control, [Next]_vars PROVE Control'
  OBVIOUS
<1> USE DEF Flags, Fields, Control
<1>1. ASSUME NEW s \in Scopes, Change(s) PROVE Control'
  BY <1>1 DEF Change, Upset, linkVars, resyncVars, taskVars
<1>2. ASSUME NEW s \in Scopes, Recrawl(s) PROVE Control'
  BY <1>2 DEF Recrawl, Upset, linkVars, resyncVars, taskVars
<1>3. ASSUME NEW s \in Scopes, Cut(s) PROVE Control'
  BY <1>3 DEF Cut, Upset, lossVars, queueVars, resyncVars, taskVars
<1>4. ASSUME NEW s \in Scopes, ReaderFails(s) PROVE Control'
  BY <1>4 DEF ReaderFails, Upset, lossVars, queueVars, resyncVars, taskVars
<1>5. CASE SidecarDies
  BY <1>5 DEF SidecarDies, Upset, lossVars, queueVars, resyncVars, taskVars
<1>6. CASE ScanFails
  BY <1>6 DEF ScanFails, Upset, linkVars, lossVars, queueVars, taskVars
<1>7. CASE TranslationFails
  BY <1>7 DEF TranslationFails, Upset, Report, linkVars, taskVars
<1>8. CASE SidecarFails
  BY <1>8 DEF SidecarFails, Upset, Request, AttemptFails, Building, lossVars, queueVars
<1>9. CASE Start
  BY <1>9 DEF Start, linkVars, lossVars, queueVars, resyncVars
<1>10. CASE Stop
  BY <1>10 DEF Stop, linkVars, lossVars, queueVars, resyncVars
<1>11. ASSUME NEW s \in Scopes, Read(s) PROVE Control'
  BY <1>11 DEF Read, Overflow, Report, linkVars, lossVars, resyncVars, taskVars
<1>12. ASSUME NEW s \in Scopes, SeesEnd(s) PROVE Control'
  BY <1>12 DEF SeesEnd, lossVars, queueVars, resyncVars, taskVars
<1>13. ASSUME NEW s \in Scopes, Bridge(s) PROVE Control'
  BY <1>13 DEF Bridge, Overflow, Report, linkVars, lossVars, resyncVars, taskVars
<1>14. CASE Consume
  BY <1>14 DEF Consume, Report, linkVars, lossVars, resyncVars, taskVars
<1>15. CASE Ask
  BY <1>15 DEF Ask, Request, linkVars, lossVars, queueVars, taskVars
<1>16. CASE ScanStarts
  BY <1>16 DEF ScanStarts, linkVars, queueVars, taskVars
<1>17. CASE ScanReturns
  BY <1>17 DEF ScanReturns, linkVars, lossVars, queueVars, taskVars
<1>18. CASE MonitorWakes
  BY <1>18 DEF MonitorWakes, linkVars, lossVars, queueVars, resyncVars
<1>19. CASE MonitorEnds
  BY <1>19 DEF MonitorEnds, DropShared, linkVars
<1>20. ASSUME NEW s \in Scopes, BuilderStops(s) PROVE Control'
  BY <1>20 DEF BuilderStops, StopSession, resyncVars
<1>21. ASSUME NEW s \in Scopes, SessionStarts(s) PROVE Control'
  BY <1>21 DEF SessionStarts, Building, lossVars, resyncVars, taskVars
<1>22. CASE BuilderClears
  BY <1>22 DEF BuilderClears, Building, lossVars, queueVars, resyncVars
<1>23. CASE SidecarStarts
  BY <1>23 DEF SidecarStarts, Building, lossVars, queueVars, resyncVars
<1>24. CASE SessionFails
  BY <1>24 DEF SessionFails, Upset, Building, linkVars, lossVars, queueVars, resyncVars
<1>25. CASE BuilderUndoes
  BY <1>25 DEF BuilderUndoes, AttemptFails, Building, lossVars, queueVars, resyncVars
<1>26. CASE BuilderEnds
  BY <1>26 DEF BuilderEnds, Request, Building, lossVars
<1>27. CASE RetryElapses
  BY <1>27 DEF RetryElapses, Building, linkVars, lossVars, queueVars, resyncVars
<1>28. CASE CancelArrives
  BY <1>28 DEF CancelArrives, linkVars, lossVars, queueVars, resyncVars
<1>29. CASE StopWaits
  BY <1>29 DEF StopWaits, linkVars, lossVars, resyncVars
<1>30. CASE StopEnds
  BY <1>30 DEF StopEnds, lossVars, queueVars
<1>31. ASSUME NEW s \in Scopes, StopperStops(s) PROVE Control'
  BY <1>31 DEF StopperStops, StopSession, taskVars, resyncVars
<1>32. CASE UNCHANGED vars
  BY <1>32 DEF vars, linkVars, lossVars, queueVars, resyncVars, taskVars
<1> QED BY <1>1, <1>2, <1>3, <1>4, <1>5, <1>6, <1>7, <1>8, <1>9, <1>10, <1>11, <1>12,
    <1>13, <1>14, <1>15, <1>16, <1>17, <1>18, <1>19, <1>20, <1>21, <1>22, <1>23, <1>24,
    <1>25, <1>26, <1>27, <1>28, <1>29, <1>30, <1>31, <1>32 DEF Next, Environment, Progress,
    Build, Teardown

\* Every step keeps the sessions where the builder expects them.
LEMMA LinksStep == Fields /\ Queues /\ Control /\ Links /\ [Next]_vars => Links'
<1> SUFFICES ASSUME Fields, Queues, Control, Links, [Next]_vars PROVE Links'
  OBVIOUS
<1> USE DEF Fields, Control, Links, NoSession
<1>1. ASSUME NEW s \in Scopes, Change(s) PROVE Links'
  <2>1. CASE session[s] \in {"live", "deaf"}
    <3>1. \A t \in Scopes : t # s => stream'[t] = stream[t]
      BY <1>1, <2>1 DEF Change, Queues
    <3> QED BY <1>1, <2>1, <3>1 DEF Change, linkVars, taskVars
  <2>2. CASE stream' = stream
    BY <1>1, <2>2 DEF Change, linkVars, taskVars
  <2> QED BY <1>1, <2>1, <2>2 DEF Change
<1>2. ASSUME NEW s \in Scopes, Recrawl(s) PROVE Links'
  BY <1>2 DEF Recrawl, Upset, linkVars, resyncVars, taskVars
<1>3. ASSUME NEW s \in Scopes, Cut(s) PROVE Links'
  BY <1>3 DEF Cut, Upset, lossVars, queueVars, resyncVars, taskVars
<1>4. ASSUME NEW s \in Scopes, ReaderFails(s) PROVE Links'
  BY <1>4 DEF ReaderFails, Upset, lossVars, queueVars, resyncVars, taskVars
<1>5. CASE SidecarDies
  BY <1>5 DEF SidecarDies, Upset, lossVars, queueVars, resyncVars, taskVars
<1>6. CASE ScanFails
  BY <1>6 DEF ScanFails, Upset, linkVars, lossVars, queueVars, taskVars
<1>7. CASE TranslationFails
  BY <1>7 DEF TranslationFails, Upset, Report, linkVars, taskVars
<1>8. CASE SidecarFails
  BY <1>8 DEF SidecarFails, Upset, Request, AttemptFails, Building, lossVars, queueVars
<1>9. CASE Start
  BY <1>9 DEF Start, linkVars, lossVars, queueVars, resyncVars
<1>10. CASE Stop
  BY <1>10 DEF Stop, linkVars, lossVars, queueVars, resyncVars
<1>11. ASSUME NEW s \in Scopes, Read(s) PROVE Links'
  <2>1. /\ session[s] # "none" /\ \A t \in Scopes : t # s => stream'[t] = stream[t] /\ inbox'[t] = inbox[t]
    BY <1>11 DEF Read, Queues
  <2>2. UNCHANGED <<session, owned, service, builder, fallback, shared>>
    BY <1>11 DEF Read, linkVars, taskVars
  <2> QED BY <2>1, <2>2
<1>12. ASSUME NEW s \in Scopes, SeesEnd(s) PROVE Links'
  BY <1>12 DEF SeesEnd, lossVars, queueVars, resyncVars, taskVars
<1>13. ASSUME NEW s \in Scopes, Bridge(s) PROVE Links'
  BY <1>13 DEF Bridge, Overflow, Report, linkVars, lossVars, resyncVars, taskVars
<1>14. CASE Consume
  BY <1>14 DEF Consume, Report, linkVars, lossVars, resyncVars, taskVars
<1>15. CASE Ask
  BY <1>15 DEF Ask, Request, linkVars, lossVars, queueVars, taskVars
<1>16. CASE ScanStarts
  BY <1>16 DEF ScanStarts, linkVars, queueVars, taskVars
<1>17. CASE ScanReturns
  BY <1>17 DEF ScanReturns, linkVars, lossVars, queueVars, taskVars
<1>18. CASE MonitorWakes
  BY <1>18 DEF MonitorWakes, linkVars, lossVars, queueVars, resyncVars
<1>19. CASE MonitorEnds
  BY <1>19 DEF MonitorEnds, DropShared, linkVars
<1>20. ASSUME NEW s \in Scopes, BuilderStops(s) PROVE Links'
  <2>1. /\ session' = [session EXCEPT ![s] = "none"]
        /\ stream' = [stream EXCEPT ![s] = <<>>]
        /\ inbox' = [inbox EXCEPT ![s] = <<>>]
        /\ UNCHANGED <<owned, shared, service, builder, fallback>>
    BY <1>20 DEF BuilderStops, StopSession, taskVars
  <2>2. \A t \in Scopes : \/ session'[t] = "none" /\ stream'[t] = <<>> /\ inbox'[t] = <<>>
                          \/ session'[t] = session[t] /\ stream'[t] = stream[t] /\ inbox'[t] = inbox[t]
    BY <2>1 DEF Queues
  <2> QED BY <2>1, <2>2
<1>21. ASSUME NEW s \in Scopes, SessionStarts(s) PROVE Links'
  <2>1. /\ session' = [session EXCEPT ![s] = "live"]
        /\ UNCHANGED <<inbox, owned, shared, service, builder, fallback>>
        /\ builder = "sessions" /\ service # "off" /\ fallback # "active"
    BY <1>21 DEF SessionStarts, Building, taskVars
  <2>2. \A t \in Scopes : t # s => session'[t] = session[t] /\ stream'[t] = stream[t]
    BY <1>21 DEF SessionStarts, Queues
  <2> QED BY <2>1, <2>2
<1>22. CASE BuilderClears
  BY <1>22 DEF BuilderClears, Building, lossVars, queueVars, resyncVars
<1>23. CASE SidecarStarts
  BY <1>23 DEF SidecarStarts, Building, lossVars, queueVars, resyncVars
<1>24. CASE SessionFails
  BY <1>24 DEF SessionFails, Upset, Building, linkVars, lossVars, queueVars, resyncVars
<1>25. CASE BuilderUndoes
  BY <1>25 DEF BuilderUndoes, AttemptFails, Building, lossVars, queueVars, resyncVars
<1>26. CASE BuilderEnds
  BY <1>26 DEF BuilderEnds, Request, Building, lossVars
<1>27. CASE RetryElapses
  BY <1>27 DEF RetryElapses, Building, linkVars, lossVars, queueVars, resyncVars
<1>28. CASE CancelArrives
  BY <1>28 DEF CancelArrives, linkVars, lossVars, queueVars, resyncVars
<1>29. CASE StopWaits
  BY <1>29 DEF StopWaits, linkVars, lossVars, resyncVars
<1>30. CASE StopEnds
  BY <1>30 DEF StopEnds, lossVars, queueVars
<1>31. ASSUME NEW s \in Scopes, StopperStops(s) PROVE Links'
  <2>1. /\ session' = [session EXCEPT ![s] = "none"]
        /\ stream' = [stream EXCEPT ![s] = <<>>]
        /\ inbox' = [inbox EXCEPT ![s] = <<>>]
        /\ UNCHANGED <<owned, shared, service, builder, fallback>>
    BY <1>31 DEF StopperStops, StopSession, taskVars
  <2>2. \A t \in Scopes : \/ session'[t] = "none" /\ stream'[t] = <<>> /\ inbox'[t] = <<>>
                          \/ session'[t] = session[t] /\ stream'[t] = stream[t] /\ inbox'[t] = inbox[t]
    BY <2>1 DEF Queues
  <2> QED BY <2>1, <2>2
<1>32. CASE UNCHANGED vars
  BY <1>32 DEF vars, linkVars, lossVars, queueVars, resyncVars, taskVars
<1> QED BY <1>1, <1>2, <1>3, <1>4, <1>5, <1>6, <1>7, <1>8, <1>9, <1>10, <1>11, <1>12,
    <1>13, <1>14, <1>15, <1>16, <1>17, <1>18, <1>19, <1>20, <1>21, <1>22, <1>23, <1>24,
    <1>25, <1>26, <1>27, <1>28, <1>29, <1>30, <1>31, <1>32 DEF Next, Environment, Progress,
    Build, Teardown

\* Every step leaves a service that is on watched over.
LEMMA WatchingStep == Fields /\ Control /\ Links /\ Watching /\ [Next]_vars => Watching'
<1> SUFFICES ASSUME Fields, Control, Links, Watching, [Next]_vars PROVE Watching'
  OBVIOUS
<1> USE DEF Fields, Control, Links, NoSession, Watching
<1>1. ASSUME NEW s \in Scopes, Change(s) PROVE Watching'
  BY <1>1 DEF Change, Upset, linkVars, resyncVars, taskVars
<1>2. ASSUME NEW s \in Scopes, Recrawl(s) PROVE Watching'
  BY <1>2 DEF Recrawl, Upset, linkVars, resyncVars, taskVars
<1>3. ASSUME NEW s \in Scopes, Cut(s) PROVE Watching'
  BY <1>3 DEF Cut, Upset, lossVars, queueVars, resyncVars, taskVars
<1>4. ASSUME NEW s \in Scopes, ReaderFails(s) PROVE Watching'
  BY <1>4 DEF ReaderFails, Upset, lossVars, queueVars, resyncVars, taskVars
<1>5. CASE SidecarDies
  BY <1>5 DEF SidecarDies, Upset, lossVars, queueVars, resyncVars, taskVars
<1>6. CASE ScanFails
  BY <1>6 DEF ScanFails, Upset, linkVars, lossVars, queueVars, taskVars
<1>7. CASE TranslationFails
  BY <1>7 DEF TranslationFails, Upset, Report, linkVars, taskVars
<1>8. CASE SidecarFails
  BY <1>8 DEF SidecarFails, Upset, Request, AttemptFails, Building, lossVars, queueVars
<1>9. CASE Start
  BY <1>9 DEF Start, linkVars, lossVars, queueVars, resyncVars
<1>10. CASE Stop
  BY <1>10 DEF Stop, linkVars, lossVars, queueVars, resyncVars
<1>11. ASSUME NEW s \in Scopes, Read(s) PROVE Watching'
  BY <1>11 DEF Read, Overflow, Report, linkVars, lossVars, resyncVars, taskVars
<1>12. ASSUME NEW s \in Scopes, SeesEnd(s) PROVE Watching'
  BY <1>12 DEF SeesEnd, lossVars, queueVars, resyncVars, taskVars
<1>13. ASSUME NEW s \in Scopes, Bridge(s) PROVE Watching'
  BY <1>13 DEF Bridge, Overflow, Report, linkVars, lossVars, resyncVars, taskVars
<1>14. CASE Consume
  BY <1>14 DEF Consume, Report, linkVars, lossVars, resyncVars, taskVars
<1>15. CASE Ask
  BY <1>15 DEF Ask, Request, linkVars, lossVars, queueVars, taskVars
<1>16. CASE ScanStarts
  BY <1>16 DEF ScanStarts, linkVars, queueVars, taskVars
<1>17. CASE ScanReturns
  BY <1>17 DEF ScanReturns, linkVars, lossVars, queueVars, taskVars
<1>18. CASE MonitorWakes
  BY <1>18 DEF MonitorWakes, linkVars, lossVars, queueVars, resyncVars
<1>19. CASE MonitorEnds
  BY <1>19 DEF MonitorEnds, DropShared, linkVars
<1>20. ASSUME NEW s \in Scopes, BuilderStops(s) PROVE Watching'
  BY <1>20 DEF BuilderStops, StopSession, resyncVars
<1>21. ASSUME NEW s \in Scopes, SessionStarts(s) PROVE Watching'
  BY <1>21 DEF SessionStarts, Building, lossVars, resyncVars, taskVars
<1>22. CASE BuilderClears
  BY <1>22 DEF BuilderClears, Building, lossVars, queueVars, resyncVars
<1>23. CASE SidecarStarts
  BY <1>23 DEF SidecarStarts, Building, lossVars, queueVars, resyncVars
<1>24. CASE SessionFails
  BY <1>24 DEF SessionFails, Upset, Building, linkVars, lossVars, queueVars, resyncVars
<1>25. CASE BuilderUndoes
  BY <1>25 DEF BuilderUndoes, AttemptFails, Building, lossVars, queueVars, resyncVars
<1>26. CASE BuilderEnds
  BY <1>26 DEF BuilderEnds, Request, Building, lossVars
<1>27. CASE RetryElapses
  BY <1>27 DEF RetryElapses, Building, linkVars, lossVars, queueVars, resyncVars
<1>28. CASE CancelArrives
  BY <1>28 DEF CancelArrives, linkVars, lossVars, queueVars, resyncVars
<1>29. CASE StopWaits
  BY <1>29 DEF StopWaits, linkVars, lossVars, resyncVars
<1>30. CASE StopEnds
  BY <1>30 DEF StopEnds, lossVars, queueVars
<1>31. ASSUME NEW s \in Scopes, StopperStops(s) PROVE Watching'
  BY <1>31 DEF StopperStops, StopSession, taskVars, resyncVars
<1>32. CASE UNCHANGED vars
  BY <1>32 DEF vars, linkVars, lossVars, queueVars, resyncVars, taskVars
<1> QED BY <1>1, <1>2, <1>3, <1>4, <1>5, <1>6, <1>7, <1>8, <1>9, <1>10, <1>11, <1>12,
    <1>13, <1>14, <1>15, <1>16, <1>17, <1>18, <1>19, <1>20, <1>21, <1>22, <1>23, <1>24,
    <1>25, <1>26, <1>27, <1>28, <1>29, <1>30, <1>31, <1>32 DEF Next, Environment, Progress,
    Build, Teardown
-----------------------------------------------------------------------------
(* Losses.                                                                 *)

\* Nothing is lost before start().
LEMMA OffStep ==
  ASSUME Fields, Queues, Control, Links, [Next]_vars, service = "off" => missed = {}
  PROVE  service' = "off" => missed' = {}
<1> SUFFICES ASSUME service' = "off" PROVE missed' = {}
  OBVIOUS
<1> USE DEF Fields, Control, Links, NoSession
<1>1. ASSUME NEW s \in Scopes, Change(s) PROVE missed' = {}
  BY <1>1 DEF Change, Upset, linkVars, resyncVars, taskVars
<1>2. ASSUME NEW s \in Scopes, Recrawl(s) PROVE missed' = {}
  BY <1>2 DEF Recrawl, Upset, linkVars, resyncVars, taskVars
<1>3. ASSUME NEW s \in Scopes, Cut(s) PROVE missed' = {}
  BY <1>3 DEF Cut, Upset, lossVars, queueVars, resyncVars, taskVars
<1>4. ASSUME NEW s \in Scopes, ReaderFails(s) PROVE missed' = {}
  BY <1>4 DEF ReaderFails, Upset, lossVars, queueVars, resyncVars, taskVars
<1>5. CASE SidecarDies
  BY <1>5 DEF SidecarDies, Upset, lossVars, queueVars, resyncVars, taskVars
<1>6. CASE ScanFails
  BY <1>6 DEF ScanFails, Upset, linkVars, lossVars, queueVars, taskVars
<1>7. CASE TranslationFails
  <2>1. shared # <<>> /\ pumping /\ service = "off"
    BY <1>7 DEF TranslationFails, taskVars
  <2> QED BY <2>1
<1>8. CASE SidecarFails
  BY <1>8 DEF SidecarFails, Upset, Request, AttemptFails, Building, lossVars, queueVars
<1>9. CASE Start
  BY <1>9 DEF Start, linkVars, lossVars, queueVars, resyncVars
<1>10. CASE Stop
  BY <1>10 DEF Stop, linkVars, lossVars, queueVars, resyncVars
<1>11. ASSUME NEW s \in Scopes, Read(s) PROVE missed' = {}
  BY <1>11 DEF Read, Overflow, Report, linkVars, lossVars, resyncVars, taskVars
<1>12. ASSUME NEW s \in Scopes, SeesEnd(s) PROVE missed' = {}
  BY <1>12 DEF SeesEnd, lossVars, queueVars, resyncVars, taskVars
<1>13. ASSUME NEW s \in Scopes, Bridge(s) PROVE missed' = {}
  BY <1>13 DEF Bridge, Overflow, Report, linkVars, lossVars, resyncVars, taskVars
<1>14. CASE Consume
  <2>1. shared # <<>> /\ pumping /\ service = "off"
    BY <1>14 DEF Consume, taskVars
  <2> QED BY <2>1
<1>15. CASE Ask
  BY <1>15 DEF Ask, Request, linkVars, lossVars, queueVars, taskVars
<1>16. CASE ScanStarts
  BY <1>16 DEF ScanStarts, linkVars, queueVars, taskVars
<1>17. CASE ScanReturns
  BY <1>17 DEF ScanReturns, linkVars, lossVars, queueVars, taskVars
<1>18. CASE MonitorWakes
  BY <1>18 DEF MonitorWakes, linkVars, lossVars, queueVars, resyncVars
<1>19. CASE MonitorEnds
  BY <1>19 DEF MonitorEnds, DropShared, linkVars
<1>20. ASSUME NEW s \in Scopes, BuilderStops(s) PROVE missed' = {}
  BY <1>20 DEF BuilderStops, StopSession, resyncVars
<1>21. ASSUME NEW s \in Scopes, SessionStarts(s) PROVE missed' = {}
  BY <1>21 DEF SessionStarts, Building, lossVars, resyncVars, taskVars
<1>22. CASE BuilderClears
  BY <1>22 DEF BuilderClears, Building, lossVars, queueVars, resyncVars
<1>23. CASE SidecarStarts
  BY <1>23 DEF SidecarStarts, Building, lossVars, queueVars, resyncVars
<1>24. CASE SessionFails
  BY <1>24 DEF SessionFails, Upset, Building, linkVars, lossVars, queueVars, resyncVars
<1>25. CASE BuilderUndoes
  BY <1>25 DEF BuilderUndoes, AttemptFails, Building, lossVars, queueVars, resyncVars
<1>26. CASE BuilderEnds
  BY <1>26 DEF BuilderEnds, Request, Building, lossVars
<1>27. CASE RetryElapses
  BY <1>27 DEF RetryElapses, Building, linkVars, lossVars, queueVars, resyncVars
<1>28. CASE CancelArrives
  BY <1>28 DEF CancelArrives, linkVars, lossVars, queueVars, resyncVars
<1>29. CASE StopWaits
  BY <1>29 DEF StopWaits, linkVars, lossVars, resyncVars
<1>30. CASE StopEnds
  BY <1>30 DEF StopEnds, lossVars, queueVars
<1>31. ASSUME NEW s \in Scopes, StopperStops(s) PROVE missed' = {}
  BY <1>31 DEF StopperStops, StopSession, taskVars, resyncVars
<1>32. CASE UNCHANGED vars
  BY <1>32 DEF vars, linkVars, lossVars, queueVars, resyncVars, taskVars
<1> QED BY <1>1, <1>2, <1>3, <1>4, <1>5, <1>6, <1>7, <1>8, <1>9, <1>10, <1>11, <1>12,
    <1>13, <1>14, <1>15, <1>16, <1>17, <1>18, <1>19, <1>20, <1>21, <1>22, <1>23, <1>24,
    <1>25, <1>26, <1>27, <1>28, <1>29, <1>30, <1>31, <1>32 DEF Next, Environment, Progress,
    Build, Teardown

\* While the queues are the same, so are the notices in them.
LEMMA AnnouncedSame ==
  ASSUME UNCHANGED queueVars, NEW t \in Scopes
  PROVE  Announced(t)' <=> Announced(t)
  BY DEF queueVars, Announced

\* A PDU at the end of the stream of a scope hides no notice.
LEMMA AnnouncedAppend ==
  ASSUME Queues, NEW s \in Scopes, NEW k \in Kinds,
         stream' = [stream EXCEPT ![s] = Append(@, k)], inbox' = inbox, shared' = shared,
         NEW t \in Scopes
  PROVE  /\ Announced(t) => Announced(t)'
         /\ k = "notice" => Announced(s)'
<1>1. stream[s] \in Seq(Kinds)
  BY DEF Queues
<1>2. /\ Len(stream[s]) \in Nat /\ Append(stream[s], k) \in Seq(Kinds)
      /\ Len(Append(stream[s], k)) = Len(stream[s]) + 1
      /\ \A i \in 1..Len(stream[s]) : Append(stream[s], k)[i] = stream[s][i]
      /\ Append(stream[s], k)[Len(stream[s]) + 1] = k
  BY <1>1, PutsOne
<1>3. stream'[s] = Append(stream[s], k) /\ \A u \in Scopes : u # s => stream'[u] = stream[u]
  BY DEF Queues
<1>4. DOMAIN stream[s] = 1..Len(stream[s]) /\ DOMAIN stream'[s] = 1..(Len(stream[s]) + 1)
  BY <1>1, <1>2, <1>3
<1>5. \A i \in DOMAIN stream[s] : i \in DOMAIN stream'[s] /\ stream'[s][i] = stream[s][i]
  BY <1>2, <1>3, <1>4
<1>6. Announced(t) => Announced(t)'
  <2>1. CASE t = s
    BY <2>1, <1>5 DEF Announced
  <2>2. CASE t # s
    BY <2>2, <1>3 DEF Announced
  <2> QED BY <2>1, <2>2
<1>7. k = "notice" => Announced(s)'
  <2>1. Len(stream[s]) + 1 \in DOMAIN stream'[s] /\ stream'[s][Len(stream[s]) + 1] = k
    BY <1>2, <1>3, <1>4
  <2> QED BY <2>1 DEF Announced
<1> QED BY <1>6, <1>7

\* A PDU read into the inbox takes its notice along.
LEMMA AnnouncedRead ==
  ASSUME Queues, NEW s \in Scopes, stream[s] # <<>>,
         stream' = [stream EXCEPT ![s] = Tail(@)], shared' = shared, NEW t \in Scopes,
         \/ inbox' = [inbox EXCEPT ![s] = Append(@, Head(stream[s]))]
         \/ inbox' = inbox /\ t # s
  PROVE  Announced(t) => Announced(t)'
<1>1. stream[s] \in Seq(Kinds) /\ inbox[s] \in Seq(Kinds)
  BY DEF Queues
<1>2. /\ Head(stream[s]) \in Kinds /\ Head(stream[s]) = stream[s][1]
      /\ Tail(stream[s]) \in Seq(Kinds)
      /\ Len(stream[s]) \in Nat \ {0} /\ Len(Tail(stream[s])) = Len(stream[s]) - 1
      /\ \A i \in 1..(Len(stream[s]) - 1) : Tail(stream[s])[i] = stream[s][i + 1]
  BY <1>1, TakesOne
<1>3. /\ Append(inbox[s], Head(stream[s])) \in Seq(Kinds)
      /\ Len(inbox[s]) \in Nat /\ Len(Append(inbox[s], Head(stream[s]))) = Len(inbox[s]) + 1
      /\ \A i \in 1..Len(inbox[s]) : Append(inbox[s], Head(stream[s]))[i] = inbox[s][i]
      /\ Append(inbox[s], Head(stream[s]))[Len(inbox[s]) + 1] = Head(stream[s])
  BY <1>1, <1>2, PutsOne
<1>4. stream'[s] = Tail(stream[s]) /\ \A u \in Scopes : u # s => stream'[u] = stream[u] /\ inbox'[u] = inbox[u]
  BY DEF Queues
<1>5. CASE t # s
  BY <1>4, <1>5 DEF Announced
<1>6. CASE t = s
  <2>1. inbox'[s] = Append(inbox[s], Head(stream[s]))
    BY <1>6 DEF Queues
  <2>2. /\ \A i \in DOMAIN inbox[s] : i \in DOMAIN inbox'[s] /\ inbox'[s][i] = inbox[s][i]
        /\ Len(inbox[s]) + 1 \in DOMAIN inbox'[s] /\ inbox'[s][Len(inbox[s]) + 1] = stream[s][1]
    BY <1>1, <1>2, <2>1, PutsOne
  <2>3. \A i \in DOMAIN stream[s] : i # 1 => i - 1 \in DOMAIN stream'[s] /\ stream'[s][i - 1] = stream[s][i]
    <3>1. \A i \in DOMAIN stream[s] :
            i # 1 => i - 1 \in DOMAIN Tail(stream[s]) /\ Tail(stream[s])[i - 1] = stream[s][i]
      BY <1>1, TakesOne, Zenon
    <3>2. stream'[s] = Tail(stream[s])
      BY <1>4
    <3> QED BY <3>1, <3>2, Zenon
  <2>4. ASSUME NEW i \in DOMAIN stream[s], stream[s][i] = "notice" PROVE Announced(s)'
    <3>1. CASE i = 1
      BY <2>2, <2>4, <3>1, Zenon DEF Announced
    <3>2. CASE i # 1
      BY <2>3, <2>4, <3>2, Zenon DEF Announced
    <3> QED BY <3>1, <3>2
  <2>5. ASSUME NEW i \in DOMAIN inbox[s], inbox[s][i] = "notice" PROVE Announced(s)'
    BY <2>2, <2>5, Zenon DEF Announced
  <2>6. ASSUME NEW i \in DOMAIN shared, shared[i] = <<s, "notice">> PROVE Announced(s)'
    BY <2>6, Zenon DEF Announced
  <2> QED BY <1>6, <2>4, <2>5, <2>6, Zenon DEF Announced
<1> QED BY <1>5, <1>6

\* A PDU moved into the shared queue takes its notice along.
LEMMA AnnouncedBridge ==
  ASSUME Queues, NEW s \in Scopes, inbox[s] # <<>>,
         inbox' = [inbox EXCEPT ![s] = Tail(@)], stream' = stream, NEW t \in Scopes,
         \/ shared' = Append(shared, <<s, Head(inbox[s])>>)
         \/ shared' = shared /\ t # s
  PROVE  Announced(t) => Announced(t)'
<1>1. inbox[s] \in Seq(Kinds) /\ shared \in Seq(Scopes \X Kinds)
  BY DEF Queues
<1>2. /\ Head(inbox[s]) \in Kinds /\ Head(inbox[s]) = inbox[s][1]
      /\ Tail(inbox[s]) \in Seq(Kinds)
      /\ Len(inbox[s]) \in Nat \ {0} /\ Len(Tail(inbox[s])) = Len(inbox[s]) - 1
      /\ \A i \in 1..(Len(inbox[s]) - 1) : Tail(inbox[s])[i] = inbox[s][i + 1]
  BY <1>1, TakesOne
<1> DEFINE pdu == <<s, Head(inbox[s])>>
<1>3. pdu \in Scopes \X Kinds
  BY <1>2
<1> HIDE DEF pdu
<1>4. /\ Append(shared, pdu) \in Seq(Scopes \X Kinds)
      /\ Len(shared) \in Nat /\ Len(Append(shared, pdu)) = Len(shared) + 1
      /\ \A i \in 1..Len(shared) : Append(shared, pdu)[i] = shared[i]
      /\ Append(shared, pdu)[Len(shared) + 1] = pdu
  BY <1>1, <1>3, PutsOne
<1>5. inbox'[s] = Tail(inbox[s]) /\ \A u \in Scopes : u # s => inbox'[u] = inbox[u]
  BY DEF Queues
<1>6. CASE shared' = Append(shared, pdu)
  <2>1. /\ \A i \in DOMAIN shared : i \in DOMAIN shared' /\ shared'[i] = shared[i]
        /\ Len(shared) + 1 \in DOMAIN shared' /\ shared'[Len(shared) + 1] = pdu
    BY <1>1, <1>3, <1>6, PutsOne
  <2>2. \A i \in DOMAIN inbox[s] : i # 1 => i - 1 \in DOMAIN inbox'[s] /\ inbox'[s][i - 1] = inbox[s][i]
    <3>1. \A i \in DOMAIN inbox[s] :
            i # 1 => i - 1 \in DOMAIN Tail(inbox[s]) /\ Tail(inbox[s])[i - 1] = inbox[s][i]
      BY <1>1, TakesOne, Zenon
    <3>2. inbox'[s] = Tail(inbox[s])
      BY <1>5
    <3> QED BY <3>1, <3>2, Zenon
  <2>3. ASSUME inbox[s][1] = "notice", t = s PROVE Announced(t)'
    <3>1. pdu = <<t, "notice">>
      BY <1>2, <2>3 DEF pdu
    <3> QED BY <2>1, <3>1 DEF Announced
  <2>4. ASSUME NEW i \in DOMAIN inbox[t], inbox[t][i] = "notice" PROVE Announced(t)'
    <3>1. CASE t # s
      BY <1>5, <2>4, <3>1, Zenon DEF Announced
    <3>2. CASE t = s /\ i = 1
      BY <2>3, <2>4, <3>2, Zenon
    <3>3. CASE t = s /\ i # 1
      BY <2>2, <2>4, <3>3, Zenon DEF Announced
    <3> QED BY <3>1, <3>2, <3>3
  <2>5. ASSUME NEW i \in DOMAIN stream[t], stream[t][i] = "notice" PROVE Announced(t)'
    BY <2>5, Zenon DEF Announced
  <2>6. ASSUME NEW i \in DOMAIN shared, shared[i] = <<t, "notice">> PROVE Announced(t)'
    BY <2>1, <2>6, Zenon DEF Announced
  <2> QED BY <2>4, <2>5, <2>6, Zenon DEF Announced
<1>7. CASE shared' = shared /\ t # s
  BY <1>5, <1>7 DEF Announced
<1> QED BY <1>6, <1>7 DEF pdu

\* Consuming a change leaves every notice in its queue.
LEMMA AnnouncedConsume ==
  ASSUME Queues, shared # <<>>, Head(shared)[2] = "change", shared' = Tail(shared),
         stream' = stream, inbox' = inbox, NEW t \in Scopes
  PROVE  Announced(t) => Announced(t)'
<1>1. shared \in Seq(Scopes \X Kinds)
  BY DEF Queues
<1>2. /\ Head(shared) = shared[1] /\ Tail(shared) \in Seq(Scopes \X Kinds)
      /\ Len(shared) \in Nat \ {0} /\ Len(Tail(shared)) = Len(shared) - 1
      /\ \A i \in 1..(Len(shared) - 1) : Tail(shared)[i] = shared[i + 1]
  BY <1>1, TakesOne
<1>3. DOMAIN shared = 1..Len(shared) /\ DOMAIN shared' = 1..(Len(shared) - 1)
  BY <1>1, <1>2
<1>4. ASSUME NEW i \in DOMAIN shared, shared[i] = <<t, "notice">> PROVE Announced(t)'
  <2>1. shared[i][2] = "notice"
    BY <1>4
  <2>2. i # 1
    BY <2>1, <1>2
  <2>3. i - 1 \in DOMAIN shared' /\ shared'[i - 1] = shared[i]
    BY <1>2, <1>3, <2>2
  <2> QED BY <1>4, <2>3 DEF Announced
<1> QED BY <1>4 DEF Announced

\* A dropped PDU is reported, covered by a request that no scan has served,
\* or counted as unreported.
LEMMA OverflowCovers ==
  ASSUME Flags, Counters, NEW s \in Scopes, Overflow(s)
  PROVE  /\ missed' \subseteq missed \cup {s} /\ resyncError' = resyncError
         /\ (requested \/ owed > 0) => (requested' \/ owed' > 0)
         /\ s \in missed' => requested' \/ owed' > 0
  BY DEF Flags, Counters, Overflow, Report, resyncVars

\* The reader loses a notice only by an overflow.
LEMMA ReadKeepsNotices ==
  ASSUME Queues, NEW s \in Scopes, Read(s)
  PROVE  /\ UNCHANGED <<session, owned, service, pumping, monitor, builder, fallback>>
         /\ \/ UNCHANGED <<lossVars, resyncVars>> /\ \A t \in Scopes : Announced(t) => Announced(t)'
            \/ Overflow(s) /\ \A t \in Scopes : t # s /\ Announced(t) => Announced(t)'
<1>1. stream[s] # <<>> /\ stream' = [stream EXCEPT ![s] = Tail(@)] /\ shared' = shared
  BY DEF Read
<1>2. UNCHANGED <<session, owned, service, pumping, monitor, builder, fallback>>
  BY DEF Read, linkVars, taskVars
<1>3. CASE inbox' = [inbox EXCEPT ![s] = Append(@, Head(stream[s]))] /\ UNCHANGED <<lossVars, resyncVars>>
  <2>1. ASSUME NEW t \in Scopes PROVE Announced(t) => Announced(t)'
    BY <1>1, <1>3, AnnouncedRead
  <2> QED BY <1>2, <1>3, <2>1
<1>4. CASE Overflow(s) /\ inbox' = inbox
  <2>1. ASSUME NEW t \in Scopes, t # s PROVE Announced(t) => Announced(t)'
    BY <1>1, <1>4, <2>1, AnnouncedRead
  <2> QED BY <1>2, <1>4, <2>1
<1> QED BY <1>3, <1>4, Zenon DEF Read

\* A bridge loses a notice only by an overflow.
LEMMA BridgeKeepsNotices ==
  ASSUME Queues, NEW s \in Scopes, Bridge(s)
  PROVE  /\ UNCHANGED <<session, owned, service, pumping, monitor, builder, fallback>>
         /\ \/ UNCHANGED <<lossVars, resyncVars>> /\ \A t \in Scopes : Announced(t) => Announced(t)'
            \/ Overflow(s) /\ \A t \in Scopes : t # s /\ Announced(t) => Announced(t)'
<1>1. inbox[s] # <<>> /\ inbox' = [inbox EXCEPT ![s] = Tail(@)] /\ stream' = stream
  BY DEF Bridge
<1>2. UNCHANGED <<session, owned, service, pumping, monitor, builder, fallback>>
  BY DEF Bridge, linkVars, taskVars
<1>3. CASE shared' = Append(shared, <<s, Head(inbox[s])>>) /\ UNCHANGED <<lossVars, resyncVars>>
  <2>1. ASSUME NEW t \in Scopes PROVE Announced(t) => Announced(t)'
    BY <1>1, <1>3, AnnouncedBridge
  <2> QED BY <1>2, <1>3, <2>1
<1>4. CASE Overflow(s) /\ shared' = shared
  <2>1. ASSUME NEW t \in Scopes, t # s PROVE Announced(t) => Announced(t)'
    BY <1>1, <1>4, <2>1, AnnouncedBridge
  <2> QED BY <1>2, <1>4, <2>1
<1> QED BY <1>3, <1>4, Zenon DEF Bridge

\* Every step follows the losses of a service that is on.
LEMMA OnStep ==
  ASSUME Flags, Fields, Queues, Counters, Control, Links, Watching, Followed, [Next]_vars
  PROVE  LossIsFollowed'
<1> SUFFICES ASSUME service' = "on", Hearing', ~resyncError', NEW x \in missed'
             PROVE  requested' \/ owed' > 0 \/ (pumping' /\ Announced(x)') \/ OutageIsHandled'
  BY DEF LossIsFollowed
<1> DEFINE Goal == requested' \/ owed' > 0 \/ (pumping' /\ Announced(x)') \/ OutageIsHandled'
<1> USE DEF Fields, Control, Counters, Followed, LossIsFollowed, OutageIsHandled, Hearing
<1>1. ASSUME NEW s \in Scopes, Change(s) PROVE Goal
  <2>1. service = "on"
    BY <1>1 DEF Change, taskVars
  <2>2. CASE session[s] \in {"live", "deaf"}
    <3>1. \A t \in Scopes : Announced(t) => Announced(t)'
      BY <1>1, <2>2, AnnouncedAppend DEF Change, Kinds
    <3> QED BY <1>1, <2>2, <3>1 DEF Change, linkVars, taskVars, resyncVars
  <2>3. CASE session[s] \notin {"live", "deaf"}
    <3>1. \A t \in Scopes : Announced(t)' <=> Announced(t)
      BY <1>1, <2>3, AnnouncedSame DEF Change, queueVars
    <3>2. fallback # "active" => OutageIsHandled
      BY <2>1, <2>3 DEF Watching
    <3> QED BY <1>1, <2>3, <3>1, <3>2 DEF Change, linkVars, taskVars, resyncVars
  <2> QED BY <2>2, <2>3
<1>2. ASSUME NEW s \in Scopes, Recrawl(s) PROVE Goal
  <2>1. service = "on" /\ session[s] = "live" /\ fallback # "active"
    BY <1>2 DEF Recrawl, taskVars, Links, NoSession
  <2>2. pumping \/ OutageIsHandled
    BY <2>1 DEF Watching
  <2>3. Announced(s)' /\ \A t \in Scopes : Announced(t) => Announced(t)'
    BY <1>2, AnnouncedAppend DEF Recrawl, Kinds
  <2> QED BY <1>2, <2>2, <2>3 DEF Recrawl, linkVars, taskVars, resyncVars
<1>3. ASSUME NEW s \in Scopes, Cut(s) PROVE Goal
  <2>1. \A t \in Scopes : Announced(t)' <=> Announced(t)
    BY <1>3, AnnouncedSame DEF Cut, Upset, lossVars, queueVars, resyncVars, taskVars, queueVars
  <2> QED BY <1>3, <2>1 DEF Cut, Upset, lossVars, queueVars, resyncVars, taskVars
<1>4. ASSUME NEW s \in Scopes, ReaderFails(s) PROVE Goal
  BY <1>4 DEF ReaderFails, Upset, lossVars, queueVars, resyncVars, taskVars
<1>5. CASE SidecarDies
  <2>1. \A t \in Scopes : Announced(t)' <=> Announced(t)
    BY <1>5, AnnouncedSame DEF SidecarDies, Upset, lossVars, queueVars, resyncVars, taskVars, queueVars
  <2> QED BY <1>5, <2>1 DEF SidecarDies, Upset, lossVars, queueVars, resyncVars, taskVars
<1>6. CASE ScanFails
  BY <1>6 DEF ScanFails, Upset, linkVars, lossVars, queueVars, taskVars
<1>7. CASE TranslationFails
  BY <1>7 DEF TranslationFails, Upset, Report, linkVars, taskVars
<1>8. CASE SidecarFails
  <2>1. CASE service # "starting"
    BY <1>8, <2>1 DEF SidecarFails, AttemptFails, Request, Building
  <2>2. CASE service = "starting"
    <3>1. NoSession /\ shared = <<>> /\ builder = "sidecar"
      BY <1>8, <2>2 DEF SidecarFails, Building, Links
    <3>2. \A t \in Scopes : stream[t] = <<>> /\ inbox[t] = <<>>
      BY <3>1 DEF Links, NoSession
    <3>3. \A t \in Scopes : ~Announced(t)
      BY <3>1, <3>2 DEF Announced
    <3>4. UNCHANGED <<session, missed, requested, owed, resyncError>>
      BY <1>8, <2>2 DEF SidecarFails, AttemptFails, lossVars
    <3>5. \A t \in missed : requested \/ owed > 0
      BY <2>2, <3>1, <3>3, <3>4 DEF StartFollowed, NoSession
    <3> QED BY <3>4, <3>5
  <2> QED BY <2>1, <2>2
<1>9. CASE Start
  BY <1>9 DEF Start, linkVars, lossVars, queueVars, resyncVars
<1>10. CASE Stop
  BY <1>10 DEF Stop, linkVars, lossVars, queueVars, resyncVars
<1>11. ASSUME NEW s \in Scopes, Read(s) PROVE Goal
  <2>1. CASE UNCHANGED <<lossVars, resyncVars>> /\ \A t \in Scopes : Announced(t) => Announced(t)'
    BY <1>11, <2>1, ReadKeepsNotices DEF lossVars, resyncVars
  <2>2. CASE Overflow(s) /\ \A t \in Scopes : t # s /\ Announced(t) => Announced(t)'
    BY <1>11, <2>2, ReadKeepsNotices, OverflowCovers
  <2> QED BY <1>11, <2>1, <2>2, ReadKeepsNotices
<1>12. ASSUME NEW s \in Scopes, SeesEnd(s) PROVE Goal
  <2>1. session[s] = "cut" /\ service = "on" /\ fallback # "active"
    BY <1>12 DEF SeesEnd, taskVars, Links, NoSession
  <2>2. builder # "none" \/ monitor = "woken" \/ (monitor = "waiting" /\ owned = Scopes)
    BY <2>1 DEF Watching
  <2> QED BY <1>12, <2>2 DEF SeesEnd, taskVars
<1>13. ASSUME NEW s \in Scopes, Bridge(s) PROVE Goal
  <2>1. CASE UNCHANGED <<lossVars, resyncVars>> /\ \A t \in Scopes : Announced(t) => Announced(t)'
    BY <1>13, <2>1, BridgeKeepsNotices DEF lossVars, resyncVars
  <2>2. CASE Overflow(s) /\ \A t \in Scopes : t # s /\ Announced(t) => Announced(t)'
    BY <1>13, <2>2, BridgeKeepsNotices, OverflowCovers
  <2> QED BY <1>13, <2>1, <2>2, BridgeKeepsNotices
<1>14. CASE Consume
  <2>1. CASE Head(shared)[2] = "notice"
    BY <1>14, <2>1 DEF Consume, Report
  <2>2. CASE Head(shared)[2] = "change"
    <3>1. \A t \in Scopes : Announced(t) => Announced(t)'
      BY <1>14, <2>2, AnnouncedConsume DEF Consume
    <3> QED BY <1>14, <2>2, <3>1 DEF Consume, linkVars, taskVars, lossVars, resyncVars
  <2> QED BY <1>14, <2>1, <2>2 DEF Consume
<1>15. CASE Ask
  BY <1>15 DEF Ask, Request, linkVars, lossVars, queueVars, taskVars
<1>16. CASE ScanStarts
  BY <1>16 DEF ScanStarts, linkVars, queueVars, taskVars
<1>17. CASE ScanReturns
  <2>1. \A t \in Scopes : Announced(t)' <=> Announced(t)
    BY <1>17, AnnouncedSame DEF ScanReturns, linkVars, lossVars, queueVars, taskVars, queueVars
  <2> QED BY <1>17, <2>1 DEF ScanReturns, linkVars, lossVars, queueVars, taskVars
<1>18. CASE MonitorWakes
  <2>1. \A t \in Scopes : Announced(t)' <=> Announced(t)
    BY <1>18, AnnouncedSame DEF MonitorWakes, linkVars, lossVars, queueVars, resyncVars, queueVars
  <2> QED BY <1>18, <2>1 DEF MonitorWakes, linkVars, lossVars, queueVars, resyncVars
<1>19. CASE MonitorEnds
  BY <1>19 DEF MonitorEnds, DropShared, linkVars
<1>20. ASSUME NEW s \in Scopes, BuilderStops(s) PROVE Goal
  BY <1>20 DEF BuilderStops, StopSession, resyncVars
<1>21. ASSUME NEW s \in Scopes, SessionStarts(s) PROVE Goal
  BY <1>21 DEF SessionStarts, Building, lossVars, resyncVars, taskVars
<1>22. CASE BuilderClears
  <2>1. \A t \in Scopes : Announced(t)' <=> Announced(t)
    BY <1>22, AnnouncedSame DEF BuilderClears, Building, lossVars, queueVars, resyncVars, queueVars
  <2> QED BY <1>22, <2>1 DEF BuilderClears, Building, lossVars, queueVars, resyncVars
<1>23. CASE SidecarStarts
  <2>1. \A t \in Scopes : Announced(t)' <=> Announced(t)
    BY <1>23, AnnouncedSame DEF SidecarStarts, Building, lossVars, queueVars, resyncVars, queueVars
  <2> QED BY <1>23, <2>1 DEF SidecarStarts, Building, lossVars, queueVars, resyncVars
<1>24. CASE SessionFails
  BY <1>24 DEF SessionFails, Upset, Building, linkVars, lossVars, queueVars, resyncVars
<1>25. CASE BuilderUndoes
  BY <1>25 DEF BuilderUndoes, AttemptFails, Building, lossVars, queueVars, resyncVars
<1>26. CASE BuilderEnds
  <2>1. CASE service # "starting"
    BY <1>26, <2>1 DEF BuilderEnds, Request
  <2>2. CASE service = "starting"
    <3>1. \A t \in Scopes : Announced(t)' <=> Announced(t)
      BY <1>26, <2>2, AnnouncedSame DEF BuilderEnds, Links, queueVars
    <3>2. /\ pumping' /\ monitor' = "waiting" /\ owned' = Scopes
          /\ UNCHANGED <<session, missed, requested, owed, resyncError>> /\ builder = "sessions"
      BY <1>26, <2>2 DEF BuilderEnds, Building, lossVars
    <3>3. \A t \in missed : \/ requested \/ owed > 0 \/ Announced(t)
                           \/ \E u \in Scopes : session[u] \in {"cut", "dead"}
      BY <2>2, <3>2 DEF StartFollowed
    <3> QED BY <3>1, <3>2, <3>3
  <2> QED BY <2>1, <2>2
<1>27. CASE RetryElapses
  BY <1>27 DEF RetryElapses, Building, linkVars, lossVars, queueVars, resyncVars
<1>28. CASE CancelArrives
  BY <1>28 DEF CancelArrives, linkVars, lossVars, queueVars, resyncVars
<1>29. CASE StopWaits
  BY <1>29 DEF StopWaits, linkVars, lossVars, resyncVars
<1>30. CASE StopEnds
  BY <1>30 DEF StopEnds, lossVars, queueVars
<1>31. ASSUME NEW s \in Scopes, StopperStops(s) PROVE Goal
  BY <1>31 DEF StopperStops, StopSession, taskVars, resyncVars
<1>32. CASE UNCHANGED vars
  <2>1. Announced(x)' <=> Announced(x)
    BY <1>32, AnnouncedSame DEF vars, lossVars
  <2> QED BY <1>32, <2>1 DEF vars, linkVars, lossVars, resyncVars, taskVars
<1> QED BY <1>1, <1>2, <1>3, <1>4, <1>5, <1>6, <1>7, <1>8, <1>9, <1>10, <1>11, <1>12,
    <1>13, <1>14, <1>15, <1>16, <1>17, <1>18, <1>19, <1>20, <1>21, <1>22, <1>23, <1>24,
    <1>25, <1>26, <1>27, <1>28, <1>29, <1>30, <1>31, <1>32 DEF Next, Environment, Progress,
    Build, Teardown

\* Every step follows the losses of a service that is starting.
LEMMA StartingStep ==
  ASSUME Flags, Fields, Queues, Counters, Control, Links, Followed, [Next]_vars
  PROVE  StartFollowed'
<1> SUFFICES ASSUME service' = "starting", Hearing', ~resyncError', builder' # "undo",
                    NEW x \in missed'
             PROVE  \/ requested' \/ owed' > 0 \/ Announced(x)'
                    \/ \E t \in Scopes : session'[t] \in {"cut", "dead"}
  BY DEF StartFollowed
<1> DEFINE Goal == \/ requested' \/ owed' > 0 \/ Announced(x)'
                   \/ \E t \in Scopes : session'[t] \in {"cut", "dead"}
<1> USE DEF Fields, Control, Counters, Followed, StartFollowed, Hearing
<1>1. ASSUME NEW s \in Scopes, Change(s) PROVE Goal
  <2>1. service = "starting" /\ missed' = missed
    BY <1>1 DEF Change, taskVars
  <2>2. CASE session[s] \in {"live", "deaf"}
    <3>1. \A t \in Scopes : Announced(t) => Announced(t)'
      BY <1>1, <2>2, AnnouncedAppend DEF Change, Kinds
    <3> QED BY <1>1, <2>1, <2>2, <3>1 DEF Change, linkVars, taskVars, resyncVars
  <2>3. CASE session[s] \notin {"live", "deaf"}
    <3>1. \A t \in Scopes : Announced(t)' <=> Announced(t)
      BY <1>1, <2>3, AnnouncedSame DEF Change, queueVars
    <3> QED BY <1>1, <2>1, <2>3, <3>1 DEF Change, linkVars, taskVars, resyncVars
  <2> QED BY <2>2, <2>3
<1>2. ASSUME NEW s \in Scopes, Recrawl(s) PROVE Goal
  <2>1. Announced(s)' /\ \A t \in Scopes : Announced(t) => Announced(t)'
    BY <1>2, AnnouncedAppend DEF Recrawl, Kinds
  <2> QED BY <1>2, <2>1 DEF Recrawl, linkVars, taskVars, resyncVars
<1>3. ASSUME NEW s \in Scopes, Cut(s) PROVE Goal
  <2>1. \A t \in Scopes : Announced(t)' <=> Announced(t)
    BY <1>3, AnnouncedSame DEF Cut, Upset, lossVars, queueVars, resyncVars, taskVars, queueVars
  <2> QED BY <1>3, <2>1 DEF Cut, Upset, lossVars, queueVars, resyncVars, taskVars
<1>4. ASSUME NEW s \in Scopes, ReaderFails(s) PROVE Goal
  BY <1>4 DEF ReaderFails, Upset, lossVars, queueVars, resyncVars, taskVars
<1>5. CASE SidecarDies
  <2>1. \A t \in Scopes : Announced(t)' <=> Announced(t)
    BY <1>5, AnnouncedSame DEF SidecarDies, Upset, lossVars, queueVars, resyncVars, taskVars, queueVars
  <2> QED BY <1>5, <2>1 DEF SidecarDies, Upset, lossVars, queueVars, resyncVars, taskVars
<1>6. CASE ScanFails
  BY <1>6 DEF ScanFails, Upset, linkVars, lossVars, queueVars, taskVars
<1>7. CASE TranslationFails
  BY <1>7 DEF TranslationFails, Upset, Report, linkVars, taskVars
<1>8. CASE SidecarFails
  BY <1>8 DEF SidecarFails, Upset, Request, AttemptFails, Building, lossVars, queueVars
<1>9. CASE Start
  BY <1>9 DEF Start, linkVars, lossVars, queueVars, resyncVars
<1>10. CASE Stop
  BY <1>10 DEF Stop, linkVars, lossVars, queueVars, resyncVars
<1>11. ASSUME NEW s \in Scopes, Read(s) PROVE Goal
  <2>1. CASE UNCHANGED <<lossVars, resyncVars>> /\ \A t \in Scopes : Announced(t) => Announced(t)'
    BY <1>11, <2>1, ReadKeepsNotices DEF lossVars, resyncVars
  <2>2. CASE Overflow(s) /\ \A t \in Scopes : t # s /\ Announced(t) => Announced(t)'
    BY <1>11, <2>2, ReadKeepsNotices, OverflowCovers
  <2> QED BY <1>11, <2>1, <2>2, ReadKeepsNotices
<1>12. ASSUME NEW s \in Scopes, SeesEnd(s) PROVE Goal
  <2>1. \A t \in Scopes : Announced(t)' <=> Announced(t)
    BY <1>12, AnnouncedSame DEF SeesEnd, lossVars, queueVars, resyncVars, taskVars, queueVars
  <2> QED BY <1>12, <2>1 DEF SeesEnd, lossVars, queueVars, resyncVars, taskVars
<1>13. ASSUME NEW s \in Scopes, Bridge(s) PROVE Goal
  <2>1. CASE UNCHANGED <<lossVars, resyncVars>> /\ \A t \in Scopes : Announced(t) => Announced(t)'
    BY <1>13, <2>1, BridgeKeepsNotices DEF lossVars, resyncVars
  <2>2. CASE Overflow(s) /\ \A t \in Scopes : t # s /\ Announced(t) => Announced(t)'
    BY <1>13, <2>2, BridgeKeepsNotices, OverflowCovers
  <2> QED BY <1>13, <2>1, <2>2, BridgeKeepsNotices
<1>14. CASE Consume
  BY <1>14 DEF Consume, Report, linkVars, lossVars, resyncVars, taskVars
<1>15. CASE Ask
  BY <1>15 DEF Ask, Request, linkVars, lossVars, queueVars, taskVars
<1>16. CASE ScanStarts
  BY <1>16 DEF ScanStarts, linkVars, queueVars, taskVars
<1>17. CASE ScanReturns
  <2>1. \A t \in Scopes : Announced(t)' <=> Announced(t)
    BY <1>17, AnnouncedSame DEF ScanReturns, linkVars, lossVars, queueVars, taskVars, queueVars
  <2> QED BY <1>17, <2>1 DEF ScanReturns, linkVars, lossVars, queueVars, taskVars
<1>18. CASE MonitorWakes
  BY <1>18 DEF MonitorWakes, linkVars, lossVars, queueVars, resyncVars
<1>19. CASE MonitorEnds
  BY <1>19 DEF MonitorEnds, DropShared, linkVars
<1>20. ASSUME NEW s \in Scopes, BuilderStops(s) PROVE Goal
  BY <1>20 DEF BuilderStops, StopSession, resyncVars
<1>21. ASSUME NEW s \in Scopes, SessionStarts(s) PROVE Goal
  <2>1. /\ session[s] = "none" /\ session' = [session EXCEPT ![s] = "live"] /\ service = "starting"
        /\ UNCHANGED <<inbox, shared, builder, missed, requested, owed, resyncError>>
    BY <1>21 DEF SessionStarts, taskVars, resyncVars, lossVars
  <2>2. stream[s] = <<>> /\ \A t \in Scopes : t # s => stream'[t] = stream[t]
    BY <1>21, <2>1 DEF SessionStarts, Links, Queues
  <2>3. ASSUME NEW t \in Scopes, Announced(t) PROVE Announced(t)'
    BY <2>1, <2>2, <2>3 DEF Announced
  <2> QED BY <2>1, <2>3
<1>22. CASE BuilderClears
  BY <1>22 DEF BuilderClears, Building, lossVars, queueVars, resyncVars
<1>23. CASE SidecarStarts
  <2>1. \A t \in Scopes : Announced(t)' <=> Announced(t)
    BY <1>23, AnnouncedSame DEF SidecarStarts, Building, lossVars, queueVars, resyncVars, queueVars
  <2> QED BY <1>23, <2>1 DEF SidecarStarts, Building, lossVars, queueVars, resyncVars
<1>24. CASE SessionFails
  BY <1>24 DEF SessionFails, Upset, Building, linkVars, lossVars, queueVars, resyncVars
<1>25. CASE BuilderUndoes
  BY <1>25 DEF BuilderUndoes, AttemptFails, Building, lossVars, queueVars, resyncVars
<1>26. CASE BuilderEnds
  BY <1>26 DEF BuilderEnds, Request, Building, lossVars
<1>27. CASE RetryElapses
  BY <1>27 DEF RetryElapses, Building, linkVars, lossVars, queueVars, resyncVars
<1>28. CASE CancelArrives
  BY <1>28 DEF CancelArrives, linkVars, lossVars, queueVars, resyncVars
<1>29. CASE StopWaits
  BY <1>29 DEF StopWaits, linkVars, lossVars, resyncVars
<1>30. CASE StopEnds
  BY <1>30 DEF StopEnds, lossVars, queueVars
<1>31. ASSUME NEW s \in Scopes, StopperStops(s) PROVE Goal
  BY <1>31 DEF StopperStops, StopSession, taskVars, resyncVars
<1>32. CASE UNCHANGED vars
  <2>1. Announced(x)' <=> Announced(x)
    BY <1>32, AnnouncedSame DEF vars, lossVars
  <2> QED BY <1>32, <2>1 DEF vars, linkVars, lossVars, resyncVars, taskVars
<1> QED BY <1>1, <1>2, <1>3, <1>4, <1>5, <1>6, <1>7, <1>8, <1>9, <1>10, <1>11, <1>12,
    <1>13, <1>14, <1>15, <1>16, <1>17, <1>18, <1>19, <1>20, <1>21, <1>22, <1>23, <1>24,
    <1>25, <1>26, <1>27, <1>28, <1>29, <1>30, <1>31, <1>32 DEF Next, Environment, Progress,
    Build, Teardown

-----------------------------------------------------------------------------
(* The invariant and what follows from it.                                 *)

IInv == Flags /\ Fields /\ Queues /\ Counters /\ Control /\ Links /\ Watching /\ Followed

LEMMA InitIInv == Init => IInv
<1> SUFFICES ASSUME Init PROVE IInv
  OBVIOUS
<1>1. Flags /\ Fields /\ Counters /\ Control
  BY DEF Init, Flags, Fields, Counters, Control
<1>2. Queues
  BY WatchmanAssumption DEF Init, Queues
<1>3. Links /\ Watching /\ Followed
  BY DEF Init, Links, NoSession, Watching, Followed, StartFollowed, LossIsFollowed
<1> QED BY <1>1, <1>2, <1>3 DEF IInv

LEMMA NextIInv == IInv /\ [Next]_vars => IInv'
<1> SUFFICES ASSUME IInv, [Next]_vars PROVE IInv'
  OBVIOUS
<1>1. Flags' /\ Fields' /\ Queues' /\ Counters'
  BY FlagsStep, FieldsStep, QueuesStep, CountersStep DEF IInv
<1>2. Control' /\ Links' /\ Watching'
  BY ControlStep, LinksStep, WatchingStep DEF IInv
<1>3. Followed'
  <2>1. LossIsFollowed'
    BY OnStep DEF IInv
  <2>2. StartFollowed'
    BY StartingStep DEF IInv
  <2>3. service' = "off" => missed' = {}
    BY OffStep DEF IInv, Followed
  <2> QED BY <2>1, <2>2, <2>3 DEF Followed
<1> QED BY <1>1, <1>2, <1>3 DEF IInv

LEMMA IInvHolds == Spec => []IInv
  BY InitIInv, NextIInv, PTL DEF Spec

\* Type correctness of the Watchman adapter, for every set of scopes and every
\* queue capacity: the queues of _queue_subscription_pdu and of the bridges
\* keep their bound, and no _establish_monitoring works beside the tasks that
\* read them.
THEOREM WatchmanTypeCorrect == Spec => []TypeOK
<1>1. IInv => TypeOK
  BY DEF IInv, Flags, Fields, Queues, Counters, Control, TypeOK
<1> QED BY <1>1, IInvHolds, PTL

\* Every lost connection is on its way to _run_reconnect_loop, whatever the
\* order in which sessions end, attempts fail and stop() comes.
THEOREM OutagesAreAttended == Spec => []OutageIsAttended
<1>1. IInv => OutageIsAttended
  BY DEF IInv, Fields, Watching, OutageIsAttended, OutageIsHandled
<1> QED BY <1>1, IInvHolds, PTL

\* No dropped PDU of _reader_loop, of the bridges, of the monitor or of a
\* stopped session goes without a resync that is asked for or will be, as long
\* as every session is read, no scan has failed, and the PDU was not dropped
\* under a needs_resync that was already set.
THEOREM LossesAreFollowed == Spec => []LossIsFollowed
<1>1. IInv => LossIsFollowed
  BY DEF IInv, Followed
<1> QED BY <1>1, IInvHolds, PTL

\* After stop() has returned no task and no process of the adapter can come
\* back, even if it came in the middle of _establish_monitoring.
THEOREM StoppedStaysQuiet == Spec => []StoppedIsQuiet
<1>1. IInv => StoppedIsQuiet
  BY DEF IInv, Control, StoppedIsQuiet
<1> QED BY <1>1, IInvHolds, PTL
=============================================================================
