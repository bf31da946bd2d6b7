-------------------------- MODULE Ingestion_proofs --------------------------
(***************************************************************************)
(* The stateful ingestion service, for every set of buses, trips and event *)
(* times, every log and every bound of the startup buffer.  First the      *)
(* cache alone: it says what the log says, in every order of replay, stop  *)
(* and restart.  Then on_message beside the cache's thread: it leaves the  *)
(* cache alone, accounts for every message, and lets at most one of them   *)
(* overtake the startup buffer.                                            *)
(***************************************************************************)
EXTENDS Ingestion, FiniteSetTheorems, TLAPS

Started(b, t) == [event |-> "TRIP_STARTED", bus |-> b, trip |-> t]
Ended(b, t)   == [event |-> "TRIP_ENDED", bus |-> b, trip |-> t]

(* What one more event does to the declarative reading of the log.          *)
LEMMA ActiveAfterNext ==
    ASSUME log \in Seq(Event \union {Undecodable}),
           NEW p \in 0 .. Len(log), p < Len(log),
           NEW b \in Buses, NEW t \in Trips
    PROVE  ActiveAfter(p + 1, b, t)
             <=> \/ log[p + 1] = Started(b, t)
                 \/ /\ ActiveAfter(p, b, t)
                    /\ \A u \in Trips : log[p + 1] # Started(b, u)
                    /\ log[p + 1] # Ended(b, t)
<1>1. /\ p \in Nat /\ p + 1 \in 1 .. (p + 1) /\ p + 1 \notin 1 .. p
      /\ 1 .. (p + 1) = (1 .. p) \union {p + 1}
      /\ ((p + 1) + 1) .. (p + 1) = {}
      /\ \A i \in 1 .. p : (i + 1) .. (p + 1) = ((i + 1) .. p) \union {p + 1}
  OBVIOUS
<1>2. CASE log[p + 1] = Started(b, t)
  BY <1>1, <1>2 DEF ActiveAfter, Started
<1>3. CASE log[p + 1] # Started(b, t)
  BY <1>1, <1>3 DEF ActiveAfter, Started, Ended
<1>4. QED
  BY <1>2, <1>3

(* An empty prefix starts no trip.                                          *)
LEMMA ActiveAfterNothing ==
    ASSUME NEW b, NEW t
    PROVE  ~ActiveAfter(0, b, t)
BY DEF ActiveAfter

(* Consuming the next event keeps the cache in step with the log.           *)
LEMMA ApplyFollows ==
    ASSUME TypeOK, CacheFollowsLog, ApplyNext, UNCHANGED log
    PROVE  /\ active' \in [Buses -> Trips \union {NoTrip}]
           /\ pos' \in 0 .. Len(log)
           /\ CacheFollowsLog'
<1> DEFINE e == log[pos + 1]
<1>1. /\ log \in Seq(Event \union {Undecodable})
      /\ pos \in 0 .. Len(log) /\ pos < Len(log) /\ pos' = pos + 1
      /\ active \in [Buses -> Trips \union {NoTrip}]
      /\ e \in Event \union {Undecodable}
  BY DEF TypeOK, ApplyNext
<1>2. active' \in [Buses -> Trips \union {NoTrip}]
  BY <1>1 DEF ApplyNext, ActiveTrips, Event, Undecodable
<1>3. ASSUME NEW b \in Buses, NEW t \in Trips
      PROVE  active'[b] = t <=> ActiveAfter(pos + 1, b, t)
  <2>1. active[b] = t <=> ActiveAfter(pos, b, t)
    BY DEF CacheFollowsLog
  <2>2. ActiveAfter(pos + 1, b, t)
          <=> \/ e = Started(b, t)
              \/ /\ active[b] = t
                 /\ \A u \in Trips : e # Started(b, u)
                 /\ e # Ended(b, t)
    BY <1>1, <2>1, ActiveAfterNext
  <2>3. CASE e = Undecodable
    <3>1. e # Started(b, t) /\ e # Ended(b, t)
            /\ \A u \in Trips : e # Started(b, u)
      BY <2>3 DEF Undecodable, Started, Ended
    <3>2. active' = active
      BY <2>3 DEF ApplyNext
    <3>3. QED
      BY <2>2, <3>1, <3>2
  <2>4. CASE e \in Event
    <3>1. /\ e.bus \in Buses /\ e.trip \in Trips
          /\ e.event \in {"TRIP_STARTED", "TRIP_ENDED", "INCIDENT_REPORTED"}
          /\ e = [event |-> e.event, bus |-> e.bus, trip |-> e.trip]
          /\ e # Undecodable
      BY <2>4 DEF Event, Undecodable
    <3>2. active' = ActiveTrips(e)
      BY <3>1 DEF ApplyNext
    <3>3. /\ \A u : e = Started(b, u) <=> /\ e.event = "TRIP_STARTED"
                                          /\ e.bus = b /\ e.trip = u
          /\ e = Ended(b, t) <=> /\ e.event = "TRIP_ENDED"
                                 /\ e.bus = b /\ e.trip = t
      BY <3>1 DEF Started, Ended
    <3>4. CASE e.event = "TRIP_STARTED"
      BY <1>1, <2>2, <3>1, <3>2, <3>3, <3>4 DEF ActiveTrips
    <3>5. CASE e.event = "TRIP_ENDED"
      BY <1>1, <2>2, <3>1, <3>2, <3>3, <3>5, CacheAssumption
         DEF ActiveTrips
    <3>6. CASE e.event = "INCIDENT_REPORTED"
      BY <1>1, <2>2, <3>1, <3>2, <3>3, <3>6 DEF ActiveTrips
    <3>7. QED
      BY <3>1, <3>4, <3>5, <3>6
  <2>5. QED
    BY <1>1, <2>3, <2>4
<1>4. CacheFollowsLog'
  BY <1>1, <1>3 DEF CacheFollowsLog, ActiveAfter
<1>5. QED
  BY <1>1, <1>2, <1>4

-----------------------------------------------------------------------------
(* The log only grows, and the cache in step with it stays in step.         *)
LEMMA PublishFollows ==
    ASSUME TypeOK, CacheFollowsLog,
           NEW e \in Event \union {Undecodable}, Publish(e)
    PROVE  CacheFollowsLog'
<1>1. /\ log \in Seq(Event \union {Undecodable}) /\ pos \in 0 .. Len(log)
      /\ log' = Append(log, e) /\ UNCHANGED <<active, pos>>
  BY DEF TypeOK, Publish
<1>2. \A b \in Buses, t \in Trips :
        ActiveAfter(pos, b, t)' <=> ActiveAfter(pos, b, t)
  <2> SUFFICES ASSUME NEW b \in Buses, NEW t \in Trips
               PROVE  ActiveAfter(pos, b, t)' <=> ActiveAfter(pos, b, t)
    OBVIOUS
  <2>1. \A i \in 1 .. pos : log'[i] = log[i]
    BY <1>1
  <2>2. \A i \in 1 .. pos : \A j \in (i + 1) .. pos : j \in 1 .. pos
    BY <1>1
  <2> DEFINE Begins(l, i) == l[i] = Started(b, t)
             Survives(l, i) ==
                \A j \in (i + 1) .. pos :
                   /\ \A u \in Trips : l[j] # Started(b, u)
                   /\ l[j] # Ended(b, t)
  <2>3. \A i \in 1 .. pos : /\ Begins(log', i) <=> Begins(log, i)
                            /\ Survives(log', i) <=> Survives(log, i)
    BY <2>1, <2>2
  <2>4. ActiveAfter(pos, b, t)
          <=> \E i \in 1 .. pos : Begins(log, i) /\ Survives(log, i)
    BY DEF ActiveAfter, Started, Ended
  <2>5. ActiveAfter(pos, b, t)'
          <=> \E i \in 1 .. pos : Begins(log', i) /\ Survives(log', i)
    BY <1>1 DEF ActiveAfter, Started, Ended
  <2> HIDE DEF Begins, Survives
  <2>6. QED
    BY <2>3, <2>4, <2>5
<1>3. QED
  BY <1>1, <1>2 DEF CacheFollowsLog

(* The invariant holds initially.                                           *)
LEMMA CacheInit == Init => CacheInv
<1> SUFFICES ASSUME Init PROVE CacheInv
  OBVIOUS
<1>1. TypeOK
  BY CacheAssumption DEF Init, TypeOK, TripCacheStatus, ThreadSteps
<1>2. NothingConsumed /\ ReplayComplete
  BY DEF Init, NothingConsumed, ReplayComplete, is_ready
<1>3. CacheFollowsLog
  BY CacheAssumption, ActiveAfterNothing DEF Init, CacheFollowsLog
<1>4. QED
  BY <1>1, <1>2, <1>3 DEF CacheInv

(* Every step of every thread preserves it.                                 *)
LEMMA CacheKept == CacheInv /\ [Next]_cacheVars => CacheInv'
<1> SUFFICES ASSUME CacheInv, [Next]_cacheVars PROVE CacheInv'
  OBVIOUS
<1> USE DEF CacheInv
<1>1. ASSUME NEW e \in Event \union {Undecodable}, Publish(e)
      PROVE  CacheInv'
  <2>1. TypeOK'
    BY <1>1, CacheAssumption DEF TypeOK, Publish
  <2>2. NothingConsumed' /\ ReplayComplete'
    BY <1>1 DEF Publish, NothingConsumed, ReplayComplete, is_ready
  <2>3. QED
    BY <1>1, <2>1, <2>2, PublishFollows
<1>2. CASE CreateConsumer
  <2>1. TypeOK'
    BY <1>2 DEF TypeOK, CreateConsumer, ThreadSteps
  <2>2. NothingConsumed' /\ ReplayComplete'
    BY <1>2 DEF CreateConsumer, NothingConsumed, ReplayComplete, is_ready
  <2>3. CacheFollowsLog'
    BY <1>2 DEF CreateConsumer, CacheFollowsLog, ActiveAfter
  <2>4. QED
    BY <2>1, <2>2, <2>3
<1>3. CASE PrepareRebuildOffsets
  <2>1. UNCHANGED pos /\ pos' = 0
    BY <1>3 DEF PrepareRebuildOffsets, NothingConsumed
  <2>2. TypeOK'
    BY <1>3, <2>1 DEF TypeOK, PrepareRebuildOffsets, ThreadSteps
  <2>3. NothingConsumed' /\ ReplayComplete'
    BY <1>3 DEF PrepareRebuildOffsets, NothingConsumed, ReplayComplete,
                is_ready
  <2>4. CacheFollowsLog'
    BY <1>3, <2>1 DEF PrepareRebuildOffsets, CacheFollowsLog, ActiveAfter
  <2>5. QED
    BY <2>2, <2>3, <2>4
<1>4. CASE RebuildStep
  <2>1. ApplyNext /\ UNCHANGED log
    BY <1>4 DEF RebuildStep
  <2>2. TypeOK' /\ CacheFollowsLog'
    BY <1>4, <2>1, ApplyFollows DEF TypeOK, RebuildStep, ThreadSteps
  <2>3. NothingConsumed'
    BY <1>4 DEF RebuildStep, NothingConsumed
  <2>4. ReplayComplete'
    BY <1>4 DEF RebuildStep, ApplyNext, ReplayComplete, TypeOK, is_ready,
                stopping
  <2>5. QED
    BY <2>2, <2>3, <2>4
<1>5. CASE RebuildEnds
  <2>1. TypeOK'
    BY <1>5 DEF TypeOK, RebuildEnds, ThreadSteps
  <2>2. NothingConsumed'
    BY <1>5 DEF RebuildEnds, NothingConsumed
  <2>3. ReplayComplete'
    BY <1>5 DEF RebuildEnds, ReplayComplete, TypeOK, is_ready
  <2>4. CacheFollowsLog'
    BY <1>5 DEF RebuildEnds, CacheFollowsLog, ActiveAfter
  <2>5. QED
    BY <2>1, <2>2, <2>3, <2>4
<1>6. CASE MarkReady
  <2>1. TypeOK'
    BY <1>6 DEF TypeOK, MarkReady, ThreadSteps, TripCacheStatus
  <2>2. NothingConsumed' /\ ReplayComplete'
    BY <1>6 DEF MarkReady, NothingConsumed, ReplayComplete
  <2>3. CacheFollowsLog'
    BY <1>6 DEF MarkReady, CacheFollowsLog, ActiveAfter
  <2>4. QED
    BY <2>1, <2>2, <2>3
<1>7. CASE PollStep
  <2>1. ApplyNext /\ UNCHANGED log
    BY <1>7 DEF PollStep
  <2>2. TypeOK' /\ CacheFollowsLog'
    BY <1>7, <2>1, ApplyFollows DEF TypeOK, PollStep, ThreadSteps
  <2>3. NothingConsumed'
    BY <1>7 DEF PollStep, NothingConsumed
  <2>4. ReplayComplete'
    BY <1>7 DEF PollStep, ApplyNext, ReplayComplete, TypeOK, is_ready
  <2>5. QED
    BY <2>2, <2>3, <2>4
<1>8. CASE PollEnds
  <2>1. TypeOK'
    BY <1>8 DEF TypeOK, PollEnds, ThreadSteps
  <2>2. NothingConsumed' /\ ReplayComplete'
    BY <1>8 DEF PollEnds, NothingConsumed, ReplayComplete, is_ready
  <2>3. CacheFollowsLog'
    BY <1>8 DEF PollEnds, CacheFollowsLog, ActiveAfter
  <2>4. QED
    BY <2>1, <2>2, <2>3
<1>9. CASE ConsumerFails
  <2>1. TypeOK'
    BY <1>9 DEF TypeOK, ConsumerFails, ThreadSteps, TripCacheStatus
  <2>2. NothingConsumed' /\ ReplayComplete'
    BY <1>9 DEF ConsumerFails, NothingConsumed, ReplayComplete, is_ready
  <2>3. CacheFollowsLog'
    BY <1>9 DEF ConsumerFails, CacheFollowsLog, ActiveAfter
  <2>4. QED
    BY <2>1, <2>2, <2>3
<1>10. CASE StopRequest \/ MarkStopped
  <2>1. TypeOK'
    BY <1>10 DEF TypeOK, StopRequest, MarkStopped, TripCacheStatus
  <2>2. NothingConsumed' /\ ReplayComplete'
    BY <1>10 DEF StopRequest, MarkStopped, NothingConsumed, ReplayComplete,
                 is_ready
  <2>3. CacheFollowsLog'
    BY <1>10 DEF StopRequest, MarkStopped, CacheFollowsLog, ActiveAfter
  <2>4. QED
    BY <2>1, <2>2, <2>3
<1>11. CASE Restart
  <2>1. TypeOK'
    BY <1>11, CacheAssumption
       DEF TypeOK, Restart, TripCacheStatus, ThreadSteps
  <2>2. NothingConsumed' /\ ReplayComplete'
    BY <1>11 DEF Restart, NothingConsumed, ReplayComplete, is_ready
  <2>3. CacheFollowsLog'
    BY <1>11, CacheAssumption DEF Restart, CacheFollowsLog, ActiveAfter
  <2>4. QED
    BY <2>1, <2>2, <2>3
<1>12. CASE UNCHANGED cacheVars
  BY <1>12 DEF cacheVars, TypeOK, NothingConsumed, ReplayComplete, is_ready,
               CacheFollowsLog, ActiveAfter
<1>13. QED
  BY <1>1, <1>2, <1>3, <1>4, <1>5, <1>6, <1>7, <1>8, <1>9, <1>10, <1>11,
     <1>12 DEF Next, ThreadStep

-----------------------------------------------------------------------------
(* The invariant of the cache and its consumer thread.                      *)
THEOREM CacheCorrect == Spec => []CacheInv
BY CacheInit, CacheKept, PTL DEF Spec

(* Whatever the thread is doing, a look-up finds what the consumed part of  *)
(* the log says (apply_event, get_active_trip).                             *)
THEOREM LookupsFollowLog == Spec => []CacheFollowsLog
<1>1. CacheInv => CacheFollowsLog
  BY DEF CacheInv
<1>2. QED
  BY CacheCorrect, <1>1, PTL

(* A cache that says it is ready has replayed what was on the log when its  *)
(* process started (_run, _consume_rebuild_window).                         *)
THEOREM ReadyIsRebuilt == Spec => []ReadyHasHistory
<1>1. CacheInv => ReadyHasHistory
  BY DEF CacheInv, ReplayComplete, ReadyHasHistory
<1>2. QED
  BY CacheCorrect, <1>1, PTL

-----------------------------------------------------------------------------
(* The subscriber and the cache: on_message only reads the cache, so every  *)
(* step of the service is a step of the cache or leaves it alone.           *)

(* A step of the service is one of these.                                   *)
LEMMA IngestionCases ==
    ASSUME [IngestionNext]_vars
    PROVE  \/ \E b \in Buses, ts \in Times, ok \in BOOLEAN :
                 ReceiveGPS(b, ts, ok)
           \/ ReceiveHeartbeat
           \/ CheckReady \/ DrainNext \/ DrainEnds \/ OwnMessage
           \/ RejectInvalid \/ BufferUntilReady \/ PassOn \/ Enrich
           \/ [Next]_cacheVars /\ UNCHANGED subVars
           \/ IngestionRestart
BY DEF IngestionNext, MqttStep, CacheStep, Next, vars

LEMMA CacheLeftAlone == [IngestionNext]_vars => [Next]_cacheVars
<1> SUFFICES ASSUME [IngestionNext]_vars PROVE [Next]_cacheVars
  OBVIOUS
<1>1. CASE \E b \in Buses, ts \in Times, ok \in BOOLEAN : ReceiveGPS(b, ts, ok)
  BY <1>1 DEF ReceiveGPS
<1>2. CASE \/ ReceiveHeartbeat \/ CheckReady \/ DrainNext \/ DrainEnds
           \/ OwnMessage \/ RejectInvalid \/ BufferUntilReady \/ PassOn
           \/ Enrich
  BY <1>2 DEF ReceiveHeartbeat, CheckReady, DrainNext, DrainEnds, OwnMessage,
              RejectInvalid, BufferUntilReady, PassOn, Enrich
<1>3. CASE IngestionRestart
  BY <1>3 DEF IngestionRestart, Next
<1>4. QED
  BY <1>1, <1>2, <1>3, IngestionCases

(* The service with its subscriber is an active-trip cache                  *)
(* (mqtt_subscriber.py calls is_ready, is_rebuilding and get_active_trip    *)
(* only): what is proved of the cache alone holds beside on_message.        *)
THEOREM IngestionIsACache == IngestionSpec => Spec
<1>1. IngestionInit => Init
  BY DEF IngestionInit
<1>2. QED
  BY <1>1, CacheLeftAlone, PTL DEF IngestionSpec, Spec

-----------------------------------------------------------------------------
(* Sequences of messages.                                                   *)

LEMMA RangeAppend ==
    ASSUME NEW S, NEW s \in Seq(S), NEW m \in S
    PROVE  /\ Append(s, m) \in Seq(S) /\ Len(Append(s, m)) = Len(s) + 1
           /\ SeqRange(Append(s, m)) = SeqRange(s) \union {m}
<1>1. /\ Append(s, m) \in Seq(S) /\ Len(s) \in Nat
      /\ Len(Append(s, m)) = Len(s) + 1
      /\ DOMAIN s = 1 .. Len(s) /\ DOMAIN Append(s, m) = 1 .. (Len(s) + 1)
      /\ Append(s, m)[Len(s) + 1] = m
      /\ \A i \in 1 .. Len(s) : Append(s, m)[i] = s[i]
  OBVIOUS
<1>2. 1 .. (Len(s) + 1) = (1 .. Len(s)) \union {Len(s) + 1}
  BY <1>1
<1>3. QED
  BY <1>1, <1>2 DEF SeqRange

LEMMA RangeTail ==
    ASSUME NEW S, NEW s \in Seq(S), s # <<>>
    PROVE  /\ Head(s) \in S /\ Tail(s) \in Seq(S)
           /\ Len(s) \in Nat /\ Len(s) > 0 /\ Len(Tail(s)) = Len(s) - 1
           /\ DOMAIN s = 1 .. Len(s) /\ DOMAIN Tail(s) = 1 .. (Len(s) - 1)
           /\ Head(s) = s[1]
           /\ \A i \in 1 .. (Len(s) - 1) :
                 i + 1 \in 1 .. Len(s) /\ Tail(s)[i] = s[i + 1]
           /\ SeqRange(Tail(s)) \subseteq SeqRange(s)
<1>1. /\ Head(s) \in S /\ Tail(s) \in Seq(S)
      /\ Len(s) \in Nat /\ Len(s) > 0 /\ Len(Tail(s)) = Len(s) - 1
      /\ DOMAIN s = 1 .. Len(s) /\ DOMAIN Tail(s) = 1 .. (Len(s) - 1)
      /\ Head(s) = s[1]
      /\ \A i \in 1 .. (Len(s) - 1) :
            i + 1 \in 1 .. Len(s) /\ Tail(s)[i] = s[i + 1]
  OBVIOUS
<1>2. QED
  BY <1>1 DEF SeqRange

LEMMA RangeOf ==
    ASSUME NEW S, NEW s \in Seq(S)
    PROVE  /\ SeqRange(s) \subseteq S
           /\ DOMAIN s = 1 .. Len(s) /\ Len(s) \in Nat
           /\ \A i \in DOMAIN s : s[i] \in SeqRange(s)
BY DEF SeqRange

LEMMA RangeEmpty == SeqRange(<<>>) = {} /\ Len(<<>>) = 0 /\ DOMAIN <<>> = {}
<1>1. DOMAIN <<>> = {} /\ Len(<<>>) = 0
  OBVIOUS
<1>2. QED
  BY <1>1 DEF SeqRange

(* How often message k is in a sequence.                                    *)
Here(s, k)  == {i \in DOMAIN s : s[i].id = k}
Count(s, k) == Cardinality(Here(s, k))

LEMMA CountFacts ==
    ASSUME NEW S, NEW s \in Seq(S), NEW k
    PROVE  /\ IsFiniteSet(Here(s, k)) /\ Count(s, k) \in Nat
           /\ (\A m \in SeqRange(s) : m.id # k) => Count(s, k) = 0
<1>1. Len(s) \in Nat /\ DOMAIN s = 1 .. Len(s)
  OBVIOUS
<1>2. IsFiniteSet(1 .. Len(s))
  BY <1>1, FS_Interval
<1>3. IsFiniteSet(Here(s, k))
  BY <1>1, <1>2, FS_Subset DEF Here
<1>4. (\A m \in SeqRange(s) : m.id # k) => Here(s, k) = {}
  BY DEF SeqRange, Here
<1>5. QED
  BY <1>3, <1>4, FS_CardinalityType, FS_EmptySet DEF Count

LEMMA CountEmpty ==
    ASSUME NEW k
    PROVE  Count(<<>>, k) = 0
BY RangeEmpty, FS_EmptySet DEF Count, Here

LEMMA CountAppend ==
    ASSUME NEW S, NEW s \in Seq(S), NEW m \in S, NEW k
    PROVE  Count(Append(s, m), k)
             = Count(s, k) + (IF m.id = k THEN 1 ELSE 0)
<1>1. /\ Len(s) \in Nat
      /\ DOMAIN s = 1 .. Len(s) /\ DOMAIN Append(s, m) = 1 .. (Len(s) + 1)
      /\ Append(s, m)[Len(s) + 1] = m
      /\ \A i \in 1 .. Len(s) : Append(s, m)[i] = s[i]
  OBVIOUS
<1>2. /\ 1 .. (Len(s) + 1) = (1 .. Len(s)) \union {Len(s) + 1}
      /\ Len(s) + 1 \notin 1 .. Len(s)
  BY <1>1
<1>3. /\ IsFiniteSet(Here(s, k)) /\ Count(s, k) \in Nat
      /\ Len(s) + 1 \notin Here(s, k)
  BY <1>1, <1>2, CountFacts DEF Here
<1>4. CASE m.id = k
  <2>1. Here(Append(s, m), k) = Here(s, k) \union {Len(s) + 1}
    BY <1>1, <1>2, <1>4 DEF Here
  <2>2. Cardinality(Here(s, k) \union {Len(s) + 1})
          = Cardinality(Here(s, k)) + 1
    BY <1>3, FS_AddElement
  <2>3. QED
    BY <1>4, <2>1, <2>2 DEF Count
<1>5. CASE m.id # k
  <2>1. Here(Append(s, m), k) = Here(s, k)
    BY <1>1, <1>2, <1>5 DEF Here
  <2>2. QED
    BY <1>3, <1>5, <2>1 DEF Count
<1>6. QED
  BY <1>4, <1>5

LEMMA CountTail ==
    ASSUME NEW S, NEW s \in Seq(S), s # <<>>, NEW k
    PROVE  Count(s, k) = Count(Tail(s), k) + (IF Head(s).id = k THEN 1 ELSE 0)
<1>1. /\ Head(s) \in S /\ Tail(s) \in Seq(S)
      /\ Len(s) \in Nat /\ Len(s) > 0
      /\ DOMAIN s = 1 .. Len(s) /\ DOMAIN Tail(s) = 1 .. (Len(s) - 1)
      /\ Head(s) = s[1]
      /\ \A i \in 1 .. (Len(s) - 1) :
            i + 1 \in 1 .. Len(s) /\ Tail(s)[i] = s[i + 1]
  BY RangeTail
<1> DEFINE T == Here(Tail(s), k)
           U == Here(s, k) \ {1}
           f == [i \in T |-> i + 1]
<1>2. /\ IsFiniteSet(T) /\ IsFiniteSet(Here(s, k))
      /\ Count(s, k) \in Nat /\ Count(Tail(s), k) \in Nat
  BY <1>1, CountFacts
<1>3. f \in Bijection(T, U)
  <2>1. \A i \in T : i \in 1 .. (Len(s) - 1) /\ s[i + 1].id = k
    BY <1>1 DEF Here
  <2>2. f \in [T -> U]
    <3>1. ASSUME NEW i \in T PROVE i + 1 \in U
      BY <1>1, <2>1 DEF Here
    <3>2. QED
      BY <3>1
  <2>3. \A i, j \in T : f[i] = f[j] => i = j
    BY <2>1, <1>1
  <2>4. ASSUME NEW j \in U PROVE \E i \in T : f[i] = j
    <3>1. j \in 1 .. Len(s) /\ j # 1 /\ s[j].id = k
      BY <1>1 DEF Here
    <3>2. PICK i : i = j - 1
      OBVIOUS
    <3>3. i \in 1 .. (Len(s) - 1) /\ i + 1 = j
      BY <1>1, <3>1, <3>2
    <3>4. i \in T
      BY <1>1, <3>1, <3>3 DEF Here
    <3>5. QED
      BY <3>3, <3>4
  <2>5. QED
    BY <2>2, <2>3, <2>4 DEF Bijection, Injection, Surjection, IsInjective
<1>4. Cardinality(U) = Count(Tail(s), k)
  <2>1. ExistsBijection(T, U)
    BY <1>3 DEF ExistsBijection
  <2>2. QED
    BY <1>2, <2>1, FS_Bijection DEF Count
<1>5. /\ Cardinality(U) = IF 1 \in Here(s, k) THEN Count(s, k) - 1
                          ELSE Count(s, k)
      /\ 1 \in Here(s, k) <=> Head(s).id = k
  <2>1. 1 \in DOMAIN s
    BY <1>1
  <2>2. 1 \in Here(s, k) <=> Head(s).id = k
    BY <1>1, <2>1 DEF Here
  <2>3. QED
    BY <1>2, <2>2, FS_RemoveElement DEF Count
<1> HIDE DEF U
<1>6. QED
  BY <1>2, <1>4, <1>5

-----------------------------------------------------------------------------
(* The inductive invariant.  One overtaker is stated without counting.      *)

LoneOvertaker ==
    (main = "running" /\ status # "degraded") =>
        \A l, m \in Overtakers : l = m

IInv == CacheInv /\ IngestionInv /\ LoneOvertaker

(* What tells the kinds of message apart.                                   *)
LEMMA KindFacts ==
    /\ NoMsg \notin GPS /\ Heartbeat \notin GPS /\ NoMsg # Heartbeat
    /\ NoMsg.kind = "none" /\ Heartbeat.kind = "heartbeat"
    /\ \A m \in GPS : /\ m.kind = "gps" /\ m.id \in 1 .. MaxMessages
                      /\ m.bus \in Buses /\ m.ts \in Times
                      /\ m.valid \in BOOLEAN /\ m.at \in 0 .. MaxLog
    /\ \A m \in Enriched \union Rejected : m.id \in 1 .. MaxMessages
<1>1. NoMsg.kind = "none" /\ Heartbeat.kind = "heartbeat"
  BY DEF NoMsg, Heartbeat
<1>2. \A m \in GPS : /\ m.kind = "gps" /\ m.id \in 1 .. MaxMessages
                     /\ m.bus \in Buses /\ m.ts \in Times
                     /\ m.valid \in BOOLEAN /\ m.at \in 0 .. MaxLog
  BY DEF GPS
<1>3. \A m \in Enriched \union Rejected : m.id \in 1 .. MaxMessages
  BY DEF Enriched, Rejected
<1>4. QED
  BY <1>1, <1>2, <1>3

LEMMA Numbers ==
    ASSUME IngestionTypeOK
    PROVE  /\ \A k \in 1 .. MaxMessages : k \in Nat
           /\ received \in Nat /\ MaxMessages \in Nat
           /\ Len(log) \in Nat /\ pos \in Nat /\ pos \in 0 .. MaxLog
<1>1. /\ MaxMessages \in Nat /\ MaxLog \in Nat
      /\ log \in Seq(Event \union {Undecodable})
      /\ pos \in 0 .. Len(log) /\ Len(log) <= MaxLog
      /\ received \in 0 .. MaxMessages
  BY IngestionAssumption, CacheAssumption DEF IngestionTypeOK, TypeOK
<1>2. Len(log) \in Nat
  BY <1>1
<1>3. QED
  BY <1>1, <1>2

(* A rejection of the message in hand.                                      *)
LEMMA RejectFacts ==
    ASSUME IngestionTypeOK, HandsFollowStep, step \in {"process", "enrich"},
           NEW reason \in Reasons, Reject(reason)
    PROVE  /\ item \in GPS /\ item' = NoMsg
           /\ dlq \in Seq(Rejected)
           /\ [id |-> item.id, reason |-> reason] \in Rejected
           /\ dlq' = Append(dlq, [id |-> item.id, reason |-> reason])
           /\ dlq' \in Seq(Rejected)
           /\ SeqRange(dlq') = SeqRange(dlq) \union
                                 {[id |-> item.id, reason |-> reason]}
           /\ step' = IF cur = NoMsg THEN "idle" ELSE "drain"
<1>1. item \in GPS /\ dlq \in Seq(Rejected)
  BY DEF IngestionTypeOK, HandsFollowStep
<1>2. [id |-> item.id, reason |-> reason] \in Rejected
  BY <1>1, KindFacts DEF Rejected
<1>3. QED
  BY <1>1, <1>2, RangeAppend DEF Reject, Return

(* The message in hand, looked up and passed on.                            *)
Out == [id |-> item.id, bus |-> item.bus, trip |-> get_active_trip(item.bus),
        ts |-> item.ts, at |-> item.at, by |-> pos]

(* The four ways _process_payload ends, and what each leaves.               *)
Refused(reason) ==
    /\ Reject(reason)
    /\ UNCHANGED <<cacheVars, received, buffer, cur, last, raw>>
Buffered ==
    /\ Len(buffer) < MaxBuffer
    /\ buffer' = Append(buffer, item)
    /\ Return
    /\ UNCHANGED <<cacheVars, received, cur, last, raw, dlq>>
Passed ==
    /\ raw' = Append(raw, Out)
    /\ Return
    /\ UNCHANGED <<cacheVars, received, buffer, cur, dlq>>

LEMMA PassedFacts ==
    ASSUME IngestionTypeOK, HandsFollowStep, step = "enrich", Passed,
           get_active_trip(item.bus) # NoTrip
    PROVE  /\ item \in GPS /\ item' = NoMsg
           /\ Out \in Enriched /\ Out.id = item.id
           /\ raw \in Seq(Enriched) /\ raw' \in Seq(Enriched)
           /\ raw' = Append(raw, Out)
           /\ SeqRange(raw') = SeqRange(raw) \union {Out}
           /\ step' = IF cur = NoMsg THEN "idle" ELSE "drain"
<1>1. item \in GPS /\ raw \in Seq(Enriched)
  BY DEF IngestionTypeOK, HandsFollowStep
<1>2. get_active_trip(item.bus) \in Trips
  BY <1>1, KindFacts DEF IngestionTypeOK, TypeOK, get_active_trip
<1>3. Out \in Enriched
  BY <1>1, <1>2, KindFacts, Numbers DEF Enriched, Out
<1>4. Out.id = item.id
  BY DEF Out
<1>5. QED
  BY <1>1, <1>3, <1>4, RangeAppend DEF Passed, Return

LEMMA ReasonFacts ==
    /\ "SCHEMA_VALIDATION" \in Reasons /\ "TRIP_CACHE_REBUILDING" \in Reasons
    /\ "INACTIVE_TRIP" \in Reasons /\ "OUT_OF_SEQUENCE" \in Reasons
BY DEF Reasons

(* What a step does to the subscriber.                                      *)
LEMMA SubscriberSteps ==
    ASSUME IngestionTypeOK, HandsFollowStep, [IngestionNext]_vars
    PROVE
      \/ \E b \in Buses, ts \in Times, ok \in BOOLEAN : ReceiveGPS(b, ts, ok)
      \/ ReceiveHeartbeat
      \/ CheckReady \/ DrainNext \/ DrainEnds \/ OwnMessage \/ PassOn
      \/ step = "process" /\ Refused("SCHEMA_VALIDATION")
      \/ step = "process" /\ is_rebuilding /\ Buffered
      \/ /\ step = "process" /\ is_rebuilding
         /\ Refused("TRIP_CACHE_REBUILDING")
      \/ step = "enrich" /\ Refused("INACTIVE_TRIP")
      \/ step = "enrich" /\ Refused("OUT_OF_SEQUENCE")
      \/ /\ step = "enrich" /\ Passed
         /\ get_active_trip(item.bus) # NoTrip
         /\ last' = [last EXCEPT ![item.bus] = item.ts]
      \/ [Next]_cacheVars /\ UNCHANGED subVars
      \/ IngestionRestart
<1>1. CASE RejectInvalid
  BY <1>1 DEF RejectInvalid, Refused
<1>2. CASE BufferUntilReady
  <2>1. CASE Len(buffer) < MaxBuffer /\ buffer' = Append(buffer, item)
               /\ dlq' = dlq /\ Return
    BY <1>2, <2>1 DEF BufferUntilReady, Buffered
  <2>2. CASE buffer' = buffer /\ Reject("TRIP_CACHE_REBUILDING")
    BY <1>2, <2>2 DEF BufferUntilReady, Refused
  <2>3. QED
    BY <1>2, <2>1, <2>2 DEF BufferUntilReady
<1>3. CASE Enrich
  <2>1. CASE Reject("INACTIVE_TRIP") /\ UNCHANGED <<last, raw>>
    BY <1>3, <2>1 DEF Enrich, Refused
  <2>2. CASE Reject("OUT_OF_SEQUENCE") /\ UNCHANGED <<last, raw>>
    BY <1>3, <2>2 DEF Enrich, Refused
  <2>3. CASE /\ get_active_trip(item.bus) # NoTrip
             /\ last' = [last EXCEPT ![item.bus] = item.ts]
             /\ raw' = Append(raw, Out)
             /\ dlq' = dlq
             /\ Return
    BY <1>3, <2>3 DEF Enrich, Passed
  <2>4. QED
    BY <1>3, <2>1, <2>2, <2>3 DEF Enrich, Out
<1>4. QED
  BY <1>1, <1>2, <1>3, IngestionCases

-----------------------------------------------------------------------------
(* Types.                                                                   *)
LEMMA LogBounded ==
    ASSUME IngestionTypeOK, [Next]_cacheVars
    PROVE  Len(log') <= MaxLog
<1>1. log \in Seq(Event \union {Undecodable}) /\ Len(log) <= MaxLog
      /\ MaxLog \in Nat
  BY CacheAssumption DEF IngestionTypeOK, TypeOK
<1>2. CASE \E e \in Event \union {Undecodable} : Publish(e)
  BY <1>1, <1>2 DEF Publish
<1>3. CASE UNCHANGED log
  BY <1>1, <1>3
<1>4. CASE \/ ThreadStep \/ ConsumerFails \/ StopRequest \/ MarkStopped
           \/ Restart \/ UNCHANGED cacheVars
  BY <1>3, <1>4
     DEF ThreadStep, CreateConsumer, PrepareRebuildOffsets, RebuildStep,
         RebuildEnds, MarkReady, PollStep, PollEnds, ConsumerFails,
         StopRequest, MarkStopped, Restart, cacheVars
<1>5. QED
  BY <1>2, <1>4 DEF Next

LEMMA TypesKept ==
    ASSUME IInv, [IngestionNext]_vars, TypeOK'
    PROVE  IngestionTypeOK'
<1> USE DEF IInv, IngestionInv
<1>0. Len(log') <= MaxLog
  BY CacheLeftAlone, LogBounded
<1>1. /\ received \in 0 .. MaxMessages
      /\ buffer \in Seq(GPS) /\ Len(buffer) <= MaxBuffer
      /\ step \in {"idle", "check", "drain", "own", "process", "enrich"}
      /\ cur \in GPS \union {NoMsg, Heartbeat}
      /\ item \in GPS \union {NoMsg}
      /\ last \in [Buses -> Times \union {0}]
      /\ raw \in Seq(Enriched)
      /\ dlq \in Seq(Rejected)
  BY DEF IngestionTypeOK
<1>2. /\ received \in Nat /\ MaxMessages \in Nat /\ MaxBuffer \in Nat
      /\ pos \in 0 .. MaxLog
  BY Numbers, IngestionAssumption
<1> SUFFICES
      /\ received' \in 0 .. MaxMessages
      /\ buffer' \in Seq(GPS) /\ Len(buffer') <= MaxBuffer
      /\ step' \in {"idle", "check", "drain", "own", "process", "enrich"}
      /\ cur' \in GPS \union {NoMsg, Heartbeat}
      /\ item' \in GPS \union {NoMsg}
      /\ last' \in [Buses -> Times \union {0}]
      /\ raw' \in Seq(Enriched)
      /\ dlq' \in Seq(Rejected)
  BY <1>0 DEF IngestionTypeOK
<1>3. ASSUME NEW b \in Buses, NEW ts \in Times, NEW ok \in BOOLEAN,
             ReceiveGPS(b, ts, ok)
      PROVE  /\ received' \in 0 .. MaxMessages
             /\ cur' \in GPS
  <2>1. received + 1 \in 1 .. MaxMessages /\ received' = received + 1
    BY <1>2, <1>3 DEF ReceiveGPS
  <2>2. cur' \in GPS
    BY <1>2, <1>3, <2>1 DEF ReceiveGPS, GPS
  <2>3. QED
    BY <1>2, <2>1, <2>2
<1>4. CASE \E b \in Buses, ts \in Times, ok \in BOOLEAN :
              ReceiveGPS(b, ts, ok)
  BY <1>1, <1>3, <1>4 DEF ReceiveGPS
<1>5. CASE ReceiveHeartbeat \/ CheckReady \/ DrainEnds \/ PassOn
  BY <1>1, <1>5 DEF ReceiveHeartbeat, CheckReady, DrainEnds, PassOn
<1>6. CASE DrainNext
  <2>1. buffer # <<>> /\ buffer' = Tail(buffer) /\ item' = Head(buffer)
    BY <1>6 DEF DrainNext
  <2>2. /\ item' \in GPS /\ buffer' \in Seq(GPS)
        /\ Len(buffer') <= MaxBuffer
    BY <1>1, <1>2, <2>1, RangeTail
  <2>3. QED
    BY <1>1, <1>6, <2>2 DEF DrainNext
<1>7. CASE OwnMessage
  <2>1. cur.kind = "gps" => cur \in GPS
    BY <1>1, KindFacts
  <2>2. QED
    BY <1>1, <1>7, <2>1 DEF OwnMessage
<1>8. ASSUME NEW reason \in Reasons, step \in {"process", "enrich"},
             Refused(reason)
      PROVE  /\ dlq' \in Seq(Rejected) /\ item' = NoMsg
             /\ step' \in {"idle", "drain"}
             /\ UNCHANGED <<received, buffer, cur, last, raw>>
  BY <1>8, RejectFacts DEF Refused
<1>9. CASE \/ step = "process" /\ Refused("SCHEMA_VALIDATION")
           \/ step = "process" /\ Refused("TRIP_CACHE_REBUILDING")
           \/ step = "enrich" /\ Refused("INACTIVE_TRIP")
           \/ step = "enrich" /\ Refused("OUT_OF_SEQUENCE")
  BY <1>1, <1>8, <1>9, ReasonFacts
<1>10. CASE step = "process" /\ Buffered
  <2>1. item \in GPS /\ buffer' = Append(buffer, item)
        /\ Len(buffer) < MaxBuffer
    BY <1>10 DEF Buffered, HandsFollowStep
  <2>2. buffer' \in Seq(GPS) /\ Len(buffer') <= MaxBuffer
    BY <1>1, <1>2, <2>1, RangeAppend
  <2>3. QED
    BY <1>1, <1>10, <2>2 DEF Buffered, Return
<1>11. CASE /\ step = "enrich" /\ Passed
            /\ get_active_trip(item.bus) # NoTrip
            /\ last' = [last EXCEPT ![item.bus] = item.ts]
  <2>1. item \in GPS /\ item' = NoMsg /\ raw' \in Seq(Enriched)
        /\ step' \in {"idle", "drain"}
    BY <1>11, PassedFacts
  <2>2. last' \in [Buses -> Times \union {0}]
    BY <1>1, <1>11, <2>1, KindFacts
  <2>3. QED
    BY <1>1, <1>11, <2>1, <2>2 DEF Passed
<1>12. CASE UNCHANGED subVars
  BY <1>1, <1>12 DEF subVars
<1>13. CASE IngestionRestart
  BY <1>1, <1>2, <1>13, RangeEmpty DEF IngestionRestart
<1>14. QED
  BY <1>4, <1>5, <1>6, <1>7, <1>9, <1>10, <1>11, <1>12, <1>13,
     SubscriberSteps

-----------------------------------------------------------------------------
(* What on_message holds, and the numbers of the messages.                  *)

LEMMA HandsKept ==
    ASSUME IInv, [IngestionNext]_vars
    PROVE  HandsFollowStep'
<1> USE DEF IInv, IngestionInv
<1>1. /\ cur \in GPS \union {NoMsg, Heartbeat}
      /\ item \in GPS \union {NoMsg}
      /\ buffer \in Seq(GPS)
      /\ received \in Nat /\ pos \in 0 .. MaxLog
  BY Numbers DEF IngestionTypeOK
<1>2. CASE \E b \in Buses, ts \in Times, ok \in BOOLEAN :
              ReceiveGPS(b, ts, ok)
  <2>1. PICK b \in Buses, ts \in Times, ok \in BOOLEAN :
                ReceiveGPS(b, ts, ok)
    BY <1>2
  <2>2. cur'.kind = "gps" /\ step' = "check" /\ item' = item /\ step = "idle"
    BY <2>1 DEF ReceiveGPS
  <2>3. QED
    BY <2>2, KindFacts DEF HandsFollowStep
<1>3. CASE ReceiveHeartbeat \/ CheckReady \/ DrainEnds \/ PassOn
  BY <1>3, KindFacts
     DEF HandsFollowStep, ReceiveHeartbeat, CheckReady, DrainEnds, PassOn
<1>4. CASE DrainNext
  <2>1. item' \in GPS
    BY <1>1, <1>4, RangeTail DEF DrainNext
  <2>2. QED
    BY <1>4, <2>1 DEF HandsFollowStep, DrainNext
<1>5. CASE OwnMessage
  BY <1>1, <1>5, KindFacts DEF HandsFollowStep, OwnMessage
<1>6. CASE \/ step = "process" /\ Refused("SCHEMA_VALIDATION")
           \/ step = "process" /\ Refused("TRIP_CACHE_REBUILDING")
           \/ step = "enrich" /\ Refused("INACTIVE_TRIP")
           \/ step = "enrich" /\ Refused("OUT_OF_SEQUENCE")
           \/ step = "process" /\ Buffered
           \/ step = "enrich" /\ Passed
  <2>1. Return /\ cur' = cur
    BY <1>6 DEF Refused, Reject, Buffered, Passed
  <2>2. QED
    BY <1>1, <2>1, KindFacts DEF Return, HandsFollowStep
<1>7. CASE UNCHANGED subVars
  BY <1>7 DEF subVars, HandsFollowStep
<1>8. CASE IngestionRestart
  BY <1>8, KindFacts DEF IngestionRestart, HandsFollowStep
<1>9. QED
  BY <1>2, <1>3, <1>4, <1>5, <1>6, <1>7, <1>8, SubscriberSteps

(* Numbers that can be compared.                                            *)
LEMMA NumberFacts ==
    ASSUME IngestionTypeOK, HandsFollowStep
    PROVE  /\ received \in Nat
           /\ \A m \in SeqRange(raw) \union SeqRange(dlq)
                          \union SeqRange(buffer) : m.id \in Nat
           /\ cur \in GPS => cur.id \in Nat
           /\ item \in GPS => item.id \in Nat
<1>1. /\ raw \in Seq(Enriched) /\ dlq \in Seq(Rejected)
      /\ buffer \in Seq(GPS) /\ received \in Nat
      /\ \A k \in 1 .. MaxMessages : k \in Nat
  BY Numbers DEF IngestionTypeOK
<1>2. /\ SeqRange(raw) \subseteq Enriched /\ SeqRange(dlq) \subseteq Rejected
      /\ SeqRange(buffer) \subseteq GPS
  BY <1>1, RangeOf
<1>3. QED
  BY <1>1, <1>2, KindFacts

(* The message drained is older than those behind it.                       *)
LEMMA HeadIsOldest ==
    ASSUME IngestionTypeOK, BufferInOrder, buffer # <<>>
    PROVE  /\ Head(buffer) \in GPS /\ Head(buffer) \in SeqRange(buffer)
           /\ \A m \in SeqRange(Tail(buffer)) : Head(buffer).id < m.id
           /\ SeqRange(Tail(buffer)) \subseteq SeqRange(buffer)
<1>1. buffer \in Seq(GPS)
  BY DEF IngestionTypeOK
<1>2. /\ Head(buffer) \in GPS /\ Len(buffer) \in Nat /\ Len(buffer) > 0
      /\ DOMAIN buffer = 1 .. Len(buffer) /\ Head(buffer) = buffer[1]
      /\ DOMAIN Tail(buffer) = 1 .. (Len(buffer) - 1)
      /\ \A i \in 1 .. (Len(buffer) - 1) :
            i + 1 \in 1 .. Len(buffer) /\ Tail(buffer)[i] = buffer[i + 1]
      /\ SeqRange(Tail(buffer)) \subseteq SeqRange(buffer)
  BY <1>1, RangeTail
<1>3. 1 \in DOMAIN buffer
  BY <1>2
<1>4. ASSUME NEW m \in SeqRange(Tail(buffer)) PROVE Head(buffer).id < m.id
  <2>1. PICK i \in 1 .. (Len(buffer) - 1) : m = Tail(buffer)[i]
    BY <1>2 DEF SeqRange
  <2>2. i + 1 \in DOMAIN buffer /\ m = buffer[i + 1] /\ 1 < i + 1
    BY <1>2, <2>1
  <2>3. QED
    BY <1>2, <1>3, <2>2 DEF BufferInOrder
<1>5. QED
  BY <1>2, <1>3, <1>4 DEF SeqRange

LEMMA NewestKept ==
    ASSUME IInv, [IngestionNext]_vars
    PROVE  NewestLast'
<1> USE DEF IInv, IngestionInv
<1>1. /\ cur \in GPS \union {NoMsg, Heartbeat}
      /\ item \in GPS \union {NoMsg}
      /\ buffer \in Seq(GPS)
      /\ pos \in 0 .. MaxLog
  BY Numbers DEF IngestionTypeOK
<1>2. /\ received \in Nat
      /\ \A m \in SeqRange(raw) \union SeqRange(dlq) \union SeqRange(buffer) :
            m.id \in Nat
      /\ cur \in GPS => cur.id \in Nat
      /\ item \in GPS => item.id \in Nat
  BY NumberFacts
<1>3. CASE \E b \in Buses, ts \in Times, ok \in BOOLEAN :
              ReceiveGPS(b, ts, ok)
  <2>1. PICK b \in Buses, ts \in Times, ok \in BOOLEAN :
                ReceiveGPS(b, ts, ok)
    BY <1>3
  <2>2. /\ received' = received + 1 /\ cur'.id = received + 1
        /\ cur'.kind = "gps" /\ UNCHANGED <<item, raw, dlq, buffer>>
        /\ step = "idle"
    BY <2>1 DEF ReceiveGPS
  <2>3. item \notin GPS
    BY <2>2 DEF HandsFollowStep
  <2>4. ASSUME NEW m \in SeqRange(raw) \union SeqRange(dlq)
                            \union SeqRange(buffer)
        PROVE  m.id <= received' /\ m.id < received'
    <3>1. m.id <= received /\ m.id \in Nat
      BY <1>2 DEF NewestLast
    <3>2. QED
      BY <1>2, <2>2, <3>1
  <2>5. QED
    BY <2>2, <2>3, <2>4 DEF NewestLast
<1>4. CASE ReceiveHeartbeat
  BY <1>4, KindFacts DEF ReceiveHeartbeat, NewestLast, HandsFollowStep
<1>5. CASE CheckReady \/ DrainEnds \/ PassOn
  BY <1>5 DEF CheckReady, DrainEnds, PassOn, NewestLast
<1>6. CASE DrainNext
  <2>1. /\ item' = Head(buffer) /\ buffer' = Tail(buffer) /\ buffer # <<>>
        /\ UNCHANGED <<received, cur, raw, dlq>> /\ step = "drain"
    BY <1>6 DEF DrainNext
  <2>2. cur # NoMsg
    BY <2>1 DEF HandsFollowStep
  <2>3. QED
    BY <2>1, <2>2, HeadIsOldest DEF NewestLast
<1>7. CASE OwnMessage
  <2>1. CASE cur.kind = "heartbeat"
    BY <1>1, <1>7, <2>1, KindFacts
       DEF OwnMessage, NewestLast, HandsFollowStep
  <2>2. CASE cur.kind = "gps"
    <3>1. cur \in GPS
      BY <1>1, <2>2, KindFacts
    <3>2. /\ cur' = NoMsg /\ item' = cur
          /\ UNCHANGED <<received, buffer, raw, dlq>>
      BY <1>7, <2>2 DEF OwnMessage
    <3>3. cur.id = received /\ cur.id <= received
      BY <1>2, <3>1 DEF NewestLast
    <3>4. QED
      BY <3>1, <3>2, <3>3, KindFacts DEF NewestLast
  <2>3. QED
    BY <1>7, <2>1, <2>2 DEF OwnMessage
<1>8. ASSUME NEW reason \in Reasons, step \in {"process", "enrich"},
             Refused(reason)
      PROVE  NewestLast'
  <2>1. /\ item \in GPS /\ item' = NoMsg
        /\ SeqRange(dlq') = SeqRange(dlq) \union
                              {[id |-> item.id, reason |-> reason]}
        /\ UNCHANGED <<received, buffer, cur, raw>>
    BY <1>8, RejectFacts DEF Refused
  <2>2. QED
    BY <2>1, KindFacts DEF NewestLast
<1>9. CASE \/ step = "process" /\ Refused("SCHEMA_VALIDATION")
           \/ step = "process" /\ Refused("TRIP_CACHE_REBUILDING")
           \/ step = "enrich" /\ Refused("INACTIVE_TRIP")
           \/ step = "enrich" /\ Refused("OUT_OF_SEQUENCE")
  BY <1>8, <1>9, ReasonFacts
<1>10. CASE step = "process" /\ is_rebuilding /\ Buffered
  <2>1. /\ item \in GPS /\ cur = NoMsg /\ item' = NoMsg
        /\ UNCHANGED <<received, cur, raw, dlq>>
        /\ buffer' = Append(buffer, item)
    BY <1>10
       DEF HandsFollowStep, NoLookupWhileRebuilding, Buffered, Return
  <2>2. SeqRange(buffer') = SeqRange(buffer) \union {item}
    BY <1>1, <2>1, RangeAppend
  <2>3. QED
    BY <2>1, <2>2, KindFacts DEF NewestLast
<1>11. CASE /\ step = "enrich" /\ Passed
            /\ get_active_trip(item.bus) # NoTrip
  <2>1. /\ item \in GPS /\ item' = NoMsg /\ Out.id = item.id
        /\ SeqRange(raw') = SeqRange(raw) \union {Out}
        /\ UNCHANGED <<received, buffer, cur, dlq>>
    BY <1>11, PassedFacts DEF Passed
  <2>2. QED
    BY <2>1, KindFacts DEF NewestLast
<1>12. CASE UNCHANGED subVars
  BY <1>12 DEF subVars, NewestLast
<1>13. CASE IngestionRestart
  BY <1>13, RangeEmpty, KindFacts DEF IngestionRestart, NewestLast
<1>14. QED
  BY <1>3, <1>4, <1>5, <1>6, <1>7, <1>9, <1>10, <1>11, <1>12, <1>13,
     SubscriberSteps

LEMMA OrderKept ==
    ASSUME IInv, [IngestionNext]_vars
    PROVE  BufferInOrder'
<1> USE DEF IInv, IngestionInv
<1>1. buffer \in Seq(GPS) /\ Len(buffer) \in Nat
      /\ DOMAIN buffer = 1 .. Len(buffer)
  BY RangeOf DEF IngestionTypeOK
<1>2. CASE UNCHANGED buffer
  BY <1>2 DEF BufferInOrder
<1>3. CASE DrainNext
  <2>1. buffer # <<>> /\ buffer' = Tail(buffer)
    BY <1>3 DEF DrainNext
  <2>2. /\ DOMAIN buffer' = 1 .. (Len(buffer) - 1)
        /\ \A i \in 1 .. (Len(buffer) - 1) :
              i + 1 \in 1 .. Len(buffer) /\ buffer'[i] = buffer[i + 1]
    BY <1>1, <2>1, RangeTail
  <2>3. ASSUME NEW i \in DOMAIN buffer', NEW j \in DOMAIN buffer', i < j
        PROVE  buffer'[i].id < buffer'[j].id
    <3>1. /\ i + 1 \in DOMAIN buffer /\ j + 1 \in DOMAIN buffer
          /\ i + 1 < j + 1
      BY <1>1, <2>2, <2>3
    <3>2. QED
      BY <2>2, <3>1 DEF BufferInOrder
  <2>4. QED
    BY <2>3 DEF BufferInOrder
<1>4. CASE step = "process" /\ is_rebuilding /\ Buffered
  <2>1. item \in GPS /\ cur = NoMsg /\ buffer' = Append(buffer, item)
    BY <1>4 DEF HandsFollowStep, NoLookupWhileRebuilding, Buffered
  <2>2. \A i \in DOMAIN buffer : buffer[i].id < item.id
    BY <2>1 DEF NewestLast, SeqRange
  <2>3. /\ DOMAIN buffer' = 1 .. (Len(buffer) + 1)
        /\ buffer'[Len(buffer) + 1] = item
        /\ \A i \in 1 .. Len(buffer) : buffer'[i] = buffer[i]
    BY <1>1, <2>1
  <2>4. ASSUME NEW i \in DOMAIN buffer', NEW j \in DOMAIN buffer', i < j
        PROVE  buffer'[i].id < buffer'[j].id
    <3>1. i \in 1 .. Len(buffer)
      BY <1>1, <2>3, <2>4
    <3>2. CASE j \in 1 .. Len(buffer)
      BY <1>1, <2>3, <2>4, <3>1, <3>2 DEF BufferInOrder
    <3>3. CASE j = Len(buffer) + 1
      BY <1>1, <2>2, <2>3, <3>1, <3>3
    <3>4. QED
      BY <1>1, <2>3, <3>2, <3>3
  <2>5. QED
    BY <2>4 DEF BufferInOrder
<1>5. CASE IngestionRestart
  BY <1>5, RangeEmpty DEF IngestionRestart, BufferInOrder
<1>6. CASE \E b \in Buses, ts \in Times, ok \in BOOLEAN :
              ReceiveGPS(b, ts, ok)
  BY <1>2, <1>6 DEF ReceiveGPS
<1>7. CASE ReceiveHeartbeat \/ CheckReady \/ DrainEnds \/ OwnMessage \/ PassOn
  BY <1>2, <1>7
     DEF ReceiveHeartbeat, CheckReady, DrainEnds, OwnMessage, PassOn
<1>8. CASE \/ \E r \in Reasons : Refused(r)
           \/ Passed
           \/ UNCHANGED subVars
  BY <1>2, <1>8 DEF Refused, Passed, subVars
<1>9. QED
  BY <1>3, <1>4, <1>5, <1>6, <1>7, <1>8, SubscriberSteps, ReasonFacts

-----------------------------------------------------------------------------
(* Every message is in one place.                                           *)

Held(m, k) == IF m.kind = "gps" /\ m.id = k THEN 1 ELSE 0

LEMMA PlacesAre ==
    ASSUME NEW k
    PROVE  /\ Places(k) = Count(raw, k) + Count(dlq, k) + Count(buffer, k)
                            + Held(cur, k) + Held(item, k)
           /\ Places(k)' = Count(raw', k) + Count(dlq', k) + Count(buffer', k)
                             + Held(cur', k) + Held(item', k)
BY DEF Places, Count, Here, Held

LEMMA HeldFacts ==
    ASSUME NEW k
    PROVE  /\ Held(NoMsg, k) = 0 /\ Held(Heartbeat, k) = 0
           /\ \A m : Held(m, k) \in {0, 1}
           /\ \A m \in GPS : Held(m, k) = IF m.id = k THEN 1 ELSE 0
BY KindFacts DEF Held

LEMMA PlacesCounted ==
    ASSUME IngestionTypeOK, NEW k
    PROVE  /\ Count(raw, k) \in Nat /\ Count(dlq, k) \in Nat
           /\ Count(buffer, k) \in Nat
           /\ Held(cur, k) \in {0, 1} /\ Held(item, k) \in {0, 1}
<1>1. raw \in Seq(Enriched) /\ dlq \in Seq(Rejected) /\ buffer \in Seq(GPS)
  BY DEF IngestionTypeOK
<1>2. QED
  BY <1>1, CountFacts, HeldFacts

(* Every step of on_message moves a message or leaves it where it is.       *)
LEMMA PlacesKept ==
    ASSUME IInv, NEW k \in 1 .. received,
           \/ \E b \in Buses, ts \in Times, ok \in BOOLEAN :
                 ReceiveGPS(b, ts, ok)
           \/ ReceiveHeartbeat
           \/ CheckReady \/ DrainNext \/ DrainEnds \/ OwnMessage \/ PassOn
           \/ step = "process" /\ Refused("SCHEMA_VALIDATION")
           \/ step = "process" /\ is_rebuilding /\ Buffered
           \/ step = "process" /\ Refused("TRIP_CACHE_REBUILDING")
           \/ step = "enrich" /\ Refused("INACTIVE_TRIP")
           \/ step = "enrich" /\ Refused("OUT_OF_SEQUENCE")
           \/ /\ step = "enrich" /\ Passed
              /\ get_active_trip(item.bus) # NoTrip
           \/ UNCHANGED subVars
    PROVE  Places(k)' = Places(k)
<1> USE DEF IInv, IngestionInv
<1>1. /\ cur \in GPS \union {NoMsg, Heartbeat}
      /\ item \in GPS \union {NoMsg}
      /\ raw \in Seq(Enriched) /\ dlq \in Seq(Rejected)
      /\ buffer \in Seq(GPS)
      /\ received \in Nat /\ k \in Nat /\ k <= received
  BY Numbers DEF IngestionTypeOK
<1>2. /\ Count(raw, k) \in Nat /\ Count(dlq, k) \in Nat
      /\ Count(buffer, k) \in Nat
      /\ Held(cur, k) \in Nat /\ Held(item, k) \in Nat
  BY PlacesCounted
<1>3. /\ Places(k) = Count(raw, k) + Count(dlq, k) + Count(buffer, k)
                       + Held(cur, k) + Held(item, k)
      /\ Places(k)' = Count(raw', k) + Count(dlq', k) + Count(buffer', k)
                        + Held(cur', k) + Held(item', k)
  BY PlacesAre
<1>4. item \in GPS => Held(item, k) = IF item.id = k THEN 1 ELSE 0
  BY HeldFacts
<1>5. Held(NoMsg, k) = 0 /\ Held(Heartbeat, k) = 0
  BY HeldFacts
<1>6. CASE \E b \in Buses, ts \in Times, ok \in BOOLEAN :
              ReceiveGPS(b, ts, ok)
  <2>1. PICK b \in Buses, ts \in Times, ok \in BOOLEAN :
                ReceiveGPS(b, ts, ok)
    BY <1>6
  <2>2. /\ cur'.id = received + 1 /\ cur'.kind = "gps"
        /\ UNCHANGED <<item, raw, dlq, buffer>> /\ step = "idle"
    BY <2>1 DEF ReceiveGPS
  <2>3. cur = NoMsg
    BY <2>2 DEF HandsFollowStep
  <2>4. Held(cur', k) = 0
    BY <1>1, <2>2 DEF Held
  <2>5. QED
    BY <1>3, <1>5, <2>2, <2>3, <2>4
<1>7. CASE ReceiveHeartbeat
  <2>1. cur = NoMsg /\ cur' = Heartbeat /\ UNCHANGED <<item, raw, dlq, buffer>>
    BY <1>7 DEF ReceiveHeartbeat, HandsFollowStep
  <2>2. QED
    BY <1>3, <1>5, <2>1
<1>8. CASE CheckReady \/ DrainEnds \/ PassOn \/ UNCHANGED subVars
  <2>1. UNCHANGED <<cur, item, raw, dlq, buffer>>
    BY <1>8 DEF CheckReady, DrainEnds, PassOn, subVars
  <2>2. QED
    BY <1>3, <2>1
<1>9. CASE DrainNext
  <2>1. /\ item' = Head(buffer) /\ buffer' = Tail(buffer) /\ buffer # <<>>
        /\ UNCHANGED <<cur, raw, dlq>> /\ step = "drain"
    BY <1>9 DEF DrainNext
  <2>2. item = NoMsg
    BY <1>1, <2>1 DEF HandsFollowStep
  <2>3. Head(buffer) \in GPS /\ Tail(buffer) \in Seq(GPS)
    BY <1>1, <2>1, RangeTail
  <2>4. /\ Count(buffer, k)
             = Count(Tail(buffer), k) + (IF Head(buffer).id = k THEN 1 ELSE 0)
        /\ Count(Tail(buffer), k) \in Nat
        /\ Held(Head(buffer), k) = IF Head(buffer).id = k THEN 1 ELSE 0
    BY <1>1, <2>1, <2>3, CountTail, CountFacts, HeldFacts
  <2>5. QED
    BY <1>2, <1>3, <1>5, <2>1, <2>2, <2>4
<1>10. CASE OwnMessage
  <2>1. /\ cur' = NoMsg /\ UNCHANGED <<raw, dlq, buffer>>
        /\ step = "own"
    BY <1>10 DEF OwnMessage
  <2>2. item = NoMsg
    BY <1>1, <2>1 DEF HandsFollowStep
  <2>3. CASE cur.kind = "heartbeat" /\ item' = item
    <3>1. Held(cur, k) = 0
      BY <2>3 DEF Held
    <3>2. QED
      BY <1>3, <1>5, <2>1, <2>3, <3>1
  <2>4. CASE item' = cur
    BY <1>2, <1>3, <1>5, <2>1, <2>2, <2>4
  <2>5. QED
    BY <1>10, <2>3, <2>4 DEF OwnMessage
<1>11. ASSUME NEW reason \in Reasons, step \in {"process", "enrich"},
              Refused(reason)
       PROVE  Places(k)' = Places(k)
  <2> DEFINE r == [id |-> item.id, reason |-> reason]
  <2>1. /\ item \in GPS /\ item' = NoMsg
        /\ r \in Rejected /\ dlq' = Append(dlq, r)
        /\ UNCHANGED <<buffer, cur, raw>>
    BY <1>11, RejectFacts DEF Refused
  <2>2. r.id = item.id
    OBVIOUS
  <2> HIDE DEF r
  <2>3. Count(dlq', k) = Count(dlq, k) + Held(item, k)
    BY <1>1, <1>4, <2>1, <2>2, CountAppend
  <2>4. QED
    BY <1>2, <1>3, <1>5, <2>1, <2>3
<1>12. CASE \/ step = "process" /\ Refused("SCHEMA_VALIDATION")
            \/ step = "process" /\ Refused("TRIP_CACHE_REBUILDING")
            \/ step = "enrich" /\ Refused("INACTIVE_TRIP")
            \/ step = "enrich" /\ Refused("OUT_OF_SEQUENCE")
  BY <1>11, <1>12, ReasonFacts
<1>13. CASE step = "process" /\ is_rebuilding /\ Buffered
  <2>1. /\ item \in GPS /\ item' = NoMsg
        /\ UNCHANGED <<cur, raw, dlq>>
        /\ buffer' = Append(buffer, item)
    BY <1>13 DEF HandsFollowStep, Buffered, Return
  <2>2. Count(buffer', k) = Count(buffer, k) + Held(item, k)
    BY <1>1, <1>4, <2>1, CountAppend
  <2>3. QED
    BY <1>2, <1>3, <1>5, <2>1, <2>2
<1>14. CASE /\ step = "enrich" /\ Passed
            /\ get_active_trip(item.bus) # NoTrip
  <2>1. /\ item \in GPS /\ item' = NoMsg /\ Out.id = item.id
        /\ Out \in Enriched /\ raw' = Append(raw, Out)
        /\ UNCHANGED <<buffer, cur, dlq>>
    BY <1>14, PassedFacts DEF Passed
  <2>2. Count(raw', k) = Count(raw, k) + Held(item, k)
    BY <1>1, <1>4, <2>1, CountAppend
  <2>3. QED
    BY <1>2, <1>3, <1>5, <2>1, <2>2
<1>15. QED
  BY <1>6, <1>7, <1>8, <1>9, <1>10, <1>12, <1>13, <1>14

LEMMA AccountKept ==
    ASSUME IInv, [IngestionNext]_vars
    PROVE  EveryMessageAccounted'
<1> USE DEF IInv, IngestionInv
<1>1. received \in Nat /\ restarts \in Nat
  BY Numbers, CacheAssumption DEF IngestionTypeOK, TypeOK
<1>2. CASE IngestionRestart
  <2>1. /\ restarts' = restarts + 1 /\ received' = received
        /\ raw' = raw /\ dlq' = dlq
        /\ buffer' = <<>> /\ cur' = NoMsg /\ item' = NoMsg
    BY <1>2 DEF IngestionRestart, Restart
  <2>2. ASSUME NEW k \in 1 .. received PROVE Places(k)' <= 1
    <3>1. /\ Count(raw, k) \in Nat /\ Count(dlq, k) \in Nat
          /\ Count(buffer, k) \in Nat
          /\ Held(cur, k) \in Nat /\ Held(item, k) \in Nat
      BY PlacesCounted
    <3>2. Count(<<>>, k) = 0 /\ Held(NoMsg, k) = 0
      BY CountEmpty, HeldFacts
    <3>3. Places(k) = Count(raw, k) + Count(dlq, k) + Count(buffer, k)
                        + Held(cur, k) + Held(item, k)
      BY PlacesAre
    <3>4. Places(k)' = Count(raw, k) + Count(dlq, k)
      <4>1. Places(k)' = Count(raw', k) + Count(dlq', k) + Count(buffer', k)
                           + Held(cur', k) + Held(item', k)
        BY PlacesAre
      <4>2. QED
        BY <2>1, <3>1, <3>2, <4>1
    <3>5. Places(k) <= 1
      BY DEF EveryMessageAccounted
    <3>6. QED
      BY <3>1, <3>3, <3>4, <3>5
  <2>3. QED
    BY <1>1, <2>1, <2>2 DEF EveryMessageAccounted
<1>3. ASSUME \A k \in 1 .. received : Places(k)' = Places(k),
             received' = received, restarts' = restarts
      PROVE  EveryMessageAccounted'
  BY <1>3 DEF EveryMessageAccounted
<1>4. CASE \E b \in Buses, ts \in Times, ok \in BOOLEAN :
              ReceiveGPS(b, ts, ok)
  <2>1. PICK b \in Buses, ts \in Times, ok \in BOOLEAN :
                ReceiveGPS(b, ts, ok)
    BY <1>4
  <2>2. /\ received' = received + 1 /\ restarts' = restarts
        /\ cur'.id = received + 1 /\ cur'.kind = "gps"
        /\ UNCHANGED <<item, raw, dlq, buffer>> /\ step = "idle"
    BY <2>1 DEF ReceiveGPS, cacheVars
  <2>3. PICK n \in Nat : n = received + 1
    BY <1>1
  <2>4. Places(n)' = 1
    <3>1. item = NoMsg
      BY <2>2 DEF IngestionTypeOK, HandsFollowStep
    <3>2. \A m \in SeqRange(raw) \union SeqRange(dlq)
                     \union SeqRange(buffer) : m.id # n
      <4>1. \A m \in SeqRange(raw) \union SeqRange(dlq)
                       \union SeqRange(buffer) :
               m.id \in Nat /\ m.id <= received
        BY NumberFacts DEF NewestLast
      <4>2. QED
        BY <1>1, <2>3, <4>1
    <3>3. raw \in Seq(Enriched) /\ dlq \in Seq(Rejected) /\ buffer \in Seq(GPS)
      BY DEF IngestionTypeOK
    <3>4. Count(raw, n) = 0 /\ Count(dlq, n) = 0 /\ Count(buffer, n) = 0
      BY <3>2, <3>3, CountFacts
    <3>5. Held(cur', n) = 1 /\ Held(item', n) = 0
      BY <2>2, <2>3, <3>1, HeldFacts DEF Held
    <3>6. Places(n)' = Count(raw', n) + Count(dlq', n) + Count(buffer', n)
                         + Held(cur', n) + Held(item', n)
      BY PlacesAre
    <3>7. QED
      BY <2>2, <3>4, <3>5, <3>6
  <2>5. \A k \in 1 .. received : Places(k)' = Places(k)
    BY <1>4, PlacesKept
  <2>6. \A k \in 1 .. received' : k \in 1 .. received \/ k = n
    BY <1>1, <2>2, <2>3
  <2>7. ASSUME NEW k \in 1 .. received'
        PROVE  Places(k)' <= 1 /\ (restarts' = 0 => Places(k)' = 1)
    BY <2>2, <2>4, <2>5, <2>6 DEF EveryMessageAccounted
  <2>8. QED
    BY <2>7 DEF EveryMessageAccounted
<1>5. CASE /\ [Next]_cacheVars /\ UNCHANGED subVars
           /\ ~IngestionRestart
  <2>1. \A k \in 1 .. received : Places(k)' = Places(k)
    BY <1>5, PlacesKept
  <2>2. received' = received
    BY <1>5 DEF subVars
  <2>3. restarts' = 0 => restarts = 0
    <3>1. restarts' = restarts \/ restarts' = restarts + 1
      BY <1>5
         DEF Next, Publish, ThreadStep, CreateConsumer,
             PrepareRebuildOffsets, RebuildStep, RebuildEnds, MarkReady,
             PollStep, PollEnds, ConsumerFails, StopRequest, MarkStopped,
             Restart, cacheVars
    <3>2. QED
      BY <1>1, <3>1
  <2>4. QED
    BY <2>1, <2>2, <2>3 DEF EveryMessageAccounted
<1>6. CASE \/ ReceiveHeartbeat
           \/ CheckReady \/ DrainNext \/ DrainEnds \/ OwnMessage \/ PassOn
           \/ step = "process" /\ Refused("SCHEMA_VALIDATION")
           \/ step = "process" /\ is_rebuilding /\ Buffered
           \/ step = "process" /\ Refused("TRIP_CACHE_REBUILDING")
           \/ step = "enrich" /\ Refused("INACTIVE_TRIP")
           \/ step = "enrich" /\ Refused("OUT_OF_SEQUENCE")
           \/ /\ step = "enrich" /\ Passed
              /\ get_active_trip(item.bus) # NoTrip
  <2>1. \A k \in 1 .. received : Places(k)' = Places(k)
    BY <1>6, PlacesKept
  <2>2. UNCHANGED <<cacheVars, received>>
    BY <1>6 DEF ReceiveHeartbeat, CheckReady, DrainNext, DrainEnds,
                OwnMessage, PassOn, Refused, Buffered, Passed
  <2>3. QED
    BY <1>3, <2>1, <2>2 DEF cacheVars
<1>7. QED
  BY <1>2, <1>4, <1>5, <1>6, SubscriberSteps

-----------------------------------------------------------------------------
(* The cache as on_message sees it, and the messages looked up.             *)

(* While the process runs the status moves one way.                         *)
LEMMA StatusSteps ==
    ASSUME StatusSettles, CacheStep \/ UNCHANGED cacheVars
    PROVE  /\ StatusSettles'
           /\ is_rebuilding' => is_rebuilding
           /\ (main' = "running" /\ status' # "degraded") =>
                 main = "running" /\ status # "degraded"
<1>2. CASE UNCHANGED <<status, thread, main>>
  BY <1>2 DEF StatusSettles, is_rebuilding
<1>3. CASE \E e \in Event \union {Undecodable} : Publish(e)
  BY <1>2, <1>3 DEF Publish
<1>4. CASE CreateConsumer \/ PrepareRebuildOffsets \/ RebuildStep
           \/ RebuildEnds \/ PollStep \/ PollEnds
  BY <1>4 DEF StatusSettles, is_rebuilding, CreateConsumer,
              PrepareRebuildOffsets, RebuildStep, RebuildEnds, PollStep,
              PollEnds
<1>5. CASE MarkReady
  BY <1>5 DEF MarkReady, StatusSettles, is_rebuilding
<1>6. CASE ConsumerFails
  BY <1>6 DEF ConsumerFails, StatusSettles, is_rebuilding
<1>7. CASE StopRequest \/ MarkStopped
  BY <1>7 DEF StopRequest, MarkStopped, StatusSettles, is_rebuilding
<1>8. CASE UNCHANGED cacheVars
  BY <1>2, <1>8 DEF cacheVars
<1>9. QED
  BY <1>3, <1>4, <1>5, <1>6, <1>7, <1>8 DEF CacheStep, ThreadStep

(* A step is one of the cache, of on_message, or the restart of both.       *)
LEMMA TwoThreads ==
    ASSUME [IngestionNext]_vars
    PROVE  \/ CacheStep \/ UNCHANGED cacheVars
           \/ IngestionRestart
BY DEF IngestionNext, MqttStep, ReceiveGPS, ReceiveHeartbeat, CheckReady,
       DrainNext, DrainEnds, OwnMessage, RejectInvalid, BufferUntilReady,
       PassOn, Enrich, vars

LEMMA StatusKept ==
    ASSUME StatusSettles, [IngestionNext]_vars
    PROVE  StatusSettles'
<1>1. CASE IngestionRestart
  BY <1>1 DEF IngestionRestart, Restart, StatusSettles
<1>2. QED
  BY <1>1, TwoThreads, StatusSteps

LEMMA LookedUpFacts ==
    ASSUME IngestionTypeOK, HandsFollowStep, NewestLast
    PROVE  /\ LookedUp \subseteq SeqRange(raw) \union SeqRange(dlq)
           /\ \A m \in LookedUp : m.id \in Nat /\ m.id <= received
BY NumberFacts DEF LookedUp, NewestLast

(* What a step adds to the messages looked up.                              *)
LEMMA LookedUpSteps ==
    ASSUME IngestionTypeOK, HandsFollowStep, [IngestionNext]_vars
    PROVE  \/ LookedUp' = LookedUp
           \/ /\ step = "enrich" /\ item \in GPS
              /\ step' = IF cur = NoMsg THEN "idle" ELSE "drain"
              /\ item' = NoMsg
              /\ UNCHANGED <<cacheVars, buffer, cur>>
              /\ \E l : l.id = item.id /\ LookedUp' = LookedUp \union {l}
<1>1. CASE UNCHANGED <<raw, dlq>>
  BY <1>1 DEF LookedUp
<1>2. ASSUME NEW reason \in Reasons, step \in {"process", "enrich"},
             Refused(reason)
      PROVE  LET r == [id |-> item.id, reason |-> reason] IN
             /\ item \in GPS /\ item' = NoMsg
             /\ SeqRange(dlq') = SeqRange(dlq) \union {r}
             /\ r.id = item.id /\ r.reason = reason
             /\ step' = IF cur = NoMsg THEN "idle" ELSE "drain"
             /\ UNCHANGED <<cacheVars, buffer, cur, raw>>
  BY <1>2, RejectFacts DEF Refused
<1>3. CASE \/ step = "process" /\ Refused("SCHEMA_VALIDATION")
           \/ step = "process" /\ Refused("TRIP_CACHE_REBUILDING")
  <2>1. ASSUME NEW reason \in {"SCHEMA_VALIDATION", "TRIP_CACHE_REBUILDING"},
               step = "process", Refused(reason)
        PROVE  LookedUp' = LookedUp
    <3>1. PICK r : /\ r.reason = reason /\ raw' = raw
                   /\ SeqRange(dlq') = SeqRange(dlq) \union {r}
      BY <1>2, <2>1, ReasonFacts
    <3>2. QED
      BY <2>1, <3>1 DEF LookedUp
  <2>2. QED
    BY <1>3, <2>1
<1>4. CASE \/ step = "enrich" /\ Refused("INACTIVE_TRIP")
           \/ step = "enrich" /\ Refused("OUT_OF_SEQUENCE")
  <2>1. ASSUME NEW reason \in {"INACTIVE_TRIP", "OUT_OF_SEQUENCE"},
               step = "enrich", Refused(reason)
        PROVE  /\ item \in GPS
               /\ step' = IF cur = NoMsg THEN "idle" ELSE "drain"
               /\ item' = NoMsg
               /\ UNCHANGED <<cacheVars, buffer, cur>>
               /\ \E l : l.id = item.id /\ LookedUp' = LookedUp \union {l}
    <3>1. PICK r : /\ r.reason = reason /\ r.id = item.id /\ raw' = raw
                   /\ SeqRange(dlq') = SeqRange(dlq) \union {r}
      BY <1>2, <2>1, ReasonFacts
    <3>2. LookedUp' = LookedUp \union {r}
      BY <2>1, <3>1 DEF LookedUp
    <3>3. QED
      BY <1>2, <2>1, <3>1, <3>2, ReasonFacts
  <2>2. QED
    BY <1>4, <2>1
<1>5. CASE /\ step = "enrich" /\ Passed
           /\ get_active_trip(item.bus) # NoTrip
  <2>1. /\ item \in GPS /\ item' = NoMsg /\ Out.id = item.id
        /\ SeqRange(raw') = SeqRange(raw) \union {Out}
        /\ step' = IF cur = NoMsg THEN "idle" ELSE "drain"
        /\ UNCHANGED <<cacheVars, buffer, cur, dlq>>
    BY <1>5, PassedFacts DEF Passed
  <2>2. LookedUp' = LookedUp \union {Out}
    BY <2>1 DEF LookedUp
  <2>3. QED
    BY <1>5, <2>1, <2>2
<1>6. CASE \/ \E b \in Buses, ts \in Times, ok \in BOOLEAN :
                 ReceiveGPS(b, ts, ok)
           \/ ReceiveHeartbeat
           \/ CheckReady \/ DrainNext \/ DrainEnds \/ OwnMessage \/ PassOn
           \/ Buffered \/ UNCHANGED subVars \/ IngestionRestart
  BY <1>1, <1>6
     DEF ReceiveGPS, ReceiveHeartbeat, CheckReady, DrainNext, DrainEnds,
         OwnMessage, PassOn, Buffered, subVars, IngestionRestart
<1>7. QED
  BY <1>3, <1>4, <1>5, <1>6, SubscriberSteps

LEMMA NoLookupKept ==
    ASSUME IInv, [IngestionNext]_vars
    PROVE  NoLookupWhileRebuilding'
<1> USE DEF IInv, IngestionInv
<1>1. /\ cur \in GPS \union {NoMsg, Heartbeat}
      /\ item \in GPS \union {NoMsg}
      /\ buffer \in Seq(GPS) /\ TypeOK
  BY DEF IngestionTypeOK
<1>2. /\ received \in Nat
      /\ \A m \in LookedUp : m.id \in Nat /\ m.id <= received
  BY LookedUpFacts, NumberFacts
<1>3. CASE IngestionRestart
  BY <1>3, RangeEmpty, KindFacts
     DEF IngestionRestart, NoLookupWhileRebuilding
<1> SUFFICES ASSUME ~IngestionRestart, is_rebuilding'
             PROVE  NoLookupWhileRebuilding'
  BY <1>3 DEF NoLookupWhileRebuilding
<1>4. is_rebuilding
  BY TwoThreads, StatusSteps
<1>5. /\ step \notin {"drain", "enrich"}
      /\ step = "process" => cur = NoMsg
      /\ \A m \in LookedUp :
            /\ \A n \in SeqRange(buffer) : m.id < n.id
            /\ cur \in GPS => m.id < cur.id
            /\ item \in GPS => m.id < item.id
  BY <1>4 DEF NoLookupWhileRebuilding
<1>6. LookedUp' = LookedUp
  BY <1>5, LookedUpSteps
<1>7. CASE \E b \in Buses, ts \in Times, ok \in BOOLEAN :
              ReceiveGPS(b, ts, ok)
  <2>1. PICK b \in Buses, ts \in Times, ok \in BOOLEAN :
                ReceiveGPS(b, ts, ok)
    BY <1>7
  <2>2. /\ cur'.id = received + 1 /\ step' = "check"
        /\ UNCHANGED <<item, buffer>>
    BY <2>1 DEF ReceiveGPS
  <2>3. \A m \in LookedUp : m.id < cur'.id
    BY <1>2, <2>2
  <2>4. QED
    BY <1>5, <1>6, <2>2, <2>3 DEF NoLookupWhileRebuilding
<1>8. CASE ReceiveHeartbeat
  BY <1>5, <1>6, <1>8, KindFacts DEF ReceiveHeartbeat, NoLookupWhileRebuilding
<1>9. CASE CheckReady
  BY <1>4, <1>5, <1>6, <1>9
     DEF CheckReady, NoLookupWhileRebuilding, is_ready, is_rebuilding
<1>10. CASE DrainNext \/ DrainEnds
  BY <1>5, <1>10 DEF DrainNext, DrainEnds
<1>11. CASE OwnMessage
  BY <1>1, <1>5, <1>6, <1>11, KindFacts
     DEF OwnMessage, NoLookupWhileRebuilding, HandsFollowStep
<1>12. CASE PassOn
  BY <1>4, <1>12 DEF PassOn
<1>13. CASE step = "process" /\ Return /\ UNCHANGED <<buffer, cur>>
  BY <1>5, <1>6, <1>13, KindFacts DEF Return, NoLookupWhileRebuilding
<1>14. CASE step = "process" /\ Buffered
  <2>1. /\ item \in GPS /\ item' = NoMsg /\ step' = "idle" /\ cur' = cur
        /\ buffer' = Append(buffer, item)
    BY <1>5, <1>14 DEF HandsFollowStep, Buffered, Return
  <2>2. SeqRange(buffer') = SeqRange(buffer) \union {item}
    BY <1>1, <2>1, RangeAppend
  <2>3. QED
    BY <1>5, <1>6, <2>1, <2>2, KindFacts DEF NoLookupWhileRebuilding
<1>15. CASE UNCHANGED subVars
  BY <1>5, <1>6, <1>15 DEF subVars, NoLookupWhileRebuilding
<1>16. CASE \/ step = "process" /\ Refused("SCHEMA_VALIDATION")
            \/ step = "process" /\ Refused("TRIP_CACHE_REBUILDING")
  BY <1>13, <1>16 DEF Refused, Reject
<1>17. QED
  BY <1>5, <1>7, <1>8, <1>9, <1>10, <1>11, <1>12, <1>14, <1>15, <1>16,
     SubscriberSteps


LEMMA DrainedKept ==
    ASSUME IInv, [IngestionNext]_vars
    PROVE  DrainedOrFirst' /\ LoneOvertaker'
<1> USE DEF IInv, IngestionInv
<1>1. /\ cur \in GPS \union {NoMsg, Heartbeat}
      /\ item \in GPS \union {NoMsg}
      /\ buffer \in Seq(GPS) /\ status \in TripCacheStatus
  BY DEF IngestionTypeOK, TypeOK
<1>2. /\ received \in Nat
      /\ \A m \in LookedUp : m.id \in Nat /\ m.id <= received
      /\ \A m \in SeqRange(buffer) : m.id \in Nat
      /\ item \in GPS => item.id \in Nat
  BY LookedUpFacts, NumberFacts
<1>3. CASE buffer' = <<>>
  <2>1. Overtakers' = {}
    BY <1>3, RangeEmpty DEF Overtakers
  <2>2. QED
    BY <2>1 DEF DrainedOrFirst, LoneOvertaker
<1>4. CASE IngestionRestart
  BY <1>3, <1>4 DEF IngestionRestart
<1> SUFFICES ASSUME CacheStep \/ UNCHANGED cacheVars,
                    main' = "running", status' # "degraded"
             PROVE  DrainedOrFirst' /\ LoneOvertaker'
  BY <1>4, TwoThreads DEF DrainedOrFirst, LoneOvertaker, is_ready
<1>5. /\ main = "running" /\ status # "degraded"
      /\ is_rebuilding' => is_rebuilding
      /\ is_ready \/ is_rebuilding
      /\ is_ready => ~is_rebuilding
  BY <1>1, StatusSteps
     DEF StatusSettles, TripCacheStatus, is_ready, is_rebuilding
<1>6. \A l, m \in Overtakers : l = m
  BY <1>5 DEF LoneOvertaker
<1>7. is_rebuilding => Overtakers = {}
  <2> SUFFICES ASSUME is_rebuilding, NEW m \in Overtakers PROVE FALSE
    OBVIOUS
  <2>1. PICK i \in DOMAIN buffer : buffer[i].id < m.id
    BY DEF Overtakers
  <2>2. m \in LookedUp /\ buffer[i] \in SeqRange(buffer)
    BY DEF Overtakers, SeqRange
  <2>3. m.id < buffer[i].id
    BY <2>2 DEF NoLookupWhileRebuilding
  <2>4. m.id \in Nat /\ buffer[i].id \in Nat
    BY <1>2, <2>2
  <2>5. QED
    BY <2>1, <2>3, <2>4
<1>8. OwnUnderWay => Overtakers = {}
  BY <1>5, <1>7 DEF DrainedOrFirst
<1>9. ASSUME LookedUp' = LookedUp,
             SeqRange(buffer') \subseteq SeqRange(buffer)
      PROVE  /\ Overtakers' \subseteq Overtakers
             /\ LoneOvertaker'
             /\ (Overtakers = {} \/ ~OwnUnderWay') => DrainedOrFirst'
  <2>1. ASSUME NEW m \in Overtakers' PROVE m \in Overtakers
    <3>1. PICK i \in DOMAIN buffer' : buffer'[i].id < m.id
      BY DEF Overtakers
    <3>2. PICK n \in SeqRange(buffer) : n.id < m.id
      BY <1>9, <3>1 DEF SeqRange
    <3>3. m \in LookedUp
      BY <1>9 DEF Overtakers
    <3>4. QED
      BY <3>2, <3>3 DEF Overtakers, SeqRange
  <2>2. QED
    BY <1>6, <2>1 DEF LoneOvertaker, DrainedOrFirst
<1>10. CASE \/ \E b \in Buses, ts \in Times, ok \in BOOLEAN :
                  ReceiveGPS(b, ts, ok)
            \/ ReceiveHeartbeat
  <2>1. step' = "check" /\ buffer' = buffer /\ raw' = raw /\ dlq' = dlq
    BY <1>10 DEF ReceiveGPS, ReceiveHeartbeat
  <2>2. LookedUp' = LookedUp /\ ~OwnUnderWay'
    BY <2>1 DEF LookedUp, OwnUnderWay
  <2>3. QED
    BY <1>9, <2>1, <2>2
<1>11. CASE CheckReady
  <2>1. /\ buffer' = buffer /\ raw' = raw /\ dlq' = dlq
        /\ step' = IF is_ready THEN "drain" ELSE "own"
    BY <1>11 DEF CheckReady
  <2>2. LookedUp' = LookedUp
    BY <2>1 DEF LookedUp
  <2>3. CASE is_ready
    BY <1>9, <2>1, <2>2, <2>3 DEF OwnUnderWay
  <2>4. CASE ~is_ready
    BY <1>5, <1>7, <1>9, <2>1, <2>2, <2>4
  <2>5. QED
    BY <2>3, <2>4
<1>12. CASE DrainNext
  <2>1. /\ buffer' = Tail(buffer) /\ raw' = raw /\ dlq' = dlq
        /\ step' = "process" /\ cur' = cur /\ step = "drain" /\ buffer # <<>>
    BY <1>12 DEF DrainNext
  <2>2. LookedUp' = LookedUp /\ ~OwnUnderWay'
    BY <2>1 DEF LookedUp, OwnUnderWay, HandsFollowStep
  <2>3. SeqRange(buffer') \subseteq SeqRange(buffer)
    BY <1>1, <2>1, RangeTail
  <2>4. QED
    BY <1>9, <2>2, <2>3
<1>13. CASE DrainEnds
  <2>1. step = "drain" /\ (~is_ready \/ buffer = <<>>) /\ buffer' = buffer
    BY <1>13 DEF DrainEnds
  <2>2. is_ready
    BY <1>5, <2>1 DEF NoLookupWhileRebuilding
  <2>3. QED
    BY <1>3, <2>1, <2>2
<1>14. CASE OwnMessage
  <2>1. step = "own" /\ buffer' = buffer /\ raw' = raw /\ dlq' = dlq
    BY <1>14 DEF OwnMessage
  <2>2. LookedUp' = LookedUp /\ OwnUnderWay
    BY <2>1 DEF LookedUp, OwnUnderWay
  <2>3. QED
    BY <1>8, <1>9, <2>1, <2>2
<1>15. CASE PassOn
  <2>1. /\ buffer' = buffer /\ raw' = raw /\ dlq' = dlq /\ cur' = cur
        /\ step = "process" /\ step' = "enrich"
    BY <1>15 DEF PassOn
  <2>2. LookedUp' = LookedUp /\ (OwnUnderWay' => OwnUnderWay)
    BY <2>1 DEF LookedUp, OwnUnderWay
  <2>3. QED
    BY <1>8, <1>9, <2>1, <2>2
<1>16. CASE \/ step = "process" /\ Refused("SCHEMA_VALIDATION")
            \/ step = "process" /\ Refused("TRIP_CACHE_REBUILDING")
  <2>1. buffer' = buffer /\ step' \in {"idle", "drain"}
    BY <1>16, RejectFacts, ReasonFacts DEF Refused
  <2>2. LookedUp' = LookedUp /\ ~OwnUnderWay'
    BY <1>16, <2>1, LookedUpSteps DEF OwnUnderWay
  <2>3. QED
    BY <1>9, <2>1, <2>2
<1>17. CASE step = "process" /\ is_rebuilding /\ Buffered
  <2>1. /\ item \in GPS /\ buffer' = Append(buffer, item)
        /\ raw' = raw /\ dlq' = dlq
    BY <1>17 DEF HandsFollowStep, Buffered
  <2>2. LookedUp' = LookedUp
    BY <2>1 DEF LookedUp
  <2>3. SeqRange(buffer') = SeqRange(buffer) \union {item}
    BY <1>1, <2>1, RangeAppend
  <2>4. ASSUME NEW m \in Overtakers' PROVE FALSE
    <3>1. PICK i \in DOMAIN buffer' : buffer'[i].id < m.id
      BY DEF Overtakers
    <3>2. PICK n \in SeqRange(buffer) \union {item} : n.id < m.id
      BY <2>3, <3>1 DEF SeqRange
    <3>3. m \in LookedUp
      BY <2>2 DEF Overtakers
    <3>4. m.id < n.id
      BY <1>17, <2>1, <3>2, <3>3 DEF NoLookupWhileRebuilding
    <3>5. m.id \in Nat /\ n.id \in Nat
      BY <1>2, <2>1, <3>2, <3>3
    <3>6. QED
      BY <3>2, <3>4, <3>5
  <2>5. QED
    BY <2>4 DEF DrainedOrFirst, LoneOvertaker
<1>18. CASE /\ step = "enrich"
            /\ \/ Refused("INACTIVE_TRIP") \/ Refused("OUT_OF_SEQUENCE")
               \/ Passed /\ get_active_trip(item.bus) # NoTrip
  <2>1. step' \in {"idle", "drain"} /\ item \in GPS /\ buffer' = buffer
    BY <1>18, RejectFacts, PassedFacts, ReasonFacts DEF Refused, Passed
  <2>2. ~OwnUnderWay'
    BY <2>1 DEF OwnUnderWay
  <2>3. PICK l : l.id = item.id /\ LookedUp' \subseteq LookedUp \union {l}
    <3>1. CASE LookedUp' = LookedUp
      BY <2>1, <3>1
    <3>2. QED
      BY <3>1, LookedUpSteps
  <2>4. ASSUME NEW m \in Overtakers' PROVE m \in Overtakers \/ m = l
    BY <2>1, <2>3 DEF Overtakers
  <2>5. CASE cur = NoMsg
    <3>1. Overtakers = {}
      BY <1>8, <1>18, <2>5 DEF OwnUnderWay
    <3>2. QED
      BY <2>2, <2>4, <3>1 DEF LoneOvertaker, DrainedOrFirst
  <2>6. CASE cur # NoMsg
    <3>1. \A n \in SeqRange(buffer) :
             item.id < n.id /\ item.id \in Nat /\ n.id \in Nat
      BY <1>2, <2>1, <2>6 DEF NewestLast
    <3>2. ASSUME NEW m \in Overtakers' PROVE m.id # l.id
      <4>1. PICK i \in DOMAIN buffer : buffer[i].id < m.id
        BY <2>1 DEF Overtakers
      <4>2. buffer[i] \in SeqRange(buffer)
        BY DEF SeqRange
      <4>3. QED
        BY <2>3, <3>1, <4>1, <4>2
    <3>3. Overtakers' \subseteq Overtakers
      BY <2>4, <3>2
    <3>4. QED
      BY <1>6, <2>2, <3>3 DEF LoneOvertaker, DrainedOrFirst
  <2>7. QED
    BY <2>5, <2>6
<1>19. CASE UNCHANGED subVars
  <2>1. buffer' = buffer /\ LookedUp' = LookedUp
        /\ (OwnUnderWay' => OwnUnderWay)
    BY <1>19 DEF subVars, LookedUp, OwnUnderWay
  <2>2. QED
    BY <1>8, <1>9, <2>1
<1>20. QED
  BY <1>4, <1>10, <1>11, <1>12, <1>13, <1>14, <1>15, <1>16, <1>17, <1>18,
     <1>19, SubscriberSteps

-----------------------------------------------------------------------------
(* The invariant and what follows from it.                                  *)

LEMMA IngestionStarts == IngestionInit => IInv
<1> SUFFICES ASSUME IngestionInit PROVE IInv
  OBVIOUS
<1>1. CacheInv
  BY CacheInit DEF IngestionInit
<1>2. /\ SeqRange(buffer) = {} /\ SeqRange(raw) = {} /\ SeqRange(dlq) = {}
      /\ DOMAIN buffer = {} /\ Len(buffer) = 0
  BY RangeEmpty DEF IngestionInit
<1>3. /\ received = 0 /\ step = "idle" /\ cur = NoMsg /\ item = NoMsg
      /\ last = [b \in Buses |-> 0] /\ log = <<>> /\ restarts = 0
      /\ buffer = <<>> /\ raw = <<>> /\ dlq = <<>>
      /\ main = "running" /\ status = "rebuilding"
  BY DEF IngestionInit, Init
<1>4. IngestionTypeOK
  BY <1>1, <1>2, <1>3, RangeEmpty, IngestionAssumption, CacheAssumption
     DEF CacheInv, IngestionTypeOK
<1>5. HandsFollowStep /\ NewestLast /\ BufferInOrder
  BY <1>2, <1>3, KindFacts DEF HandsFollowStep, NewestLast, BufferInOrder
<1>6. LookedUp = {} /\ Overtakers = {}
  BY <1>2 DEF LookedUp, Overtakers
<1>7. EveryMessageAccounted
  BY <1>3 DEF EveryMessageAccounted
<1>8. StatusSettles /\ NoLookupWhileRebuilding /\ DrainedOrFirst
      /\ LoneOvertaker
  BY <1>3, <1>6
     DEF StatusSettles, NoLookupWhileRebuilding, DrainedOrFirst,
         LoneOvertaker
<1>9. QED
  BY <1>1, <1>4, <1>5, <1>7, <1>8 DEF IInv, IngestionInv

LEMMA IngestionKept == IInv /\ [IngestionNext]_vars => IInv'
<1> SUFFICES ASSUME IInv, [IngestionNext]_vars PROVE IInv'
  OBVIOUS
<1>1. CacheInv'
  BY CacheLeftAlone, CacheKept DEF IInv
<1>2. IngestionTypeOK'
  BY <1>1, TypesKept DEF CacheInv
<1>3. HandsFollowStep' /\ NewestLast' /\ BufferInOrder'
  BY HandsKept, NewestKept, OrderKept
<1>4. EveryMessageAccounted'
  BY AccountKept
<1>5. StatusSettles'
  BY StatusKept DEF IInv, IngestionInv
<1>6. NoLookupWhileRebuilding' /\ DrainedOrFirst' /\ LoneOvertaker'
  BY NoLookupKept, DrainedKept
<1>7. QED
  BY <1>1, <1>2, <1>3, <1>4, <1>5, <1>6 DEF IInv, IngestionInv

(* Whatever the cache does between two looks of on_message, every message   *)
(* is published, refused, buffered or in hand, and never two of these, and  *)
(* the buffer keeps its limit and its order.                                *)
THEOREM IngestionCorrect == IngestionSpec => []IngestionInv
<1>1. IInv => IngestionInv
  BY DEF IInv
<1>2. QED
  BY <1>1, IngestionStarts, IngestionKept, PTL DEF IngestionSpec

(* One message, and no more, is looked up before older ones that are still  *)
(* in the startup buffer (on_message, drain_startup_buffer).                *)
THEOREM OvertakerCorrect == IngestionSpec => []OneOvertaker
<1>1. IInv => OneOvertaker
  <2> SUFFICES ASSUME IInv, main = "running", status # "degraded"
               PROVE  Cardinality(Overtakers) <= 1
    BY DEF OneOvertaker
  <2>1. \A l, m \in Overtakers : l = m
    BY DEF IInv, LoneOvertaker
  <2>2. CASE Overtakers = {}
    BY <2>2, FS_EmptySet
  <2>3. CASE Overtakers # {}
    <3>1. PICK m : Overtakers = {m}
      BY <2>1, <2>3
    <3>2. Cardinality({m}) = 1
      BY FS_Singleton
    <3>3. QED
      BY <3>1, <3>2
  <2>4. QED
    BY <2>2, <2>3
<1>2. QED
  BY <1>1, IngestionStarts, IngestionKept, PTL DEF IngestionSpec

(* A message is refused for want of a trip only by a cache that has         *)
(* replayed the log, or lost its consumer (_process_payload,                *)
(* enrich_with_trip).                                                       *)
THEOREM RefusalCorrect == IngestionSpec => InactiveOnlyAfterReplay
<1> DEFINE A == \A r \in SeqRange(dlq') \ SeqRange(dlq) :
                   (r.reason = "INACTIVE_TRIP" /\ ~Stalls)
                      => pos >= target \/ status = "degraded"
<1>1. IInv /\ [IngestionNext]_vars => A
  <2> SUFFICES ASSUME IInv, [IngestionNext]_vars,
                      NEW r \in SeqRange(dlq') \ SeqRange(dlq),
                      r.reason = "INACTIVE_TRIP", ~Stalls
               PROVE  pos >= target \/ status = "degraded"
    OBVIOUS
  <2>1. IngestionTypeOK /\ HandsFollowStep /\ TypeOK
    BY DEF IInv, IngestionInv, IngestionTypeOK
  <2>2. dlq' # dlq
    OBVIOUS
  <2>3. step = "enrich" /\ main = "running"
    <3>1. ASSUME NEW reason \in Reasons, step = "process", Refused(reason)
          PROVE  reason = "INACTIVE_TRIP"
      <4>1. SeqRange(dlq') = SeqRange(dlq) \union
                               {[id |-> item.id, reason |-> reason]}
        BY <2>1, <3>1, RejectFacts DEF Refused
      <4>2. QED
        BY <4>1
    <3>2. step = "enrich"
      <4>1. CASE step = "process" /\ Refused("SCHEMA_VALIDATION")
        BY <3>1, <4>1, ReasonFacts
      <4>2. CASE step = "process" /\ Refused("TRIP_CACHE_REBUILDING")
        BY <3>1, <4>2, ReasonFacts
      <4>3. QED
        BY <2>1, <2>2, <4>1, <4>2, SubscriberSteps
           DEF ReceiveGPS, ReceiveHeartbeat, CheckReady, DrainNext,
               DrainEnds, OwnMessage, PassOn, Buffered, Passed, subVars,
               IngestionRestart
    <3>3. main = "running"
      BY <2>2 DEF IngestionNext, MqttStep, ReceiveGPS, ReceiveHeartbeat,
                  CacheStep, subVars, IngestionRestart, vars
    <3>4. QED
      BY <3>2, <3>3
  <2>4. ~is_rebuilding /\ status # "stopped" /\ status \in TripCacheStatus
    BY <2>1, <2>3
       DEF IInv, IngestionInv, NoLookupWhileRebuilding, StatusSettles, TypeOK
  <2>5. is_ready \/ status = "degraded"
    BY <2>4 DEF is_rebuilding, is_ready, TripCacheStatus
  <2>6. QED
    BY <2>3, <2>5 DEF IInv, CacheInv, ReplayComplete
<1>2. QED
  BY <1>1, IngestionStarts, IngestionKept, PTL
     DEF IngestionSpec, InactiveOnlyAfterReplay

=============================================================================
