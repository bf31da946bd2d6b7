------------------------ MODULE TripLifecycle_proofs ------------------------
(* Theorems about TripLifecycle, for every value of its constants.          *)
EXTENDS TripLifecycle, TLAPS

TypeInv == TypeOK /\ WaitersHaveProducer

\* The program counters the actions assign are program counters.
LEMMA PCsAre ==
    /\ "new" \in PCs /\ "read" \in PCs /\ "build" \in PCs
    /\ "publish" \in PCs /\ "send" \in PCs /\ "starting" \in PCs
    /\ "metadata" \in PCs /\ "sent" \in PCs /\ "rejected" \in PCs
    /\ "done" \in PCs /\ "failed" \in PCs /\ "aborted" \in PCs
    /\ "dead" \in PCs
BY DEF PCs, OnLoop, Waiting, Settled

\* The event of a well-typed request is a well-typed event.
LEMMA EventTyped ==
    ASSUME TypeOK, NEW r \in Requests
    PROVE  EventOf(r) \in Event
<1>1. /\ call[r].op \in Ops /\ call[r].trip \in Trips
      /\ seen[r] \in Buses \union {NoBus}
  BY DEF TypeOK
<1>2. QED
  BY <1>1 DEF EventOf, Event, EventNames, Ops

\* The head and the rest of a non-empty accumulator.
LEMMA BufTyped ==
    ASSUME TypeOK, NEW p \in Requests, buf[p] # <<>>
    PROVE  Head(buf[p]) \in Requests /\ Tail(buf[p]) \in Seq(Requests)
BY DEF TypeOK

\* Every reachable state of the fleet service is well typed, and only a handler
\* that holds a producer waits for its metadata.
THEOREM TypeCorrect == Spec => []TypeInv
<1>1. Init => TypeInv
  BY ValuesAssumption, PCsAre
  DEF Init, TypeInv, WaitersHaveProducer, TypeOK, Statuses
<1>2. TypeInv /\ [Next]_vars => TypeInv'
  <2> SUFFICES ASSUME TypeInv, [Next]_vars PROVE TypeInv'
    OBVIOUS
  <2> USE PCsAre DEF TypeInv, WaitersHaveProducer, TypeOK, db, local, wire,
            assignment, progress
  <2>1. ASSUME NEW t \in Trips, NEW b \in Buses, NEW d \in Drivers,
               Assign(t, b, d)
        PROVE  TypeInv'
    BY <2>1 DEF Assign
  <2>2. ASSUME NEW r \in Requests, Receive(r) PROVE TypeInv'
    <3>1. bus[call[r].trip] \in Buses \union {NoBus}
      OBVIOUS
    <3>2. ASSUME NEW op, NEW b \in Buses \union {NoBus},
                 NEW next \in {"read", "rejected"}, Enter(r, op, b, next)
          PROVE  TypeInv'
      BY <3>2 DEF Enter
    <3>3. QED
      BY <2>2, <3>1, <3>2 DEF Receive, ReadStart, ReadEnd, ReadIncident
  <2>3. ASSUME NEW r \in Requests, LoopStep(r) PROVE TypeInv'
    <3>1. CASE CommitStart(r)
      BY <3>1 DEF CommitStart, Statuses
    <3>2. CASE CommitEnd(r)
      <4>1. /\ status' \in [Trips -> Statuses]
            /\ ended' \in [Trips -> BOOLEAN]
        BY <3>2 DEF CommitEnd, Statuses
      <4>2. PICK x \in {"publish", "failed"} :
                pc' = [pc EXCEPT ![r] = x] /\ running' \in {r, NoReq}
        BY <3>2 DEF CommitEnd
      <4>3. pc' \in [Requests -> PCs] /\ WaitersHaveProducer'
        BY <3>2, <4>2 DEF CommitEnd
      <4>4. QED
        BY <3>2, <4>1, <4>2, <4>3 DEF CommitEnd
    <3>3. CASE CommitIncident(r)
      BY <3>3 DEF CommitIncident, Statuses
    <3>4. CASE BuildIncident(r)
      <4>1. bus[call[r].trip] \in Buses \union {NoBus}
        OBVIOUS
      <4>2. QED
        BY <3>4, <4>1 DEF BuildIncident
    <3>5. CASE CreateProducer(r)
      BY <3>5 DEF CreateProducer
    <3>6. CASE ReuseProducer(r)
      BY <3>6 DEF ReuseProducer
    <3>7. CASE SendOnNone(r)
      BY <3>7 DEF SendOnNone, RaiseInTry
    <3>8. CASE SendNow(r)
      <4>1. via[r] \in Requests
        BY <3>8 DEF SendNow, Ready
      <4>2. QED
        BY <3>8, <4>1 DEF SendNow, Enqueue
    <3>9. CASE SendWaits(r)
      BY <3>9 DEF SendWaits
    <3>10. QED
      BY <2>3, <3>1, <3>2, <3>3, <3>4, <3>5, <3>6, <3>7, <3>8, <3>9
      DEF LoopStep
  <2>4. ASSUME NEW r \in Requests, Wake(r) PROVE TypeInv'
    <3>1. CASE StartReturns(r)
      BY <3>1 DEF StartReturns
    <3>2. CASE StartRaises(r)
      BY <3>2 DEF StartRaises
    <3>3. CASE MetadataArrives(r)
      <4>1. via[r] \in Requests
        BY <3>3 DEF MetadataArrives
      <4>2. QED
        BY <3>3, <4>1 DEF MetadataArrives, Enqueue
    <3>4. CASE MetadataFails(r)
      BY <3>4 DEF MetadataFails, RaiseInTry
    <3>5. QED
      BY <2>4, <3>1, <3>2, <3>3, <3>4 DEF Wake
  <2>5. ASSUME NEW p \in Requests, Broker(p) PROVE TypeInv'
    <3>1. CASE BrokerAppends(p)
      <4> DEFINE h == Head(buf[p])
      <4>1. h \in Requests /\ EventOf(h) \in Event
        BY <3>1, BufTyped, EventTyped DEF BrokerAppends
      <4>2. sends[h] + 1 \in 0 .. MaxSends
        BY <3>1, <4>1, ValuesAssumption DEF BrokerAppends
      <4>3. sends' \in [Requests -> 0 .. MaxSends] /\ log' \in Seq(Event)
        <5> HIDE DEF h
        <5> QED
          BY <3>1, <4>1, <4>2 DEF BrokerAppends, h
      <4>4. QED
        BY <3>1, <4>3 DEF BrokerAppends
    <3>2. CASE SendReturns(p)
      BY <3>2, BufTyped DEF SendReturns
    <3>3. CASE SendRaises(p)
      BY <3>3, BufTyped DEF SendRaises, RaiseInTry
    <3>4. QED
      BY <2>5, <3>1, <3>2, <3>3 DEF Broker
  <2>6. CASE Crash
    BY <2>6, ValuesAssumption DEF Crash
  <2>7. CASE UNCHANGED vars
    BY <2>7 DEF vars
  <2>8. QED
    BY <2>1, <2>2, <2>3, <2>4, <2>5, <2>6, <2>7 DEF Next
<1>3. QED
  BY <1>1, <1>2, PTL DEF Spec

-----------------------------------------------------------------------------
(* The history of a handler.  HistoryInv is LifecycleInv without the types. *)

HistoryInv ==
    /\ LoopHeld
    /\ ReadIsFresh
    /\ RowsConsistent
    /\ HandlersRecorded
    /\ OneStarter
    /\ MessagesPublishable
    /\ LogFromHandlers

\* A handler past its commit that moves on, at most putting itself in an
\* accumulator or leaving one, keeps the history.
LEMMA HandlerMoves ==
    ASSUME TypeOK, HistoryInv,
           NEW r \in Requests, NEW x \in Evented,
           Publishable(r), x = "done" => sends[r] > 0,
           running \in {r, NoReq},
           pc' = [pc EXCEPT ![r] = x],
           running' = IF x \in OnLoop THEN r ELSE NoReq,
           \A p, q \in Requests : InBuf(p, q)' => q = r \/ InBuf(p, q),
           UNCHANGED <<db, call, seen, sends, log>>
    PROVE  HistoryInv'
<1> USE DEF db, assignment, progress
<1>0. /\ pc \in [Requests -> PCs]
      /\ pc[r] \in Evented
  BY DEF TypeOK, Publishable
<1>1. /\ pc'[r] = x
      /\ \A s \in Requests : s # r => pc'[s] = pc[s]
      /\ \A s \in Requests : pc'[s] \in Evented <=> pc[s] \in Evented
      /\ \A s \in Requests : EventOf(s)' = EventOf(s)
      /\ \A s \in Requests : Publishable(s) => Publishable(s)'
  BY <1>0 DEF EventOf, Publishable
<1>2. LoopHeld'
  BY <1>1, ValuesAssumption DEF HistoryInv, LoopHeld
<1>3. ReadIsFresh'
  BY <1>1 DEF HistoryInv, CanEnd, ReadIsFresh, Evented
<1>4. RowsConsistent'
  BY DEF HistoryInv, RowsConsistent
<1>5. HandlersRecorded'
  BY <1>1 DEF HistoryInv, HandlersRecorded, Recorded, Evented
<1>6. OneStarter'
  BY <1>1 DEF HistoryInv, OneStarter
<1>7. MessagesPublishable'
  <2>1. ASSUME NEW s \in Requests,
               pc'[s] \in Evented \ {"done", "failed", "dead"}
        PROVE  Publishable(s)'
    BY <1>1, <2>1 DEF HistoryInv, MessagesPublishable
  <2>2. ASSUME NEW p \in Requests, NEW q \in Requests, InBuf(p, q)'
        PROVE  Publishable(q)'
    BY <1>1, <2>2 DEF HistoryInv, MessagesPublishable
  <2>3. QED
    BY <2>1, <2>2 DEF MessagesPublishable
<1>8. LogFromHandlers'
  BY <1>1 DEF HistoryInv, LogFromHandlers, IsOnLog
<1>9. QED
  BY <1>2, <1>3, <1>4, <1>5, <1>6, <1>7, <1>8 DEF HistoryInv

\* A handler that is let in, or turned away, has no history yet.
LEMMA HandlerEnters ==
    ASSUME TypeOK, HistoryInv, NEW r \in Requests, NEW b,
           NEW next \in {"read", "rejected"},
           Enter(r, call[r].op, b, next),
           (next = "read" /\ call[r].op = "start") =>
               status[call[r].trip] = "WAITING_AT_DEPOT" /\ b # NoBus,
           (next = "read" /\ call[r].op = "end") => CanEnd(call[r].trip)
    PROVE  HistoryInv'
<1> USE DEF Enter, db, assignment, progress, wire
<1>1. /\ pc'[r] = next /\ pc[r] = "new" /\ seen'[r] = b
      /\ \A s \in Requests : s # r => pc'[s] = pc[s] /\ seen'[s] = seen[s]
  BY DEF TypeOK
<1>2. /\ \A s \in Requests : pc'[s] \in Evented <=> pc[s] \in Evented
      /\ \A s \in Requests : pc'[s] \in Evented => s # r
  BY <1>1 DEF Evented
<1>3. /\ \A s \in Requests : pc'[s] \in Evented => EventOf(s)' = EventOf(s)
      /\ \A s \in Requests : Publishable(s)' <=> Publishable(s)
  BY <1>1, <1>2 DEF EventOf, Publishable
<1>4. LoopHeld'
  BY <1>1, ValuesAssumption DEF HistoryInv, LoopHeld, OnLoop
<1>5. ReadIsFresh'
  BY <1>1 DEF HistoryInv, CanEnd, ReadIsFresh
<1>6. RowsConsistent' /\ OneStarter'
  BY <1>2 DEF HistoryInv, RowsConsistent, OneStarter
<1>7. HandlersRecorded'
  BY <1>1, <1>2 DEF HistoryInv, HandlersRecorded, Recorded
<1>8. MessagesPublishable'
  BY <1>1, <1>2, <1>3 DEF HistoryInv, MessagesPublishable, InBuf
<1>9. LogFromHandlers'
  <2>1. \A i \in DOMAIN log' : \E s \in Requests :
            Publishable(s)' /\ log'[i] = EventOf(s)'
    BY <1>3 DEF HistoryInv, LogFromHandlers, Publishable
  <2>2. \A s \in Requests : sends'[s] > 0 => /\ Publishable(s)'
                                            /\ IsOnLog(EventOf(s))'
    BY <1>3 DEF HistoryInv, LogFromHandlers, Publishable, IsOnLog
  <2>3. QED
    BY <1>1, <2>1, <2>2 DEF HistoryInv, LogFromHandlers
<1>10. QED
  BY <1>4, <1>5, <1>6, <1>7, <1>8, <1>9 DEF HistoryInv

\* A start, end or incident that commits, or an incident that reads its bus,
\* adds to the history of its own request and of no other.
LEMMA HandlerCommits ==
    ASSUME TypeOK, HistoryInv, NEW r \in Requests,
           CommitStart(r) \/ CommitEnd(r) \/ CommitIncident(r)
               \/ BuildIncident(r)
    PROVE  HistoryInv'
<1> USE DEF db, assignment, progress, wire, local
<1>1. /\ call' = call /\ log' = log /\ sends' = sends /\ buf' = buf
      /\ running = r
      /\ pc[r] \in {"read", "build"}
      /\ \A s \in Requests : s # r => pc'[s] = pc[s] /\ seen'[s] = seen[s]
      /\ \A t \in Trips : /\ started[t] => started'[t]
                          /\ ended[t] => ended'[t]
      /\ incidents \subseteq incidents'
  BY DEF TypeOK, CommitStart, CommitEnd, CommitIncident, BuildIncident
<1>2. /\ pc[r] \notin Evented
      /\ \A s \in Requests : s # r => pc'[s] \notin OnLoop
  BY <1>1 DEF HistoryInv, LoopHeld, Evented
<1>3. /\ \A s \in Requests : pc[s] \in Evented => EventOf(s)' = EventOf(s)
      /\ \A s \in Requests : Publishable(s) => Publishable(s)'
  BY <1>1, <1>2 DEF EventOf, Publishable
<1>4. /\ pc'[r] \in {"publish", "failed", "build"}
      /\ pc'[r] \in OnLoop => running' = r
  BY DEF TypeOK, CommitStart, CommitEnd, CommitIncident, BuildIncident, OnLoop
<1>5. /\ Recorded(r)'
      /\ pc'[r] = "publish" => Publishable(r)'
      /\ pc'[r] = "build" => call[r].op = "incident" /\ r \in incidents'
  <2>1. CASE CommitStart(r)
    BY <2>1 DEF TypeOK, CommitStart, Recorded, Publishable, HistoryInv,
       ReadIsFresh, Evented
  <2>2. CASE CommitEnd(r)
    BY <2>2 DEF TypeOK, CommitEnd, Recorded, Publishable, Evented
  <2>3. CASE CommitIncident(r)
    BY <2>3 DEF TypeOK, CommitIncident, Recorded, Publishable, Evented
  <2>4. CASE BuildIncident(r)
    BY <2>4 DEF TypeOK, BuildIncident, Recorded, Publishable, Evented,
       HistoryInv, HandlersRecorded
  <2>5. QED
    BY <2>1, <2>2, <2>3, <2>4
<1>6. LoopHeld' /\ ReadIsFresh'
  BY <1>1, <1>2, <1>4 DEF LoopHeld, ReadIsFresh, CanEnd, OnLoop
<1>7. RowsConsistent'
  BY DEF TypeOK, HistoryInv, RowsConsistent, CommitStart, CommitEnd,
     CommitIncident, BuildIncident
<1>8. HandlersRecorded'
  <2>1. \A s \in Requests : pc'[s] \in Evented => Recorded(s)'
    BY <1>1, <1>5 DEF HistoryInv, HandlersRecorded, Recorded, TypeOK
  <2>2. QED
    BY <1>1, <1>5, <2>1 DEF HistoryInv, HandlersRecorded
<1>9. OneStarter'
  <2>1. ASSUME NEW s \in Requests, s # r, call[r].op = "start",
               call[s].op = "start", pc[s] \in Evented,
               call[r].trip = call[s].trip
        PROVE  FALSE
    <3>1. CommitStart(r)
      BY <2>1 DEF CommitStart, CommitEnd, CommitIncident, BuildIncident,
         HistoryInv, HandlersRecorded
    <3>2. status[call[r].trip] = "WAITING_AT_DEPOT" /\ started[call[r].trip]
      BY <2>1, <3>1 DEF CommitStart, HistoryInv, ReadIsFresh,
         HandlersRecorded, Recorded
    <3>3. QED
      BY <3>2 DEF HistoryInv, RowsConsistent, TypeOK
  <2>2. QED
    BY <1>1, <2>1 DEF HistoryInv, OneStarter
<1>10. MessagesPublishable'
  <2>1. ASSUME NEW s \in Requests,
               pc'[s] \in Evented \ {"done", "failed", "dead"}
        PROVE  Publishable(s)'
    <3>1. CASE s = r
      BY <1>4, <1>5, <2>1, <3>1 DEF Evented
    <3>2. CASE s # r
      BY <1>1, <1>3, <2>1, <3>2 DEF HistoryInv, MessagesPublishable
    <3>3. QED
      BY <3>1, <3>2
  <2>2. ASSUME NEW p \in Requests, NEW q \in Requests, InBuf(p, q)'
        PROVE  Publishable(q)'
    BY <1>1, <1>3, <2>2 DEF HistoryInv, MessagesPublishable, InBuf
  <2>3. QED
    BY <2>1, <2>2 DEF MessagesPublishable
<1>11. LogFromHandlers'
  <2>1. \A i \in DOMAIN log' : \E s \in Requests :
            Publishable(s)' /\ log'[i] = EventOf(s)'
    BY <1>1, <1>3 DEF HistoryInv, LogFromHandlers, Publishable
  <2>2. \A s \in Requests : sends'[s] > 0 => /\ Publishable(s)'
                                            /\ IsOnLog(EventOf(s))'
    BY <1>1, <1>3 DEF HistoryInv, LogFromHandlers, Publishable, IsOnLog
  <2>3. QED
    BY <1>1, <1>4, <2>1, <2>2 DEF HistoryInv, LogFromHandlers
<1>12. QED
  BY <1>6, <1>7, <1>8, <1>9, <1>10, <1>11 DEF HistoryInv

\* What the broker appends is the event of a committed transition.
LEMMA BrokerKeepsHistory ==
    ASSUME TypeOK, HistoryInv, NEW p \in Requests, BrokerAppends(p)
    PROVE  HistoryInv'
<1> USE DEF db, assignment, progress, local
<1>1. PICK h \in Requests : /\ h = Head(buf[p]) /\ Publishable(h)
                           /\ EventOf(h) \in Event
  <2>1. Head(buf[p]) \in Requests /\ InBuf(p, Head(buf[p]))
    BY BufTyped DEF BrokerAppends, TypeOK, InBuf
  <2>2. QED
    BY <2>1, EventTyped DEF HistoryInv, MessagesPublishable
<1>2. /\ log' = Append(log, EventOf(h))
      /\ sends' = [sends EXCEPT ![h] = @ + 1]
      /\ UNCHANGED <<status, started, ended, incidents, pc, call, seen, running,
                     buf>>
  BY <1>1 DEF BrokerAppends
<1>3. LoopHeld' /\ ReadIsFresh' /\ RowsConsistent' /\ HandlersRecorded'
        /\ OneStarter'
  BY <1>2 DEF HistoryInv, CanEnd, LoopHeld, ReadIsFresh, RowsConsistent,
     HandlersRecorded, Recorded, OneStarter
<1>4. MessagesPublishable'
  BY <1>2 DEF HistoryInv, MessagesPublishable, Publishable, InBuf
<1>5. LogFromHandlers'
  <2>0. log \in Seq(Event)
    BY DEF TypeOK
  <2>1. /\ DOMAIN log' = 1 .. (Len(log) + 1)
        /\ DOMAIN log = 1 .. Len(log) /\ Len(log) \in Nat
        /\ \A i \in DOMAIN log : log'[i] = log[i]
        /\ log'[Len(log) + 1] = EventOf(h)
    BY <1>1, <1>2, <2>0
  <2>2. \A s \in Requests : /\ EventOf(s)' = EventOf(s)
                            /\ Publishable(s)' <=> Publishable(s)
    BY <1>2 DEF EventOf, Publishable
  <2>3. \A i \in DOMAIN log' : \E s \in Requests :
            Publishable(s)' /\ log'[i] = EventOf(s)'
    BY <1>1, <2>1, <2>2 DEF HistoryInv, LogFromHandlers
  <2>4. \A s \in Requests : IsOnLog(EventOf(s)) => IsOnLog(EventOf(s))'
    BY <2>1, <2>2 DEF IsOnLog
  <2>5. IsOnLog(EventOf(h))'
    BY <1>1, <2>1, <2>2 DEF IsOnLog
  <2>6. \A s \in Requests : s # h => sends'[s] = sends[s]
    BY <1>2 DEF TypeOK
  <2>7. \A s \in Requests : sends'[s] > 0 => /\ Publishable(s)'
                                            /\ IsOnLog(EventOf(s))'
    <3>1. TAKE s \in Requests
    <3>2. CASE s = h
      BY <1>1, <2>2, <2>5, <3>2
    <3>3. CASE s # h
      BY <2>2, <2>4, <2>6, <3>3 DEF HistoryInv, LogFromHandlers
    <3>4. QED
      BY <3>2, <3>3
  <2>8. \A s \in Requests : pc'[s] = "done" => sends'[s] > 0
    <3>1. sends'[h] > 0
      BY <1>1, <1>2, ValuesAssumption DEF TypeOK
    <3>2. QED
      BY <1>2, <2>6, <3>1 DEF HistoryInv, LogFromHandlers
  <2>9. QED
    BY <2>3, <2>7, <2>8 DEF LogFromHandlers
<1>6. QED
  BY <1>3, <1>4, <1>5 DEF HistoryInv

\* A crash forgets handlers, never what they committed.
LEMMA CrashKeepsHistory ==
    ASSUME TypeOK, HistoryInv, Crash
    PROVE  HistoryInv'
<1> USE DEF db, assignment, progress, local
<1>1. /\ UNCHANGED <<status, started, ended, incidents, call, seen, sends, log>>
      /\ \A s \in Requests : pc'[s] \notin {"read", "build"} \union OnLoop
      /\ \A p, q \in Requests : ~InBuf(p, q)'
  BY DEF Crash, OnLoop, Waiting, TypeOK, InBuf
<1>2. \A s \in Requests :
          /\ pc[s] \in Evented => pc'[s] \in Evented
          /\ pc'[s] \in Evented => pc[s] \in Evented \/ pc[s] = "build"
          /\ pc'[s] \notin Evented \ {"done", "failed", "dead"}
          /\ pc'[s] = "done" => pc[s] = "done"
  BY DEF Crash, Evented, OnLoop, Waiting
<1>3. \A s \in Requests : /\ EventOf(s)' = EventOf(s)
                          /\ Publishable(s) => Publishable(s)'
  BY <1>1, <1>2 DEF EventOf, Publishable
<1>4. LoopHeld' /\ ReadIsFresh' /\ RowsConsistent'
  BY <1>1 DEF HistoryInv, CanEnd, LoopHeld, ReadIsFresh, RowsConsistent
<1>5. HandlersRecorded'
  BY <1>1, <1>2 DEF HistoryInv, HandlersRecorded, Recorded
<1>6. OneStarter'
  BY <1>1, <1>2 DEF HistoryInv, OneStarter, HandlersRecorded
<1>7. MessagesPublishable'
  BY <1>1, <1>2 DEF MessagesPublishable
<1>8. LogFromHandlers'
  BY <1>1, <1>2, <1>3 DEF HistoryInv, LogFromHandlers, IsOnLog
<1>9. QED
  BY <1>4, <1>5, <1>6, <1>7, <1>8 DEF HistoryInv

-----------------------------------------------------------------------------
\* The two ways an accumulator changes hands.
LEMMA EnqueueAdds ==
    ASSUME TypeOK, NEW r \in Requests, via[r] \in Requests, Enqueue(r),
           NEW p \in Requests, NEW q \in Requests, InBuf(p, q)'
    PROVE  q = r \/ InBuf(p, q)
<1>1. buf[via[r]] \in Seq(Requests) /\ buf[p] \in Seq(Requests)
  BY DEF TypeOK
<1>2. buf'[p] = IF p = via[r] THEN Append(buf[p], r) ELSE buf[p]
  BY DEF TypeOK, Enqueue
<1>3. QED
  BY <1>1, <1>2 DEF InBuf

LEMMA TailRemoves ==
    ASSUME TypeOK, NEW o \in Requests, buf[o] # <<>>,
           buf' = [buf EXCEPT ![o] = Tail(@)],
           NEW p \in Requests, NEW q \in Requests, InBuf(p, q)'
    PROVE  InBuf(p, q)
<1>1. buf[o] \in Seq(Requests) /\ buf[p] \in Seq(Requests)
  BY DEF TypeOK
<1>2. buf'[p] = IF p = o THEN Tail(buf[p]) ELSE buf[p]
  BY DEF TypeOK
<1>3. QED
  BY <1>1, <1>2 DEF InBuf

\* A handler at a step of publish_trip_event has an event it may publish.
LEMMA InFlightPublishable ==
    ASSUME HistoryInv, NEW r \in Requests,
           pc[r] \in {"publish", "send", "starting", "metadata"}
    PROVE  Publishable(r)
BY DEF HistoryInv, MessagesPublishable, Evented

\* The history does not depend on who is assigned, nor on the producers.
LEMMA HistoryUnchanged ==
    ASSUME HistoryInv,
           UNCHANGED <<progress, incidents, pc, call, seen, running, buf, sends,
                       log>>
    PROVE  HistoryInv'
<1> USE DEF progress
<1>1. LoopHeld' /\ ReadIsFresh' /\ RowsConsistent' /\ OneStarter'
  BY DEF HistoryInv, CanEnd, LoopHeld, ReadIsFresh, RowsConsistent, OneStarter
<1>2. HandlersRecorded' /\ MessagesPublishable'
  BY DEF HistoryInv, HandlersRecorded, Recorded, MessagesPublishable, InBuf,
     Publishable
<1>3. LogFromHandlers'
  <2>1. \A s \in Requests : /\ EventOf(s)' = EventOf(s)
                            /\ Publishable(s)' <=> Publishable(s)
                            /\ IsOnLog(EventOf(s))' <=> IsOnLog(EventOf(s))
    BY DEF EventOf, Publishable, IsOnLog
  <2>2. QED
    BY <2>1 DEF HistoryInv, LogFromHandlers
<1>4. QED
  BY <1>1, <1>2, <1>3 DEF HistoryInv

\* Every step keeps the history.
LEMMA HistoryStep ==
    ASSUME TypeInv, HistoryInv, [Next]_vars
    PROVE  HistoryInv'
<1> USE DEF TypeInv
<1> DEFINE Moves(r) ==
      \E x \in Evented \ {"done"} :
          /\ pc' = [pc EXCEPT ![r] = x]
          /\ running' = IF x \in OnLoop THEN r ELSE NoReq
<1>1. ASSUME NEW t \in Trips, NEW b \in Buses, NEW d \in Drivers,
             Assign(t, b, d)
      PROVE  HistoryInv'
  BY <1>1, HistoryUnchanged DEF Assign, progress, local, wire
<1>2. ASSUME NEW r \in Requests, Receive(r) PROVE HistoryInv'
  <2>1. CASE ReadStart(r)
    BY <2>1, HandlerEnters DEF ReadStart, CanStart, Enter
  <2>2. CASE ReadEnd(r)
    BY <2>2, HandlerEnters DEF ReadEnd, Enter
  <2>3. CASE ReadIncident(r)
    BY <2>3, HandlerEnters DEF ReadIncident, Enter
  <2>4. QED
    BY <1>2, <2>1, <2>2, <2>3 DEF Receive
\* The steps of publish_trip_event that leave the accumulators alone.
<1>3. ASSUME NEW r \in Requests,
             \/ CreateProducer(r) \/ ReuseProducer(r) \/ SendOnNone(r)
             \/ SendWaits(r) \/ StartReturns(r) \/ StartRaises(r)
             \/ MetadataFails(r)
      PROVE  HistoryInv'
  <2>1. /\ Moves(r)
        /\ running \in {r, NoReq}
        /\ UNCHANGED <<db, call, seen, buf, sends, log>>
        /\ pc[r] \in {"publish", "send", "starting", "metadata"}
    BY <1>3 DEF CreateProducer, ReuseProducer, SendOnNone, SendWaits,
       StartReturns, StartRaises, MetadataFails, RaiseInTry, Evented, OnLoop,
       local, wire
  <2>2. Publishable(r)
    BY <2>1, InFlightPublishable
  <2>3. \A p, q \in Requests : InBuf(p, q)' => q = r \/ InBuf(p, q)
    BY <2>1 DEF InBuf
  <2>4. QED
    BY <2>1, <2>2, <2>3, HandlerMoves
<1>4. ASSUME NEW r \in Requests, SendNow(r) \/ MetadataArrives(r)
      PROVE  HistoryInv'
  <2>1. /\ Enqueue(r) /\ running \in {r, NoReq}
        /\ UNCHANGED <<db, call, seen, sends, log>>
        /\ pc[r] \in {"send", "metadata"}
        /\ via[r] \in Requests
    BY <1>4 DEF SendNow, MetadataArrives, Ready, local, WaitersHaveProducer,
       TypeOK
  <2>2. Publishable(r)
    BY <2>1, InFlightPublishable
  <2>3. \A p, q \in Requests : InBuf(p, q)' => q = r \/ InBuf(p, q)
    BY <2>1, EnqueueAdds
  <2>4. /\ "sent" \in Evented /\ "sent" \notin OnLoop
        /\ pc' = [pc EXCEPT ![r] = "sent"] /\ running' = NoReq
    BY <2>1 DEF Enqueue, Evented, OnLoop
  <2>5. QED
    BY <2>1, <2>2, <2>3, <2>4, HandlerMoves
<1>5. ASSUME NEW p \in Requests, SendReturns(p) \/ SendRaises(p)
      PROVE  HistoryInv'
  <2> DEFINE h == Head(buf[p])
  <2>1. h \in Requests /\ InBuf(p, h)
    BY <1>5, BufTyped DEF SendReturns, SendRaises, TypeOK, InBuf
  <2>2. Publishable(h)
    BY <2>1 DEF HistoryInv, MessagesPublishable
  <2>3. PICK x \in {"done", "failed"} :
            /\ pc' = [pc EXCEPT ![h] = x]
            /\ x = "done" => sends[h] > 0
            /\ running = NoReq /\ running' = NoReq
            /\ buf[p] # <<>> /\ buf' = [buf EXCEPT ![p] = Tail(@)]
            /\ UNCHANGED <<db, call, seen, sends, log>>
    BY <1>5 DEF SendReturns, SendRaises, RaiseInTry, local
  <2>4. \A o, q \in Requests : InBuf(o, q)' => q = h \/ InBuf(o, q)
    BY <2>3, TailRemoves
  <2>5. x \in Evented /\ x \notin OnLoop
    BY DEF Evented, OnLoop
  <2> HIDE DEF h
  <2>6. QED
    BY <2>1, <2>2, <2>3, <2>4, <2>5, HandlerMoves
<1>6. CASE UNCHANGED vars
  BY <1>6, HistoryUnchanged DEF vars, progress
<1>7. QED
  BY <1>1, <1>2, <1>3, <1>4, <1>5, <1>6, HandlerCommits, BrokerKeepsHistory,
     CrashKeepsHistory
  DEF Next, LoopStep, Wake, Broker

\* LifecycleInv, the invariant behind the safety properties, holds always.
THEOREM LifecycleCorrect == Spec => []LifecycleInv
<1>1. Init => HistoryInv
  <2> SUFFICES ASSUME Init PROVE HistoryInv
    OBVIOUS
  <2>1. \A r \in Requests : /\ pc[r] = "new" /\ sends[r] = 0
                            /\ \A q \in Requests : ~InBuf(r, q)
    BY DEF Init, InBuf
  <2>2. LoopHeld /\ ReadIsFresh /\ RowsConsistent /\ HandlersRecorded
    BY <2>1 DEF Init, LoopHeld, OnLoop, ReadIsFresh, RowsConsistent,
       HandlersRecorded, Evented
  <2>3. OneStarter /\ MessagesPublishable
    BY <2>1 DEF OneStarter, MessagesPublishable, Evented
  <2>4. LogFromHandlers
    BY <2>1 DEF Init, LogFromHandlers
  <2>5. QED
    BY <2>2, <2>3, <2>4 DEF HistoryInv
<1>2. TypeInv /\ HistoryInv /\ [Next]_vars => HistoryInv'
  BY HistoryStep
<1>3. TypeInv /\ HistoryInv => LifecycleInv
  BY DEF TypeInv, HistoryInv, LifecycleInv
<1>4. QED
  BY <1>1, <1>2, <1>3, TypeCorrect, PTL DEF Spec

-----------------------------------------------------------------------------
(* The properties of TripLifecycle.                                         *)

\* The event of a publishable request names its operation.
LEMMA EventOfOp ==
    ASSUME TypeOK, NEW r \in Requests
    PROVE  /\ EventOf(r).trip = call[r].trip
           /\ EventOf(r).bus = seen[r]
           /\ call[r].op = "start" <=> EventOf(r).event = "TRIP_STARTED"
           /\ call[r].op = "end" <=> EventOf(r).event = "TRIP_ENDED"
           /\ call[r].op = "incident" <=> EventOf(r).event = "INCIDENT_REPORTED"
<1>1. call[r].op \in {"start", "end", "incident"}
  BY DEF TypeOK, Ops
<1>2. QED
  BY <1>1 DEF EventOf

\* Every event on the log comes from a handler past its commit.
LEMMA LogOrigin ==
    ASSUME LifecycleInv, NEW i \in DOMAIN log
    PROVE  \E r \in Requests : /\ Publishable(r) /\ log[i] = EventOf(r)
                               /\ Recorded(r)
BY DEF LifecycleInv, LogFromHandlers, HandlersRecorded, Publishable

\* No event on the log is ahead of the database.
THEOREM LogIsBacked == Spec => []LogBackedByDatabase
<1>1. LifecycleInv => LogBackedByDatabase
  <2> SUFFICES ASSUME LifecycleInv, NEW i \in DOMAIN log
               PROVE  /\ log[i].event = "TRIP_STARTED" => started[log[i].trip]
                      /\ log[i].event = "TRIP_ENDED" => ended[log[i].trip]
                      /\ log[i].event = "INCIDENT_REPORTED" =>
                           \E r \in incidents : call[r].trip = log[i].trip
    BY DEF LogBackedByDatabase
  <2>1. PICK r \in Requests : log[i] = EventOf(r) /\ Recorded(r)
    BY LogOrigin
  <2>2. QED
    BY <2>1, EventOfOp DEF Recorded, LifecycleInv
<1>2. QED
  BY <1>1, LifecycleCorrect, PTL

\* All TRIP_STARTED events of a trip name one bus.
THEOREM OneBus == Spec => []OneBusPerStart
<1>1. LifecycleInv => OneBusPerStart
  <2> SUFFICES ASSUME LifecycleInv, NEW i \in DOMAIN log, NEW j \in DOMAIN log,
                      log[i].event = "TRIP_STARTED",
                      log[j].event = "TRIP_STARTED", log[i].trip = log[j].trip
               PROVE  log[i].bus = log[j].bus
    BY DEF OneBusPerStart
  <2>1. PICK r \in Requests : Publishable(r) /\ log[i] = EventOf(r)
    BY LogOrigin
  <2>2. PICK s \in Requests : Publishable(s) /\ log[j] = EventOf(s)
    BY LogOrigin
  <2>3. r = s
    BY <2>1, <2>2, EventOfOp DEF LifecycleInv, OneStarter, Publishable
  <2>4. QED
    BY <2>1, <2>2, <2>3
<1>2. QED
  BY <1>1, LifecycleCorrect, PTL

\* The event of an acknowledged request is on the log.
THEOREM AcknowledgedLogged == Spec => []AcknowledgedIsLogged
<1>1. LifecycleInv => AcknowledgedIsLogged
  BY DEF LifecycleInv, LogFromHandlers, AcknowledgedIsLogged
<1>2. QED
  BY <1>1, LifecycleCorrect, PTL

\* A TRIP_STARTED or TRIP_ENDED on the log names a bus.
THEOREM NamesABus == Spec => []StartNamesABus
<1>1. LifecycleInv => StartNamesABus
  <2> SUFFICES ASSUME LifecycleInv, NEW i \in DOMAIN log,
                      log[i].event \in {"TRIP_STARTED", "TRIP_ENDED"}
               PROVE  log[i].bus # NoBus
    BY DEF StartNamesABus
  <2>1. PICK r \in Requests : Publishable(r) /\ log[i] = EventOf(r)
    BY LogOrigin
  <2>2. QED
    BY <2>1, EventOfOp DEF Publishable, LifecycleInv
<1>2. QED
  BY <1>1, LifecycleCorrect, PTL

\* No step starts a trip twice or returns it to the depot.
THEOREM RestartFree == Spec => NeverRestarted
<1> DEFINE Keeps == \A t \in Trips : started[t] =>
                      /\ started'[t]
                      /\ status'[t] # "WAITING_AT_DEPOT"
                      /\ status[t] # "EN_ROUTE" => status'[t] # "EN_ROUTE"
<1>1. LifecycleInv /\ [Next]_vars => [Keeps]_vars
  <2> SUFFICES ASSUME LifecycleInv, Next PROVE Keeps
    OBVIOUS
  <2> USE DEF db, assignment, progress
  <2>1. \A t \in Trips : started[t] => status[t] # "WAITING_AT_DEPOT"
    BY DEF LifecycleInv, RowsConsistent
  <2>2. ASSUME NEW r \in Requests, CommitStart(r) PROVE Keeps
    BY <2>1, <2>2 DEF CommitStart, LifecycleInv, ReadIsFresh, TypeOK
  <2>3. ASSUME NEW r \in Requests, CommitEnd(r) \/ CommitIncident(r) PROVE Keeps
    BY <2>1, <2>3 DEF CommitEnd, CommitIncident, LifecycleInv, TypeOK
  <2>4. CASE UNCHANGED progress
    BY <2>1, <2>4
  <2>5. ASSUME NEW r \in Requests, Receive(r) PROVE UNCHANGED progress
    BY <2>5 DEF Receive, ReadStart, ReadEnd, ReadIncident, Enter
  <2>6. ASSUME NEW r \in Requests,
               \/ Wake(r) \/ Broker(r) \/ BuildIncident(r)
               \/ CreateProducer(r) \/ ReuseProducer(r)
               \/ SendOnNone(r) \/ SendNow(r) \/ SendWaits(r)
        PROVE  UNCHANGED progress
    BY <2>6 DEF Wake, StartReturns, StartRaises, MetadataArrives,
       MetadataFails, Broker, BrokerAppends, SendReturns, SendRaises,
       BuildIncident, CreateProducer, ReuseProducer, SendOnNone, SendNow,
       SendWaits
  <2>7. QED
    BY <2>2, <2>3, <2>4, <2>5, <2>6 DEF Next, LoopStep, Assign, Crash
<1>2. QED
  BY <1>1, LifecycleCorrect, PTL DEF Spec, NeverRestarted

-----------------------------------------------------------------------------
(* TripLifecycle implements TripPromise, for every value of the constants:  *)
(* the handlers' initial states map to PromiseInit and each of their steps  *)
(* to a step of the promise or to a stutter.  The mapping needs             *)
(* LifecycleInv, which says what a handler's past has left in the database. *)

\* The right-hand sides of the mapping.
Reported == {call[r].trip : r \in incidents}
Announceable == {EventOf(r) : r \in MayBeAnnounced}
Acknowledged == {EventOf(r) : r \in {q \in Requests : pc[q] = "done"}}

\* The request r reaches a publishable event and the others keep theirs.
LEMMA AnnounceableGrows ==
    ASSUME NEW r \in Requests, ~Publishable(r),
           \A s \in Requests \ {r} : /\ EventOf(s)' = EventOf(s)
                                     /\ Publishable(s)' <=> Publishable(s)
    PROVE  Announceable' = IF Publishable(r)'
                           THEN Announceable \union {EventOf(r)'}
                           ELSE Announceable
<1>1. \A e : e \in Announceable <=>
                \E s \in Requests : Publishable(s) /\ e = EventOf(s)
  BY DEF Announceable, MayBeAnnounced
<1>2. \A e : e \in Announceable' <=>
                \E s \in Requests : Publishable(s)' /\ e = EventOf(s)'
  BY DEF Announceable, MayBeAnnounced
<1>3. QED
  BY <1>1, <1>2

\* Nobody's event changes, nor whether it may be published.
LEMMA AnnounceableKept ==
    ASSUME \A s \in Requests : /\ EventOf(s)' = EventOf(s)
                               /\ Publishable(s)' <=> Publishable(s)
    PROVE  Announceable' = Announceable
<1>1. \A e : e \in Announceable <=>
                \E s \in Requests : Publishable(s) /\ e = EventOf(s)
  BY DEF Announceable, MayBeAnnounced
<1>2. \A e : e \in Announceable' <=>
                \E s \in Requests : Publishable(s)' /\ e = EventOf(s)'
  BY DEF Announceable, MayBeAnnounced
<1>3. QED
  BY <1>1, <1>2

\* Nobody settles with success.
LEMMA AcknowledgedKept ==
    ASSUME \A s \in Requests : /\ pc'[s] = "done" <=> pc[s] = "done"
                               /\ pc[s] = "done" => EventOf(s)' = EventOf(s)
    PROVE  Acknowledged' = Acknowledged
<1>1. \A e : e \in Acknowledged <=>
                \E s \in Requests : pc[s] = "done" /\ e = EventOf(s)
  BY DEF Acknowledged
<1>2. \A e : e \in Acknowledged' <=>
                \E s \in Requests : pc'[s] = "done" /\ e = EventOf(s)'
  BY DEF Acknowledged
<1>3. QED
  BY <1>1, <1>2

\* The mapped state, and the promise's actions over it, spelled out.
LEMMA MappedVars ==
    Promise!promiseVars =
        <<status, Reported, Announceable, log, Acknowledged>>
BY DEF Promise!promiseVars, Reported, Announceable, Acknowledged

\* A step that the promise does not see.
LEMMA PromiseStutters ==
    ASSUME UNCHANGED <<status, log>>, Reported' = Reported,
           Announceable' = Announceable, Acknowledged' = Acknowledged
    PROVE  [Promise!PromiseNext]_(Promise!promiseVars)
BY DEF Promise!promiseVars, Reported, Announceable, Acknowledged

\* Requests are let in, or turned away, unseen by the promise.
LEMMA EnteringIsUnseen ==
    ASSUME TypeOK, NEW r \in Requests, Receive(r)
    PROVE  [Promise!PromiseNext]_(Promise!promiseVars)
<1>1. PICK next \in {"read", "rejected"} : \E op, b : Enter(r, op, b, next)
  <2>1. CASE ReadStart(r)
    BY <2>1 DEF ReadStart
  <2>2. CASE ReadEnd(r)
    BY <2>2 DEF ReadEnd
  <2>3. CASE ReadIncident(r)
    BY <2>3 DEF ReadIncident
  <2>4. QED
    BY <2>1, <2>2, <2>3 DEF Receive
<1>2. /\ UNCHANGED <<status, log, call, incidents>>
      /\ pc[r] = "new" /\ pc'[r] \in {"read", "rejected"}
      /\ \A s \in Requests \ {r} : pc'[s] = pc[s] /\ seen'[s] = seen[s]
  BY <1>1 DEF Enter, TypeOK, db, progress, wire
<1>3. /\ ~Publishable(r) /\ ~Publishable(r)'
      /\ \A s \in Requests \ {r} : /\ EventOf(s)' = EventOf(s)
                                   /\ Publishable(s)' <=> Publishable(s)
  BY <1>2 DEF Publishable, Evented, EventOf
<1>4. Announceable' = Announceable
  BY <1>3, AnnounceableGrows
<1>5. Acknowledged' = Acknowledged
  BY <1>2, <1>3, AcknowledgedKept
<1>6. Reported' = Reported
  BY <1>2 DEF Reported
<1>7. QED
  BY <1>2, <1>4, <1>5, <1>6, PromiseStutters

\* So are a publisher's moves up to its acknowledgement, and its failures.
LEMMA MovingIsUnseen ==
    ASSUME TypeOK, NEW r \in Requests, NEW x \in Evented \ {"done"},
           pc[r] \in Evented \ {"done"}, pc' = [pc EXCEPT ![r] = x],
           UNCHANGED <<status, incidents, call, seen, log>>
    PROVE  [Promise!PromiseNext]_(Promise!promiseVars)
<1>1. \A s \in Requests : /\ pc'[s] = "done" <=> pc[s] = "done"
                          /\ pc'[s] \in Evented <=> pc[s] \in Evented
  BY DEF TypeOK
<1>2. \A s \in Requests : /\ EventOf(s)' = EventOf(s)
                          /\ Publishable(s)' <=> Publishable(s)
  BY <1>1 DEF EventOf, Publishable
<1>3. Announceable' = Announceable /\ Acknowledged' = Acknowledged
  BY <1>1, <1>2, AnnounceableKept, AcknowledgedKept
<1>4. Reported' = Reported
  BY DEF Reported
<1>5. QED
  BY <1>3, <1>4, PromiseStutters

-----------------------------------------------------------------------------
(* The steps the promise sees.                                              *)

\* What the commits share: r moves on from its critical section and nobody
\* else is touched.
LEMMA CommitsAlone ==
    ASSUME LifecycleInv, NEW r \in Requests,
           CommitStart(r) \/ CommitEnd(r) \/ CommitIncident(r)
               \/ BuildIncident(r)
    PROVE  /\ UNCHANGED <<call, log>>
           /\ ~Publishable(r)
           /\ \A s \in Requests \ {r} :
                 /\ EventOf(s)' = EventOf(s)
                 /\ Publishable(s)' <=> Publishable(s)
           /\ Acknowledged' = Acknowledged
<1> USE DEF local, wire
<1>1. /\ UNCHANGED <<call, log>>
      /\ pc[r] \in {"read", "build"}
      /\ pc'[r] \in {"publish", "failed", "build"}
      /\ \A s \in Requests \ {r} : pc'[s] = pc[s] /\ seen'[s] = seen[s]
  BY DEF LifecycleInv, TypeOK, CommitStart, CommitEnd, CommitIncident,
     BuildIncident
<1>2. /\ ~Publishable(r)
      /\ \A s \in Requests \ {r} : /\ EventOf(s)' = EventOf(s)
                                   /\ Publishable(s)' <=> Publishable(s)
  BY <1>1 DEF Publishable, Evented, EventOf
<1>3. Acknowledged' = Acknowledged
  BY <1>1, <1>2, AcknowledgedKept
<1>4. QED
  BY <1>1, <1>2, <1>3

\* start_trip's commit is the promise's start, on the bus it read.
LEMMA StartIsPromised ==
    ASSUME LifecycleInv, NEW r \in Requests, CommitStart(r)
    PROVE  Promise!PromiseNext
<1> DEFINE t == call[r].trip
           b == seen[r]
<1>1. t \in Trips /\ b \in Buses
  BY DEF CommitStart, LifecycleInv, TypeOK, ReadIsFresh
<1>2. /\ status[t] = "WAITING_AT_DEPOT"
      /\ status' = [status EXCEPT ![t] = "EN_ROUTE"]
      /\ UNCHANGED <<incidents, call, seen>>
      /\ pc'[r] = "publish" /\ call[r].op = "start"
  BY DEF CommitStart, LifecycleInv, ReadIsFresh, TypeOK, local
<1>3. /\ Publishable(r)'
      /\ EventOf(r)' = [event |-> "TRIP_STARTED", bus |-> b, trip |-> t]
  BY <1>1, <1>2, ValuesAssumption DEF Publishable, Evented, EventOf
<1>4. /\ Announceable' = Announceable \union
            {[event |-> "TRIP_STARTED", bus |-> b, trip |-> t]}
      /\ Acknowledged' = Acknowledged /\ log' = log
  BY <1>3, CommitsAlone, AnnounceableGrows
<1>5. Reported' = Reported
  BY <1>2 DEF Reported
<1>6. Promise!Starts(t, b)
  BY <1>2, <1>4, <1>5
  DEF Promise!Starts, Promise!Moves, Promise!Announceable,
      Promise!Announcement, Reported, Announceable, Acknowledged
<1>7. QED
  BY <1>1, <1>6 DEF Promise!PromiseNext

\* end_trip's commit is the promise's end, announceable if it has a bus.
LEMMA EndIsPromised ==
    ASSUME LifecycleInv, NEW r \in Requests, CommitEnd(r)
    PROVE  Promise!PromiseNext
<1> DEFINE t == call[r].trip
           b == seen[r]
           e == [event |-> "TRIP_ENDED", bus |-> b, trip |-> t]
<1>1. t \in Trips /\ b \in Buses \union {NoBus}
  BY DEF LifecycleInv, TypeOK
<1>2. /\ status[t] \in {"EN_ROUTE", "INCIDENT_REPORTED"}
      /\ status' = [status EXCEPT ![t] = "ARRIVED_DESTINATION"]
      /\ UNCHANGED <<incidents, call, seen>>
      /\ call[r].op = "end" /\ pc'[r] \in Evented
  BY DEF CommitEnd, LifecycleInv, ReadIsFresh, CanEnd, TypeOK, local, Evented
<1>3. /\ Publishable(r)' <=> b # NoBus
      /\ EventOf(r)' = e
  BY <1>2 DEF Publishable, EventOf
<1>4. /\ Announceable' = IF b # NoBus THEN Announceable \union {e}
                         ELSE Announceable
      /\ Acknowledged' = Acknowledged /\ log' = log
  BY <1>3, CommitsAlone, AnnounceableGrows
<1>5. Reported' = Reported
  BY <1>2 DEF Reported
<1>6. \/ Announceable' = Announceable
      \/ \E c \in Buses : Announceable' = Announceable \union
            {[event |-> "TRIP_ENDED", bus |-> c, trip |-> t]}
  BY <1>1, <1>4
<1>7. Promise!Ends(t)
  BY <1>2, <1>4, <1>5, <1>6
  DEF Promise!Ends, Promise!Moves, Promise!Announceable,
      Promise!Announcement, Reported, Announceable, Acknowledged
<1>8. QED
  BY <1>1, <1>7 DEF Promise!PromiseNext

\* report_incident's commit is the promise's report.
LEMMA ReportIsPromised ==
    ASSUME LifecycleInv, NEW r \in Requests, CommitIncident(r)
    PROVE  Promise!PromiseNext
<1>1. PICK t \in Trips : t = call[r].trip
  BY DEF LifecycleInv, TypeOK
<1>2. /\ status' = [status EXCEPT ![t] = "INCIDENT_REPORTED"]
      /\ incidents' = incidents \union {r} /\ call' = call
      /\ pc'[r] = "build"
  BY <1>1 DEF CommitIncident, LifecycleInv, TypeOK, local
<1>3. ~Publishable(r)'
  BY <1>2 DEF Publishable, Evented
<1>4. /\ Announceable' = Announceable
      /\ Acknowledged' = Acknowledged /\ log' = log
  BY <1>3, CommitsAlone, AnnounceableGrows
<1>5. Reported' = Reported \union {t}
  BY <1>1, <1>2 DEF Reported
<1>6. Promise!Reports(t)
  BY <1>2, <1>4, <1>5
  DEF Promise!Reports, Promise!Moves, Reported, Announceable, Acknowledged
<1>7. QED
  BY <1>6 DEF Promise!PromiseNext

\* An incident whose bus is now known, or never will be, can be announced.
LEMMA NamingIsPromised ==
    ASSUME LifecycleInv, NEW r \in Requests, pc[r] = "build",
           UNCHANGED <<status, incidents, call, log>>,
           seen'[r] \in Buses \union {NoBus}, Publishable(r)',
           Announceable' = Announceable \union {EventOf(r)'},
           Acknowledged' = Acknowledged
    PROVE  Promise!PromiseNext
<1> DEFINE t == call[r].trip
<1>1. t \in Trips /\ call[r].op = "incident" /\ r \in incidents
  BY DEF LifecycleInv, TypeOK, HandlersRecorded
<1>2. EventOf(r)' = [event |-> "INCIDENT_REPORTED", bus |-> seen'[r],
                     trip |-> t]
  BY <1>1 DEF EventOf
<1>3. t \in Reported /\ Reported' = Reported
  BY <1>1 DEF Reported
<1>4. Promise!NamesBus(t, seen'[r])
  BY <1>2, <1>3
  DEF Promise!NamesBus, Promise!Announceable, Promise!Announcement,
      Reported, Announceable, Acknowledged
<1>5. QED
  BY <1>1, <1>4 DEF Promise!PromiseNext

LEMMA BuildIsPromised ==
    ASSUME LifecycleInv, NEW r \in Requests, BuildIncident(r)
    PROVE  Promise!PromiseNext
<1>1. /\ UNCHANGED <<status, incidents, call, log>>
      /\ pc[r] = "build" /\ pc'[r] = "publish"
      /\ seen'[r] \in Buses \union {NoBus} /\ call[r].op = "incident"
  BY DEF BuildIncident, LifecycleInv, TypeOK, HandlersRecorded, db,
     progress, wire
<1>2. Publishable(r)'
  BY <1>1 DEF Publishable, Evented
<1>3. /\ Announceable' = Announceable \union {EventOf(r)'}
      /\ Acknowledged' = Acknowledged
  BY <1>2, CommitsAlone, AnnounceableGrows
<1>4. QED
  BY <1>1, <1>2, <1>3, NamingIsPromised

\* A crash between an incident's commit and the reading of its bus leaves an
\* event that nobody will publish; any other crash is unseen.
LEMMA CrashIsPromised ==
    ASSUME LifecycleInv, Crash
    PROVE  [Promise!PromiseNext]_(Promise!promiseVars)
<1>1. /\ UNCHANGED <<status, incidents, call, seen, log>>
      /\ \A s \in Requests :
            /\ pc'[s] = "done" <=> pc[s] = "done"
            /\ pc'[s] \in Evented <=> pc[s] \in Evented \/ pc[s] = "build"
  BY DEF Crash, Evented, OnLoop, Waiting, db, progress, local
<1>2. \A s \in Requests :
          /\ EventOf(s)' = EventOf(s)
          /\ pc[s] # "build" => (Publishable(s)' <=> Publishable(s))
  BY <1>1 DEF EventOf, Publishable
<1>3. Acknowledged' = Acknowledged /\ Reported' = Reported
  BY <1>1, <1>2, AcknowledgedKept DEF Reported
<1>4. CASE \A s \in Requests : pc[s] # "build"
  BY <1>1, <1>2, <1>3, <1>4, AnnounceableKept, PromiseStutters
<1>5. ASSUME NEW r \in Requests, pc[r] = "build"
      PROVE  Promise!PromiseNext
  <2>1. \A s \in Requests \ {r} : pc[s] # "build"
    BY <1>5, ValuesAssumption DEF LifecycleInv, LoopHeld, OnLoop
  <2>2. ~Publishable(r) /\ Publishable(r)'
    BY <1>1, <1>5
    DEF Publishable, Evented, LifecycleInv, HandlersRecorded
  <2>3. Announceable' = Announceable \union {EventOf(r)'}
    BY <1>2, <2>1, <2>2, AnnounceableGrows
  <2>4. seen'[r] \in Buses \union {NoBus}
    BY <1>1 DEF LifecycleInv, TypeOK
  <2>5. QED
    BY <1>1, <1>3, <1>5, <2>2, <2>3, <2>4, NamingIsPromised
<1>6. QED
  BY <1>4, <1>5

\* A transmission is an announcement of what was announceable.
LEMMA AppendIsPromised ==
    ASSUME LifecycleInv, NEW p \in Requests, BrokerAppends(p)
    PROVE  Promise!PromiseNext
<1> DEFINE h == Head(buf[p])
<1>1. h \in Requests /\ InBuf(p, h)
  BY BufTyped DEF BrokerAppends, LifecycleInv, TypeOK, InBuf
<1>2. Publishable(h)
  BY <1>1 DEF LifecycleInv, MessagesPublishable
<1>3. /\ UNCHANGED <<status, incidents, call, seen, pc>>
      /\ log' = Append(log, EventOf(h))
  BY DEF BrokerAppends, db, progress, local
<1>4. \A s \in Requests : /\ EventOf(s)' = EventOf(s)
                          /\ Publishable(s)' <=> Publishable(s)
  BY <1>3 DEF EventOf, Publishable
<1>5. Announceable' = Announceable
  BY <1>4, AnnounceableKept
<1>6. Acknowledged' = Acknowledged
  BY <1>3, <1>4, AcknowledgedKept
<1>7. Reported' = Reported
  BY <1>3 DEF Reported
<1>8. EventOf(h) \in Announceable
  BY <1>1, <1>2 DEF Announceable, MayBeAnnounced
<1>9. Promise!Announces(EventOf(h))
  BY <1>3, <1>5, <1>6, <1>7, <1>8
  DEF Promise!Announces, Reported, Announceable, Acknowledged
<1>10. QED
  BY <1>8, <1>9 DEF Promise!PromiseNext, Announceable

\* Success is told of an announced event.
LEMMA ReturnIsPromised ==
    ASSUME LifecycleInv, NEW p \in Requests, SendReturns(p)
    PROVE  Promise!PromiseNext
<1> DEFINE h == Head(buf[p])
<1>1. h \in Requests /\ sends[h] > 0
  BY BufTyped DEF SendReturns, LifecycleInv
<1>2. Publishable(h) /\ IsOnLog(EventOf(h))
  BY <1>1 DEF LifecycleInv, LogFromHandlers
<1>3. /\ UNCHANGED <<status, incidents, call, seen, log>>
      /\ pc' = [pc EXCEPT ![h] = "done"]
  BY DEF SendReturns, db, progress, local
<1> HIDE DEF h
<1>4. \A s \in Requests :
          /\ pc'[s] = IF s = h THEN "done" ELSE pc[s]
          /\ pc'[s] \in Evented <=> pc[s] \in Evented
  BY <1>1, <1>2, <1>3 DEF LifecycleInv, TypeOK, Publishable, Evented
<1>5. \A s \in Requests : /\ EventOf(s)' = EventOf(s)
                          /\ Publishable(s)' <=> Publishable(s)
  BY <1>3, <1>4 DEF EventOf, Publishable
<1>6. Announceable' = Announceable
  BY <1>5, AnnounceableKept
<1>7. Reported' = Reported
  BY <1>3 DEF Reported
<1>8. Acknowledged' = Acknowledged \union {EventOf(h)}
  <2>1. \A e : e \in Acknowledged <=>
                  \E s \in Requests : pc[s] = "done" /\ e = EventOf(s)
    BY DEF Acknowledged
  <2>2. \A e : e \in Acknowledged' <=>
                  \E s \in Requests : pc'[s] = "done" /\ e = EventOf(s)'
    BY DEF Acknowledged
  <2>3. QED
    BY <1>1, <1>4, <1>5, <2>1, <2>2
<1>9. PICK e \in Announceable : e = EventOf(h)
  BY <1>1, <1>2 DEF Announceable, MayBeAnnounced
<1>10. Promise!Acknowledges(e)
  BY <1>2, <1>3, <1>6, <1>7, <1>8, <1>9
  DEF Promise!Acknowledges, IsOnLog, Reported, Announceable, Acknowledged
<1>11. QED
  BY <1>10 DEF Promise!PromiseNext, Announceable

-----------------------------------------------------------------------------
(* Who is told of a failure was not told of success before: a message is in *)
(* one accumulator, once, and its handler waits for it.                     *)

AwaitedOnce ==
    \A p \in Requests :
        /\ \A i \in DOMAIN buf[p] : /\ pc[buf[p][i]] = "sent"
                                    /\ via[buf[p][i]] = p
        /\ \A i, j \in DOMAIN buf[p] : buf[p][i] = buf[p][j] => i = j

\* A handler that is not in an accumulator may move as it likes, unless it
\* gives up waiting.
LEMMA OthersMove ==
    ASSUME TypeOK, AwaitedOnce, buf' = buf,
           \A s \in Requests : pc[s] = "sent" =>
               pc'[s] = pc[s] /\ via'[s] = via[s]
    PROVE  AwaitedOnce'
<1>1. \A p \in Requests : \A i \in DOMAIN buf[p] : buf[p][i] \in Requests
  BY DEF TypeOK
<1>2. QED
  BY <1>1 DEF AwaitedOnce

LEMMA MessageQueues ==
    ASSUME TypeOK, AwaitedOnce, NEW r \in Requests, pc[r] # "sent",
           via[r] \in Requests, via' = via, Enqueue(r)
    PROVE  AwaitedOnce'
<1> DEFINE q == via[r]
<1>1. /\ \A p \in Requests : p # q => buf'[p] = buf[p]
      /\ buf'[q] = Append(buf[q], r) /\ buf[q] \in Seq(Requests)
      /\ \A s \in Requests : pc'[s] = IF s = r THEN "sent" ELSE pc[s]
  BY DEF TypeOK, Enqueue
<1>2. \A p \in Requests : \A i \in DOMAIN buf[p] :
          buf[p][i] \in Requests \ {r}
  BY DEF TypeOK, AwaitedOnce
<1>3. /\ DOMAIN buf'[q] = 1 .. Len(buf[q]) + 1
      /\ DOMAIN buf[q] = 1 .. Len(buf[q]) /\ Len(buf[q]) \in Nat
      /\ \A i \in DOMAIN buf[q] : buf'[q][i] = buf[q][i]
      /\ buf'[q][Len(buf[q]) + 1] = r
  BY <1>1
<1>4. ASSUME NEW p \in Requests, p # q
      PROVE  /\ \A i \in DOMAIN buf'[p] : /\ pc'[buf'[p][i]] = "sent"
                                          /\ via'[buf'[p][i]] = p
             /\ \A i, j \in DOMAIN buf'[p] : buf'[p][i] = buf'[p][j] => i = j
  BY <1>1, <1>2, <1>4 DEF AwaitedOnce
<1>5. \A i \in DOMAIN buf'[q] : /\ pc'[buf'[q][i]] = "sent"
                               /\ via'[buf'[q][i]] = q
  <2>1. \A i \in DOMAIN buf[q] : /\ pc'[buf'[q][i]] = "sent"
                                /\ via'[buf'[q][i]] = q
    BY <1>1, <1>2, <1>3 DEF AwaitedOnce
  <2>2. QED
    BY <1>1, <1>3, <2>1
<1>6. \A i, j \in DOMAIN buf'[q] : buf'[q][i] = buf'[q][j] => i = j
  <2>1. \A i, j \in DOMAIN buf[q] : buf'[q][i] = buf'[q][j] => i = j
    BY <1>3 DEF AwaitedOnce
  <2>2. QED
    BY <1>2, <1>3, <2>1
<1>7. QED
  BY <1>4, <1>5, <1>6 DEF AwaitedOnce

LEMMA MessageLeaves ==
    ASSUME TypeOK, AwaitedOnce, NEW o \in Requests, buf[o] # <<>>, NEW x,
           buf' = [buf EXCEPT ![o] = Tail(@)],
           pc' = [pc EXCEPT ![Head(buf[o])] = x], via' = via
    PROVE  AwaitedOnce'
<1> DEFINE h == Head(buf[o])
<1>1. /\ \A p \in Requests : p # o => buf'[p] = buf[p]
      /\ buf'[o] = Tail(buf[o]) /\ buf[o] \in Seq(Requests)
      /\ \A s \in Requests : s # h => pc'[s] = pc[s]
  BY DEF TypeOK
<1>2. /\ DOMAIN buf'[o] = 1 .. Len(buf[o]) - 1
      /\ DOMAIN buf[o] = 1 .. Len(buf[o]) /\ Len(buf[o]) \in Nat \ {0}
      /\ \A i \in DOMAIN buf'[o] : buf'[o][i] = buf[o][i + 1]
      /\ h = buf[o][1]
  <2>1. PICK s \in Seq(Requests) : s = buf[o] /\ s # <<>>
    BY <1>1
  <2>2. /\ DOMAIN Tail(s) = 1 .. Len(s) - 1
        /\ DOMAIN s = 1 .. Len(s) /\ Len(s) \in Nat \ {0}
        /\ \A i \in DOMAIN Tail(s) : Tail(s)[i] = s[i + 1]
        /\ Head(s) = s[1]
    BY <2>1
  <2>3. QED
    BY <1>1, <2>1, <2>2
<1>3. /\ via[h] = o
      /\ \A p \in Requests : \A i \in DOMAIN buf[p] : buf[p][i] \in Requests
  BY <1>2 DEF TypeOK, AwaitedOnce
<1> HIDE DEF h
<1>4. ASSUME NEW p \in Requests, p # o
      PROVE  /\ \A i \in DOMAIN buf'[p] : /\ pc'[buf'[p][i]] = "sent"
                                          /\ via'[buf'[p][i]] = p
             /\ \A i, j \in DOMAIN buf'[p] : buf'[p][i] = buf'[p][j] => i = j
  BY <1>1, <1>3, <1>4 DEF AwaitedOnce
<1>5. \A i \in DOMAIN buf'[o] : /\ i + 1 \in DOMAIN buf[o] /\ i + 1 # 1
                               /\ buf'[o][i] # h
  BY <1>2 DEF AwaitedOnce
<1>6. /\ \A i \in DOMAIN buf'[o] : /\ pc'[buf'[o][i]] = "sent"
                                   /\ via'[buf'[o][i]] = o
      /\ \A i, j \in DOMAIN buf'[o] : buf'[o][i] = buf'[o][j] => i = j
  BY <1>1, <1>2, <1>3, <1>5 DEF AwaitedOnce
<1>7. QED
  BY <1>4, <1>6 DEF AwaitedOnce

\* Every handler whose message is in an accumulator waits for it, and it is
\* there once.
THEOREM AwaitedOnceCorrect == Spec => []AwaitedOnce
<1>1. Init => AwaitedOnce
  BY DEF Init, AwaitedOnce
<1>2. TypeInv /\ AwaitedOnce /\ [Next]_vars => AwaitedOnce'
  <2> SUFFICES ASSUME TypeInv, AwaitedOnce, [Next]_vars PROVE AwaitedOnce'
    OBVIOUS
  <2> USE DEF TypeInv, db, local, wire
  <2>1. ASSUME NEW r \in Requests,
               \/ Receive(r) \/ CommitStart(r) \/ CommitEnd(r)
               \/ CommitIncident(r) \/ BuildIncident(r)
               \/ CreateProducer(r) \/ ReuseProducer(r) \/ SendOnNone(r)
               \/ SendWaits(r) \/ StartReturns(r) \/ StartRaises(r)
               \/ MetadataFails(r)
        PROVE  AwaitedOnce'
    <3>1. /\ buf' = buf /\ pc[r] # "sent"
          /\ \A s \in Requests \ {r} : pc'[s] = pc[s] /\ via'[s] = via[s]
      BY <2>1 DEF TypeOK, Receive, ReadStart, ReadEnd, ReadIncident, Enter,
         CommitStart, CommitEnd, CommitIncident, BuildIncident,
         CreateProducer, ReuseProducer, SendOnNone, SendWaits, StartReturns,
         StartRaises, MetadataFails, RaiseInTry
    <3>2. QED
      BY <3>1, OthersMove
  <2>2. ASSUME NEW r \in Requests, SendNow(r) \/ MetadataArrives(r)
        PROVE  AwaitedOnce'
    BY <2>2, MessageQueues DEF SendNow, MetadataArrives, Ready, TypeOK,
       WaitersHaveProducer
  <2>3. ASSUME NEW p \in Requests, SendReturns(p) \/ SendRaises(p)
        PROVE  AwaitedOnce'
    BY <2>3, MessageLeaves DEF SendReturns, SendRaises, RaiseInTry
  <2>4. CASE Crash
    BY <2>4 DEF Crash, AwaitedOnce
  <2>5. CASE UNCHANGED <<buf, pc, via>>
    BY <2>5 DEF AwaitedOnce
  <2>6. ASSUME NEW p \in Requests, BrokerAppends(p)
        PROVE  UNCHANGED <<buf, pc, via>>
    BY <2>6 DEF BrokerAppends
  <2>7. QED
    BY <2>1, <2>2, <2>3, <2>4, <2>5, <2>6
    DEF Next, LoopStep, Wake, Broker, Assign, vars
<1>3. QED
  BY <1>1, <1>2, TypeCorrect, PTL DEF Spec

-----------------------------------------------------------------------------
\* Every step of the handlers, the client library and the broker is a step
\* of the promise or unseen by it.
LEMMA StepIsPromised ==
    ASSUME LifecycleInv, AwaitedOnce, [Next]_vars
    PROVE  [Promise!PromiseNext]_(Promise!promiseVars)
<1> USE DEF LifecycleInv
<1>1. ASSUME UNCHANGED <<status, incidents, call, seen, pc, log>>
      PROVE  [Promise!PromiseNext]_(Promise!promiseVars)
  <2>1. \A s \in Requests : /\ EventOf(s)' = EventOf(s)
                            /\ Publishable(s)' <=> Publishable(s)
    BY <1>1 DEF EventOf, Publishable
  <2>2. Announceable' = Announceable /\ Acknowledged' = Acknowledged
    BY <1>1, <2>1, AnnounceableKept, AcknowledgedKept
  <2>3. Reported' = Reported
    BY <1>1 DEF Reported
  <2>4. QED
    BY <1>1, <2>2, <2>3, PromiseStutters
<1>2. ASSUME NEW t \in Trips, NEW b \in Buses, NEW d \in Drivers,
             Assign(t, b, d)
      PROVE  [Promise!PromiseNext]_(Promise!promiseVars)
  BY <1>1, <1>2 DEF Assign, progress, local, wire
<1>3. CASE UNCHANGED vars
  BY <1>1, <1>3 DEF vars
<1>4. ASSUME NEW r \in Requests,
             \/ CreateProducer(r) \/ ReuseProducer(r) \/ SendOnNone(r)
             \/ SendNow(r) \/ SendWaits(r) \/ Wake(r)
      PROVE  [Promise!PromiseNext]_(Promise!promiseVars)
  <2>1. /\ UNCHANGED <<status, incidents, call, seen, log>>
        /\ \E x \in Evented \ {"done"} : pc' = [pc EXCEPT ![r] = x]
        /\ pc[r] \in Evented \ {"done"}
    BY <1>4 DEF CreateProducer, ReuseProducer, SendOnNone, SendNow,
       SendWaits, Wake, StartReturns, StartRaises, MetadataArrives,
       MetadataFails, RaiseInTry, Enqueue, Evented, db, progress, local,
       wire
  <2>2. QED
    BY <2>1, MovingIsUnseen
<1>5. ASSUME NEW p \in Requests, SendRaises(p)
      PROVE  [Promise!PromiseNext]_(Promise!promiseVars)
  <2> DEFINE h == Head(buf[p])
  <2>1. h \in Requests /\ InBuf(p, h)
    BY <1>5, BufTyped DEF SendRaises, TypeOK, InBuf
  <2>2. /\ UNCHANGED <<status, incidents, call, seen, log>>
        /\ pc' = [pc EXCEPT ![h] = "failed"]
        /\ pc[h] \in Evented \ {"done"}
    BY <1>5, <2>1 DEF SendRaises, RaiseInTry, db, progress, local,
       AwaitedOnce, InBuf, Evented
  <2>3. "failed" \in Evented \ {"done"}
    BY DEF Evented
  <2>4. QED
    BY <2>1, <2>2, <2>3, MovingIsUnseen
<1>6. QED
  BY <1>2, <1>3, <1>4, <1>5, EnteringIsUnseen, StartIsPromised,
     EndIsPromised, ReportIsPromised, BuildIsPromised, CrashIsPromised,
     AppendIsPromised, ReturnIsPromised
  DEF Next, LoopStep, Broker

\* The handlers keep the promise: TripLifecycle implements TripPromise.
THEOREM PromiseKept == Spec => PromiseIsKept
<1>1. Init => Promise!PromiseInit
  <2> SUFFICES ASSUME Init PROVE Promise!PromiseInit
    OBVIOUS
  <2>1. \A r \in Requests : ~Publishable(r) /\ pc[r] # "done"
    BY DEF Init, Publishable, Evented
  <2>2. Announceable = {} /\ Acknowledged = {} /\ Reported = {}
    BY <2>1 DEF Announceable, MayBeAnnounced, Acknowledged, Reported, Init
  <2>3. QED
    BY <2>2 DEF Promise!PromiseInit, Init, Announceable, Acknowledged,
       Reported
<1>2. LifecycleInv /\ AwaitedOnce /\ [Next]_vars
        => [Promise!PromiseNext]_(Promise!promiseVars)
  BY StepIsPromised
<1>3. QED
  BY <1>1, <1>2, LifecycleCorrect, AwaitedOnceCorrect, PTL
  DEF Spec, PromiseIsKept, Promise!PromiseSpec

=============================================================================
