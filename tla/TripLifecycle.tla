--------------------------- MODULE TripLifecycle ---------------------------
(***************************************************************************)
(* The fleet-management service: the planned_trips table, the handlers     *)
(* that move a trip through its life (app/services/trip_service.py), the   *)
(* resource assignment (app/routers/trips.py) and the lazily created Kafka *)
(* producer they share (app/services/kafka_producer.py).                   *)
(*                                                                         *)
(* start, end and incident are coroutines of ONE event loop: a handler     *)
(* runs alone from one await to the next, and `running' names the request  *)
(* that holds the loop.  assign_resources is a plain function that FastAPI *)
(* runs in its thread pool, so it may fall between any two steps of a      *)
(* handler, a SELECT and its COMMIT included.  Every HTTP request is a     *)
(* member of Requests and is handled once.                                 *)
(*                                                                         *)
(* Left out because nothing here reads it: delay_minutes, the text of an   *)
(* incident, names, times of day.  A start or end time is only `set' or    *)
(* `not set'.                                                              *)
(***************************************************************************)
EXTENDS Naturals, Sequences

CONSTANTS
    Trips,        \* ids of the rows of planned_trips
    Buses,        \* ids of the rows of buses
    Drivers,      \* ids of the rows of drivers
    Requests,     \* the HTTP requests of a behaviour
    NoBus, NoDriver, NoReq,
    MaxSends,     \* bound: times the client library transmits one message
    MaxCrashes    \* bound: crashes of the service process

ASSUME ValuesAssumption ==
    /\ NoBus \notin Buses
    /\ NoDriver \notin Drivers
    /\ NoReq \notin Requests
    /\ MaxSends \in Nat \ {0}
    /\ MaxCrashes \in Nat

VARIABLES
    status, bus, driver,  \* columns of planned_trips, as committed
    started, ended,       \* actual_start_time, actual_end_time: is it set
    incidents,  \* the requests whose trip_incidents row is committed
    call,       \* what each request asks for: an operation on a trip
    pc,         \* where each request's handler is
    seen,       \* its local `bus'
    via,        \* its local `producer': who made it, or NoReq
    running,    \* the request that holds the event loop, or NoReq
    producer,   \* kafka_service._producer: the request that made it, or NoReq
    pstate,     \* the producer object each request made, if it made one
    known,      \* the producers that have fetched the topic's metadata
    buf,        \* the accumulator of each producer: requests, oldest first
    sends,      \* transmissions of each request's message that were appended
    log,        \* the trip.lifecycle topic (one partition)
    crashes

assignment == <<bus, driver>>
progress   == <<status, started, ended>>
db         == <<assignment, progress, incidents>>
local      == <<call, seen, via>>
wire       == <<pstate, known, buf, sends, log>>
vars == <<bus, driver, status, started, ended, incidents, call, pc, seen, via,
          running, producer, pstate, known, buf, sends, log, crashes>>

-----------------------------------------------------------------------------
Statuses == {"WAITING_AT_DEPOT", "EN_ROUTE", "ARRIVED_DESTINATION",
             "INCIDENT_REPORTED"}
Ops == {"start", "end", "incident"}
EventNames == {"TRIP_STARTED", "TRIP_ENDED", "INCIDENT_REPORTED"}

\* Where a handler is.  "failed" is an exception after the commit (HTTP 500);
\* "aborted" and "dead" are what a crash makes of a handler before and after
\* its commit.
OnLoop  == {"read", "build", "publish", "send"}
Waiting == {"starting", "metadata", "sent"}
Settled == {"rejected", "done", "failed", "aborted", "dead"}
PCs     == {"new"} \union OnLoop \union Waiting \union Settled

\* The handler has committed and the event it publishes is fixed.
Evented == {"publish", "send", "starting", "metadata", "sent", "done",
            "failed", "dead"}

Event == [event : EventNames, bus : Buses \union {NoBus}, trip : Trips]

\* The TripLifecycleEvent of a request.  A bus of NoBus is the "UNKNOWN" of
\* report_incident; the route id is a function of the trip and left out.
EventOf(r) ==
    [event |-> CASE call[r].op = "start"    -> "TRIP_STARTED"
                 [] call[r].op = "end"      -> "TRIP_ENDED"
                 [] call[r].op = "incident" -> "INCIDENT_REPORTED",
     bus   |-> seen[r],
     trip  |-> call[r].trip]

IsOnLog(e) == \E i \in DOMAIN log : log[i] = e

-----------------------------------------------------------------------------
\* Trips as generate_daily_trips leaves them: waiting, nothing assigned.
Init ==
    /\ status = [t \in Trips |-> "WAITING_AT_DEPOT"]
    /\ bus = [t \in Trips |-> NoBus]
    /\ driver = [t \in Trips |-> NoDriver]
    /\ started = [t \in Trips |-> FALSE]
    /\ ended = [t \in Trips |-> FALSE]
    /\ incidents = {}
    /\ call \in [Requests -> [op : Ops, trip : Trips]]
    /\ pc = [r \in Requests |-> "new"]
    /\ seen = [r \in Requests |-> NoBus]
    /\ via = [r \in Requests |-> NoReq]
    /\ running = NoReq
    /\ producer = NoReq
    /\ pstate = [r \in Requests |-> "none"]
    /\ known = {}
    /\ buf = [r \in Requests |-> <<>>]
    /\ sends = [r \in Requests |-> 0]
    /\ log = <<>>
    /\ crashes = 0

-----------------------------------------------------------------------------
(* assign_resources: no guard on the trip's status.  An id that is not a    *)
(* row of buses or drivers breaks a foreign key and changes nothing.        *)
Assign(t, b, d) ==
    /\ bus' = [bus EXCEPT ![t] = b]
    /\ driver' = [driver EXCEPT ![t] = d]
    /\ UNCHANGED <<progress, incidents, pc, local, running, producer, wire,
                   crashes>>

-----------------------------------------------------------------------------
(* The database half of a handler.                                          *)

\* The handler of r takes the free loop; `bus' is the bus row it has selected.
Enter(r, op, b, next) ==
    /\ running = NoReq
    /\ pc[r] = "new"
    /\ call[r].op = op
    /\ pc' = [pc EXCEPT ![r] = next]
    /\ seen' = [seen EXCEPT ![r] = b]
    /\ running' = IF next = "rejected" THEN NoReq ELSE r
    /\ UNCHANGED <<db, call, via, producer, wire, crashes>>

\* Mutant of CanStart: no check of the status.
CanStart_anyStatus(t) == bus[t] # NoBus /\ driver[t] # NoDriver

CanStart(t) ==
    /\ status[t] = "WAITING_AT_DEPOT"
    /\ bus[t] # NoBus
    /\ driver[t] # NoDriver

CanEnd(t) == status[t] \in {"EN_ROUTE", "INCIDENT_REPORTED"}

ReadStart(r) ==
    LET t == call[r].trip IN
    \/ CanStart(t) /\ Enter(r, "start", bus[t], "read")
    \/ ~CanStart(t) /\ Enter(r, "start", NoBus, "rejected")

ReadEnd(r) ==
    LET t == call[r].trip IN
    \/ CanEnd(t) /\ Enter(r, "end", bus[t], "read")
    \/ ~CanEnd(t) /\ Enter(r, "end", NoBus, "rejected")

\* report_incident has no guard but the trip's existence.
ReadIncident(r) == Enter(r, "incident", NoBus, "read")

\* Mutant of CommitStart: the commit is forgotten.
CommitStart_noCommit(r) ==
    /\ running = r /\ pc[r] = "read" /\ call[r].op = "start"
    /\ pc' = [pc EXCEPT ![r] = "publish"]
    /\ UNCHANGED <<db, local, running, producer, wire, crashes>>

\* The ORM writes the columns the handler assigned and no other.
CommitStart(r) ==
    /\ running = r /\ pc[r] = "read" /\ call[r].op = "start"
    /\ status' = [status EXCEPT ![call[r].trip] = "EN_ROUTE"]
    /\ started' = [started EXCEPT ![call[r].trip] = TRUE]
    /\ pc' = [pc EXCEPT ![r] = "publish"]
    /\ UNCHANGED <<assignment, ended, incidents, local, running, producer,
                   wire, crashes>>

\* Without a bus row, str(bus.id) raises after the commit.
CommitEnd(r) ==
    /\ running = r /\ pc[r] = "read" /\ call[r].op = "end"
    /\ status' = [status EXCEPT ![call[r].trip] = "ARRIVED_DESTINATION"]
    /\ ended' = [ended EXCEPT ![call[r].trip] = TRUE]
    /\ \/ /\ seen[r] # NoBus
          /\ pc' = [pc EXCEPT ![r] = "publish"]
          /\ running' = r
       \/ /\ seen[r] = NoBus
          /\ pc' = [pc EXCEPT ![r] = "failed"]
          /\ running' = NoReq
    /\ UNCHANGED <<assignment, started, incidents, local, producer, wire,
                   crashes>>

\* Mutant of CommitIncident: the event is built before the row is committed.
CommitIncident_noCommit(r) ==
    /\ running = r /\ pc[r] = "read" /\ call[r].op = "incident"
    /\ pc' = [pc EXCEPT ![r] = "build"]
    /\ UNCHANGED <<db, running, local, producer, wire, crashes>>

CommitIncident(r) ==
    /\ running = r /\ pc[r] = "read" /\ call[r].op = "incident"
    /\ status' = [status EXCEPT ![call[r].trip] = "INCIDENT_REPORTED"]
    /\ incidents' = incidents \union {r}
    /\ pc' = [pc EXCEPT ![r] = "build"]
    /\ UNCHANGED <<assignment, started, ended, running, local, producer, wire,
                   crashes>>

\* report_incident selects the bus after its commit.
BuildIncident(r) ==
    /\ running = r /\ pc[r] = "build"
    /\ pc' = [pc EXCEPT ![r] = "publish"]
    /\ seen' = [seen EXCEPT ![r] = bus[call[r].trip]]
    /\ UNCHANGED <<db, call, via, running, producer, wire, crashes>>

-----------------------------------------------------------------------------
(* publish_trip_event and _get_producer.                                    *)

\* Mutant of RaiseInTry: publish again instead of raising, without a limit.
RaiseInTry_retry(r) ==
    /\ producer' = NoReq
    /\ pc' = [pc EXCEPT ![r] = "publish"]
    /\ running' = r

\* An exception inside publish_trip_event's try: reset, log, raise.
RaiseInTry(r) ==
    /\ producer' = NoReq
    /\ pc' = [pc EXCEPT ![r] = "failed"]
    /\ running' = NoReq

\* self._producer is set BEFORE start() is awaited.
CreateProducer(r) ==
    /\ running = r /\ pc[r] = "publish" /\ producer = NoReq
    /\ producer' = r
    /\ pstate' = [pstate EXCEPT ![r] = "new"]
    /\ pc' = [pc EXCEPT ![r] = "starting"]
    /\ running' = NoReq
    /\ UNCHANGED <<db, local, known, buf, sends, log, crashes>>

ReuseProducer(r) ==
    /\ running = r /\ pc[r] = "publish" /\ producer # NoReq
    /\ pc' = [pc EXCEPT ![r] = "send"]
    /\ via' = [via EXCEPT ![r] = producer]
    /\ UNCHANGED <<db, call, seen, running, producer, wire, crashes>>

\* start() returns, and _get_producer returns self._producer, whatever it
\* now is.
StartReturns(r) ==
    /\ running = NoReq /\ pc[r] = "starting"
    /\ pstate' = [pstate EXCEPT ![r] = "started"]
    /\ pc' = [pc EXCEPT ![r] = "send"]
    /\ via' = [via EXCEPT ![r] = producer]
    /\ running' = r
    /\ UNCHANGED <<db, call, seen, producer, known, buf, sends, log, crashes>>

\* start() raises outside the try: self._producer keeps the broken object.
StartRaises(r) ==
    /\ running = NoReq /\ pc[r] = "starting"
    /\ pstate' = [pstate EXCEPT ![r] = "failed"]
    /\ pc' = [pc EXCEPT ![r] = "failed"]
    /\ UNCHANGED <<db, local, running, producer, known, buf, sends, log,
                   crashes>>

\* producer is None: send_and_wait raises AttributeError.
SendOnNone(r) ==
    /\ running = r /\ pc[r] = "send" /\ via[r] = NoReq
    /\ RaiseInTry(r)
    /\ UNCHANGED <<db, local, wire, crashes>>

Ready(p) == p # NoReq /\ pstate[p] = "started" /\ p \in known

Enqueue(r) ==
    /\ buf' = [buf EXCEPT ![via[r]] = Append(@, r)]
    /\ pc' = [pc EXCEPT ![r] = "sent"]
    /\ running' = NoReq

\* With the topic's metadata at hand, send reaches the accumulator without
\* giving up the loop.
SendNow(r) ==
    /\ running = r /\ pc[r] = "send" /\ Ready(via[r])
    /\ Enqueue(r)
    /\ UNCHANGED <<db, local, producer, pstate, known, sends, log, crashes>>

SendWaits(r) ==
    /\ running = r /\ pc[r] = "send"
    /\ via[r] # NoReq /\ ~Ready(via[r])
    /\ pc' = [pc EXCEPT ![r] = "metadata"]
    /\ running' = NoReq
    /\ UNCHANGED <<db, local, producer, wire, crashes>>

MetadataArrives(r) ==
    /\ running = NoReq /\ pc[r] = "metadata"
    /\ pstate[via[r]] = "started"
    /\ known' = known \union {via[r]}
    /\ Enqueue(r)
    /\ UNCHANGED <<db, local, producer, pstate, sends, log, crashes>>

MetadataFails(r) ==
    /\ running = NoReq /\ pc[r] = "metadata"
    /\ RaiseInTry(r)
    /\ UNCHANGED <<db, local, wire, crashes>>

-----------------------------------------------------------------------------
(* The client library and the broker (external).  A producer transmits its  *)
(* accumulator in order, one message at a time, and repeats a transmission  *)
(* whose acknowledgement it does not see.                                   *)

BrokerAppends(p) ==
    /\ buf[p] # <<>>
    /\ sends[Head(buf[p])] < MaxSends
    /\ log' = Append(log, EventOf(Head(buf[p])))
    /\ sends' = [sends EXCEPT ![Head(buf[p])] = @ + 1]
    /\ UNCHANGED <<db, pc, local, running, producer, pstate, known, buf,
                   crashes>>

\* Mutant of SendReturns: send instead of send_and_wait.
SendReturns_noWait(p) ==
    /\ running = NoReq
    /\ buf[p] # <<>>
    /\ buf' = [buf EXCEPT ![p] = Tail(@)]
    /\ pc' = [pc EXCEPT ![Head(buf[p])] = "done"]
    /\ UNCHANGED <<db, local, running, producer, pstate, known, sends, log,
                   crashes>>

SendReturns(p) ==
    /\ running = NoReq
    /\ buf[p] # <<>>
    /\ sends[Head(buf[p])] > 0
    /\ buf' = [buf EXCEPT ![p] = Tail(@)]
    /\ pc' = [pc EXCEPT ![Head(buf[p])] = "done"]
    /\ UNCHANGED <<db, local, running, producer, pstate, known, sends, log,
                   crashes>>

\* The library gives up; the message may or may not be on the log.
SendRaises(p) ==
    /\ running = NoReq
    /\ buf[p] # <<>>
    /\ buf' = [buf EXCEPT ![p] = Tail(@)]
    /\ RaiseInTry(Head(buf[p]))
    /\ UNCHANGED <<db, local, pstate, known, sends, log, crashes>>

\* The process dies and is restarted: the database and the log remain.
Crash ==
    /\ crashes < MaxCrashes
    /\ crashes' = crashes + 1
    /\ pc' = [r \in Requests |->
                IF pc[r] = "read" THEN "aborted"
                ELSE IF pc[r] \in OnLoop \union Waiting THEN "dead" ELSE pc[r]]
    /\ running' = NoReq
    /\ producer' = NoReq
    /\ buf' = [r \in Requests |-> <<>>]
    /\ UNCHANGED <<db, local, pstate, known, sends, log>>

-----------------------------------------------------------------------------
\* What the event loop runs without waiting for anyone.
LoopStep(r) ==
    \/ CommitStart(r) \/ CommitEnd(r) \/ CommitIncident(r) \/ BuildIncident(r)
    \/ CreateProducer(r) \/ ReuseProducer(r)
    \/ SendOnNone(r) \/ SendNow(r) \/ SendWaits(r)

Receive(r) == ReadStart(r) \/ ReadEnd(r) \/ ReadIncident(r)

\* What a waiting handler of r is woken by.
Wake(r) ==
    \/ StartReturns(r) \/ StartRaises(r)
    \/ MetadataArrives(r) \/ MetadataFails(r)

Broker(p) == BrokerAppends(p) \/ SendReturns(p) \/ SendRaises(p)

Next ==
    \/ \E t \in Trips, b \in Buses, d \in Drivers : Assign(t, b, d)
    \/ \E r \in Requests : Receive(r) \/ LoopStep(r) \/ Wake(r) \/ Broker(r)
    \/ Crash

Spec == Init /\ [][Next]_vars

StuckOnBrokenProducer(r) ==
    /\ pc[r] = "metadata"
    /\ pstate[via[r]] = "failed"

\* The loop runs what is ready; start() and the metadata wait return or raise
\* (the library has a request timeout); the library acknowledges or gives up.
\* Of a producer whose start failed nothing is assumed.
Fairness ==
    \A r \in Requests :
        /\ WF_vars(LoopStep(r))
        /\ WF_vars(StartReturns(r) \/ StartRaises(r))
        /\ WF_vars(MetadataArrives(r)
                   \/ (~StuckOnBrokenProducer(r) /\ MetadataFails(r)))
        /\ WF_vars(SendReturns(r) \/ SendRaises(r))

FairSpec == Spec /\ Fairness

-----------------------------------------------------------------------------
(* Properties.                                                              *)

\* Every variable keeps to its type.
TypeOK ==
    /\ status \in [Trips -> Statuses]
    /\ bus \in [Trips -> Buses \union {NoBus}]
    /\ driver \in [Trips -> Drivers \union {NoDriver}]
    /\ started \in [Trips -> BOOLEAN]
    /\ ended \in [Trips -> BOOLEAN]
    /\ incidents \in SUBSET Requests
    /\ call \in [Requests -> [op : Ops, trip : Trips]]
    /\ pc \in [Requests -> PCs]
    /\ seen \in [Requests -> Buses \union {NoBus}]
    /\ via \in [Requests -> Requests \union {NoReq}]
    /\ running \in Requests \union {NoReq}
    /\ producer \in Requests \union {NoReq}
    /\ pstate \in [Requests -> {"none", "new", "started", "failed"}]
    /\ known \in SUBSET Requests
    /\ buf \in [Requests -> Seq(Requests)]
    /\ sends \in [Requests -> 0 .. MaxSends]
    /\ log \in Seq(Event)
    /\ crashes \in 0 .. MaxCrashes

\* Consumers never hear of a transition the database does not hold: whatever
\* the interleaving, the retransmissions and the crashes, an event on the log
\* is about a row whose transition is committed.
LogBackedByDatabase ==
    \A i \in DOMAIN log :
        LET e == log[i] IN
        /\ e.event = "TRIP_STARTED" => started[e.trip]
        /\ e.event = "TRIP_ENDED"   => ended[e.trip]
        /\ e.event = "INCIDENT_REPORTED" =>
              \E r \in incidents : call[r].trip = e.trip

\* However many clients press start, a trip is announced on one bus only: all
\* TRIP_STARTED events of a trip, the repeated ones included, name one bus.
OneBusPerStart ==
    \A i, j \in DOMAIN log :
        (/\ log[i].event = "TRIP_STARTED" /\ log[j].event = "TRIP_STARTED"
         /\ log[i].trip = log[j].trip) => log[i].bus = log[j].bus

\* A client that was told its request succeeded can rely on the event being on
\* the log, though producers are shared, replaced and restarted meanwhile.
AcknowledgedIsLogged ==
    \A r \in Requests : pc[r] = "done" => IsOnLog(EventOf(r))

\* A TRIP_STARTED names a bus, never the UNKNOWN that report_incident may use,
\* although the assignment it read can change before the commit.
StartNamesABus ==
    \A i \in DOMAIN log :
        log[i].event \in {"TRIP_STARTED", "TRIP_ENDED"} => log[i].bus # NoBus

\* No step starts a trip a second time or returns it to the depot.
NeverRestarted ==
    [][\A t \in Trips : started[t] =>
          /\ started'[t]
          /\ status'[t] # "WAITING_AT_DEPOT"
          /\ status[t] # "EN_ROUTE" => status'[t] # "EN_ROUTE"]_vars

\* A handler that entered the loop gets its answer, unless it waits on a
\* producer whose start() failed.

RequestsSettle ==
    \A r \in Requests :
        pc[r] = "read" ~> (pc[r] \in Settled
                               \/ StuckOnBrokenProducer(r))

-----------------------------------------------------------------------------
(* Why the safety properties hold: the invariant the proofs use.            *)

\* Only a handler that was given a producer waits for its metadata.
WaitersHaveProducer ==
    \A r \in Requests : pc[r] = "metadata" => via[r] # NoReq

\* A handler between two awaits holds the loop.
LoopHeld == \A r \in Requests : pc[r] \in OnLoop => running = r

\* What start_trip and end_trip read is still so when they commit.
ReadIsFresh ==
    \A r \in Requests : pc[r] = "read" =>
        /\ call[r].op = "start" =>
              status[call[r].trip] = "WAITING_AT_DEPOT" /\ seen[r] # NoBus
        /\ call[r].op = "end" => CanEnd(call[r].trip)

RowsConsistent ==
    \A t \in Trips :
        /\ status[t] = "WAITING_AT_DEPOT" => ~started[t]
        /\ status[t] = "EN_ROUTE" => started[t]

\* A handler past its commit finds its transition in the database.
Recorded(r) ==
    /\ call[r].op = "start"    => started[call[r].trip]
    /\ call[r].op = "end"      => ended[call[r].trip]
    /\ call[r].op = "incident" => r \in incidents

HandlersRecorded ==
    /\ \A r \in Requests : pc[r] \in Evented => Recorded(r)
    /\ \A r \in Requests : pc[r] = "build" => /\ call[r].op = "incident"
                                            /\ r \in incidents

OneStarter ==
    \A r, s \in Requests :
        (/\ call[r].op = "start" /\ call[s].op = "start"
         /\ pc[r] \in Evented /\ pc[s] \in Evented
         /\ call[r].trip = call[s].trip) => r = s

\* The event of r may be on its way or on the log.
Publishable(r) ==
    /\ pc[r] \in Evented
    /\ call[r].op \in {"start", "end"} => seen[r] # NoBus

InBuf(p, q) == \E i \in DOMAIN buf[p] : buf[p][i] = q

MessagesPublishable ==
    /\ \A r \in Requests : pc[r] \in Evented \ {"done", "failed", "dead"}
                            => Publishable(r)
    /\ \A p, q \in Requests : InBuf(p, q) => Publishable(q)

LogFromHandlers ==
    /\ \A i \in DOMAIN log : \E r \in Requests :
                                Publishable(r) /\ log[i] = EventOf(r)
    /\ \A r \in Requests : sends[r] > 0 => /\ Publishable(r)
                                            /\ IsOnLog(EventOf(r))
    /\ \A r \in Requests : pc[r] = "done" => sends[r] > 0

LifecycleInv ==
    /\ TypeOK
    /\ WaitersHaveProducer
    /\ LoopHeld
    /\ ReadIsFresh
    /\ RowsConsistent
    /\ HandlersRecorded
    /\ OneStarter
    /\ MessagesPublishable
    /\ LogFromHandlers

-----------------------------------------------------------------------------
(* What the documentation says of these handlers.                           *)

\* end_trip: "Transition an active trip to ARRIVED_DESTINATION".
ArrivedWasStarted ==
    \A t \in Trips :
        status[t] = "ARRIVED_DESTINATION" => started[t]

-----------------------------------------------------------------------------
(* What clients and consumers are promised.                                 *)

MayBeAnnounced == {r \in Requests : Publishable(r)}

Promise == INSTANCE TripPromise WITH
              reported <- {call[r].trip : r \in incidents},
              announceable <- {EventOf(r) : r \in MayBeAnnounced},
              topic <- log,
              acknowledged <- {EventOf(r) : r \in {q \in Requests :
                                                    pc[q] = "done"}}

\* However requests, reassignments, retransmissions and a crash interleave,
\* trips and their announcements move as TripPromise says: a start is one
\* step from the depot, whose bus no later one changes, nothing is announced
\* that is not committed, and success is told of what was announced.
PromiseIsKept == Promise!PromiseSpec

=============================================================================
