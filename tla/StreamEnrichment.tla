-------------------------- MODULE StreamEnrichment --------------------------
(***************************************************************************)
(* The Flink job of services/stream-processing for ONE bus: the keyed      *)
(* state of EnrichmentFunction (app/transforms/enrichment.py), the map of  *)
(* active trips it loads when it opens (app/utils/route_client.py), and    *)
(* the sources, sinks and checkpoints of app/job.py.                       *)
(*                                                                         *)
(* The job reads two topics with no order between them.  A failure takes   *)
(* it back to its last checkpoint, keyed state and read positions alike;   *)
(* the map is not part of it and is loaded anew from the database of the   *)
(* day.  What has been written to Kafka and Redis stays written.           *)
(*                                                                         *)
(* A position is its event time, the trip ingestion wrote into it (none in *)
(* stateless mode), and its kind: "good"; "bad" where the classifier finds *)
(* it impossible; "text" where its coordinates are numbers in quotes.      *)
(* Stateless ingestion writes event times in UTC in one format, so their   *)
(* string order is their order.  Geometry and stops are left out; a route  *)
(* is named by the trip it belongs to.                                     *)
(***************************************************************************)
EXTENDS Naturals, Sequences, FiniteSets

CONSTANTS
    Trips, NoTrip,
    Carried,       \* trips a raw position may carry, NoTrip: none
    RedisFails,    \* may a write to Redis fail?
    Times,         \* event times: 1 .. n
    MaxLog,        \* bound: events on trip.lifecycle
    MaxIncidents,  \* bound: incidents reported
    MaxPositions,  \* bound: positions on transport-telemetry-raw
    MaxFailures    \* bound: failures and new submissions of the job

ASSUME StreamAssumption ==
    /\ NoTrip \notin Trips
    /\ Carried \subseteq Trips \union {NoTrip}
    /\ RedisFails \in BOOLEAN
    /\ Times \subseteq Nat \ {0}
    /\ {MaxLog, MaxIncidents, MaxPositions, MaxFailures} \subseteq Nat

VARIABLES
    trips,        \* the rows of planned_trips that name this bus
    incidents,    \* incidents reported so far
    unpublished,  \* events committed by fleet, not yet published
    log,          \* the events of trip.lifecycle with this bus as key
    raw,          \* its positions on transport-telemetry-raw
    phase,        \* where open() is
    boot,         \* bootstrap_active_trips[bus], or NoTrip
    state,        \* the keyed state
    posL, posR,   \* records of log and of raw that have been processed
    sink,         \* what each Kafka sink has not sent yet
    topic,        \* what each sink has written to its topic
    redis,        \* bus:{busId}:position
    ckpt,         \* the last completed checkpoint
    failures

fleetVars == <<trips, incidents, unpublished, log>>
jobVars   == <<phase, boot, state, posL, posR>>
outVars   == <<sink, topic, redis>>
vars == <<fleetVars, raw, jobVars, outVars, ckpt, failures>>

-----------------------------------------------------------------------------
Event == [event : {"TRIP_STARTED", "TRIP_ENDED", "INCIDENT_REPORTED"},
          trip : Trips]
Position == [ts : Times, kind : {"good", "bad", "text"}, trip : Carried]

Statuses == {"WAITING_AT_DEPOT", "EN_ROUTE", "ARRIVED_DESTINATION",
             "INCIDENT_REPORTED"}
Row == [status : Statuses, started : BOOLEAN, ended : BOOLEAN]

\* active_trip_id with active_route_id, trip_status, the keys of
\* trip_to_route, and last_timestamp (0: none).
KeyedState == [trip : Trips \union {NoTrip},
               status : {"none", "ACTIVE", "INACTIVE"},
               known : SUBSET Trips,
               last : Times \union {0}]
EmptyState == [trip |-> NoTrip, status |-> "none", known |-> {}, last |-> 0]

\* An enriched position: the raw one by its place in raw.
Record == [id : 1 .. MaxPositions, trip : Trips \union {NoTrip},
           route : Trips \union {NoTrip}, status : {"ACTIVE", "INACTIVE"}]
NoRecord == [id |-> 0]
\* What goes to telemetry-invalid.
Diverted == [id : 1 .. MaxPositions]

\* The Kafka sinks: transport-telemetry-cleaned, transport-eta-features and
\* telemetry-invalid.
Sinks == {"cleaned", "features", "invalid"}

\* A job submitted without a savepoint: no state, both topics from the
\* earliest offset.
Fresh == [state |-> EmptyState, posL |-> 0, posR |-> 0]

Init ==
    /\ trips = [t \in Trips |-> [status |-> "WAITING_AT_DEPOT",
                                 started |-> FALSE, ended |-> FALSE]]
    /\ incidents = 0
    /\ unpublished = {}
    /\ log = <<>>
    /\ raw = <<>>
    /\ phase = "opening"
    /\ boot = NoTrip
    /\ state = EmptyState
    /\ posL = 0
    /\ posR = 0
    /\ sink = [k \in Sinks |-> <<>>]
    /\ topic = [k \in Sinks |-> <<>>]
    /\ redis = NoRecord
    /\ ckpt = Fresh
    /\ failures = 0

-----------------------------------------------------------------------------
(* The fleet service, as far as this bus is concerned.  TripLifecycle has   *)
(* the whole of it, and how publications come to be late or out of order.   *)

Owes(name, t) ==
    unpublished' = unpublished \union {[event |-> name, trip |-> t]}

StartTrip(t) ==
    /\ trips[t].status = "WAITING_AT_DEPOT"
    /\ trips' = [trips EXCEPT ![t].status = "EN_ROUTE", ![t].started = TRUE]
    /\ Owes("TRIP_STARTED", t)
    /\ UNCHANGED <<incidents, log, raw, jobVars, outVars, ckpt, failures>>

EndTrip(t) ==
    /\ trips[t].status \in {"EN_ROUTE", "INCIDENT_REPORTED"}
    /\ trips' = [trips EXCEPT ![t].status = "ARRIVED_DESTINATION",
                              ![t].ended = TRUE]
    /\ Owes("TRIP_ENDED", t)
    /\ UNCHANGED <<incidents, log, raw, jobVars, outVars, ckpt, failures>>

\* Of any trip, whatever its status.
ReportIncident(t) ==
    /\ incidents < MaxIncidents
    /\ incidents' = incidents + 1
    /\ trips' = [trips EXCEPT ![t].status = "INCIDENT_REPORTED"]
    /\ Owes("INCIDENT_REPORTED", t)
    /\ UNCHANGED <<log, raw, jobVars, outVars, ckpt, failures>>

Publish(e) ==
    /\ e \in unpublished
    /\ Len(log) < MaxLog
    /\ log' = Append(log, e)
    /\ unpublished' = unpublished \ {e}
    /\ UNCHANGED <<trips, incidents, raw, jobVars, outVars, ckpt, failures>>

\* Ingestion publishes a position.  It writes no trip into it that it has not
\* read of on trip.lifecycle.
Report(p) ==
    /\ Len(raw) < MaxPositions
    /\ p.trip # NoTrip =>
          \E i \in DOMAIN log :
              log[i] = [event |-> "TRIP_STARTED", trip |-> p.trip]
    /\ raw' = Append(raw, p)
    /\ UNCHANGED <<fleetVars, jobVars, outVars, ckpt, failures>>

-----------------------------------------------------------------------------
(* open() and fetch_active_trips_sync: one request per status, the second   *)
(* overwriting the first.                                                   *)

InStatus(s) == {t \in Trips : trips[t].status = s}

\* A refused request (`continue') finds nothing.
FetchEnRoute ==
    /\ phase = "opening"
    /\ phase' = "fetching"
    /\ boot' \in InStatus("EN_ROUTE") \union {NoTrip}
    /\ UNCHANGED <<fleetVars, raw, state, posL, posR, outVars, ckpt, failures>>

FetchIncidents ==
    /\ phase = "fetching"
    /\ phase' = "open"
    /\ boot' \in InStatus("INCIDENT_REPORTED") \union {boot}
    /\ UNCHANGED <<fleetVars, raw, state, posL, posR, outVars, ckpt, failures>>

\* An exception in any request, or no schedules: the map stays empty.
FetchFails ==
    /\ phase \in {"opening", "fetching"}
    /\ phase' = "open"
    /\ boot' = NoTrip
    /\ UNCHANGED <<fleetVars, raw, state, posL, posR, outVars, ckpt, failures>>

-----------------------------------------------------------------------------
(* process_element.                                                         *)

\* The keyed state after a lifecycle event.  An end of any trip clears the
\* active one.
Applied(e) ==
    CASE e.event = "TRIP_STARTED" ->
            [state EXCEPT !.trip = e.trip, !.status = "ACTIVE",
                          !.known = @ \union {e.trip}]
      [] e.event = "TRIP_ENDED" ->
            [state EXCEPT !.trip = NoTrip, !.status = "INACTIVE",
                          !.known = @ \ {e.trip}]
      [] OTHER -> state

\* Mutant of BootAfter: an end leaves the map alone.
BootAfter_endKeeps(e) == IF e.event = "TRIP_STARTED" THEN e.trip ELSE boot

BootAfter(e) ==
    CASE e.event = "TRIP_STARTED" -> e.trip
      [] e.event = "TRIP_ENDED"   -> NoTrip
      [] OTHER -> boot

ProcessLifecycle ==
    /\ phase = "open" /\ posL < Len(log)
    /\ posL' = posL + 1
    /\ state' = Applied(log[posL + 1])
    /\ boot' = BootAfter(log[posL + 1])
    /\ UNCHANGED <<fleetVars, raw, phase, posR, outVars, ckpt, failures>>

Or(a, b) == IF a # NoTrip THEN a ELSE b

TripOf(carried) == Or(carried, Or(state.trip, boot))

\* The bus's own route comes before the route of the position's trip.
RouteOf(carried) ==
    Or(Or(state.trip, boot),
       IF TripOf(carried) \in state.known THEN TripOf(carried) ELSE NoTrip)

StatusOf(carried) ==
    CASE state.status # "none" -> state.status
      [] state.status = "none" /\ boot # NoTrip -> "ACTIVE"
      [] OTHER -> IF RouteOf(carried) # NoTrip THEN "ACTIVE" ELSE "INACTIVE"

Enriched(i) == [id     |-> i,
                trip   |-> TripOf(raw[i].trip),
                route  |-> RouteOf(raw[i].trip),
                status |-> StatusOf(raw[i].trip)]

\* Mutant of IsLate: a position of the same time is not late.
IsLate_before(p) == p.ts < state.last

IsLate(p) == p.ts <= state.last

\* The next raw position is p.
NextPosition(p) ==
    /\ phase = "open" /\ posR < Len(raw)
    /\ p = raw[posR + 1]
    /\ posR' = posR + 1
    /\ UNCHANGED <<fleetVars, raw, phase, boot, posL, topic, ckpt, failures>>

\* classify_raw_telemetry: the impossible goes to telemetry-invalid.
DivertInvalid(p) ==
    /\ p.kind = "bad"
    /\ NextPosition(p)
    /\ sink' = [sink EXCEPT !["invalid"] = Append(@, [id |-> posR + 1])]
    /\ UNCHANGED <<state, redis>>

DropLate(p) ==
    /\ p.kind # "bad" /\ IsLate(p)
    /\ NextPosition(p)
    /\ UNCHANGED <<state, sink, redis>>

\* Numbers in quotes pass both services' float(), but not the comparison in
\* resolve_segment_mode: its exception is logged.  last_timestamp has moved.
RaiseOnText(p) ==
    /\ p.kind = "text" /\ ~IsLate(p)
    /\ NextPosition(p)
    /\ state' = [state EXCEPT !.last = p.ts]
    /\ UNCHANGED <<sink, redis>>

\* RedisSinkFunction.map is called in the same chain of operators, and
\* survives Redis's exceptions.
EnrichPosition(p) ==
    /\ p.kind = "good" /\ ~IsLate(p)
    /\ NextPosition(p)
    /\ state' = [state EXCEPT !.last = p.ts]
    /\ sink' = [sink EXCEPT !["cleaned"]  = Append(@, Enriched(posR + 1)),
                            !["features"] = Append(@, Enriched(posR + 1))]
    /\ redis' \in {Enriched(posR + 1)}
                     \union (IF RedisFails THEN {redis} ELSE {})

ProcessPosition ==
    \E p \in Position : \/ DivertInvalid(p) \/ DropLate(p)
                        \/ RaiseOnText(p)   \/ EnrichPosition(p)

-----------------------------------------------------------------------------
(* The Kafka sinks and Flink's checkpoints (external).                      *)

SinkSends(k) ==
    /\ sink[k] # <<>>
    /\ topic' = [topic EXCEPT ![k] = Append(@, Head(sink[k]))]
    /\ sink' = [sink EXCEPT ![k] = Tail(@)]
    /\ UNCHANGED <<fleetVars, raw, jobVars, redis, ckpt, failures>>

\* Mutant of Checkpoint: DeliveryGuarantee.NONE, the sinks are not flushed.
Checkpoint_noFlush ==
    /\ phase = "open"
    /\ ckpt' = [state |-> state, posL |-> posL, posR |-> posR]
    /\ UNCHANGED <<fleetVars, raw, jobVars, outVars, failures>>

\* At least once: a checkpoint completes when every sink has been flushed.
Checkpoint ==
    /\ phase = "open"
    /\ \A k \in Sinks : sink[k] = <<>>
    /\ ckpt' = [state |-> state, posL |-> posL, posR |-> posR]
    /\ UNCHANGED <<fleetVars, raw, jobVars, outVars, failures>>

\* Mutant of RunFrom: the read positions are restored, the state is not.
RunFrom_stateless(c) ==
    /\ failures < MaxFailures
    /\ failures' = failures + 1
    /\ phase' = "opening"
    /\ boot' = NoTrip
    /\ state' = EmptyState
    /\ posL' = c.posL
    /\ posR' = c.posR
    /\ sink' = [k \in Sinks |-> <<>>]
    /\ ckpt' = c
    /\ UNCHANGED <<fleetVars, raw, topic, redis>>

\* The operators are created anew; their state is that of c.
RunFrom(c) ==
    /\ failures < MaxFailures
    /\ failures' = failures + 1
    /\ phase' = "opening"
    /\ boot' = NoTrip
    /\ state' = c.state
    /\ posL' = c.posL
    /\ posR' = c.posR
    /\ sink' = [k \in Sinks |-> <<>>]
    /\ ckpt' = c
    /\ UNCHANGED <<fleetVars, raw, topic, redis>>

\* A task fails and Flink restarts the job from its checkpoint.
Fail == RunFrom(ckpt)

\* The cluster is redeployed and the job submitted again.
Resubmit == RunFrom(Fresh)

FleetStep ==
    \/ \E t \in Trips : StartTrip(t) \/ EndTrip(t) \/ ReportIncident(t)
    \/ \E e \in unpublished : Publish(e)

OpenStep == FetchEnRoute \/ FetchIncidents \/ FetchFails

Next ==
    \/ FleetStep
    \/ \E p \in Position : Report(p)
    \/ OpenStep
    \/ ProcessLifecycle
    \/ ProcessPosition
    \/ \E k \in Sinks : SinkSends(k)
    \/ Checkpoint
    \/ Fail \/ Resubmit

Spec == Init /\ [][Next]_vars

\* The job opens, reads both sources and sends what its sinks hold.
FairSpec ==
    /\ Spec
    /\ WF_vars(OpenStep)
    /\ WF_vars(ProcessLifecycle)
    /\ WF_vars(ProcessPosition)
    /\ \A k \in Sinks : WF_vars(SinkSends(k))

-----------------------------------------------------------------------------
(* Properties.                                                              *)

SeqRange(s) == {s[i] : i \in DOMAIN s}
Ids(k) == {m.id : m \in SeqRange(topic[k])}
Pending(k) == {m.id : m \in SeqRange(sink[k])}

\* Every variable keeps to its type.
TypeOK ==
    /\ trips \in [Trips -> Row]
    /\ incidents \in 0 .. MaxIncidents
    /\ unpublished \subseteq Event
    /\ log \in Seq(Event)
    /\ raw \in Seq(Position) /\ Len(raw) <= MaxPositions
    /\ phase \in {"opening", "fetching", "open"}
    /\ boot \in Trips \union {NoTrip}
    /\ state \in KeyedState
    /\ posL \in 0 .. Len(log)
    /\ posR \in 0 .. Len(raw)
    /\ sink \in [Sinks -> Seq(Record \union Diverted)]
    /\ topic \in [Sinks -> Seq(Record \union Diverted)]
    /\ redis \in Record \union {NoRecord}
    /\ ckpt \in [state : KeyedState, posL : 0 .. Len(log),
                 posR : 0 .. Len(raw)]
    /\ failures \in 0 .. MaxFailures

\* Position i obeys physics, is well written, and is newer than every
\* plausible position before it.
Accepted(i) ==
    /\ raw[i].kind = "good"
    /\ \A j \in 1 .. (i - 1) : raw[j].kind # "bad" => raw[j].ts < raw[i].ts

\* The last of the first p events of the log that opens or closes a trip.
Turns(p) == {i \in 1 .. p : log[i].event # "INCIDENT_REPORTED"}
IsLast(i, p) == i \in Turns(p) /\ \A j \in Turns(p) : j <= i

\* State s is what the first p events of the log make of it: the trip of the
\* last event if that is a start, and the trips started and not ended since.
Follows(s, p) ==
    /\ \A t \in Trips :
          s.trip = t <=> \E i \in 1 .. p :
              IsLast(i, p) /\ log[i] = [event |-> "TRIP_STARTED", trip |-> t]
    /\ s.status = "none" <=> Turns(p) = {}
    /\ s.status = "ACTIVE" <=> s.trip # NoTrip
    /\ \A t \in Trips :
          t \in s.known <=> \E i \in 1 .. p :
              /\ log[i] = [event |-> "TRIP_STARTED", trip |-> t]
              /\ \A j \in (i + 1) .. p :
                    log[j] # [event |-> "TRIP_ENDED", trip |-> t]

\* Through failures, new submissions and whatever the bootstrap map says, the
\* keyed state is what the lifecycle events read so far make of it, and the
\* checkpoint's is what those read at the checkpoint do.
StateFollowsLifecycle ==
    Follows(state, posL) /\ Follows(ckpt.state, ckpt.posL)

\* The trips of this bus follow one another on the log.
Orderly ==
    /\ \A i \in DOMAIN log : log[i].event = "TRIP_STARTED" =>
          \A j \in Turns(i - 1) : IsLast(j, i - 1) =>
              log[j].event = "TRIP_ENDED"
    /\ \A i \in DOMAIN log : log[i].event = "TRIP_ENDED" =>
          \E j \in Turns(i - 1) : IsLast(j, i - 1) /\
              log[j] = [event |-> "TRIP_STARTED", trip |-> log[i].trip]

Running == {t \in Trips : trips[t].started /\ ~trips[t].ended}

\* Where trips follow one another and no incident is reported of one that does
\* not run, a job that has read all there is to read gives a position the trip
\* the database says the bus is on, and the status that goes with it: what a
\* failure restored and what the bootstrap loaded cannot disagree for long.
CaughtUpAgrees ==
    (/\ phase = "open" /\ posL = Len(log) /\ unpublished = {}
     /\ Orderly
     /\ \A t \in InStatus("INCIDENT_REPORTED") : t \in Running)
        => \/ Running = {TripOf(NoTrip)} /\ StatusOf(NoTrip) = "ACTIVE"
           \/ Running = {} /\ TripOf(NoTrip) = NoTrip
                           /\ StatusOf(NoTrip) = "INACTIVE"

\* What a checkpoint has counted as processed has reached its topics: a failure
\* after it loses nothing that was accepted, and nothing diverted.
NothingLost ==
    \A i \in 1 .. ckpt.posR :
        /\ Accepted(i) => i \in Ids("cleaned") /\ i \in Ids("features")
        /\ raw[i].kind = "bad" => i \in Ids("invalid")

\* A late or repeated position reaches neither ETA nor Anomaly, not even when
\* it is processed again after a failure.
LateNeverCleaned ==
    \A i \in Ids("cleaned") \union Ids("features") : Accepted(i)

\* With everything read, and Redis answering, the snapshot of the bus is its
\* newest accepted position, whatever was replayed on the way.
SnapshotIsNewest ==
    (posR = Len(raw) /\ ~RedisFails)
        => IF \E i \in DOMAIN raw : Accepted(i)
           THEN /\ redis # NoRecord /\ Accepted(redis.id)
                /\ \A i \in DOMAIN raw : Accepted(i) => i <= redis.id
           ELSE redis = NoRecord

\* Every accepted position reaches the cleaned topic, if failures end.
EventuallyCleaned ==
    \A i \in 1 .. MaxPositions :
        (i <= Len(raw) /\ Accepted(i)) ~> i \in Ids("cleaned")

\* Why the delivery properties hold: last_timestamp is the newest plausible
\* time among the positions read, ...
NewestOf(s, p) ==
    /\ \A j \in 1 .. p : raw[j].kind # "bad" => raw[j].ts <= s.last
    /\ s.last # 0 =>
          \E j \in 1 .. p : raw[j].kind # "bad" /\ raw[j].ts = s.last
LastIsNewest == NewestOf(state, posR) /\ NewestOf(ckpt.state, ckpt.posR)

\* ... and what has been read and has to go to a topic is there or in its
\* sink, and nothing else is in the two sinks of enriched positions.
OnItsWay ==
    /\ \A i \in 1 .. posR :
          /\ Accepted(i) => \A k \in {"cleaned", "features"} :
                                i \in Ids(k) \union Pending(k)
          /\ raw[i].kind = "bad" =>
                i \in Ids("invalid") \union Pending("invalid")
    /\ \A k \in {"cleaned", "features"} :
          \A i \in Pending(k) \union Ids(k) : i <= Len(raw) /\ Accepted(i)

DeliveryInv == TypeOK /\ LastIsNewest /\ OnItsWay /\ NothingLost

\* Why the snapshot is: what Redis holds was accepted, and is no older than
\* any position read; the checkpoint is behind.
RedisFollows ==
    /\ ckpt.posR <= posR
    /\ redis # NoRecord => redis.id \in 1 .. Len(raw) /\ Accepted(redis.id)
    /\ ~RedisFails => \A i \in 1 .. posR : Accepted(i) => i <= redis.id

\* Why the job agrees with the database once it has caught up: a trip starts
\* once, and what is started or ended in the database has its event on the log
\* or unpublished, ...
Started(t) == [event |-> "TRIP_STARTED", trip |-> t]
Ended(t)   == [event |-> "TRIP_ENDED", trip |-> t]
FleetPublishes ==
    \A t \in Trips :
        /\ trips[t].status = "WAITING_AT_DEPOT" =>
              ~trips[t].started /\ ~trips[t].ended
        /\ trips[t].status = "EN_ROUTE" => trips[t].started /\ ~trips[t].ended
        /\ trips[t].status = "ARRIVED_DESTINATION" => trips[t].ended
        /\ trips[t].started <=> Started(t) \in unpublished \union SeqRange(log)
        /\ trips[t].ended <=> Ended(t) \in unpublished \union SeqRange(log)
        /\ Started(t) \notin unpublished \intersect SeqRange(log)
        /\ \A i, j \in DOMAIN log :
              log[i] = Started(t) /\ log[j] = Started(t) => i = j

\* ... where trips follow one another, the one that is started and not ended
\* is that of the log's last turn, ...
LastTurnRuns ==
    Orderly => \A t \in Trips :
        (Started(t) \in SeqRange(log) /\ Ended(t) \notin SeqRange(log))
            <=> \E i \in Turns(Len(log)) :
                   IsLast(i, Len(log)) /\ log[i] = Started(t)

\* ... and what the bootstrap map says is so, or its end is still to be read.
BootWillEnd ==
    (boot # NoTrip /\ Orderly) =>
        \/ trips[boot].status \in {"EN_ROUTE", "INCIDENT_REPORTED"}
        \/ Ended(boot) \in unpublished
        \/ \E i \in (posL + 1) .. Len(log) : log[i] = Ended(boot)

=============================================================================
