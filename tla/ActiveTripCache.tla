-------------------------- MODULE ActiveTripCache --------------------------
(***************************************************************************)
(* The active-trip cache of the ingestion service and the thread that      *)
(* fills it (services/ingestion/app/trip_lifecycle_cache.py).              *)
(*                                                                         *)
(* The thread replays trip.lifecycle from its beginning until no message   *)
(* has come for the rebuild timeout, declares the cache ready, and goes on *)
(* polling.  Other threads look the cache up at any moment, and the main   *)
(* thread may stop the consumer at any moment.  Every operation on the     *)
(* cache takes its lock, so each is one step here.                         *)
(*                                                                         *)
(* The log is the one partition of the topic; it is written by the fleet   *)
(* service, of which this module assumes nothing: any event may come.      *)
(***************************************************************************)
EXTENDS Naturals, Sequences

CONSTANTS
    Buses, Trips, NoTrip,
    Stalls,       \* may the broker be silent for a whole rebuild timeout
                  \* although the log holds more?
    MaxLog,       \* bound: events on the log
    MaxRestarts   \* bound: restarts of the ingestion process

ASSUME CacheAssumption ==
    /\ NoTrip \notin Trips
    /\ Stalls \in BOOLEAN
    /\ MaxLog \in Nat
    /\ MaxRestarts \in Nat

VARIABLES
    log,        \* the trip.lifecycle topic
    active,     \* ActiveTripCache._active_trips: bus -> trip
    status,     \* ActiveTripCache._status
    pos,        \* events of the log the consumer has been given
    thread,     \* where TripLifecycleConsumer._run is
    main,       \* how far the main thread is with TripLifecycleConsumer.stop
    target,     \* history: length of the log when this process started
    restarts

cacheVars == <<log, active, status, pos, thread, main, target, restarts>>

-----------------------------------------------------------------------------
Event == [event : {"TRIP_STARTED", "TRIP_ENDED", "INCIDENT_REPORTED"},
          bus : Buses, trip : Trips]
\* What decode_trip_lifecycle_event refuses.
Undecodable == [event |-> "INVALID"]

TripCacheStatus == {"rebuilding", "ready", "degraded", "stopped"}
ThreadSteps == {"create", "rewind", "rebuild", "mark_ready", "poll", "ended"}

\* _stop_event is set.
stopping == main # "running"

is_ready      == status = "ready"
is_rebuilding == status = "rebuilding"

get_active_trip(b) == active[b]

Init ==
    /\ log = <<>>
    /\ active = [b \in Buses |-> NoTrip]
    /\ status = "rebuilding"
    /\ pos = 0
    /\ thread = "create"
    /\ main = "running"
    /\ target = 0
    /\ restarts = 0

\* The fleet service publishes (external).
Publish(e) ==
    /\ Len(log) < MaxLog
    /\ log' = Append(log, e)
    /\ UNCHANGED <<active, status, pos, thread, main, target, restarts>>

-----------------------------------------------------------------------------
\* Mutant of ActiveTrips: TRIP_ENDED without the comparison of the trips.
ActiveTrips_anyTripEnds(e) ==
    CASE e.event = "TRIP_STARTED" -> [active EXCEPT ![e.bus] = e.trip]
      [] e.event = "TRIP_ENDED"   -> [active EXCEPT ![e.bus] = NoTrip]
      [] OTHER -> active

\* apply_event: a start overwrites the bus's entry; an end deletes it only if
\* it is of the same trip; an incident changes nothing.
ActiveTrips(e) ==
    CASE e.event = "TRIP_STARTED" -> [active EXCEPT ![e.bus] = e.trip]
      [] e.event = "TRIP_ENDED" /\ active[e.bus] = e.trip ->
            [active EXCEPT ![e.bus] = NoTrip]
      [] OTHER -> active

\* _apply_raw_event on the next event of the log.
ApplyNext ==
    /\ pos < Len(log)
    /\ pos' = pos + 1
    /\ active' = IF log[pos + 1] = Undecodable THEN active
                 ELSE ActiveTrips(log[pos + 1])

CreateConsumer ==
    /\ thread = "create"
    /\ thread' = "rewind"
    /\ UNCHANGED <<log, active, status, pos, main, target, restarts>>

\* Seek to the beginning, or, when the topic has no partitions yet, subscribe
\* with auto_offset_reset="earliest" and no committed offset: the same place.
PrepareRebuildOffsets ==
    /\ thread = "rewind"
    /\ pos' = 0
    /\ thread' = "rebuild"
    /\ UNCHANGED <<log, active, status, main, target, restarts>>

RebuildStep ==
    /\ thread = "rebuild"
    /\ ApplyNext
    /\ thread' = IF stopping THEN "mark_ready" ELSE "rebuild"
    /\ UNCHANGED <<log, status, main, target, restarts>>

\* Mutant of RebuildEnds: the window closes although messages keep coming.
RebuildEnds_early ==
    /\ thread = "rebuild"
    /\ thread' = "mark_ready"
    /\ UNCHANGED <<log, active, status, pos, main, target, restarts>>

\* Mutant of RebuildEnds: no consumer_timeout_ms.
RebuildEnds_noTimeout ==
    /\ thread = "rebuild" /\ stopping
    /\ thread' = "mark_ready"
    /\ UNCHANGED <<log, active, status, pos, main, target, restarts>>

\* The iterator ends: nothing came for the rebuild timeout.
RebuildEnds ==
    /\ thread = "rebuild"
    /\ pos = Len(log) \/ Stalls
    /\ thread' = "mark_ready"
    /\ UNCHANGED <<log, active, status, pos, main, target, restarts>>

MarkReady ==
    /\ thread = "mark_ready"
    /\ status' = "ready"
    /\ thread' = "poll"
    /\ UNCHANGED <<log, active, pos, main, target, restarts>>

\* One event of a polled batch; _stop_event is looked at between batches only.
PollStep ==
    /\ thread = "poll"
    /\ ApplyNext
    /\ UNCHANGED <<log, status, thread, main, target, restarts>>

PollEnds ==
    /\ thread = "poll" /\ stopping
    /\ thread' = "ended"
    /\ UNCHANGED <<log, active, status, pos, main, target, restarts>>

\* Any exception in _run: the broker cannot be reached, or stop() has closed
\* the consumer under the thread.
ConsumerFails ==
    /\ thread \in {"create", "rewind", "rebuild", "poll"}
    /\ thread' = "ended"
    /\ status' = "degraded"
    /\ UNCHANGED <<log, active, pos, main, target, restarts>>

-----------------------------------------------------------------------------
\* stop(): the event and the consumer's close first, the status last; the
\* thread runs in between, and after.
StopRequest ==
    /\ main = "running"
    /\ main' = "stopping"
    /\ UNCHANGED <<log, active, status, pos, thread, target, restarts>>

MarkStopped ==
    /\ main = "stopping"
    /\ main' = "stopped"
    /\ status' = "stopped"
    /\ UNCHANGED <<log, active, pos, thread, target, restarts>>

\* The process is started anew, after a stop or a crash.
Restart ==
    /\ restarts < MaxRestarts
    /\ restarts' = restarts + 1
    /\ active' = [b \in Buses |-> NoTrip]
    /\ status' = "rebuilding"
    /\ pos' = 0
    /\ thread' = "create"
    /\ main' = "running"
    /\ target' = Len(log)
    /\ UNCHANGED log

ThreadStep ==
    \/ CreateConsumer \/ PrepareRebuildOffsets
    \/ RebuildStep \/ RebuildEnds \/ MarkReady
    \/ PollStep \/ PollEnds

Next ==
    \/ \E e \in Event \union {Undecodable} : Publish(e)
    \/ ThreadStep
    \/ ConsumerFails
    \/ StopRequest \/ MarkStopped
    \/ Restart

Spec == Init /\ [][Next]_cacheVars

\* The thread runs; the rebuild timeout fires once the topic is silent.
FairSpec == Spec /\ WF_cacheVars(ThreadStep)

-----------------------------------------------------------------------------
(* Properties.                                                              *)

\* Every variable keeps to its type.
TypeOK ==
    /\ log \in Seq(Event \union {Undecodable})
    /\ active \in [Buses -> Trips \union {NoTrip}]
    /\ status \in TripCacheStatus
    /\ pos \in 0 .. Len(log)
    /\ thread \in ThreadSteps
    /\ main \in {"running", "stopping", "stopped"}
    /\ target \in 0 .. Len(log)
    /\ restarts \in 0 .. MaxRestarts

\* Trip t was started on bus b in the first p events of the log, and neither
\* its end on that bus nor another start of that bus followed.
ActiveAfter(p, b, t) ==
    \E i \in 1 .. p :
        /\ log[i] = [event |-> "TRIP_STARTED", bus |-> b, trip |-> t]
        /\ \A j \in (i + 1) .. p :
              /\ \A u \in Trips :
                    log[j] # [event |-> "TRIP_STARTED", bus |-> b, trip |-> u]
              /\ log[j] # [event |-> "TRIP_ENDED", bus |-> b, trip |-> t]

\* Whenever a GPS message looks the cache up, rebuilding, polling, degraded or
\* restarted, it finds what the events consumed so far say, no more, no less.
CacheFollowsLog ==
    \A b \in Buses, t \in Trips : active[b] = t <=> ActiveAfter(pos, b, t)

\* The cache is never ready before it has replayed what was on the log when
\* the process started: no trip begun before a restart is taken for inactive.
\* (Where the broker keeps answering.)
ReadyHasHistory ==
    (~Stalls /\ is_ready /\ main = "running") => pos >= target

\* Why the two hold: until the consumer has rewound it has consumed nothing,
\* and a replay that ended by itself has reached what was on the log.
NothingConsumed == thread \in {"create", "rewind"} => pos = 0 /\ ~is_ready

ReplayComplete ==
    (~Stalls /\ main = "running" /\ (thread = "mark_ready" \/ is_ready))
        => pos >= target

CacheInv ==
    /\ TypeOK
    /\ NothingConsumed
    /\ ReplayComplete
    /\ CacheFollowsLog

\* Startup ends: the cache gets ready unless the consumer fails or is stopped.
\* MaxLog stands for the pause in the topic that the rebuild waits for.
EventuallyReady == [](is_rebuilding => <>(~is_rebuilding))

=============================================================================
