----------------------------- MODULE Ingestion -----------------------------
(***************************************************************************)
(* The stateful ingestion service: the MQTT callback thread                *)
(* (services/ingestion/app/mqtt_subscriber.py) beside the thread of        *)
(* ActiveTripCache.  on_message handles one message at a time, but it asks *)
(* for the state of the cache several times on the way, and each time the  *)
(* other thread may have moved it on.                                      *)
(*                                                                         *)
(* A GPS message is its arrival number, its bus, its event time, and       *)
(* whether its payload is well formed.  Event times stand for seconds: two *)
(* different ones are a minimum event interval apart.  The clock window of *)
(* the validator is left out, as are the metrics and the MQTT connection.  *)
(***************************************************************************)
EXTENDS ActiveTripCache, FiniteSets

CONSTANTS
    Times,       \* event times of GPS messages: 1 .. n
    MaxBuffer,   \* startup_buffer_max_messages
    MaxMessages  \* bound: GPS messages received

ASSUME IngestionAssumption ==
    /\ Times \subseteq Nat \ {0}
    /\ MaxBuffer \in Nat
    /\ MaxMessages \in Nat

VARIABLES
    received,  \* GPS messages received
    buffer,    \* MQTTSubscriber.startup_buffer
    step,      \* where on_message is
    cur,       \* the message on_message was called with, or NoMsg
    item,      \* the message _process_payload works on, or NoMsg
    last,      \* StatefulValidator._bus_state: bus -> last_timestamp, 0: none
    raw,       \* transport-telemetry-raw
    dlq        \* transport-telemetry-dlq

subVars == <<received, buffer, step, cur, item, last, raw, dlq>>
vars    == <<cacheVars, subVars>>

-----------------------------------------------------------------------------
NoMsg     == [kind |-> "none"]
Heartbeat == [kind |-> "heartbeat"]
GPS == [kind : {"gps"}, id : 1 .. MaxMessages, bus : Buses, ts : Times,
        valid : BOOLEAN,
        at : 0 .. MaxLog]    \* history: pos when the message arrived

Reasons == {"SCHEMA_VALIDATION", "TRIP_CACHE_REBUILDING", "INACTIVE_TRIP",
            "OUT_OF_SEQUENCE"}

IngestionInit ==
    /\ Init
    /\ received = 0
    /\ buffer = <<>>
    /\ step = "idle"
    /\ cur = NoMsg
    /\ item = NoMsg
    /\ last = [b \in Buses |-> 0]
    /\ raw = <<>>
    /\ dlq = <<>>

-----------------------------------------------------------------------------
\* The broker hands the next message to on_message.
ReceiveGPS(b, ts, ok) ==
    /\ step = "idle" /\ main = "running"
    /\ received < MaxMessages
    /\ received' = received + 1
    /\ cur' = [kind |-> "gps", id |-> received + 1, bus |-> b, ts |-> ts,
               valid |-> ok, at |-> pos]
    /\ step' = "check"
    /\ UNCHANGED <<cacheVars, buffer, item, last, raw, dlq>>

\* Mutant of ReceiveHeartbeat: heartbeats are handled before the buffer is
\* looked at.
ReceiveHeartbeat_first ==
    /\ step = "idle" /\ main = "running"
    /\ UNCHANGED vars

ReceiveHeartbeat ==
    /\ step = "idle" /\ main = "running"
    /\ cur' = Heartbeat
    /\ step' = "check"
    /\ UNCHANGED <<cacheVars, received, buffer, item, last, raw, dlq>>

\* Mutant of CheckReady: only heartbeats drain the buffer.
CheckReady_heartbeatOnly ==
    /\ step = "check"
    /\ step' = IF is_ready /\ cur = Heartbeat THEN "drain" ELSE "own"
    /\ UNCHANGED <<cacheVars, received, buffer, cur, item, last, raw, dlq>>

\* on_message's first look at the cache.
CheckReady ==
    /\ step = "check"
    /\ step' = IF is_ready THEN "drain" ELSE "own"
    /\ UNCHANGED <<cacheVars, received, buffer, cur, item, last, raw, dlq>>

\* drain_startup_buffer looks again before every message.
DrainNext ==
    /\ step = "drain" /\ is_ready /\ buffer # <<>>
    /\ item' = Head(buffer)
    /\ buffer' = Tail(buffer)
    /\ step' = "process"
    /\ UNCHANGED <<cacheVars, received, cur, last, raw, dlq>>

DrainEnds ==
    /\ step = "drain" /\ (~is_ready \/ buffer = <<>>)
    /\ step' = "own"
    /\ UNCHANGED <<cacheVars, received, buffer, cur, item, last, raw, dlq>>

\* The message itself, after the buffer: a heartbeat goes to the metrics.
OwnMessage ==
    /\ step = "own"
    /\ cur' = NoMsg
    /\ \/ /\ cur.kind = "heartbeat"
          /\ item' = item
          /\ step' = "idle"
       \/ /\ cur.kind = "gps"
          /\ item' = cur
          /\ step' = "process"
    /\ UNCHANGED <<cacheVars, received, buffer, last, raw, dlq>>

-----------------------------------------------------------------------------
(* _process_payload on item.                                                *)

\* Back to the drain loop, or out of on_message.
Return ==
    /\ item' = NoMsg
    /\ step' = IF cur = NoMsg THEN "idle" ELSE "drain"

Reject(reason) ==
    /\ dlq' = Append(dlq, [id |-> item.id, reason |-> reason])
    /\ Return

RejectInvalid ==
    /\ step = "process" /\ ~item.valid
    /\ Reject("SCHEMA_VALIDATION")
    /\ UNCHANGED <<cacheVars, received, buffer, cur, last, raw>>

\* Mutant of BufferUntilReady: a full deque drops its oldest message.
BufferUntilReady_deque ==
    /\ step = "process" /\ item.valid /\ is_rebuilding
    /\ buffer' = IF Len(buffer) < MaxBuffer THEN Append(buffer, item)
                 ELSE Tail(Append(buffer, item))
    /\ dlq' = dlq
    /\ Return
    /\ UNCHANGED <<cacheVars, received, cur, last, raw>>

\* The second look: a message that finds the cache rebuilding waits, or is
\* refused when the buffer is full.
BufferUntilReady ==
    /\ step = "process" /\ item.valid /\ is_rebuilding
    /\ \/ /\ Len(buffer) < MaxBuffer
          /\ buffer' = Append(buffer, item)
          /\ dlq' = dlq
          /\ Return
       \/ /\ Len(buffer) = MaxBuffer
          /\ buffer' = buffer
          /\ Reject("TRIP_CACHE_REBUILDING")
    /\ UNCHANGED <<cacheVars, received, cur, last, raw>>

\* Mutant of PassOn: the rebuilding cache is not waited for.
PassOn_anyStatus ==
    /\ step = "process" /\ item.valid
    /\ step' = "enrich"
    /\ UNCHANGED <<cacheVars, received, buffer, cur, item, last, raw, dlq>>

PassOn ==
    /\ step = "process" /\ item.valid /\ ~is_rebuilding
    /\ step' = "enrich"
    /\ UNCHANGED <<cacheVars, received, buffer, cur, item, last, raw, dlq>>

\* StatefulValidator.validate: the first message of a bus is accepted, a later
\* one if its event time is a minimum interval after the last accepted one.
InSequence(b, ts) == last[b] = 0 \/ ts > last[b]

\* The third look: get_active_trip.  Nothing after it asks the cache again.
\* The record is handed to a producer that sends it later, and nobody waits for
\* the outcome: raw and dlq hold what was handed over, in that order.
Enrich ==
    LET trip == get_active_trip(item.bus) IN
    /\ step = "enrich"
    /\ \/ /\ trip = NoTrip
          /\ Reject("INACTIVE_TRIP")
          /\ UNCHANGED <<last, raw>>
       \/ /\ trip # NoTrip /\ ~InSequence(item.bus, item.ts)
          /\ Reject("OUT_OF_SEQUENCE")
          /\ UNCHANGED <<last, raw>>
       \/ /\ trip # NoTrip /\ InSequence(item.bus, item.ts)
          /\ last' = [last EXCEPT ![item.bus] = item.ts]
          /\ raw' = Append(raw,
                           [id |-> item.id, bus |-> item.bus, trip |-> trip,
                            ts |-> item.ts, at |-> item.at, by |-> pos])
          /\ dlq' = dlq
          /\ Return
    /\ UNCHANGED <<cacheVars, received, buffer, cur>>

-----------------------------------------------------------------------------
\* A new process: clean MQTT session, empty buffer, empty validator.
IngestionRestart ==
    /\ Restart
    /\ buffer' = <<>>
    /\ step' = "idle"
    /\ cur' = NoMsg
    /\ item' = NoMsg
    /\ last' = [b \in Buses |-> 0]
    /\ UNCHANGED <<received, raw, dlq>>

\* The signal handler runs on this thread: on_message does not outlive it.
MqttStep ==
    /\ main = "running"
    /\ \/ CheckReady \/ DrainNext \/ DrainEnds \/ OwnMessage
       \/ RejectInvalid \/ BufferUntilReady \/ PassOn \/ Enrich

CacheStep ==
    /\ \/ \E e \in Event \union {Undecodable} : Publish(e)
       \/ ThreadStep \/ ConsumerFails
       \/ StopRequest \/ MarkStopped
    /\ UNCHANGED subVars

IngestionNext ==
    \/ \E b \in Buses, ts \in Times, ok \in BOOLEAN : ReceiveGPS(b, ts, ok)
    \/ ReceiveHeartbeat
    \/ MqttStep
    \/ CacheStep
    \/ IngestionRestart

IngestionSpec == IngestionInit /\ [][IngestionNext]_vars

\* Both threads run, and devices go on sending their periodic heartbeats.
IngestionFairSpec ==
    /\ IngestionSpec
    /\ WF_vars(ThreadStep /\ UNCHANGED subVars)
    /\ WF_vars(MqttStep)
    /\ WF_vars(ReceiveHeartbeat)

-----------------------------------------------------------------------------
(* Properties.                                                              *)

SeqRange(s) == {s[i] : i \in DOMAIN s}

\* A record of transport-telemetry-raw, and one of transport-telemetry-dlq.
Enriched == [id : 1 .. MaxMessages, bus : Buses, trip : Trips, ts : Times,
             at : 0 .. MaxLog, by : 0 .. MaxLog]
Rejected == [id : 1 .. MaxMessages, reason : Reasons]

\* Every variable keeps to its type, and the startup buffer to its limit.
IngestionTypeOK ==
    /\ TypeOK /\ Len(log) <= MaxLog
    /\ received \in 0 .. MaxMessages
    /\ buffer \in Seq(GPS) /\ Len(buffer) <= MaxBuffer
    /\ step \in {"idle", "check", "drain", "own", "process", "enrich"}
    /\ cur \in GPS \union {NoMsg, Heartbeat}
    /\ item \in GPS \union {NoMsg}
    /\ last \in [Buses -> Times \union {0}]
    /\ raw \in Seq(Enriched)
    /\ dlq \in Seq(Rejected)

\* The places where message k is now.
Places(k) ==
    LET here(s) == {i \in DOMAIN s : s[i].id = k} IN
    Cardinality(here(raw)) + Cardinality(here(dlq)) + Cardinality(here(buffer))
      + (IF cur.kind = "gps" /\ cur.id = k THEN 1 ELSE 0)
      + (IF item.kind = "gps" /\ item.id = k THEN 1 ELSE 0)

\* A GPS message is published, refused, buffered or being worked on, never two
\* of these; and unless the process is restarted never none of them, whatever
\* the cache does between the looks on_message takes at it.
EveryMessageAccounted ==
    \A k \in 1 .. received : /\ Places(k) <= 1
                             /\ restarts = 0 => Places(k) = 1

\* A message is refused for want of an active trip only by a cache that has
\* replayed all the log held when the process started, or whose consumer died:
\* this is what the startup buffer is for.  Not so where the broker may be
\* silent for a whole rebuild timeout (Stalls): the cache is then ready with
\* less than the log, and refuses what it has not read of.
InactiveOnlyAfterReplay ==
    [][\A r \in SeqRange(dlq') \ SeqRange(dlq) :
          (r.reason = "INACTIVE_TRIP" /\ ~Stalls)
              => pos >= target \/ status = "degraded"]_vars

\* The messages that were looked up in the cache.
LookedUp ==
    SeqRange(raw) \union
        {r \in SeqRange(dlq) : r.reason \in {"INACTIVE_TRIP",
                                            "OUT_OF_SEQUENCE"}}

\* Those that were although an older one was still buffered.
Overtakers ==
    {m \in LookedUp : \E i \in DOMAIN buffer : buffer[i].id < m.id}

\* The cache may turn ready between on_message's look before the drain and the
\* one after it, so a message can overtake the buffer: at most one message can.
OneOvertaker ==
    (main = "running" /\ status # "degraded") => Cardinality(Overtakers) <= 1

(* Why: what on_message holds at each of its steps, the order of the        *)
(* buffer, and what a cache that is still rebuilding has let through.       *)

\* on_message has been called with a message until it turns to that message
\* itself, and _process_payload works on one.
HandsFollowStep ==
    /\ step = "idle" => cur = NoMsg
    /\ step \in {"check", "drain", "own"} => cur # NoMsg
    /\ item \in GPS <=> step \in {"process", "enrich"}

\* on_message is working on the message it was called with.
OwnUnderWay ==
    step = "own" \/ (step \in {"process", "enrich"} /\ cur = NoMsg)

\* Nothing that was not received is anywhere; the message on_message was
\* called with is the newest, and one drained is older than those behind it.
NewestLast ==
    /\ \A m \in SeqRange(raw) \union SeqRange(dlq) \union SeqRange(buffer) :
          m.id <= received
    /\ cur \in GPS => cur.id = received
    /\ item \in GPS => item.id <= received
    /\ (item \in GPS /\ cur = NoMsg) => item.id = received
    /\ (cur \in GPS \/ (item \in GPS /\ cur = NoMsg)) =>
          \A m \in SeqRange(buffer) : m.id < received
    /\ (item \in GPS /\ cur # NoMsg) =>
          \A m \in SeqRange(buffer) : item.id < m.id

BufferInOrder ==
    \A i, j \in DOMAIN buffer : i < j => buffer[i].id < buffer[j].id

\* The buffer is left alone while the cache rebuilds, and every look-up was
\* made by an earlier process, of a message older than all that are held.
NoLookupWhileRebuilding ==
    is_rebuilding =>
        /\ step \notin {"drain", "enrich"}
        /\ step = "process" => cur = NoMsg
        /\ \A m \in LookedUp :
              /\ \A n \in SeqRange(buffer) : m.id < n.id
              /\ cur \in GPS => m.id < cur.id
              /\ item \in GPS => m.id < item.id

\* While the process runs, the cache that is not rebuilding and has not lost
\* its consumer is ready, and it does not recover from the loss.
StatusSettles ==
    main = "running" =>
        /\ status # "stopped"
        /\ status = "degraded" => thread = "ended"

\* When on_message turns to its own message the buffer has been drained, or
\* nothing has been looked up yet.
DrainedOrFirst ==
    (main = "running" /\ is_ready /\ OwnUnderWay) => Overtakers = {}

\* Once the cache is ready the messages buffered during startup are handled,
\* even if no bus sends its position any more.
BufferDrains ==
    is_ready ~> (buffer = <<>> \/ status = "degraded" \/ main # "running")

\* The startup buffer keeps to its limit and its order, and every GPS message
\* is in one place: published, rejected, buffered, or in hand (on_message
\* beside the cache's thread).
IngestionInv ==
    /\ IngestionTypeOK
    /\ HandsFollowStep
    /\ NewestLast
    /\ BufferInOrder
    /\ EveryMessageAccounted
    /\ StatusSettles
    /\ NoLookupWhileRebuilding
    /\ DrainedOrFirst
=============================================================================
