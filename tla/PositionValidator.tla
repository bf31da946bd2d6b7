-------------------------- MODULE PositionValidator --------------------------
(***************************************************************************)
(* What services/ingestion makes of a position that a device sends         *)
(* (app/validator.py), and what the stream job makes of the result.        *)
(*                                                                         *)
(* The shape of a payload goes through one of two validators: the bridge's *)
(* schema check, with the checks of the stream job behind it, or pydantic's*)
(* GPSLocationMessage.  The time of a well shaped one goes through         *)
(* StatefulValidator, which remembers for each bus its last event time and *)
(* the latest payloads, and forgets them with its process.  Fields have    *)
(* the kinds of values the two treat differently; times are seconds.       *)
(***************************************************************************)
EXTENDS Integers, Sequences, FiniteSets, SequencesExt

CONSTANTS
    Senders,     \* buses
    Contents,    \* what is hashed of a payload besides: trip_id, lat and
                 \* lon, the latter in bounds
    Intervals,   \* values of min_event_interval_seconds
    MaxSkew,     \* max_future_skew_seconds
    MaxAge,      \* max_stale_age_seconds
    Remembers,   \* duplicate_cache_size
    MaxClock,    \* bound: the ingestion clock
    MaxArrivals, \* bound: payloads
    MaxLives     \* bound: processes

ASSUME ValidatorAssumption ==
    /\ Intervals \subseteq Nat
    /\ {MaxSkew, MaxAge, MaxClock, MaxArrivals} \subseteq Nat
    /\ {Remembers, MaxLives} \subseteq Nat \ {0}

VARIABLES
    payload,  \* the shape of a payload that arrives
    clock,
    interval, \* the setting of this deployment
    known,    \* _bus_state: bus -> last_timestamp and recent_hashes
    accepted, \* history: what was accepted, when and in which life
    verdict,  \* the last result of validate
    arrivals, life

validatorVars == <<payload, clock, interval, known, accepted, verdict,
                   arrivals, life>>

-----------------------------------------------------------------------------
(* Shapes.  `quoted' is a number written as a string.                       *)

Shape == [body : {"object", "list", "garbage"},
          bus : {"busId", "bus_id", "number", "blank", "missing"},
          place : {"in", "out", "quoted", "word", "missing"},
          speed : {"in", "quoted", "negative", "fast", "word", "missing"},
          heading : {"in", "over", "word", "missing"},
          time : {"iso", "epoch", "word", "missing"}]

GoodShape == [body |-> "object", bus |-> "busId", place |-> "in",
              speed |-> "in", heading |-> "in", time |-> "iso"]

Parsed(p) == CASE p.body = "garbage" -> "JSON_PARSE"
               [] p.body = "list" -> "SCHEMA_VALIDATION"
               [] OTHER -> IF p.time = "missing" THEN "MISSING_TIMESTAMP"
                                                 ELSE "ok"

\* validate_gps_schema_only_payload: whatever float() takes is a number.
SchemaOnly(p) ==
    IF Parsed(p) # "ok" THEN Parsed(p)
    ELSE IF \/ p.bus \in {"blank", "missing"} \/ p.time # "iso"
            \/ {p.place, p.speed} \intersect {"word", "missing"} # {}
            \/ p.heading = "word"
         THEN "SCHEMA_VALIDATION" ELSE "ok"

\* validate_gps_location_payload and validate_gps_payload.
Location(p) ==
    IF Parsed(p) # "ok" THEN Parsed(p)
    ELSE IF \/ p.bus \in {"number", "missing"} \/ p.time = "word"
            \/ p.place \in {"word", "missing"}
            \/ p.speed \notin {"in", "quoted"}
            \/ p.heading \in {"over", "word"}
         THEN "SCHEMA_VALIDATION"
    ELSE IF p.place = "out" THEN "GEO_BOUNDS" ELSE "ok"

\* What is on the raw topic: the payload as it came, or what GPSMessage
\* makes of it.
Bridged(p) == p
Dumped(p) == [p EXCEPT !.bus = "busId", !.time = "iso",
                       !.place = "in", !.speed = "in", !.heading = "in"]

\* classify_raw_telemetry.
Classify(p) ==
    CASE p.place \in {"word", "missing"} -> "MISSING_OR_INVALID_COORDINATES"
      [] p.place = "out" -> "OUT_OF_SRI_LANKA_BOUNDS"
      [] p.speed = "word" -> "INVALID_SPEED"
      [] p.speed \in {"negative", "fast"} -> "UNREALISTIC_SPEED"
      [] OTHER -> "ok"

\* extract_bus_id, and the comparison in resolve_segment_mode.
KeyOf(p) == IF p.bus = "bus_id" THEN "unknown" ELSE "its own"
Enriches(p) == p.place # "quoted"

Reaches(p) == /\ Classify(p) = "ok" /\ Enriches(p) /\ KeyOf(p) = "its own"

StatelessPasses(p) == SchemaOnly(p) = "ok" /\ Reaches(Bridged(p))
StatefulPasses(p) == Location(p) = "ok" /\ Reaches(Dumped(p))

-----------------------------------------------------------------------------
(* StatefulValidator.                                                       *)

Unknown == [last |-> -1, hashes |-> <<>>]
Position == [bus : Senders, ts : 0 .. MaxClock + MaxSkew + 1,
             content : Contents]

ValidatorInit ==
    /\ payload = GoodShape
    /\ clock = 0 /\ interval \in Intervals
    /\ known = [b \in Senders |-> Unknown]
    /\ accepted = <<>>
    /\ verdict = [error |-> "none"]
    /\ arrivals = 0 /\ life = 1

Window(m) == IF m.ts - clock > MaxSkew THEN "FUTURE_TIMESTAMP"
             ELSE IF clock - m.ts > MaxAge THEN "STALE_REPLAY" ELSE "ok"

\* The hashes of different payloads of a bus differ.
HashOf(m) == <<m.ts, m.content>>
IsRepeated(m) == Contains(known[m.bus].hashes, HashOf(m))

Verdict(m) ==
    IF Window(m) # "ok" THEN Window(m)
    ELSE IF known[m.bus] = Unknown THEN "ok"
    ELSE IF IsRepeated(m) THEN "DUPLICATE"
    ELSE IF m.ts < known[m.bus].last THEN "SEQUENCE_ERROR"
    ELSE IF m.ts - known[m.bus].last < interval THEN "RATE_LIMIT_EVENT_TIME"
    ELSE "ok"

\* Mutant of Remembered: it holds the first payload only.
Remembered_first(m) == IF known[m.bus] = Unknown THEN <<HashOf(m)>>
                       ELSE known[m.bus].hashes

\* A deque with a maxlen.
Remembered(m) ==
    LET h == Append(known[m.bus].hashes, HashOf(m))
    IN  IF Len(h) > Remembers THEN Tail(h) ELSE h

Validate(m) ==
    /\ arrivals < MaxArrivals /\ arrivals' = arrivals + 1
    /\ verdict' = [error |-> Verdict(m), m |-> m, at |-> clock]
    /\ IF Verdict(m) = "ok"
       THEN /\ known' = [known EXCEPT ![m.bus] =
                            [last |-> m.ts, hashes |-> Remembered(m)]]
            /\ accepted' = Append(accepted,
                                  [m |-> m, at |-> clock, by |-> life])
       ELSE UNCHANGED <<known, accepted>>
    /\ UNCHANGED <<payload, clock, interval, life>>

Passes == /\ clock < MaxClock /\ clock' = clock + 1
          /\ UNCHANGED <<payload, interval, known, accepted, verdict,
                         arrivals, life>>

\* A new process.
Forgets ==
    /\ life < MaxLives /\ life' = life + 1
    /\ known' = [b \in Senders |-> Unknown]
    /\ verdict' = [error |-> "none"]
    /\ UNCHANGED <<payload, clock, interval, accepted, arrivals>>

\* A payload of another shape arrives.
Receives(p) ==
    /\ payload' = p
    /\ UNCHANGED <<clock, interval, known, accepted, verdict, arrivals, life>>

\* Bound: shapes and times are looked at one without the other.
ValidatorNext ==
    /\ payload = GoodShape
    /\ \/ /\ clock = 0 /\ arrivals = 0 /\ life = 1
          /\ \E p \in Shape : Receives(p)
       \/ Passes \/ Forgets \/ \E m \in Position : Validate(m)

ValidatorSpec == ValidatorInit /\ [][ValidatorNext]_validatorVars

-----------------------------------------------------------------------------
(* Properties.                                                              *)

\* Every variable keeps to its type, and no more payloads are remembered for a
\* bus than the cache holds.
Errors == {"FUTURE_TIMESTAMP", "STALE_REPLAY", "DUPLICATE", "SEQUENCE_ERROR",
           "RATE_LIMIT_EVENT_TIME", "ok"}
ValidatorTypeOK ==
    /\ payload \in Shape /\ interval \in Intervals
    /\ clock \in 0 .. MaxClock /\ life \in 1 .. MaxLives
    /\ known \in [Senders -> [last : -1 .. MaxClock + MaxSkew,
                              hashes : Seq(Int \X Contents)]]
    /\ \A b \in Senders : Len(known[b].hashes) <= Remembers
    /\ accepted \in Seq([m : Position, at : 0 .. MaxClock, by : 1 .. MaxLives])
    /\ verdict \in {[error |-> "none"]} \union
                      [error : Errors, m : Position, at : 0 .. MaxClock]
    /\ arrivals \in 0 .. MaxArrivals

\* What the stateful ingestion accepts, the stream job accepts as well, under
\* the key of its bus: its positions are never among the invalid ones, and
\* none is lost on the way.
StatefulIsCleaned == Location(payload) = "ok" => StatefulPasses(payload)

\* Whatever mode ingestion runs in, the same payloads reach the cleaned topic,
\* but for those in which the modes disagree by design or by accident: a
\* number for a bus and a heading beyond 360 are passed on by the bridge only;
\* a blank bus, a time in seconds, coordinates in quotes and a bus under the
\* name bus_id by the other mode only.
ModesAgree ==
    \/ StatelessPasses(payload) <=> StatefulPasses(payload)
    \/ StatelessPasses(payload)
          /\ (payload.bus = "number" \/ payload.heading = "over")
    \/ StatefulPasses(payload)
          /\ \/ payload.bus \in {"blank", "bus_id"} \/ payload.time = "epoch"
             \/ payload.place = "quoted"

\* A clock that runs ahead on a device does not silence its bus for long: when
\* a position dated right is refused for its order, one was accepted within
\* the interval and the skew that is allowed.
RefusalsEnd ==
    (/\ verdict.error \in {"SEQUENCE_ERROR", "RATE_LIMIT_EVENT_TIME"}
     /\ verdict.m.ts = verdict.at)
    => \E i \in DOMAIN accepted :
          /\ accepted[i].by = life /\ accepted[i].m.bus = verdict.m.bus
          /\ accepted[i].at > verdict.at - interval - MaxSkew

\* What is called a duplicate was accepted before, by this process.
DuplicateWasAccepted ==
    verdict.error = "DUPLICATE" =>
        \E i \in DOMAIN accepted :
            accepted[i].by = life /\ accepted[i].m = verdict.m

\* A process accepts a payload a second time only if the interval is 0 and as
\* many of its bus as the cache holds came in between, all of the same time.
AcceptedOnce ==
    \A i, j \in DOMAIN accepted :
        (i < j /\ accepted[i].m = accepted[j].m
               /\ accepted[i].by = accepted[j].by)
        => LET Between == {k \in i + 1 .. j - 1 :
                              /\ accepted[k].m.bus = accepted[i].m.bus
                              /\ accepted[k].m.ts = accepted[i].m.ts}
           IN  interval = 0 /\ Cardinality(Between) >= Remembers

\* Why: what is accepted is no further ahead than the skew that is allowed, and
\* what a process accepts of a bus is the interval apart; ...
AcceptedInOrder ==
    /\ \A i \in DOMAIN accepted :
          LET a == accepted[i] IN
          a.by <= life /\ a.at <= clock /\ a.m.ts <= a.at + MaxSkew
    /\ \A i, j \in DOMAIN accepted :
          (/\ i < j /\ accepted[i].by = accepted[j].by
           /\ accepted[i].m.bus = accepted[j].m.bus)
              => accepted[i].m.ts + interval <= accepted[j].m.ts

\* ... and what is remembered of a bus are the last payloads accepted of it
\* since the process was started, g, as many as the cache holds.
Mine(b) == {i \in DOMAIN accepted :
               accepted[i].by = life /\ accepted[i].m.bus = b}
RemembersLast(s, b, g) ==
    /\ s.hashes # <<>> /\ s.last = accepted[g[Len(s.hashes)]].m.ts
    /\ \A k, l \in DOMAIN s.hashes : k < l => g[k] < g[l]
    /\ \A k \in DOMAIN s.hashes : s.hashes[k] = HashOf(accepted[g[k]].m)
    /\ \A i \in Mine(b) :
          \/ \E k \in DOMAIN s.hashes : g[k] = i
          \/ /\ Len(s.hashes) = Remembers
             /\ \A k \in DOMAIN s.hashes : i < g[k]
MemoryIsOfLife ==
    \A b \in Senders :
        IF Mine(b) = {} THEN known[b] = Unknown
        ELSE \E g \in [DOMAIN known[b].hashes -> Mine(b)] :
                RemembersLast(known[b], b, g)

\* Both modes of ingestion pass on what the stream job can use, and the same
\* but for the differences listed; no bus is refused for ever, and none
\* accepted twice for one payload while its process remembers it
\* (StatefulValidator).
ValidatorInv ==
    /\ ValidatorTypeOK
    /\ StatefulIsCleaned
    /\ ModesAgree
    /\ RefusalsEnd
    /\ DuplicateWasAccepted
    /\ AcceptedOnce
    /\ AcceptedInOrder /\ MemoryIsOfLife
=============================================================================
