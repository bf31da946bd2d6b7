--------------------------- MODULE AnomalyService ---------------------------
(***************************************************************************)
(* services/anomaly-service: the detector (app/models/anomaly_model.py)    *)
(* and the three tasks of app/main.py that call it on one event loop: the  *)
(* consumers of the cleaned and of the rejected positions, and the         *)
(* periodic check for silent buses.                                        *)
(*                                                                         *)
(* A detection changes the detector's memory at once and raises a list of  *)
(* alerts; publish_alerts then sends them to Kafka one by one, and the     *)
(* other tasks run while it waits.  A send that fails takes the rest of    *)
(* the list with it.  A consumer logs that and goes on; the periodic task  *)
(* has no handler and ends, and nobody looks at it.                        *)
(*                                                                         *)
(* A reading has a bus, an event time, a kind ("noRoute": routeId missing; *)
(* otherwise the stream job's verdict, "on" or "off" route) and at most    *)
(* one thing out of the ordinary.  Coordinates, clustering and the         *)
(* Isolation Forest are left to that choice.  A rejection is a bus that    *)
(* sent a position without an active trip; its time is the clock's, with   *)
(* which ingestion stamps it.                                              *)
(***************************************************************************)
EXTENDS Integers, Sequences, FiniteSets, AlertChannels

CONSTANTS
    Buses,
    Extras,         \* of "speeding", "stationary", "erratic"
    StreakWindow,   \* off_route_streak_window_seconds
    StreakLength,   \* persistent_off_route_threshold
    DlqWindow,      \* inactive_trip_dlq_window_seconds
    DlqCount,       \* inactive_trip_dlq_threshold_count
    DlqCooldown,    \* inactive_trip_dlq_cooldown_seconds
    LossThreshold,  \* communication_loss_threshold_seconds
    MinPings,       \* sliding_window_min_size
    Watched,        \* bound: types whose alerts are kept track of
    MaxClock,       \* bound: the clock
    MaxInputs       \* bound: readings, rejections and restarts

ASSUME AnomalyAssumption ==
    /\ IsFiniteSet(Buses)
    /\ Extras \subseteq {"speeding", "stationary", "erratic"}
    /\ Watched \subseteq AnomalyTypes
    /\ {StreakLength, DlqCount, MinPings} \subseteq Nat \ {0}
    /\ {StreakWindow, DlqWindow, DlqCooldown, LossThreshold, MaxClock,
        MaxInputs} \subseteq Nat

VARIABLES
    clock,
    inputs,      \* what has come in, in order (history)
    begun,       \* inputs before this process started (history)
    known,       \* bus_states
    streaks,     \* off_route_states
    rejected,    \* inactive_trip_states; a time is kept with its input, for
                 \* the list may hold it twice
    pings,       \* telemetry_windows: how many are kept, up to MinPings
    todo,        \* task -> the alerts it still has to publish
    lossTask,    \* is the periodic check alive?
    raised,      \* alerts raised, of the types watched (history)
    alerts       \* those of them on transport-anomaly-alerts

memory == <<known, streaks, rejected, pings>>
anomalyVars == <<clock, inputs, begun, memory, todo, lossTask, raised, alerts>>

-----------------------------------------------------------------------------
Tasks == {"cleaned", "dlq", "loss"}
Reading == [bus : Buses, ts : 0 .. MaxClock, kind : {"on", "off"},
            extra : Extras \union {"none"}]
              \union [bus : Buses, ts : {0}, kind : {"noRoute"},
                      extra : (Extras \intersect {"speeding"}) \union {"none"}]
Rejection == [bus : Buses, ts : 0 .. MaxClock, kind : {"rejected"}]
Restarted == [kind |-> "restart"]

\* An alert names the bus, and the input (or the clock) that raised it.
Alert == [type : AnomalyTypes, bus : Buses, at : 0 .. MaxInputs,
          clock : 0 .. MaxClock]

NoBus    == [seen |-> FALSE]
Known    == [seen : {TRUE}, last : 0 .. MaxClock, lost : BOOLEAN,
             still : BOOLEAN]
NoStreak == [count |-> 0, start |-> 0, alerted |-> FALSE]
Streak   == [count : 0 .. MaxInputs, start : 0 .. MaxClock,
             alerted : BOOLEAN]
Never    == -1
Refusals == [times : SUBSET [at : 1 .. MaxInputs, ts : 0 .. MaxClock],
             lastAlert : Never .. MaxClock]

Forgotten ==
    /\ known' = [b \in Buses |-> NoBus]
    /\ streaks' = [b \in Buses |-> NoStreak]
    /\ rejected' = [b \in Buses |-> [times |-> {}, lastAlert |-> Never]]
    /\ pings' = [b \in Buses |-> 0]
    /\ todo' = [t \in Tasks |-> <<>>]
    /\ lossTask' = TRUE

AnomalyInit ==
    /\ clock = 0
    /\ inputs = <<>> /\ begun = 0
    /\ known = [b \in Buses |-> NoBus]
    /\ streaks = [b \in Buses |-> NoStreak]
    /\ rejected = [b \in Buses |-> [times |-> {}, lastAlert |-> Never]]
    /\ pings = [b \in Buses |-> 0]
    /\ todo = [t \in Tasks |-> <<>>]
    /\ lossTask = TRUE
    /\ raised = {} /\ alerts = {}

Tick ==
    /\ clock < MaxClock
    /\ clock' = clock + 1
    /\ UNCHANGED <<inputs, begun, memory, todo, lossTask, raised, alerts>>

\* _create_alert, for the input that is being handled.
Raise(type, b, cond) ==
    IF cond THEN <<[type |-> type, bus |-> b, at |-> Len(inputs) + 1,
                    clock |-> clock]>>
            ELSE <<>>

Owes(task, list) ==
    /\ todo' = [todo EXCEPT ![task] = list]
    /\ raised' = raised \union
          {a \in {list[i] : i \in DOMAIN list} : a.type \in Watched}

Input(i) == Len(inputs) < MaxInputs /\ inputs' = Append(inputs, i)

-----------------------------------------------------------------------------
(* detect, on a reading of the cleaned topic.                               *)

\* _update_off_route_streak: the streak with one more reading.
StreakAfter(b, ts) ==
    LET s == IF streaks[b].count = 0 \/ ts - streaks[b].start > StreakWindow
             THEN [NoStreak EXCEPT !.start = ts]
             ELSE streaks[b]
    IN  [s EXCEPT !.count = @ + 1]
Persists(s) == s.count >= StreakLength /\ ~s.alerted

\* Without a route nothing is remembered of the bus.
ReadInactive(r) ==
    /\ r.kind = "noRoute" /\ todo["cleaned"] = <<>>
    /\ Input(r)
    /\ Owes("cleaned",
            Raise("UNREALISTIC_SPEED", r.bus, r.extra = "speeding")
            \o Raise("INACTIVE_GPS", r.bus, TRUE))
    /\ UNCHANGED <<clock, begun, memory, lossTask, alerts>>

\* Mutant of ReadOnItsRoute: a reading on the route does not end the streak.
ReadOnItsRoute_keeps(r) == r.kind = "on" /\ streaks' = streaks
ReadOnItsRoute(r) ==
    /\ r.kind = "on"
    /\ streaks' = [streaks EXCEPT ![r.bus] = NoStreak]

ReadOffItsRoute(r) ==
    LET s == StreakAfter(r.bus, r.ts) IN
    /\ r.kind = "off"
    /\ streaks' = [streaks EXCEPT ![r.bus] =
                      [s EXCEPT !.alerted = @ \/ Persists(s)]]

\* The window of the behavioural detector fills.
Erratic(r) == r.extra = "erratic" /\ pings[r.bus] + 1 >= MinPings

StillBefore(b) == known[b].seen /\ known[b].still

PingsAfter(b) == IF pings[b] < MinPings THEN pings[b] + 1 ELSE MinPings

ReadActive(r) ==
    /\ r.kind # "noRoute" /\ todo["cleaned"] = <<>>
    /\ Input(r)
    /\ ReadOnItsRoute(r) \/ ReadOffItsRoute(r)
    /\ known' = [known EXCEPT ![r.bus] =
                    [seen |-> TRUE, last |-> r.ts, lost |-> FALSE,
                     still |-> r.extra = "stationary"]]
    /\ pings' = [pings EXCEPT ![r.bus] = PingsAfter(r.bus)]
    /\ Owes("cleaned",
            Raise("UNREALISTIC_SPEED", r.bus, r.extra = "speeding")
            \o Raise("OFF_ROUTE", r.bus, r.kind = "off")
            \o Raise("PERSISTENT_OFF_ROUTE", r.bus,
                     r.kind = "off" /\ Persists(StreakAfter(r.bus, r.ts)))
            \o Raise("STATIONARY", r.bus,
                     r.extra = "stationary" /\ ~StillBefore(r.bus))
            \o Raise("ERRATIC_DRIVING", r.bus, Erratic(r)))
    /\ UNCHANGED <<clock, begun, rejected, lossTask, alerts>>

-----------------------------------------------------------------------------
(* detect_inactive_trip_dlq and detect_communication_loss.                  *)

InCooldown(b) ==
    /\ rejected[b].lastAlert # Never
    /\ clock - rejected[b].lastAlert < DlqCooldown

RecentRejections(b) ==
    {r \in rejected[b].times : r.ts >= clock - DlqWindow}
        \union {[at |-> Len(inputs) + 1, ts |-> clock]}

ReadRejection(b) ==
    LET times == RecentRejections(b)
        alarm == Cardinality(times) >= DlqCount /\ ~InCooldown(b)
    IN  /\ todo["dlq"] = <<>>
        /\ Input([bus |-> b, ts |-> clock, kind |-> "rejected"])
        /\ rejected' = [rejected EXCEPT ![b] =
              [times |-> times,
               lastAlert |-> IF alarm THEN clock ELSE @.lastAlert]]
        /\ Owes("dlq", Raise("TRIP_NOT_STARTED_DEVICE_ACTIVE", b, alarm))
        /\ UNCHANGED <<clock, begun, known, streaks, pings, lossTask, alerts>>

Silent(b) ==
    known[b].seen /\ ~known[b].lost /\ clock - known[b].last > LossThreshold

Orders(S) == {s \in [1 .. Cardinality(S) -> S] :
                 \A i, j \in DOMAIN s : i # j => s[i] # s[j]}

\* The flags are set before anything is published.
CheckSilence ==
    /\ lossTask /\ todo["loss"] = <<>>
    /\ \E b \in Buses : Silent(b)
    /\ known' = [b \in Buses |->
                    IF Silent(b) THEN [known[b] EXCEPT !.lost = TRUE]
                                 ELSE known[b]]
    /\ \E order \in Orders({b \in Buses : Silent(b)}) :
          Owes("loss", [i \in DOMAIN order |->
                           [type |-> "COMMUNICATION_LOSS", bus |-> order[i],
                            at |-> Len(inputs), clock |-> clock]])
    /\ UNCHANGED <<clock, inputs, begun, streaks, rejected, pings, lossTask,
                   alerts>>

-----------------------------------------------------------------------------
(* publish_alerts.                                                          *)

\* Kafka acknowledges; Redis and the table of alerts follow, at best effort.
SendAlert(task) ==
    /\ todo[task] # <<>>
    /\ alerts' = alerts \union ({Head(todo[task])} \intersect raised)
    /\ todo' = [todo EXCEPT ![task] = Tail(@)]
    /\ UNCHANGED <<clock, inputs, begun, memory, lossTask, raised>>

\* Mutant of SendFails: the periodic task catches the error too.
SendFails_caught(task) ==
    /\ todo[task] # <<>>
    /\ todo' = [todo EXCEPT ![task] = <<>>]
    /\ UNCHANGED <<clock, inputs, begun, memory, lossTask, raised, alerts>>

\* send_and_wait raises.
SendFails(task) ==
    /\ todo[task] # <<>>
    /\ todo' = [todo EXCEPT ![task] = <<>>]
    /\ lossTask' = (lossTask /\ task # "loss")
    /\ UNCHANGED <<clock, inputs, begun, memory, raised, alerts>>

\* The process is started again and remembers nothing.
AnomalyRestart ==
    /\ Input(Restarted)
    /\ begun' = Len(inputs) + 1
    /\ Forgotten
    /\ UNCHANGED <<clock, raised, alerts>>

AnomalyNext ==
    \/ Tick
    \/ \E r \in Reading : ReadInactive(r) \/ ReadActive(r)
    \/ \E b \in Buses : ReadRejection(b)
    \/ CheckSilence
    \/ \E task \in Tasks : SendAlert(task) \/ SendFails(task)
    \/ AnomalyRestart

AnomalySpec == AnomalyInit /\ [][AnomalyNext]_anomalyVars

\* The periodic task is scheduled, and a send ends somehow.
AnomalyFairness ==
    /\ WF_anomalyVars(CheckSilence)
    /\ \A task \in Tasks : WF_anomalyVars(SendAlert(task) \/ SendFails(task))

-----------------------------------------------------------------------------
(* Properties.                                                              *)

\* Every variable keeps to its type.
AnomalyTypeOK ==
    /\ clock \in 0 .. MaxClock
    /\ inputs \in Seq(Reading \union Rejection \union {Restarted})
    /\ begun \in 0 .. Len(inputs) /\ Len(inputs) <= MaxInputs
    /\ known \in [Buses -> Known \union {NoBus}]
    /\ streaks \in [Buses -> Streak]
    /\ rejected \in [Buses -> Refusals]
    /\ pings \in [Buses -> 0 .. MinPings]
    /\ todo \in [Tasks -> Seq(Alert)]
    /\ lossTask \in BOOLEAN
    /\ raised \subseteq Alert
    /\ alerts \subseteq raised

Of(b, kinds) == {i \in DOMAIN inputs : /\ inputs[i].kind \in kinds
                                       /\ inputs[i].bus = b}
Ordered(b) == \A i, j \in Of(b, {"on", "off"}) :
                  i < j => inputs[i].ts <= inputs[j].ts
SameProcess(i, j) == \A k \in (i + 1) .. j : inputs[k].kind # "restart"

\* PERSISTENT_OFF_ROUTE stands for StreakLength readings off the route, one
\* after the other, not more than StreakWindow apart, of one process, where
\* the readings of the bus come in the order of their times; and no two such
\* alerts stand for the same readings.
Streaky(b, S) ==
    /\ Cardinality(S) = StreakLength
    /\ \A i, j \in S : i <= j =>
          /\ inputs[j].ts - inputs[i].ts <= StreakWindow
          /\ SameProcess(i, j)
          /\ Of(b, {"on"}) \intersect (i .. j) = {}
PersistentMeansStreak ==
    \A a \in raised :
        (a.type = "PERSISTENT_OFF_ROUTE" /\ Ordered(a.bus)) =>
            \E S \in SUBSET (Of(a.bus, {"off"}) \intersect (1 .. a.at)) :
                /\ Streaky(a.bus, S) /\ a.at \in S
                /\ \A o \in raised :
                      (o.type = a.type /\ o.bus = a.bus /\ o.at < a.at)
                          => \A i \in S : i > o.at

\* An alert that a device is on without a trip stands for DlqCount rejections
\* of the bus within DlqWindow, and one process raises no second one within
\* DlqCooldown.
DeviceActiveIsRare ==
    \A a, o \in {x \in raised : x.type = "TRIP_NOT_STARTED_DEVICE_ACTIVE"} :
        /\ Cardinality({i \in Of(a.bus, {"rejected"}) \intersect (1 .. a.at) :
                           inputs[i].ts >= a.clock - DlqWindow}) >= DlqCount
        /\ (a.bus = o.bus /\ o.at < a.at /\ SameProcess(o.at, a.at))
              => a.clock - o.clock >= DlqCooldown

\* A bus is reported silent once per silence: between two such alerts of one
\* process a reading of it has come in.
OneAlertPerSilence ==
    \A a, o \in {x \in raised : x.type = "COMMUNICATION_LOSS"} :
        (a.bus = o.bus /\ a # o /\ o.clock <= a.clock /\ o.at <= a.at
         /\ SameProcess(o.at, a.at))
            => Of(a.bus, {"on", "off"}) \intersect ((o.at + 1) .. a.at) # {}

\* A silence that has been noted has been announced, is about to be, or has
\* cost the periodic task its life; no other error loses it.
NotedIsAnnounced ==
    \A b \in Buses : (known[b].seen /\ known[b].lost) =>
        \/ ~lossTask
        \/ \E a \in alerts \union
                    {todo["loss"][i] : i \in DOMAIN todo["loss"]} :
              /\ a.type = "COMMUNICATION_LOSS" /\ a.bus = b
              /\ \A i \in Of(b, {"on", "off"}) : i <= a.at

\* A known bus that falls silent is announced, unless it is heard of again,
\* the process is restarted, or the periodic task is gone.
SilenceIsAnnounced ==
    \A b \in Buses : \A n \in 0 .. MaxInputs :
        (Silent(b) /\ lossTask /\ Len(inputs) = n)
            ~> \/ \E a \in alerts : /\ a.type = "COMMUNICATION_LOSS"
                                    /\ a.bus = b /\ a.at >= n
               \/ Len(inputs) > n \/ ~lossTask

\* Why: what a process has heard is what came in since it was started, ...
Heard ==
    /\ begun # 0 => inputs[begun].kind = "restart"
    /\ \A k \in (begun + 1) .. Len(inputs) : inputs[k].kind # "restart"
    /\ \A a \in raised : a.at <= Len(inputs) /\ a.clock <= clock

\* ... a streak stands for readings W off the route, as many as it counts,
\* and was not reported while it was short, ...
StreakOf(b, W) ==
    /\ Cardinality(W) = streaks[b].count
    /\ \A i \in W :
          /\ inputs[i].ts \in streaks[b].start
                                 .. streaks[b].start + StreakWindow
          /\ Of(b, {"on"}) \intersect (i .. Len(inputs)) = {}
          /\ streaks[b].alerted \/
                \A o \in raised :
                   (o.type = "PERSISTENT_OFF_ROUTE" /\ o.bus = b) => i > o.at
StreaksKept ==
    \A b \in Buses :
        /\ streaks[b].count <= Len(inputs)
        /\ streaks[b].alerted \/ streaks[b].count < StreakLength
        /\ Ordered(b) =>
              \E W \in SUBSET (Of(b, {"off"})
                                 \intersect ((begun + 1) .. Len(inputs))) :
                 StreakOf(b, W)

\* ... the times kept are those of rejections, and the last alert is no older
\* than any of this process, ...
RejectionsKept ==
    \A b \in Buses :
        /\ \A r \in rejected[b].times :
              r.at \in Of(b, {"rejected"}) /\ inputs[r.at].ts = r.ts
        /\ \A o \in raised :
              (/\ o.type = "TRIP_NOT_STARTED_DEVICE_ACTIVE"
               /\ o.bus = b /\ o.at >= begun)
                 => /\ rejected[b].lastAlert # Never
                    /\ o.clock <= rejected[b].lastAlert

\* ... and a bus reported silent is noted, or has been heard of since.
SilencesKept ==
    \A o \in raised :
        (o.type = "COMMUNICATION_LOSS" /\ o.at >= begun) =>
            \/ known[o.bus].seen /\ known[o.bus].lost
            \/ Of(o.bus, {"on", "off"})
                  \intersect ((o.at + 1) .. Len(inputs)) # {}

\* What the periodic check has still to publish has been raised.
LossesRaised ==
    "COMMUNICATION_LOSS" \in Watched =>
        \A i \in DOMAIN todo["loss"] : todo["loss"][i] \in raised

\* An alert stands for what it says, and is raised once for it: streaks,
\* rejections and silences (detect, detect_inactive_trip_dlq,
\* detect_communication_loss).
AnomalyInv ==
    /\ AnomalyTypeOK
    /\ PersistentMeansStreak
    /\ DeviceActiveIsRare
    /\ OneAlertPerSilence
    /\ Heard /\ StreaksKept /\ RejectionsKept /\ SilencesKept /\ LossesRaised
=============================================================================
