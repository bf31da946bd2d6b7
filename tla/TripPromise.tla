---------------------------- MODULE TripPromise ----------------------------
(***************************************************************************)
(* What fleet-management-service promises about trips, without its handlers*)
(* and its producer: a transition is committed at once, it becomes         *)
(* announceable with the bus that was read for it, it is announced as often*)
(* as the client library transmits it or never, and whoever is told of     *)
(* success finds it announced.  A trip becomes announceable as started on  *)
(* one bus only.  TripLifecycle implements this.                           *)
(***************************************************************************)
EXTENDS Naturals, Sequences

CONSTANTS Trips, Buses, NoBus

VARIABLES
    status,       \* of each trip
    reported,     \* trips with an incident
    announceable, \* events that may be announced
    topic,        \* what was announced
    acknowledged  \* the events of requests that were told of success

promiseVars == <<status, reported, announceable, topic, acknowledged>>

Announcement(e, t, b) == [event |-> e, bus |-> b, trip |-> t]

PromiseInit ==
    /\ status = [t \in Trips |-> "WAITING_AT_DEPOT"]
    /\ reported = {} /\ announceable = {}
    /\ topic = <<>> /\ acknowledged = {}

Moves(t, s) == status' = [status EXCEPT ![t] = s]
Announceable(e, t, b) ==
    announceable' = announceable \union {Announcement(e, t, b)}

\* A trip starts from the depot, on a bus.
Starts(t, b) ==
    /\ status[t] = "WAITING_AT_DEPOT"
    /\ Moves(t, "EN_ROUTE") /\ Announceable("TRIP_STARTED", t, b)
    /\ UNCHANGED <<reported, topic, acknowledged>>

\* A trip that is under way or has had an incident ends; without a bus
\* nothing is announced.
Ends(t) ==
    /\ status[t] \in {"EN_ROUTE", "INCIDENT_REPORTED"}
    /\ Moves(t, "ARRIVED_DESTINATION")
    /\ \/ announceable' = announceable
       \/ \E b \in Buses : Announceable("TRIP_ENDED", t, b)
    /\ UNCHANGED <<reported, topic, acknowledged>>

Reports(t) ==
    /\ Moves(t, "INCIDENT_REPORTED") /\ reported' = reported \union {t}
    /\ UNCHANGED <<announceable, topic, acknowledged>>

\* The bus of an incident is read later.
NamesBus(t, b) ==
    /\ t \in reported /\ Announceable("INCIDENT_REPORTED", t, b)
    /\ UNCHANGED <<status, reported, topic, acknowledged>>

Announces(e) ==
    /\ e \in announceable /\ topic' = Append(topic, e)
    /\ UNCHANGED <<status, reported, announceable, acknowledged>>

Acknowledges(e) ==
    /\ \E i \in DOMAIN topic : topic[i] = e
    /\ acknowledged' = acknowledged \union {e}
    /\ UNCHANGED <<status, reported, announceable, topic>>

PromiseNext ==
    \/ \E t \in Trips :
          \/ \E b \in Buses : Starts(t, b)
          \/ Ends(t) \/ Reports(t)
          \/ \E b \in Buses \union {NoBus} : NamesBus(t, b)
    \/ \E e \in announceable : Announces(e) \/ Acknowledges(e)

PromiseSpec == PromiseInit /\ [][PromiseNext]_promiseVars
=============================================================================
