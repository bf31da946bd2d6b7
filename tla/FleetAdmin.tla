----------------------------- MODULE FleetAdmin -----------------------------
(***************************************************************************)
(* What an administrator sets up in services/fleet-management-service,     *)
(* through the gateway: which route a bus is on, the weekly schedules, and *)
(* the trips of a day.  A route is asked for in the catalog of the route   *)
(* service first, and written down afterwards, by its id, in a database    *)
(* the route service does not know of.  The row of the bus is read before  *)
(* that, and SQLAlchemy writes what differs from what it has read, in a    *)
(* thread of a pool: requests for one bus overlap.                         *)
(*                                                                         *)
(* Requests are numbered.  The gateway passes on the answer of the fleet   *)
(* service; when it gets none within httpx's five seconds it answers 500,  *)
(* and the request may be carried out all the same.  An administrator asks *)
(* again for a schedule that was refused, not for one that was accepted.   *)
(* Dates count days from a Sunday; the driver and the bus of a trip, and   *)
(* its progress, are TripLifecycle's.                                      *)
(***************************************************************************)
EXTENDS RouteCatalog

CONSTANTS
    Fleet,         \* buses
    Days,          \* days of the week used in schedules, of 0 .. 6
    Dates,         \* dates trips are generated for
    MaxRequests,   \* bound: requests to the gateway
    MaxUnanswered  \* bound: answers lost, and validations that fail

ASSUME FleetAssumption ==
    /\ Days \subseteq 0 .. 6 /\ Dates \subseteq Nat
    /\ {MaxRequests, MaxUnanswered} \subseteq Nat

VARIABLES
    busRoute,   \* bus -> route_id, 0: none
    schedules,  \* the table of schedules, in the order of their ids
    trips,      \* planned trips: schedule and date
    requests,   \* requests so far
    request,    \* number -> what was asked, and how far the service is
    told,       \* number -> what the gateway answered
    unanswered

fleetVars == <<busRoute, schedules, trips, requests, request, told,
               unanswered>>

-----------------------------------------------------------------------------
Requests == 1 .. MaxRequests
NoRequest == [ask |-> [op |-> "none"], at |-> "none", read |-> 0]
Operation ==
    [op : {"assign"}, bus : Fleet, route : Ids]
      \union [op : {"unassign"}, bus : Fleet]
      \union [op : {"schedule"}, route : Ids, day : Days]
      \union [op : {"generate"}, date : Dates]
Stages == {"sent", "read", "valid", "done", "refused"}
Asked == [ask : Operation, at : Stages, read : Ids \union {0}]

DayOf(date) == date % 7
SlotOf(q) == <<q.route, q.day>>

FleetInit ==
    /\ busRoute = [b \in Fleet |-> 0]
    /\ schedules = <<>>
    /\ trips = {}
    /\ requests = 0
    /\ request = [i \in Requests |-> NoRequest]
    /\ told = [i \in Requests |-> "none"]
    /\ unanswered = 0

At(i, op, stage) == request[i].ask.op = op /\ request[i].at = stage

\* The administrator, and the gateway.
Ask(o) ==
    /\ requests < MaxRequests
    /\ o.op = "schedule" =>
          ~ \E i \in Requests : /\ request[i].ask.op = "schedule"
                                /\ SlotOf(request[i].ask) = SlotOf(o)
                                /\ told[i] \in {"waiting", "accepted"}
    /\ requests' = requests + 1
    /\ request' = [request EXCEPT ![requests + 1] =
                     [ask |-> o, at |-> "sent", read |-> 0]]
    /\ told' = [told EXCEPT ![requests + 1] = "waiting"]
    /\ UNCHANGED <<busRoute, schedules, trips, unanswered>>

\* The fleet service answers, and the gateway passes the answer on, if it
\* still waits for it.
Answers(i, stage, status) ==
    /\ request' = [request EXCEPT ![i].at = stage]
    /\ told' = IF told[i] = "waiting" THEN [told EXCEPT ![i] = status]
                                      ELSE told

GiveUp(i) ==
    /\ told[i] = "waiting" /\ unanswered < MaxUnanswered
    /\ unanswered' = unanswered + 1
    /\ told' = [told EXCEPT ![i] = "error"]
    /\ UNCHANGED <<busRoute, schedules, trips, requests, request>>

-----------------------------------------------------------------------------
(* The fleet service.                                                       *)

\* The handler has the bus with the route it is on, which may change.
ReadBus(i) ==
    /\ At(i, "assign", "sent") \/ At(i, "unassign", "sent")
    /\ request' = [request EXCEPT
                     ![i].at = "read",
                     ![i].read = busRoute[request[i].ask.bus]]
    /\ UNCHANGED <<busRoute, schedules, trips, requests, told, unanswered>>

\* validate_route_exists asks the route service, in vain or not.
Validate(i) ==
    /\ At(i, "assign", "read") \/ At(i, "schedule", "sent")
    /\ \/ /\ Exists(request[i].ask.route)
          /\ request' = [request EXCEPT ![i].at = "valid"]
          /\ UNCHANGED <<told, unanswered>>
       \/ /\ ~Exists(request[i].ask.route)
          /\ Answers(i, "refused", "error") /\ unanswered' = unanswered
       \/ /\ unanswered < MaxUnanswered /\ unanswered' = unanswered + 1
          /\ Answers(i, "refused", "error")
    /\ UNCHANGED <<busRoute, schedules, trips, requests>>

\* The commit: no UPDATE where the bus was read with that route.
Sets(i, r) ==
    busRoute' = IF request[i].read = r THEN busRoute
                ELSE [busRoute EXCEPT ![request[i].ask.bus] = r]

AssignRoute(i) ==
    /\ At(i, "assign", "valid")
    /\ Sets(i, request[i].ask.route)
    /\ Answers(i, "done", "accepted")
    /\ UNCHANGED <<schedules, trips, requests, unanswered>>

UnassignRoute(i) ==
    /\ At(i, "unassign", "read")
    /\ Sets(i, 0)
    /\ Answers(i, "done", "accepted")
    /\ UNCHANGED <<schedules, trips, requests, unanswered>>

CreateSchedule(i) ==
    /\ At(i, "schedule", "valid")
    /\ schedules' = Append(schedules, SlotOf(request[i].ask))
    /\ Answers(i, "done", "accepted")
    /\ UNCHANGED <<busRoute, trips, requests, unanswered>>

Planned(date) == {t.schedule : t \in {u \in trips : u.date = date}}

\* Mutant of Generate: the trips of the date are not looked up first.
Generate_again(i) ==
    /\ At(i, "generate", "sent")
    /\ LET date == request[i].ask.date IN
       trips' = trips \union
          {[schedule |-> s, date |-> date, by |-> i] :
              s \in {s \in DOMAIN schedules : schedules[s][2] = DayOf(date)}}
    /\ Answers(i, "done", "accepted")
    /\ UNCHANGED <<busRoute, schedules, requests, unanswered>>

\* generate_daily_trips does not wait for anything in the middle.
Generate(i) ==
    /\ At(i, "generate", "sent")
    /\ LET date == request[i].ask.date IN
       trips' = trips \union
          {[schedule |-> s, date |-> date, by |-> i] :
              s \in {s \in DOMAIN schedules : schedules[s][2] = DayOf(date)}
                       \ Planned(date)}
    /\ Answers(i, "done", "accepted")
    /\ UNCHANGED <<busRoute, schedules, requests, unanswered>>

FleetStep ==
    \/ \E o \in Operation : Ask(o)
    \/ \E i \in Requests :
          \/ GiveUp(i) \/ ReadBus(i) \/ Validate(i)
          \/ AssignRoute(i) \/ UnassignRoute(i)
          \/ CreateSchedule(i) \/ Generate(i)

FleetNext == \/ FleetStep /\ UNCHANGED catalogVars
             \/ CatalogNext /\ UNCHANGED fleetVars

FleetSpec == /\ CatalogInit /\ FleetInit
             /\ [][FleetNext]_<<catalogVars, fleetVars>>

\* get_buses_by_route and get_today_trips.
BusesOn(r) == {b \in Fleet : busRoute[b] = r}
TripsOn(date) == {t \in trips : t.date = date}

-----------------------------------------------------------------------------
(* Properties.                                                              *)

\* Every variable keeps to its type.
FleetTypeOK ==
    /\ busRoute \in [Fleet -> Ids \union {0}]
    /\ schedules \in Seq(Ids \X Days)
    /\ trips \subseteq [schedule : DOMAIN schedules, date : Dates,
                        by : Requests]
    /\ requests \in 0 .. MaxRequests
    /\ request \in [Requests -> {NoRequest} \union Asked]
    /\ told \in [Requests -> {"none", "waiting", "accepted", "error"}]
    /\ unanswered \in 0 .. MaxUnanswered

\* A bus is listed under, and a schedule is for, a route that is or was in the
\* catalog; the id does not come back for another route, whatever was deleted
\* or imported again between the question and the entry.
OnARouteThatWas ==
    /\ \A r \in Ids : BusesOn(r) # {} => r < nextRoute
    /\ \A s \in DOMAIN schedules : schedules[s][1] < nextRoute

\* "Idempotent - calling twice on the same date does not create duplicates"
\* (gateway): a departure is planned twice for a date only if the gateway gave
\* up on the creation of its schedule, and it was asked for again.
OneTripPerDeparture ==
    \A date \in Dates : \A t, u \in TripsOn(date) :
        (t # u /\ schedules[t.schedule] = schedules[u.schedule]) =>
            \E i \in Requests :
                /\ At(i, "schedule", "done") /\ told[i] = "error"
                /\ SlotOf(request[i].ask) = schedules[t.schedule]

\* Why: a request is asked before it is answered, and a route that was found
\* valid was there; each schedule was asked for, for the second time only
\* after the gateway gave up on the first; and a generation that finds a trip
\* of a schedule plans no other.
AskedInOrder ==
    \A i \in Requests :
        /\ request[i] = NoRequest <=> i > requests
        /\ request[i] = NoRequest <=> told[i] = "none"
        /\ request[i].at = "valid" =>
              /\ request[i].ask.op \in {"assign", "schedule"}
              /\ request[i].ask.route < nextRoute

AskedAgainAfterError ==
    \A i, j \in Requests :
        (/\ i < j
         /\ request[i].ask.op = "schedule" /\ request[j].ask.op = "schedule"
         /\ SlotOf(request[i].ask) = SlotOf(request[j].ask))
            => told[i] = "error"

EachWasAskedFor ==
    \A s \in DOMAIN schedules : \E i \in Requests :
        At(i, "schedule", "done") /\ SlotOf(request[i].ask) = schedules[s]

TwiceAfterError ==
    \A s, z \in DOMAIN schedules :
        (s # z /\ schedules[s] = schedules[z]) =>
            \E i \in Requests :
                /\ At(i, "schedule", "done") /\ told[i] = "error"
                /\ SlotOf(request[i].ask) = schedules[s]

PlannedOnce ==
    \A t, u \in trips :
        (t.schedule = u.schedule /\ t.date = u.date) => t = u

\* Buses and schedules refer to routes that were in the catalog, and a
\* departure is planned once for a date, however generations and retries
\* interleave.
FleetInv ==
    /\ FleetTypeOK
    /\ AskedInOrder
    /\ AskedAgainAfterError
    /\ EachWasAskedFor
    /\ TwiceAfterError
    /\ PlannedOnce
    /\ OnARouteThatWas
    /\ OneTripPerDeparture
=============================================================================
