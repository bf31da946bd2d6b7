------------------------------ MODULE StopDwell ------------------------------
(***************************************************************************)
(* How long a vehicle stands at a stop: the stream processor's stop zones  *)
(* (services/stream-processing/app/utils/stop_resolution.py) and its dwell *)
(* calculator (utils/dwell_calculation.py).                                *)
(*                                                                         *)
(* A reading is a place and a time of its own; it may come late, again, or *)
(* dated ahead.  The caller resolves the place to a stop and records the   *)
(* vehicle there.  The calculator keeps the present stop and the one       *)
(* before for each vehicle and trip, and forgets the ones it has not heard *)
(* of for long, every so many calls.  No job of the stream processor calls *)
(* either of them: their callers are app/utils/__init__.py, which exports  *)
(* them, and the unit tests.                                               *)
(***************************************************************************)
EXTENDS Integers, Sequences, SequencesExt

CONSTANTS
    Journeys,      \* pairs of a vehicle and a trip
    StopIds,       \* identifiers of stops
    Areas,         \* the zones a stop may have: sets of places
    Ttl,           \* cache_ttl_seconds
    CleanupEvery,  \* calls between two cleanups: 100 in the code
    Never,         \* "not there": no stop, no state, no dwell
    MaxHour,       \* bound: the clock
    MaxReadings,   \* bound: readings in all
    MaxAdded       \* bound: calls of add_stop

ASSUME DwellAssumption ==
    /\ {Ttl, MaxHour, MaxReadings, MaxAdded} \subseteq Nat
    /\ CleanupEvery \in Nat \ {0}
    /\ Never \notin StopIds

VARIABLES
    zones,   \* the stop zones, in the order in which the dict keeps them
    added,   \* calls of add_stop so far
    tracked, \* _state_cache: per journey, its state or Never
    calls,   \* _cleanup_counter
    hour,    \* the clock, utcnow()
    tz,      \* do the readings' times carry a time zone?
    visits,  \* history: the readings the journey's state was made of
    swept    \* history: when a cleanup last ended, and whom it left

dwellVars == <<zones, added, tracked, calls, hour, tz, visits, swept>>

-----------------------------------------------------------------------------
Spots == UNION Areas
Times == 0 .. MaxHour

\* resolve_stop: the first zone of the dict that contains the place, which
\* need not be the nearest stop that its docstring promises.
Resolve(z, p) ==
    LET in == {i \in DOMAIN z : p \in z[i].area}
    IN IF in = {} THEN Never ELSE z[CHOOSE i \in in : \A j \in in : i <= j].id

\* add_stop: an identifier that is there keeps its place in the dict.
WithStop(z, s) ==
    IF \E i \in DOMAIN z : z[i].id = s.id
    THEN [i \in DOMAIN z |-> IF z[i].id = s.id THEN s ELSE z[i]]
    ELSE Append(z, s)

DwellInit ==
    /\ zones = <<>> /\ added = 0 /\ calls = 0 /\ hour = 0
    /\ tracked = [j \in Journeys |-> Never]
    /\ tz \in BOOLEAN
    /\ visits = [j \in Journeys |-> <<>>]
    /\ swept = [hour |-> 0, left |-> {}]

AddStop(s) ==
    /\ added < MaxAdded
    /\ added' = added + 1
    /\ zones' = WithStop(zones, s)
    /\ UNCHANGED <<tracked, calls, hour, tz, visits, swept>>

\* VehicleStopState as it is made: heard of now, by the clock, which has no
\* time zone.
Arrived(stop, t) ==
    [stop |-> stop, entry |-> t, last |-> hour, zoned |-> FALSE, dwell |-> 0]

\* update_dwell
Stays(v, t) == [v EXCEPT !.dwell = t - v.entry, !.last = t, !.zoned = tz]

\* Mutant of Recorded: the stop before keeps its place while a new one comes.
Recorded_first(v, stop, t) ==
    IF v = Never THEN [now |-> Arrived(stop, t), before |-> Never]
    ELSE IF v.now.stop # stop
         THEN [now |-> Arrived(stop, t),
               before |-> IF v.before = Never THEN v.now ELSE v.before]
         ELSE [v EXCEPT !.now = Stays(v.now, t)]

\* The state of a journey with one more reading at a stop.
Recorded(v, stop, t) ==
    IF v = Never THEN [now |-> Arrived(stop, t), before |-> Never]
    ELSE IF v.now.stop # stop
         THEN [now |-> Arrived(stop, t), before |-> v.now]
         ELSE [v EXCEPT !.now = Stays(v.now, t)]

Expired(v) == v # Never /\ hour - v.now.last > Ttl

\* Subtracting a time with a zone from one without raises.
Unsubtractable(all) == \E j \in Journeys : all[j] # Never /\ all[j].now.zoned

\* record_vehicle_at_stop, with the cleanup that falls due.  It returns the
\* dwells of the journey's new state; when the cleanup raises, the caller gets
\* no dwell, and the state has changed all the same.
Record(j, p, t) ==
    LET stop == Resolve(zones, p)
        new == Recorded(tracked[j], stop, t)
        all == [tracked EXCEPT ![j] = new]
        seen == [visits EXCEPT ![j] = Append(@, <<stop, t>>)]
        due == (calls + 1) % CleanupEvery = 0
        gone == {k \in Journeys : Expired(all[k])}
    IN /\ stop # Never /\ calls < MaxReadings
       /\ calls' = calls + 1
       /\ IF due /\ ~Unsubtractable(all)
          THEN /\ tracked' = [k \in Journeys |->
                                 IF k \in gone THEN Never ELSE all[k]]
               /\ visits' = [k \in Journeys |->
                                 IF k \in gone THEN <<>> ELSE seen[k]]
               /\ swept' = [hour |-> hour, left |-> Journeys \ gone]
          ELSE /\ tracked' = all /\ visits' = seen
               /\ swept' = [swept EXCEPT !.left = @ \ {j}]
       /\ UNCHANGED <<zones, added, hour, tz>>

\* clear_vehicle_state, as when a trip ends.
Clear(j) ==
    /\ tracked[j] # Never
    /\ tracked' = [tracked EXCEPT ![j] = Never]
    /\ visits' = [visits EXCEPT ![j] = <<>>]
    /\ UNCHANGED <<zones, added, calls, hour, tz, swept>>

Hour == /\ hour < MaxHour
        /\ hour' = hour + 1
        /\ UNCHANGED <<zones, added, tracked, calls, tz, visits, swept>>

DwellNext == \/ \E s \in [id : StopIds, area : Areas] : AddStop(s)
             \/ \E j \in Journeys, p \in Spots, t \in Times : Record(j, p, t)
             \/ \E j \in Journeys : Clear(j)
             \/ Hour

DwellSpec == DwellInit /\ [][DwellNext]_dwellVars

-----------------------------------------------------------------------------
StopState == [stop : StopIds, entry : Times, last : Times, zoned : BOOLEAN,
              dwell : -MaxHour .. MaxHour]
JourneyState == [now : StopState, before : StopState \union {Never}]

ASSUME NeverIsNoState == Never \notin JourneyState

\* Every variable keeps to its type, and a journey has a state exactly when
\* readings of it are not forgotten.
DwellTypeOK ==
    /\ zones \in Seq([id : StopIds, area : Areas])
    /\ Len(zones) <= added /\ added \in 0 .. MaxAdded
    /\ tracked \in [Journeys -> JourneyState \union {Never}]
    /\ visits \in [Journeys -> Seq(StopIds \X Times)]
    /\ \A j \in Journeys : tracked[j] = Never <=> visits[j] = <<>>
    /\ calls \in 0 .. MaxReadings /\ hour \in Times /\ tz \in BOOLEAN
    /\ swept \in [hour : Times, left : SUBSET Journeys]

\* Where the stay that ends with the n-th reading began.
StayFrom(h, n) ==
    CHOOSE i \in 1 .. n :
        /\ \A k \in i .. n : h[k][1] = h[n][1]
        /\ i > 1 => h[i - 1][1] # h[n][1]
Stay(h, n) == h[n][2] - h[StayFrom(h, n)][2]

\* The two dwells of a journey are those of its own readings, whatever other
\* journeys report and whatever was cleaned up between: from the first reading
\* of the stay to the last one that came, now, and of the stay before.  So a
\* late reading makes a dwell shorter, and even negative.
StaysAreMeasured ==
    \A j \in Journeys : tracked[j] # Never =>
        LET h == visits[j]
            from == StayFrom(h, Len(h))
        IN /\ h # <<>>
           /\ tracked[j].now.stop = h[Len(h)][1]
           /\ tracked[j].now.dwell = Stay(h, Len(h))
           /\ IF from = 1 THEN tracked[j].before = Never
              ELSE /\ tracked[j].before.stop = h[from - 1][1]
                   /\ tracked[j].before.dwell = Stay(h, from - 1)

\* The cache does not keep what is over: a journey that was there when a
\* cleanup ended, and has not been heard of since, was heard of within the
\* time to live before that cleanup, by the clock when it came to its stop
\* and by its own time afterwards.
SweptIsRecent ==
    \A j \in swept.left : tracked[j] # Never =>
        swept.hour - tracked[j].now.last <= Ttl

\* Why: the entry of a state is the time of the reading its stay began with.
EntryBeganStay ==
    \A j \in Journeys : tracked[j] # Never =>
        tracked[j].now.entry
            = visits[j][StayFrom(visits[j], Len(visits[j]))][2]

\* A dwell is what the readings of the journey say, and a cleanup leaves
\* nothing that is over.
DwellInv ==
    /\ DwellTypeOK
    /\ StaysAreMeasured /\ EntryBeganStay
    /\ SweptIsRecent
=============================================================================
