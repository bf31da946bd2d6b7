----------------------- MODULE StreamEnrichment_proofs -----------------------
(***************************************************************************)
(* Proofs about StreamEnrichment, for every set of trips and of event      *)
(* times and for every bound.                                              *)
(***************************************************************************)
EXTENDS StreamEnrichment, TLAPS

\* Appending adds one element to the range of a sequence.
LEMMA RangeAppend ==
    ASSUME NEW S, NEW s \in Seq(S), NEW x \in S
    PROVE  SeqRange(Append(s, x)) = SeqRange(s) \union {x}
<1>1. /\ DOMAIN Append(s, x) = (DOMAIN s) \union {Len(s) + 1}
      /\ Append(s, x)[Len(s) + 1] = x
      /\ \A i \in DOMAIN s : Append(s, x)[i] = s[i]
  OBVIOUS
<1> QED
  BY <1>1 DEF SeqRange

\* The head and the tail of a sequence have its range between them.
LEMMA RangeTail ==
    ASSUME NEW S, NEW s \in Seq(S), s # <<>>
    PROVE  SeqRange(s) = {Head(s)} \union SeqRange(Tail(s))
<1>1. ASSUME NEW x \in SeqRange(s)
      PROVE  x \in {Head(s)} \union SeqRange(Tail(s))
  <2>1. PICK i \in DOMAIN s : x = s[i]
    BY DEF SeqRange
  <2>2. CASE i = 1
    BY <2>1, <2>2
  <2>3. CASE i # 1
    <3>1. i - 1 \in DOMAIN Tail(s) /\ Tail(s)[i - 1] = s[i]
      BY <2>3
    <3> QED
      BY <2>1, <3>1 DEF SeqRange
  <2> QED
    BY <2>2, <2>3
<1>2. ASSUME NEW x \in SeqRange(Tail(s))
      PROVE  x \in SeqRange(s)
  <2>1. PICK i \in DOMAIN Tail(s) : x = Tail(s)[i]
    BY DEF SeqRange
  <2>2. i + 1 \in DOMAIN s /\ s[i + 1] = Tail(s)[i]
    OBVIOUS
  <2> QED
    BY <2>1, <2>2 DEF SeqRange
<1>3. Head(s) \in SeqRange(s)
  <2>1. 1 \in DOMAIN s /\ Head(s) = s[1]
    OBVIOUS
  <2> QED
    BY <2>1 DEF SeqRange
<1> QED
  BY <1>1, <1>2, <1>3

-----------------------------------------------------------------------------
(* Types.                                                                   *)

\* What ingestion and fleet append, and the consumers' places in it.
Output == Record \union Diverted

\* Every enriched position is well formed.
LEMMA EnrichedType ==
    ASSUME TypeOK, posR < Len(raw)
    PROVE  Enriched(posR + 1) \in Record
<1>1. raw[posR + 1] \in Position /\ posR + 1 \in 1 .. MaxPositions
  BY StreamAssumption DEF TypeOK
<1>2. /\ raw[posR + 1].trip \in Trips \union {NoTrip}
      /\ state.trip \in Trips \union {NoTrip}
      /\ boot \in Trips \union {NoTrip}
      /\ state.status \in {"none", "ACTIVE", "INACTIVE"}
      /\ state.known \subseteq Trips
  BY <1>1, StreamAssumption DEF TypeOK, Position, KeyedState
<1>3. TripOf(raw[posR + 1].trip) \in Trips \union {NoTrip}
  BY <1>2 DEF TripOf, Or
<1>4. RouteOf(raw[posR + 1].trip) \in Trips \union {NoTrip}
  BY <1>2, <1>3 DEF RouteOf, Or
<1>5. StatusOf(raw[posR + 1].trip) \in {"ACTIVE", "INACTIVE"}
  BY <1>2 DEF StatusOf
<1> QED
  BY <1>1, <1>3, <1>4, <1>5 DEF Enriched, Record

\* The state keeps its type when a lifecycle event is applied.
LEMMA AppliedType ==
    ASSUME TypeOK, NEW e \in Event
    PROVE  Applied(e) \in KeyedState /\ BootAfter(e) \in Trips \union {NoTrip}
<1>1. state \in KeyedState /\ boot \in Trips \union {NoTrip}
  BY DEF TypeOK
<1>2. e.trip \in Trips
  BY DEF Event
<1> QED
  BY <1>1, <1>2 DEF Applied, BootAfter, KeyedState

\* TypeOK by the variables that change together.
FleetOK == /\ trips \in [Trips -> Row]
           /\ incidents \in 0 .. MaxIncidents
           /\ unpublished \subseteq Event
           /\ log \in Seq(Event)
RawOK   == raw \in Seq(Position) /\ Len(raw) <= MaxPositions
OpenOK  == /\ phase \in {"opening", "fetching", "open"}
           /\ boot \in Trips \union {NoTrip}
StateOK == state \in KeyedState
ReadOK  == posL \in 0 .. Len(log) /\ posR \in 0 .. Len(raw)
OutOK   == /\ sink \in [Sinks -> Seq(Output)]
           /\ topic \in [Sinks -> Seq(Output)]
           /\ redis \in Record \union {NoRecord}
CkptOK  == ckpt \in [state : KeyedState, posL : 0 .. Len(log),
                     posR : 0 .. Len(raw)]
FailOK  == failures \in 0 .. MaxFailures

LEMMA TypeParts ==
    TypeOK <=> /\ FleetOK /\ RawOK /\ OpenOK /\ StateOK
               /\ ReadOK /\ OutOK /\ CkptOK /\ FailOK
  BY DEF TypeOK, FleetOK, RawOK, OpenOK, StateOK, ReadOK, OutOK, CkptOK,
         FailOK, Output

LEMMA TypePartsNext ==
    TypeOK' <=> /\ FleetOK' /\ RawOK' /\ OpenOK' /\ StateOK'
                /\ ReadOK' /\ OutOK' /\ CkptOK' /\ FailOK'
  BY DEF TypeOK, FleetOK, RawOK, OpenOK, StateOK, ReadOK, OutOK, CkptOK,
         FailOK, Output

\* Longer inputs keep the places in them within their bounds.
LEMMA LongerInputs ==
    ASSUME FleetOK, RawOK, ReadOK, CkptOK, FleetOK', RawOK',
           Len(log) <= Len(log'), Len(raw) <= Len(raw'),
           UNCHANGED <<posL, posR, ckpt>>
    PROVE  ReadOK' /\ CkptOK'
<1>1. Len(log) \in Nat /\ Len(log') \in Nat /\ Len(raw) \in Nat
        /\ Len(raw') \in Nat
  BY DEF FleetOK, RawOK
<1>2. 0 .. Len(log) \subseteq 0 .. Len(log')
        /\ 0 .. Len(raw) \subseteq 0 .. Len(raw')
  BY <1>1
<1> QED
  BY <1>2 DEF ReadOK, CkptOK

\* The types survive every step.
LEMMA TypeStep == TypeOK /\ [Next]_vars => TypeOK'
<1> SUFFICES ASSUME TypeOK, [Next]_vars
             PROVE  TypeOK'
  OBVIOUS
<1>0. /\ FleetOK /\ RawOK /\ OpenOK /\ StateOK
      /\ ReadOK /\ OutOK /\ CkptOK /\ FailOK
      /\ Len(log) \in Nat /\ Len(raw) \in Nat
  <2>1. /\ FleetOK /\ RawOK /\ OpenOK /\ StateOK
        /\ ReadOK /\ OutOK /\ CkptOK /\ FailOK
    BY TypeParts
  <2> QED
    BY <2>1 DEF FleetOK, RawOK
<1>1. CASE \E t \in Trips : StartTrip(t) \/ EndTrip(t) \/ ReportIncident(t)
  <2>1. UNCHANGED <<log, raw, jobVars, outVars, ckpt, failures>>
    BY <1>1 DEF StartTrip, EndTrip, ReportIncident
  <2>2. FleetOK'
    <3>1. PICK t \in Trips :
            StartTrip(t) \/ EndTrip(t) \/ ReportIncident(t)
      BY <1>1
    <3>2. trips' \in [Trips -> Row]
      BY <1>0, <3>1
         DEF FleetOK, StartTrip, EndTrip, ReportIncident, Row, Statuses
    <3>3. incidents' \in 0 .. MaxIncidents
      BY <1>0, <3>1, StreamAssumption
         DEF FleetOK, StartTrip, EndTrip, ReportIncident
    <3>4. unpublished' \subseteq Event
      BY <1>0, <3>1
         DEF FleetOK, StartTrip, EndTrip, ReportIncident, Owes, Event
    <3> QED
      BY <1>0, <2>1, <3>2, <3>3, <3>4 DEF FleetOK
  <2> QED
    BY <1>0, <2>1, <2>2, TypePartsNext
       DEF RawOK, OpenOK, StateOK, ReadOK, OutOK, CkptOK, FailOK, jobVars,
           outVars
<1>2. CASE \E e \in unpublished : Publish(e)
  <2>1. UNCHANGED <<trips, incidents, raw, jobVars, outVars, ckpt, failures>>
    BY <1>2 DEF Publish
  <2>2. FleetOK' /\ Len(log) <= Len(log')
    <3>1. PICK e \in Event : Publish(e)
      BY <1>0, <1>2 DEF FleetOK
    <3> QED
      BY <1>0, <2>1, <3>1 DEF FleetOK, Publish
  <2>3. RawOK' /\ Len(raw) <= Len(raw')
    BY <1>0, <2>1 DEF RawOK
  <2>4. ReadOK' /\ CkptOK'
    BY <1>0, <2>1, <2>2, <2>3, LongerInputs DEF jobVars
  <2> QED
    BY <1>0, <2>1, <2>2, <2>3, <2>4, TypePartsNext
       DEF OpenOK, StateOK, OutOK, FailOK, jobVars, outVars
<1>3. CASE \E p \in Position : Report(p)
  <2>1. UNCHANGED <<fleetVars, jobVars, outVars, ckpt, failures>>
    BY <1>3 DEF Report
  <2>2. RawOK' /\ Len(raw) <= Len(raw')
    BY <1>0, <1>3, StreamAssumption DEF RawOK, Report
  <2>3. FleetOK' /\ Len(log) <= Len(log')
    BY <1>0, <2>1 DEF FleetOK, fleetVars
  <2>4. ReadOK' /\ CkptOK'
    BY <1>0, <2>1, <2>2, <2>3, LongerInputs DEF jobVars
  <2> QED
    BY <1>0, <2>1, <2>2, <2>3, <2>4, TypePartsNext
       DEF OpenOK, StateOK, OutOK, FailOK, jobVars, outVars
<1>4. CASE OpenStep
  <2>1. UNCHANGED <<fleetVars, raw, state, posL, posR, outVars, ckpt,
                    failures>>
    BY <1>4 DEF OpenStep, FetchEnRoute, FetchIncidents, FetchFails
  <2>2. OpenOK'
    BY <1>0, <1>4
       DEF OpenOK, OpenStep, FetchEnRoute, FetchIncidents, FetchFails,
           InStatus
  <2> QED
    BY <1>0, <2>1, <2>2, TypePartsNext
       DEF FleetOK, RawOK, StateOK, ReadOK, OutOK, CkptOK, FailOK,
           fleetVars, outVars
<1>5. CASE ProcessLifecycle
  <2>1. UNCHANGED <<fleetVars, raw, phase, posR, outVars, ckpt, failures>>
    BY <1>5 DEF ProcessLifecycle
  <2>2. posL < Len(log) /\ log[posL + 1] \in Event
    BY <1>0, <1>5 DEF ProcessLifecycle, FleetOK, ReadOK
  <2>3. StateOK' /\ OpenOK'
    BY <1>0, <1>5, <2>2, AppliedType DEF ProcessLifecycle, StateOK, OpenOK
  <2>4. ReadOK'
    BY <1>0, <1>5, <2>1, <2>2 DEF ProcessLifecycle, ReadOK, fleetVars
  <2> QED
    BY <1>0, <2>1, <2>3, <2>4, TypePartsNext
       DEF FleetOK, RawOK, OutOK, CkptOK, FailOK, fleetVars, outVars
<1>6. CASE ProcessPosition
  <2>1. PICK p \in Position : \/ DivertInvalid(p) \/ DropLate(p)
                              \/ RaiseOnText(p)   \/ EnrichPosition(p)
    BY <1>6 DEF ProcessPosition
  <2>2. NextPosition(p)
    BY <2>1 DEF DivertInvalid, DropLate, RaiseOnText, EnrichPosition
  <2>3. /\ UNCHANGED <<fleetVars, raw, phase, boot, posL, topic, ckpt,
                       failures>>
        /\ posR < Len(raw) /\ posR' = posR + 1
    BY <2>2 DEF NextPosition
  <2>4. ReadOK'
    BY <1>0, <2>3 DEF ReadOK, fleetVars
  <2>5. [id |-> posR + 1] \in Output /\ Enriched(posR + 1) \in Output
          /\ Enriched(posR + 1) \in Record
    <3>1. posR + 1 \in 1 .. MaxPositions
      BY <1>0, <2>3, StreamAssumption DEF RawOK, ReadOK
    <3> QED
      BY <2>3, <3>1, EnrichedType DEF Output, Diverted
  <2>6. StateOK'
    BY <1>0, <2>1
       DEF StateOK, KeyedState, Position, DivertInvalid, DropLate,
           RaiseOnText, EnrichPosition
  <2>7. sink' \in [Sinks -> Seq(Output)]
    <3>1. sink \in [Sinks -> Seq(Output)]
      BY <1>0 DEF OutOK
    <3>2. CASE DivertInvalid(p)
      <4>1. Append(sink["invalid"], [id |-> posR + 1]) \in Seq(Output)
        BY <2>5, <3>1 DEF Sinks
      <4> QED
        BY <3>1, <3>2, <4>1 DEF DivertInvalid
    <3>3. CASE DropLate(p) \/ RaiseOnText(p)
      BY <3>1, <3>3 DEF DropLate, RaiseOnText
    <3>4. CASE EnrichPosition(p)
      <4>1. /\ Append(sink["cleaned"], Enriched(posR + 1)) \in Seq(Output)
            /\ Append(sink["features"], Enriched(posR + 1)) \in Seq(Output)
        BY <2>5, <3>1 DEF Sinks
      <4> QED
        BY <3>1, <3>4, <4>1 DEF EnrichPosition
    <3> QED
      BY <2>1, <3>2, <3>3, <3>4
  <2>8. OutOK'
    BY <1>0, <2>1, <2>3, <2>5, <2>7
       DEF OutOK, DivertInvalid, DropLate, RaiseOnText, EnrichPosition
  <2> QED
    BY <1>0, <2>3, <2>4, <2>6, <2>8, TypePartsNext
       DEF FleetOK, RawOK, OpenOK, CkptOK, FailOK, fleetVars
<1>7. CASE \E k \in Sinks : SinkSends(k)
  <2>1. PICK k \in Sinks : SinkSends(k)
    BY <1>7
  <2>2. UNCHANGED <<fleetVars, raw, jobVars, redis, ckpt, failures>>
    BY <2>1 DEF SinkSends
  <2>3. OutOK'
    <3>1. /\ sink \in [Sinks -> Seq(Output)] /\ sink[k] \in Seq(Output)
          /\ topic \in [Sinks -> Seq(Output)] /\ topic[k] \in Seq(Output)
          /\ sink[k] # <<>>
      BY <1>0, <2>1 DEF OutOK, SinkSends
    <3>2. Head(sink[k]) \in Output /\ Tail(sink[k]) \in Seq(Output)
      BY <3>1
    <3>3. Append(topic[k], Head(sink[k])) \in Seq(Output)
      BY <3>1, <3>2
    <3> QED
      BY <1>0, <2>1, <2>2, <3>1, <3>2, <3>3 DEF OutOK, SinkSends
  <2> QED
    BY <1>0, <2>2, <2>3, TypePartsNext
       DEF FleetOK, RawOK, OpenOK, StateOK, ReadOK, CkptOK, FailOK,
           fleetVars, jobVars
<1>8. CASE Checkpoint
  <2>1. UNCHANGED <<fleetVars, raw, jobVars, outVars, failures>>
    BY <1>8 DEF Checkpoint
  <2>2. CkptOK'
    BY <1>0, <1>8, <2>1
       DEF Checkpoint, CkptOK, StateOK, ReadOK, fleetVars
  <2> QED
    BY <1>0, <2>1, <2>2, TypePartsNext
       DEF FleetOK, RawOK, OpenOK, StateOK, ReadOK, OutOK, FailOK,
           fleetVars, jobVars, outVars
<1>9. CASE Fail \/ Resubmit
  <2>1. Fresh \in [state : KeyedState, posL : 0 .. Len(log),
                   posR : 0 .. Len(raw)]
    BY <1>0 DEF Fresh, EmptyState, KeyedState
  <2>2. PICK c \in [state : KeyedState, posL : 0 .. Len(log),
                    posR : 0 .. Len(raw)] : RunFrom(c)
    BY <1>0, <1>9, <2>1 DEF Fail, Resubmit, CkptOK
  <2>3. UNCHANGED <<fleetVars, raw, topic, redis>>
    BY <2>2 DEF RunFrom
  <2>4. OpenOK' /\ StateOK' /\ ReadOK' /\ CkptOK'
    BY <2>2, <2>3
       DEF RunFrom, OpenOK, StateOK, ReadOK, CkptOK, fleetVars
  <2>5. FailOK'
    BY <1>0, <2>2, StreamAssumption DEF RunFrom, FailOK
  <2>6. OutOK'
    BY <1>0, <2>2, <2>3 DEF RunFrom, OutOK
  <2> QED
    BY <1>0, <2>3, <2>4, <2>5, <2>6, TypePartsNext
       DEF FleetOK, RawOK, fleetVars
<1>10. CASE UNCHANGED vars
  BY <1>0, <1>10, TypePartsNext
     DEF FleetOK, RawOK, OpenOK, StateOK, ReadOK, OutOK, CkptOK, FailOK,
         vars, fleetVars, jobVars, outVars
<1> QED
  BY <1>1, <1>2, <1>3, <1>4, <1>5, <1>6, <1>7, <1>8, <1>9, <1>10
     DEF Next, FleetStep

\* The types hold at the start.
LEMMA TypeInit == Init => TypeOK
  BY StreamAssumption DEF Init, TypeOK, Row, Statuses, KeyedState, EmptyState,
                          Fresh

\* TypeOK holds in every reachable state.
THEOREM StreamTypeCorrect == Spec => []TypeOK
  BY TypeInit, TypeStep, PTL DEF Spec

-----------------------------------------------------------------------------
(* The keyed state and the lifecycle events.                                *)

\* The reading of an empty prefix.
LEMMA FollowsNothing == Follows(EmptyState, 0)
<1>1. 1 .. 0 = {}
  OBVIOUS
<1> QED
  BY <1>1, StreamAssumption DEF Follows, EmptyState, Turns

\* One more event: what it does to the turns of the log.
LEMMA TurnsNext ==
    ASSUME log \in Seq(Event), NEW p \in Nat, p < Len(log)
    PROVE  /\ log[p + 1].event = "INCIDENT_REPORTED" =>
                 Turns(p + 1) = Turns(p)
           /\ log[p + 1].event # "INCIDENT_REPORTED" =>
                 Turns(p + 1) = Turns(p) \union {p + 1}
           /\ \A i \in Turns(p) : i \in 1 .. p
<1>1. 1 .. (p + 1) = (1 .. p) \union {p + 1}
  OBVIOUS
<1> QED
  BY <1>1 DEF Turns

LEMMA LastNext ==
    ASSUME log \in Seq(Event), NEW p \in Nat, p < Len(log)
    PROVE  /\ log[p + 1].event = "INCIDENT_REPORTED" =>
                 \A i : IsLast(i, p + 1) <=> IsLast(i, p)
           /\ log[p + 1].event # "INCIDENT_REPORTED" =>
                 \A i : IsLast(i, p + 1) <=> i = p + 1
<1>1. CASE log[p + 1].event = "INCIDENT_REPORTED"
  BY <1>1, TurnsNext DEF IsLast
<1>2. CASE log[p + 1].event # "INCIDENT_REPORTED"
  <2>1. /\ Turns(p + 1) = Turns(p) \union {p + 1}
        /\ \A i \in Turns(p) : i \in 1 .. p
    BY <1>2, TurnsNext
  <2>2. \A j \in Turns(p + 1) : j <= p + 1
    BY <2>1
  <2>3. \A i \in Turns(p) : ~(p + 1 <= i)
    BY <2>1
  <2> QED
    BY <1>2, <2>1, <2>2, <2>3 DEF IsLast
<1> QED
  BY <1>1, <1>2

\* Applying the next event keeps the state in step with the log.
LEMMA FollowsNext ==
    ASSUME TypeOK, posL < Len(log), Follows(state, posL)
    PROVE  Follows(Applied(log[posL + 1]), posL + 1)
<1> DEFINE e == log[posL + 1]
           s == Applied(e)
<1>1. /\ log \in Seq(Event) /\ posL \in Nat /\ e \in Event
      /\ state \in KeyedState
  BY DEF TypeOK
<1>2. /\ e.event \in {"TRIP_STARTED", "TRIP_ENDED", "INCIDENT_REPORTED"}
      /\ e.trip \in Trips
      /\ e = [event |-> e.event, trip |-> e.trip]
  BY <1>1 DEF Event
<1>3. /\ 1 .. (posL + 1) = (1 .. posL) \union {posL + 1}
      /\ posL + 1 \notin 1 .. posL
      /\ ((posL + 1) + 1) .. (posL + 1) = {}
      /\ \A i \in 1 .. posL :
            (i + 1) .. (posL + 1) = ((i + 1) .. posL) \union {posL + 1}
  BY <1>1
<1>4. \A t : Started(t).event = "TRIP_STARTED" /\ Started(t).trip = t
             /\ Ended(t).event = "TRIP_ENDED" /\ Ended(t).trip = t
  BY DEF Started, Ended
<1>5. ASSUME NEW t \in Trips
      PROVE  s.trip = t <=> \E i \in 1 .. (posL + 1) :
                IsLast(i, posL + 1) /\ log[i] = Started(t)
  <2>1. state.trip = t <=> \E i \in 1 .. posL :
            IsLast(i, posL) /\ log[i] = Started(t)
    BY DEF Follows, Started
  <2>2. CASE e.event = "INCIDENT_REPORTED"
    <3>1. s = state
      BY <2>2 DEF Applied
    <3>2. \A i : IsLast(i, posL + 1) <=> IsLast(i, posL)
      BY <1>1, <2>2, LastNext
    <3>3. log[posL + 1] # Started(t)
      BY <1>4, <2>2
    <3> QED
      BY <1>3, <2>1, <3>1, <3>2, <3>3
  <2>3. CASE e.event # "INCIDENT_REPORTED"
    <3>1. \A i : IsLast(i, posL + 1) <=> i = posL + 1
      BY <1>1, <2>3, LastNext
    <3>2. s.trip = t <=> e = Started(t)
      BY <1>1, <1>2, <1>4, <2>3, StreamAssumption
         DEF Applied, KeyedState, Started
    <3> QED
      BY <1>3, <3>1, <3>2
  <2> QED
    BY <2>2, <2>3
<1>6. s.status = "none" <=> Turns(posL + 1) = {}
  <2>1. state.status = "none" <=> Turns(posL) = {}
    BY DEF Follows
  <2>2. CASE e.event = "INCIDENT_REPORTED"
    BY <1>1, <2>1, <2>2, TurnsNext DEF Applied
  <2>3. CASE e.event # "INCIDENT_REPORTED"
    BY <1>1, <1>2, <2>3, TurnsNext DEF Applied, KeyedState
  <2> QED
    BY <2>2, <2>3
<1>7. s.status = "ACTIVE" <=> s.trip # NoTrip
  BY <1>1, <1>2, StreamAssumption DEF Follows, Applied, KeyedState
<1>8. ASSUME NEW t \in Trips
      PROVE  t \in s.known <=> \E i \in 1 .. (posL + 1) :
                /\ log[i] = Started(t)
                /\ \A j \in (i + 1) .. (posL + 1) : log[j] # Ended(t)
  <2>1. t \in state.known <=> \E i \in 1 .. posL :
            /\ log[i] = Started(t)
            /\ \A j \in (i + 1) .. posL : log[j] # Ended(t)
    BY DEF Follows, Started, Ended
  <2>2. (\E i \in 1 .. (posL + 1) :
            /\ log[i] = Started(t)
            /\ \A j \in (i + 1) .. (posL + 1) : log[j] # Ended(t))
        <=> \/ e = Started(t)
            \/ e # Ended(t) /\ t \in state.known
    BY <1>3, <2>1
  <2>3. /\ e = Started(t) <=> e.event = "TRIP_STARTED" /\ e.trip = t
        /\ e = Ended(t) <=> e.event = "TRIP_ENDED" /\ e.trip = t
    BY <1>2 DEF Started, Ended
  <2>4. t \in s.known <=> \/ e.event = "TRIP_STARTED" /\ e.trip = t
                          \/ /\ ~(e.event = "TRIP_ENDED" /\ e.trip = t)
                             /\ t \in state.known
    BY <1>1, <1>2 DEF Applied, KeyedState
  <2> QED
    BY <2>2, <2>3, <2>4
<1> QED
  BY <1>5, <1>6, <1>7, <1>8 DEF Follows, Started, Ended

\* A prefix reads the same when the log grows behind it.
LEMMA FollowsLonger ==
    ASSUME NEW p \in Nat, NEW s, NEW e, p <= Len(log),
           log \in Seq(Event), log' = log \/ log' = Append(log, e),
           Follows(s, p)
    PROVE  Follows(s, p)'
<1>1. \A i \in 1 .. p : log'[i] = log[i]
  OBVIOUS
<1>2. Turns(p)' = Turns(p)
  BY <1>1 DEF Turns
<1>3. \A i : IsLast(i, p)' <=> IsLast(i, p)
  BY <1>2 DEF IsLast
<1>4. \A i \in 1 .. p : \A j \in (i + 1) .. p : j \in 1 .. p
  OBVIOUS
<1>5. ASSUME NEW t \in Trips
      PROVE  (\E i \in 1 .. p : IsLast(i, p)' /\ log'[i] = Started(t))
             <=> (\E i \in 1 .. p : IsLast(i, p) /\ log[i] = Started(t))
  BY ONLY <1>1, <1>3
<1>6. ASSUME NEW t \in Trips
      PROVE  (\E i \in 1 .. p :
                 /\ log'[i] = Started(t)
                 /\ \A j \in (i + 1) .. p : log'[j] # Ended(t))
             <=> (\E i \in 1 .. p :
                 /\ log[i] = Started(t)
                 /\ \A j \in (i + 1) .. p : log[j] # Ended(t))
  BY ONLY <1>1, <1>4
<1> QED
  BY <1>2, <1>5, <1>6 DEF Follows, Started, Ended

\* The keyed state and the checkpoint stay in step with the log.
LEMMA FollowsStep ==
    TypeOK /\ StateFollowsLifecycle /\ [Next]_vars => StateFollowsLifecycle'
<1> SUFFICES ASSUME TypeOK, StateFollowsLifecycle, [Next]_vars
             PROVE  StateFollowsLifecycle'
  OBVIOUS
<1>0. /\ log \in Seq(Event)
      /\ posL \in Nat /\ posL <= Len(log)
      /\ ckpt.posL \in Nat /\ ckpt.posL <= Len(log)
      /\ Follows(state, posL) /\ Follows(ckpt.state, ckpt.posL)
  BY DEF TypeOK, StateFollowsLifecycle
<1>1. ASSUME NEW e, log' = log \/ log' = Append(log, e),
             UNCHANGED <<state, posL, ckpt>>
      PROVE  StateFollowsLifecycle'
  <2>1. \A s, p : p \in Nat /\ p <= Len(log) /\ Follows(s, p)
                    => Follows(s, p)'
    BY <1>0, <1>1, FollowsLonger
  <2> QED
    BY <1>0, <1>1, <2>1 DEF StateFollowsLifecycle
<1>2. ASSUME log' = log
      PROVE  \A s, p : p \in Nat /\ p <= Len(log) /\ Follows(s, p)
                         => Follows(s, p)'
  BY <1>0, <1>2, FollowsLonger
<1>3. CASE ProcessLifecycle
  <2>1. /\ log' = log /\ ckpt' = ckpt
        /\ posL < Len(log) /\ posL' = posL + 1
        /\ state' = Applied(log[posL + 1])
    BY <1>3 DEF ProcessLifecycle, fleetVars
  <2>2. Follows(Applied(log[posL + 1]), posL + 1)
    BY <1>0, <2>1, FollowsNext
  <2>3. posL + 1 \in Nat /\ posL + 1 <= Len(log)
    BY <1>0, <2>1
  <2> QED
    BY <1>0, <1>2, <2>1, <2>2, <2>3 DEF StateFollowsLifecycle
<1>4. CASE ProcessPosition
  <2>1. PICK p \in Position : \/ DivertInvalid(p) \/ DropLate(p)
                              \/ RaiseOnText(p)   \/ EnrichPosition(p)
    BY <1>4 DEF ProcessPosition
  <2>2. log' = log /\ posL' = posL /\ ckpt' = ckpt
    BY <2>1 DEF DivertInvalid, DropLate, RaiseOnText, EnrichPosition,
                NextPosition, fleetVars
  <2>3. /\ state'.trip = state.trip /\ state'.status = state.status
        /\ state'.known = state.known
    <3>1. state \in KeyedState
      BY DEF TypeOK
    <3> QED
      BY <2>1, <3>1 DEF DivertInvalid, DropLate, RaiseOnText, EnrichPosition,
                        KeyedState
  <2>4. Follows(state, posL)' /\ Follows(ckpt.state, ckpt.posL)'
    <3>1. Follows(state', posL)
      BY <1>0, <2>3 DEF Follows
    <3> QED
      BY <1>0, <1>2, <2>2, <3>1
  <2> QED
    BY <2>4 DEF StateFollowsLifecycle
<1>5. CASE Checkpoint
  <2>1. /\ log' = log /\ UNCHANGED <<state, posL>>
        /\ ckpt'.state = state /\ ckpt'.posL = posL
    BY <1>5 DEF Checkpoint, fleetVars, jobVars
  <2> QED
    BY <1>0, <1>2, <2>1 DEF StateFollowsLifecycle
<1>6. CASE Fail \/ Resubmit
  <2>1. PICK c \in {ckpt, Fresh} : RunFrom(c)
    BY <1>6 DEF Fail, Resubmit
  <2>2. /\ log' = log /\ state' = c.state /\ posL' = c.posL /\ ckpt' = c
    BY <2>1 DEF RunFrom, fleetVars
  <2>3. Follows(c.state, c.posL) /\ c.posL \in Nat /\ c.posL <= Len(log)
    BY <1>0, <2>1, FollowsNothing DEF Fresh
  <2> QED
    BY <1>2, <2>2, <2>3 DEF StateFollowsLifecycle
<1>7. CASE \E e \in unpublished : Publish(e)
  BY <1>1, <1>7 DEF Publish, jobVars
<1>8. CASE \/ \E t \in Trips : StartTrip(t) \/ EndTrip(t) \/ ReportIncident(t)
           \/ \E p \in Position : Report(p)
           \/ OpenStep
           \/ \E k \in Sinks : SinkSends(k)
           \/ UNCHANGED vars
  BY <1>1, <1>8
     DEF StartTrip, EndTrip, ReportIncident, Report, OpenStep, FetchEnRoute,
         FetchIncidents, FetchFails, SinkSends, vars, fleetVars, jobVars
<1> QED
  BY <1>3, <1>4, <1>5, <1>6, <1>7, <1>8 DEF Next, FleetStep

\* Through failures and new submissions at any point, and whatever the
\* bootstrap map held, the keyed state is what the lifecycle events the job
\* has read make of it (EnrichmentFunction.process_element).
THEOREM StateCorrect == Spec => []StateFollowsLifecycle
<1>1. Init => StateFollowsLifecycle
  BY FollowsNothing DEF Init, Fresh, StateFollowsLifecycle
<1> QED
  BY <1>1, StreamTypeCorrect, FollowsStep, PTL DEF Spec

-----------------------------------------------------------------------------
(* Delivery.                                                                *)

\* The positions that have been read are the same in a longer topic.
LEMMA RawStable ==
    ASSUME raw \in Seq(Position), NEW p, raw' = raw \/ raw' = Append(raw, p)
    PROVE  /\ \A i \in 1 .. Len(raw) : raw'[i] = raw[i]
           /\ \A i \in 1 .. Len(raw) : Accepted(i)' <=> Accepted(i)
           /\ \A s, q : q \in Nat /\ q <= Len(raw)
                          => (NewestOf(s, q)' <=> NewestOf(s, q))
<1>1. \A i \in 1 .. Len(raw) : raw'[i] = raw[i]
  OBVIOUS
<1>2. ASSUME NEW i \in 1 .. Len(raw)
      PROVE  Accepted(i)' <=> Accepted(i)
  <2>1. \A j \in 1 .. (i - 1) : j \in 1 .. Len(raw)
    OBVIOUS
  <2> QED
    BY <1>1, <2>1 DEF Accepted
<1>3. ASSUME NEW s, NEW q \in Nat, q <= Len(raw)
      PROVE  NewestOf(s, q)' <=> NewestOf(s, q)
  <2>1. \A j \in 1 .. q : j \in 1 .. Len(raw)
    BY <1>3
  <2> QED
    BY <1>1, <2>1 DEF NewestOf
<1> QED
  BY <1>1, <1>2, <1>3

\* The next position is accepted if it is well written and not late: the one
\* comparison in process_element does what Accepted asks of all that came
\* before.
LEMMA AcceptedNow ==
    ASSUME raw \in Seq(Position), posR \in Nat, posR < Len(raw),
           state \in KeyedState, NewestOf(state, posR)
    PROVE  Accepted(posR + 1)
             <=> /\ raw[posR + 1].kind = "good"
                 /\ ~IsLate(raw[posR + 1])
<1> DEFINE p == raw[posR + 1]
<1>1. /\ p.ts \in Nat /\ p.ts # 0 /\ state.last \in Nat
      /\ \A j \in 1 .. posR : raw[j].ts \in Nat
      /\ (posR + 1) - 1 = posR
  <2>1. \A j \in 1 .. (posR + 1) : raw[j] \in Position
    OBVIOUS
  <2>2. \A x \in Position : x.ts \in Nat /\ x.ts # 0
    BY StreamAssumption DEF Position
  <2>3. state.last \in Nat
    <3>1. state.last \in Times \union {0}
      BY DEF KeyedState
    <3>2. \A x \in Times : x \in Nat
      BY StreamAssumption
    <3> QED
      BY <3>1, <3>2
  <2> QED
    BY <2>1, <2>2, <2>3
<1>2. ASSUME p.kind = "good", ~IsLate(p)
      PROVE  Accepted(posR + 1)
  <2>1. \A j \in 1 .. posR : raw[j].kind # "bad" => raw[j].ts <= state.last
    BY DEF NewestOf
  <2>2. state.last < p.ts
    BY <1>1, <1>2 DEF IsLate
  <2> QED
    BY <1>1, <1>2, <2>1, <2>2 DEF Accepted
<1>3. ASSUME Accepted(posR + 1), IsLate(p)
      PROVE  FALSE
  <2>1. p.ts <= state.last /\ state.last # 0
    BY <1>1, <1>3 DEF IsLate
  <2>2. PICK j \in 1 .. posR : raw[j].kind # "bad" /\ raw[j].ts = state.last
    BY <2>1 DEF NewestOf
  <2>3. raw[j].ts < p.ts
    BY <1>1, <1>3, <2>2 DEF Accepted
  <2> QED
    BY <1>1, <2>1, <2>2, <2>3
<1> QED
  BY <1>2, <1>3 DEF Accepted

\* last_timestamp stays the newest of what has been read.
LEMMA NewestNext ==
    ASSUME raw \in Seq(Position), posR \in Nat, posR < Len(raw),
           state \in KeyedState, NewestOf(state, posR), NEW s,
           LET p == raw[posR + 1]
           IN  IF p.kind = "bad" \/ IsLate(p) THEN s = state
               ELSE s.last = p.ts
    PROVE  NewestOf(s, posR + 1)
<1> DEFINE p == raw[posR + 1]
<1>1. /\ p.ts \in Nat /\ p.ts # 0 /\ state.last \in Nat
      /\ \A j \in 1 .. posR : raw[j].ts \in Nat
      /\ 1 .. (posR + 1) = (1 .. posR) \union {posR + 1}
  <2>1. \A j \in 1 .. (posR + 1) : raw[j] \in Position
    OBVIOUS
  <2>2. \A x \in Position : x.ts \in Nat /\ x.ts # 0
    BY StreamAssumption DEF Position
  <2>3. state.last \in Nat
    <3>1. state.last \in Times \union {0}
      BY DEF KeyedState
    <3>2. \A x \in Times : x \in Nat
      BY StreamAssumption
    <3> QED
      BY <3>1, <3>2
  <2> QED
    BY <2>1, <2>2, <2>3
<1>2. CASE p.kind = "bad" \/ IsLate(p)
  <2>1. p.kind # "bad" => p.ts <= state.last
    BY <1>2 DEF IsLate
  <2> QED
    BY <1>1, <1>2, <2>1 DEF NewestOf
<1>3. CASE p.kind # "bad" /\ ~IsLate(p)
  <2>1. state.last < p.ts
    BY <1>1, <1>3 DEF IsLate
  <2>2. \A j \in 1 .. posR : raw[j].kind # "bad" => raw[j].ts <= p.ts
    BY <1>1, <2>1 DEF NewestOf
  <2> QED
    BY <1>1, <1>3, <2>2 DEF NewestOf
<1> QED
  BY <1>2, <1>3

\* What a sink holds after one more record, and after sending one.
LEMMA PendingNext ==
    ASSUME TypeOK, NEW k \in Sinks
    PROVE  /\ sink'[k] = sink[k] => Pending(k)' = Pending(k)
           /\ topic'[k] = topic[k] => Ids(k)' = Ids(k)
           /\ \A m \in Output : sink'[k] = Append(sink[k], m)
                 => Pending(k)' = Pending(k) \union {m.id}
           /\ sink'[k] = <<>> => Pending(k)' = {}
           /\ (/\ sink[k] # <<>>
               /\ sink'[k] = Tail(sink[k])
               /\ topic'[k] = Append(topic[k], Head(sink[k])))
                 => /\ Ids(k)' \union Pending(k)' = Ids(k) \union Pending(k)
                    /\ Ids(k) \subseteq Ids(k)'
<1>1. sink[k] \in Seq(Output) /\ topic[k] \in Seq(Output)
  BY DEF TypeOK, Output
<1>2. sink'[k] = sink[k] => Pending(k)' = Pending(k)
  BY DEF Pending, SeqRange
<1>3. topic'[k] = topic[k] => Ids(k)' = Ids(k)
  BY DEF Ids, SeqRange
<1>4. ASSUME NEW m \in Output, sink'[k] = Append(sink[k], m)
      PROVE  Pending(k)' = Pending(k) \union {m.id}
  <2>1. SeqRange(sink'[k]) = SeqRange(sink[k]) \union {m}
    BY <1>1, <1>4, RangeAppend
  <2> QED
    BY <2>1 DEF Pending
<1>5. sink'[k] = <<>> => Pending(k)' = {}
  BY DEF Pending, SeqRange
<1>6. ASSUME sink[k] # <<>>, sink'[k] = Tail(sink[k]),
             topic'[k] = Append(topic[k], Head(sink[k]))
      PROVE  /\ Ids(k)' \union Pending(k)' = Ids(k) \union Pending(k)
             /\ Ids(k) \subseteq Ids(k)'
  <2>1. Head(sink[k]) \in Output
    BY <1>1, <1>6
  <2>2. SeqRange(topic'[k]) = SeqRange(topic[k]) \union {Head(sink[k])}
    BY <1>1, <1>6, <2>1, RangeAppend
  <2>3. SeqRange(sink[k]) = {Head(sink[k])} \union SeqRange(sink'[k])
    BY <1>1, <1>6, RangeTail
  <2>4. Ids(k)' = Ids(k) \union {Head(sink[k]).id}
    BY <2>2 DEF Ids
  <2>5. Pending(k) = {Head(sink[k]).id} \union Pending(k)'
    BY <2>3 DEF Pending
  <2> QED
    BY <2>4, <2>5
<1> QED
  BY <1>2, <1>3, <1>4, <1>5, <1>6

\* The ids on their way are places in raw.
LEMMA IdsType ==
    ASSUME TypeOK, NEW k \in Sinks, NEW i \in Pending(k) \union Ids(k)
    PROVE  i \in Nat \ {0}
<1>1. sink[k] \in Seq(Output) /\ topic[k] \in Seq(Output)
  BY DEF TypeOK, Output
<1>2. SeqRange(sink[k]) \subseteq Output /\ SeqRange(topic[k]) \subseteq Output
  BY <1>1 DEF SeqRange
<1>3. \A m \in Output : m.id \in Nat \ {0}
  BY StreamAssumption DEF Output, Record, Diverted
<1> QED
  BY <1>2, <1>3 DEF Pending, Ids

\* A step that reads nothing and sends nothing, though raw may grow.
LEMMA DeliveryFrame ==
    ASSUME DeliveryInv, NEW p, raw' = raw \/ raw' = Append(raw, p),
           UNCHANGED <<posR, sink, topic, ckpt>>, state'.last = state.last
    PROVE  LastIsNewest' /\ OnItsWay' /\ NothingLost'
<1>1. /\ raw \in Seq(Position) /\ posR \in Nat /\ posR <= Len(raw)
      /\ ckpt.posR \in Nat /\ ckpt.posR <= Len(raw)
  BY DEF DeliveryInv, TypeOK
<1>2. /\ \A i \in 1 .. Len(raw) : raw'[i] = raw[i]
      /\ \A i \in 1 .. Len(raw) : Accepted(i)' <=> Accepted(i)
      /\ \A s, q : q \in Nat /\ q <= Len(raw)
                     => (NewestOf(s, q)' <=> NewestOf(s, q))
  BY <1>1, RawStable
<1>3. LastIsNewest'
  <2>1. NewestOf(state, posR) /\ NewestOf(ckpt.state, ckpt.posR)
    BY DEF DeliveryInv, LastIsNewest
  <2>2. \A j \in 1 .. posR : j \in 1 .. Len(raw)
    BY <1>1
  <2>3. NewestOf(state, posR)'
    BY <1>2, <2>1, <2>2 DEF NewestOf
  <2>4. \A j \in 1 .. ckpt.posR : j \in 1 .. Len(raw)
    BY <1>1
  <2>5. NewestOf(ckpt.state, ckpt.posR)'
    BY <1>2, <2>1, <2>4 DEF NewestOf
  <2> QED
    BY <2>3, <2>5 DEF LastIsNewest
<1>4. \A k \in Sinks : Ids(k)' = Ids(k) /\ Pending(k)' = Pending(k)
  BY DEF Ids, Pending
<1>5. "cleaned" \in Sinks /\ "features" \in Sinks /\ "invalid" \in Sinks
  BY DEF Sinks
<1>6. Len(raw) <= Len(raw') /\ Len(raw') \in Nat
  BY <1>1
<1>7. OnItsWay'
  <2>1. ASSUME NEW i \in 1 .. posR'
        PROVE  /\ Accepted(i)' => \A k \in {"cleaned", "features"} :
                     i \in Ids(k)' \union Pending(k)'
               /\ raw'[i].kind = "bad" =>
                     i \in Ids("invalid")' \union Pending("invalid")'
    <3>1. i \in 1 .. Len(raw) /\ i \in 1 .. posR
      BY <1>1
    <3> QED
      BY <1>2, <1>4, <1>5, <3>1 DEF DeliveryInv, OnItsWay
  <2>2. ASSUME NEW k \in {"cleaned", "features"},
               NEW i \in Pending(k)' \union Ids(k)'
        PROVE  i <= Len(raw') /\ Accepted(i)'
    <3>1. i <= Len(raw) /\ Accepted(i) /\ i \in Nat \ {0}
      <4>1. i \in Pending(k) \union Ids(k)
        BY <1>4, <1>5
      <4>2. i \in Nat \ {0}
        BY <1>5, <4>1, IdsType DEF DeliveryInv
      <4> QED
        BY <4>1, <4>2 DEF DeliveryInv, OnItsWay
    <3>2. i \in 1 .. Len(raw)
      BY <1>1, <3>1
    <3> QED
      BY <1>1, <1>2, <1>6, <3>1, <3>2
  <2> QED
    BY <2>1, <2>2 DEF OnItsWay
<1>8. NothingLost'
  <2>1. ASSUME NEW i \in 1 .. ckpt'.posR
        PROVE  /\ Accepted(i)' =>
                     i \in Ids("cleaned")' /\ i \in Ids("features")'
               /\ raw'[i].kind = "bad" => i \in Ids("invalid")'
    <3>1. i \in 1 .. Len(raw) /\ i \in 1 .. ckpt.posR
      BY <1>1
    <3> QED
      BY <1>2, <1>4, <1>5, <3>1 DEF DeliveryInv, NothingLost
  <2> QED
    BY <2>1 DEF NothingLost
<1> QED
  BY <1>3, <1>7, <1>8

\* A position is read: whatever becomes of it, it was to become that.
LEMMA DeliveryRead ==
    ASSUME DeliveryInv, NEW p \in Position,
           \/ DivertInvalid(p) \/ DropLate(p)
           \/ RaiseOnText(p)   \/ EnrichPosition(p)
    PROVE  LastIsNewest' /\ OnItsWay' /\ NothingLost'
<1>1. /\ TypeOK /\ raw \in Seq(Position) /\ state \in KeyedState
      /\ posR \in Nat /\ posR <= Len(raw)
      /\ NewestOf(state, posR) /\ NewestOf(ckpt.state, ckpt.posR)
  BY DEF DeliveryInv, TypeOK, LastIsNewest
<1>2. NextPosition(p)
  BY DEF DivertInvalid, DropLate, RaiseOnText, EnrichPosition
<1>3. /\ posR < Len(raw) /\ p = raw[posR + 1] /\ posR' = posR + 1
      /\ raw' = raw /\ topic' = topic /\ ckpt' = ckpt
  BY <1>2 DEF NextPosition
<1>4. Accepted(posR + 1) <=> p.kind = "good" /\ ~IsLate(p)
  BY <1>1, <1>3, AcceptedNow
<1>5. \A i : Accepted(i)' <=> Accepted(i)
  BY <1>3 DEF Accepted
<1>6. "cleaned" \in Sinks /\ "features" \in Sinks /\ "invalid" \in Sinks
  BY DEF Sinks
<1>7. \A k \in Sinks : Ids(k)' = Ids(k)
  BY <1>3 DEF Ids
<1>8. LastIsNewest'
  <2>1. IF p.kind = "bad" \/ IsLate(p) THEN state' = state
        ELSE state'.last = p.ts
    <3>1. p.kind \in {"good", "bad", "text"}
      BY DEF Position
    <3> QED
      BY <1>1, <3>1 DEF DivertInvalid, DropLate, RaiseOnText, EnrichPosition,
                        KeyedState
  <2>2. NewestOf(state', posR + 1)
    BY <1>1, <1>3, <2>1, NewestNext
  <2>3. NewestOf(state, posR)'
    BY <1>3, <2>2 DEF NewestOf
  <2>4. NewestOf(ckpt.state, ckpt.posR)'
    BY <1>1, <1>3 DEF NewestOf
  <2> QED
    BY <2>3, <2>4 DEF LastIsNewest
<1>9. /\ \A k \in {"cleaned", "features"} : Pending(k)' =
            IF Accepted(posR + 1) THEN Pending(k) \union {posR + 1}
            ELSE Pending(k)
      /\ Pending("invalid")' =
            IF p.kind = "bad" THEN Pending("invalid") \union {posR + 1}
            ELSE Pending("invalid")
  <2>0. sink \in [Sinks -> Seq(Output)] /\ posR + 1 \in 1 .. MaxPositions
    BY <1>1, <1>3, StreamAssumption DEF TypeOK, Output
  <2>1. CASE DivertInvalid(p)
    <3>1. [id |-> posR + 1] \in Output
      BY <2>0 DEF Output, Diverted
    <3>2. /\ sink'["invalid"] = Append(sink["invalid"], [id |-> posR + 1])
          /\ sink'["cleaned"] = sink["cleaned"]
          /\ sink'["features"] = sink["features"]
      BY <1>6, <2>0, <2>1 DEF DivertInvalid
    <3>3. p.kind = "bad" /\ ~Accepted(posR + 1)
      BY <1>4, <2>1 DEF DivertInvalid
    <3> QED
      BY <1>1, <1>6, <3>1, <3>2, <3>3, PendingNext
  <2>2. CASE DropLate(p) \/ RaiseOnText(p)
    <3>1. sink' = sink /\ p.kind # "bad" /\ ~Accepted(posR + 1)
      BY <1>4, <2>2 DEF DropLate, RaiseOnText
    <3> QED
      BY <3>1 DEF Pending
  <2>3. CASE EnrichPosition(p)
    <3>1. Enriched(posR + 1) \in Output /\ Enriched(posR + 1).id = posR + 1
      BY <1>1, <1>3, EnrichedType DEF Output, Enriched
    <3>2. /\ sink'["invalid"] = sink["invalid"]
          /\ sink'["cleaned"] = Append(sink["cleaned"], Enriched(posR + 1))
          /\ sink'["features"] = Append(sink["features"], Enriched(posR + 1))
      BY <1>6, <2>0, <2>3 DEF EnrichPosition
    <3>3. p.kind # "bad" /\ Accepted(posR + 1)
      BY <1>4, <2>3 DEF EnrichPosition
    <3> QED
      BY <1>1, <1>6, <3>1, <3>2, <3>3, PendingNext
  <2> QED
    BY <2>1, <2>2, <2>3
<1>10. OnItsWay'
  <2>1. ASSUME NEW i \in 1 .. posR'
        PROVE  /\ Accepted(i)' => \A k \in {"cleaned", "features"} :
                     i \in Ids(k)' \union Pending(k)'
               /\ raw'[i].kind = "bad" =>
                     i \in Ids("invalid")' \union Pending("invalid")'
    <3>1. CASE i = posR + 1
      BY <1>3, <1>5, <1>9, <3>1
    <3>2. CASE i # posR + 1
      <4>1. i \in 1 .. posR
        BY <1>1, <1>3, <3>2
      <4> QED
        BY <1>3, <1>5, <1>6, <1>7, <1>9, <4>1 DEF DeliveryInv, OnItsWay
    <3> QED
      BY <3>1, <3>2
  <2>2. ASSUME NEW k \in {"cleaned", "features"},
               NEW i \in Pending(k)' \union Ids(k)'
        PROVE  i <= Len(raw') /\ Accepted(i)'
    <3>1. CASE i \in Pending(k) \union Ids(k)
      BY <1>3, <1>5, <3>1 DEF DeliveryInv, OnItsWay
    <3>2. CASE i = posR + 1 /\ Accepted(posR + 1)
      BY <1>1, <1>3, <1>5, <3>2
    <3> QED
      BY <1>6, <1>7, <1>9, <3>1, <3>2
  <2> QED
    BY <2>1, <2>2 DEF OnItsWay
<1>11. NothingLost'
  BY <1>3, <1>5, <1>6, <1>7 DEF DeliveryInv, NothingLost
<1> QED
  BY <1>8, <1>10, <1>11

\* A sink sends: what was pending is there.
LEMMA DeliverySend ==
    ASSUME DeliveryInv, NEW k \in Sinks, SinkSends(k)
    PROVE  LastIsNewest' /\ OnItsWay' /\ NothingLost'
<1>1. /\ raw' = raw /\ posR' = posR /\ state' = state /\ ckpt' = ckpt
      /\ TypeOK /\ sink \in [Sinks -> Seq(Output)]
      /\ topic \in [Sinks -> Seq(Output)]
  BY DEF SinkSends, jobVars, DeliveryInv, TypeOK, Output
<1>2. \A i : Accepted(i)' <=> Accepted(i)
  BY <1>1 DEF Accepted
<1>3. ASSUME NEW j \in Sinks
      PROVE  /\ Ids(j)' \union Pending(j)' = Ids(j) \union Pending(j)
             /\ Ids(j) \subseteq Ids(j)'
  <2>1. CASE j = k
    BY <1>1, <2>1, PendingNext DEF SinkSends
  <2>2. CASE j # k
    <3>1. sink'[j] = sink[j] /\ topic'[j] = topic[j]
      BY <1>1, <2>2 DEF SinkSends
    <3> QED
      BY <1>1, <3>1, PendingNext
  <2> QED
    BY <2>1, <2>2
<1>4. "cleaned" \in Sinks /\ "features" \in Sinks /\ "invalid" \in Sinks
  BY DEF Sinks
<1>5. LastIsNewest'
  BY <1>1 DEF DeliveryInv, LastIsNewest, NewestOf
<1>6. OnItsWay'
  BY <1>1, <1>2, <1>3, <1>4 DEF DeliveryInv, OnItsWay
<1>7. NothingLost'
  BY <1>1, <1>2, <1>3, <1>4 DEF DeliveryInv, NothingLost
<1> QED
  BY <1>5, <1>6, <1>7

\* Delivery survives every step.
LEMMA DeliveryStep == DeliveryInv /\ [Next]_vars => DeliveryInv'
<1> SUFFICES ASSUME DeliveryInv, [Next]_vars
             PROVE  DeliveryInv'
  OBVIOUS
<1>0. TypeOK /\ TypeOK' /\ state \in KeyedState
  BY TypeStep DEF DeliveryInv, TypeOK
<1> SUFFICES LastIsNewest' /\ OnItsWay' /\ NothingLost'
  BY <1>0 DEF DeliveryInv
<1>1. CASE \/ FleetStep \/ OpenStep \/ UNCHANGED vars
  <2>1. UNCHANGED <<raw, state, posR, sink, topic, ckpt>>
    BY <1>1
       DEF FleetStep, StartTrip, EndTrip, ReportIncident, Publish, OpenStep,
           FetchEnRoute, FetchIncidents, FetchFails, vars, jobVars, outVars
  <2> QED
    BY <2>1, DeliveryFrame
<1>2. CASE \E p \in Position : Report(p)
  BY <1>2, DeliveryFrame DEF Report, jobVars, outVars
<1>3. CASE ProcessLifecycle
  <2>1. UNCHANGED <<raw, posR, sink, topic, ckpt>>
    BY <1>3 DEF ProcessLifecycle, outVars
  <2>2. state'.last = state.last
    BY <1>0, <1>3 DEF ProcessLifecycle, Applied, KeyedState
  <2> QED
    BY <2>1, <2>2, DeliveryFrame
<1>4. CASE ProcessPosition
  BY <1>4, DeliveryRead DEF ProcessPosition
<1>5. CASE \E k \in Sinks : SinkSends(k)
  BY <1>5, DeliverySend
<1>6. CASE Checkpoint
  <2>1. /\ UNCHANGED <<raw, state, posR, sink, topic>>
        /\ ckpt'.state = state /\ ckpt'.posR = posR
        /\ \A k \in Sinks : sink[k] = <<>>
    BY <1>6 DEF Checkpoint, jobVars, outVars
  <2>2. \A k \in Sinks : Pending(k) = {}
    BY <2>1 DEF Pending, SeqRange
  <2>3. /\ \A i : Accepted(i)' <=> Accepted(i)
        /\ \A k \in Sinks : Ids(k)' = Ids(k) /\ Pending(k)' = Pending(k)
    BY <2>1 DEF Accepted, Ids, Pending
  <2>4. "cleaned" \in Sinks /\ "features" \in Sinks /\ "invalid" \in Sinks
    BY DEF Sinks
  <2>5. LastIsNewest'
    BY <2>1 DEF DeliveryInv, LastIsNewest, NewestOf
  <2>6. OnItsWay'
    BY <2>1, <2>3, <2>4 DEF DeliveryInv, OnItsWay
  <2>7. NothingLost'
    BY <2>1, <2>2, <2>3, <2>4 DEF DeliveryInv, OnItsWay, NothingLost
  <2> QED
    BY <2>5, <2>6, <2>7
<1>7. CASE Fail \/ Resubmit
  <2>1. PICK c \in {ckpt, Fresh} : RunFrom(c)
    BY <1>7 DEF Fail, Resubmit
  <2>2. /\ raw' = raw /\ topic' = topic
        /\ state' = c.state /\ posR' = c.posR /\ ckpt' = c
        /\ \A k \in Sinks : sink'[k] = <<>>
    BY <2>1 DEF RunFrom
  <2>3. /\ \A i : Accepted(i)' <=> Accepted(i)
        /\ \A k \in Sinks : Ids(k)' = Ids(k) /\ Pending(k)' = {}
    BY <2>2 DEF Accepted, Ids, Pending, SeqRange
  <2>4. "cleaned" \in Sinks /\ "features" \in Sinks /\ "invalid" \in Sinks
    BY DEF Sinks
  <2>5. \A i \in 1 .. c.posR :
          /\ Accepted(i) => i \in Ids("cleaned") /\ i \in Ids("features")
          /\ raw[i].kind = "bad" => i \in Ids("invalid")
    BY <2>1 DEF DeliveryInv, NothingLost, Fresh
  <2>6. NewestOf(c.state, c.posR)
    <3>1. CASE c = ckpt
      BY <3>1 DEF DeliveryInv, LastIsNewest
    <3>2. CASE c = Fresh
      BY <3>2 DEF Fresh, EmptyState, NewestOf
    <3> QED
      BY <2>1, <3>1, <3>2
  <2>7. LastIsNewest'
    BY <2>2, <2>6 DEF LastIsNewest, NewestOf
  <2>8. OnItsWay'
    BY <2>2, <2>3, <2>4, <2>5 DEF DeliveryInv, OnItsWay
  <2>9. NothingLost'
    BY <2>2, <2>3, <2>4, <2>5 DEF NothingLost
  <2> QED
    BY <2>7, <2>8, <2>9
<1> QED
  BY <1>1, <1>2, <1>3, <1>4, <1>5, <1>6, <1>7 DEF Next

\* Nothing has been read or sent at the start.
LEMMA DeliveryInit == Init => DeliveryInv
<1> SUFFICES ASSUME Init PROVE DeliveryInv
  OBVIOUS
<1>1. TypeOK
  BY TypeInit
<1>2. LastIsNewest
  BY DEF Init, Fresh, EmptyState, LastIsNewest, NewestOf
<1>3. OnItsWay
  BY DEF Init, OnItsWay, Ids, Pending, SeqRange, Sinks
<1>4. NothingLost
  BY DEF Init, Fresh, NothingLost
<1> QED
  BY <1>1, <1>2, <1>3, <1>4 DEF DeliveryInv

\* The inductive invariant of the job's deliveries.
THEOREM DeliveryCorrect == Spec => []DeliveryInv
  BY DeliveryInit, DeliveryStep, PTL DEF Spec

\* A failure after a checkpoint loses nothing that was accepted before it, and
\* nothing that was diverted (job.py's AT_LEAST_ONCE sinks).
THEOREM NothingIsLost == Spec => []NothingLost
  BY DeliveryCorrect, PTL DEF DeliveryInv

\* A late or repeated position never reaches the topics of ETA and Anomaly,
\* though last_timestamp is rolled back by a failure.
THEOREM NoLatePosition == Spec => []LateNeverCleaned
<1>1. DeliveryInv => LateNeverCleaned
  BY DEF DeliveryInv, OnItsWay, LateNeverCleaned
<1> QED
  BY <1>1, DeliveryCorrect, PTL

-----------------------------------------------------------------------------
(* The snapshot.                                                            *)

\* A step that reads no position and writes no snapshot, where raw may grow
\* and the checkpoint may catch up.
LEMMA SnapshotFrame ==
    ASSUME TypeOK, RedisFollows, NEW p,
           raw' = raw \/ raw' = Append(raw, p),
           posR' = posR, redis' = redis, ckpt'.posR \in {ckpt.posR, posR}
    PROVE  RedisFollows'
<1>1. /\ raw \in Seq(Position) /\ posR \in 0 .. Len(raw)
      /\ ckpt.posR \in Nat
  BY DEF TypeOK
<1>2. \A i \in 1 .. Len(raw) : Accepted(i)' <=> Accepted(i)
  BY <1>1, RawStable
<1>3. ckpt'.posR <= posR'
  BY <1>1 DEF RedisFollows
<1>4. (redis # NoRecord => redis.id \in 1 .. Len(raw) /\ Accepted(redis.id))'
  <2>1. ASSUME redis # NoRecord
        PROVE  (redis.id \in 1 .. Len(raw) /\ Accepted(redis.id))'
    <3>1. PICK i \in 1 .. Len(raw) : i = redis.id /\ Accepted(i)
      BY <2>1 DEF RedisFollows
    <3>2. 1 .. Len(raw) \subseteq 1 .. Len(raw')
      BY <1>1
    <3> QED
      BY <1>2, <3>1, <3>2
  <2> QED
    BY <2>1
<1>5. (~RedisFails => \A i \in 1 .. posR : Accepted(i) => i <= redis.id)'
  <2>1. \A i \in 1 .. posR : i \in 1 .. Len(raw)
    BY <1>1
  <2> QED
    BY <1>2, <2>1 DEF RedisFollows
<1> QED
  BY <1>3, <1>4, <1>5 DEF RedisFollows

\* One position is read: the snapshot is written if it is accepted.
LEMMA SnapshotRead ==
    ASSUME DeliveryInv, RedisFollows, NEW p \in Position,
           DivertInvalid(p) \/ DropLate(p) \/ RaiseOnText(p)
             \/ EnrichPosition(p)
    PROVE  RedisFollows'
<1>1. /\ raw \in Seq(Position) /\ posR \in 0 .. Len(raw)
      /\ posR \in Nat /\ ckpt.posR \in Nat
      /\ state \in KeyedState /\ NewestOf(state, posR)
  BY DEF DeliveryInv, TypeOK, LastIsNewest
<1>2. /\ posR < Len(raw) /\ p = raw[posR + 1] /\ posR' = posR + 1
      /\ raw' = raw /\ ckpt' = ckpt
  BY DEF DivertInvalid, DropLate, RaiseOnText, EnrichPosition, NextPosition
<1>3. Accepted(posR + 1) <=> p.kind = "good" /\ ~IsLate(p)
  BY <1>1, <1>2, AcceptedNow
<1>4. \A i : Accepted(i)' <=> Accepted(i)
  BY <1>2 DEF Accepted
<1>5. ckpt'.posR <= posR'
  BY <1>1, <1>2 DEF RedisFollows
<1>6. \A i \in 1 .. (posR + 1) : i \in 1 .. posR \/ i = posR + 1
  BY <1>1
<1>7. CASE EnrichPosition(p)
  <2>1. Accepted(posR + 1)
    BY <1>3, <1>7 DEF EnrichPosition
  <2>2. (redis' = redis /\ RedisFails) \/ redis' = Enriched(posR + 1)
    BY <1>7 DEF EnrichPosition
  <2>3. CASE redis' = redis /\ RedisFails
    BY <1>2, <1>4, <1>5, <2>3 DEF RedisFollows
  <2>4. CASE redis' = Enriched(posR + 1)
    <3>1. redis'.id = posR + 1 /\ posR + 1 \in 1 .. Len(raw)
      BY <1>1, <1>2, <2>4 DEF Enriched
    <3>2. \A i \in 1 .. (posR + 1) : i <= posR + 1
      BY <1>1
    <3> QED
      BY <1>2, <1>4, <1>5, <2>1, <3>1, <3>2 DEF RedisFollows
  <2> QED
    BY <2>2, <2>3, <2>4
<1>8. CASE DivertInvalid(p) \/ DropLate(p) \/ RaiseOnText(p)
  <2>1. ~Accepted(posR + 1) /\ redis' = redis
    BY <1>3, <1>8 DEF DivertInvalid, DropLate, RaiseOnText
  <2> QED
    BY <1>2, <1>4, <1>5, <1>6, <2>1 DEF RedisFollows
<1> QED
  BY <1>7, <1>8

LEMMA SnapshotStep ==
    DeliveryInv /\ RedisFollows /\ [Next]_vars => RedisFollows'
<1> SUFFICES ASSUME DeliveryInv, RedisFollows, [Next]_vars
             PROVE  RedisFollows'
  OBVIOUS
<1>0. TypeOK
  BY DEF DeliveryInv
<1>1. CASE \/ FleetStep \/ OpenStep \/ ProcessLifecycle \/ UNCHANGED vars
           \/ \E k \in Sinks : SinkSends(k)
  <2>1. UNCHANGED <<raw, posR, redis, ckpt>>
    BY <1>1
       DEF FleetStep, StartTrip, EndTrip, ReportIncident, Publish, OpenStep,
           FetchEnRoute, FetchIncidents, FetchFails, ProcessLifecycle,
           SinkSends, vars, jobVars, outVars
  <2> QED
    BY <1>0, <2>1, SnapshotFrame
<1>2. CASE \E p \in Position : Report(p)
  BY <1>0, <1>2, SnapshotFrame DEF Report, jobVars, outVars
<1>3. CASE ProcessPosition
  BY <1>3, SnapshotRead DEF ProcessPosition
<1>4. CASE Checkpoint
  <2>1. UNCHANGED <<raw, posR, redis>> /\ ckpt'.posR = posR
    BY <1>4 DEF Checkpoint, jobVars, outVars
  <2> QED
    BY <1>0, <2>1, SnapshotFrame
<1>5. CASE Fail \/ Resubmit
  <2>1. PICK c \in {ckpt, Fresh} : RunFrom(c)
    BY <1>5 DEF Fail, Resubmit
  <2>2. /\ raw' = raw /\ redis' = redis /\ posR' = c.posR
        /\ ckpt'.posR = c.posR
    BY <2>1 DEF RunFrom
  <2>3. c.posR \in Nat /\ c.posR <= posR /\ posR \in Nat
    BY <1>0, <2>1 DEF RedisFollows, TypeOK, Fresh
  <2>4. \A i : Accepted(i)' <=> Accepted(i)
    BY <2>2 DEF Accepted
  <2>5. \A i \in 1 .. c.posR : i \in 1 .. posR
    BY <2>3
  <2>6. ckpt'.posR <= posR'
    BY <2>2, <2>3
  <2> QED
    BY <2>2, <2>4, <2>5, <2>6 DEF RedisFollows
<1> QED
  BY <1>1, <1>2, <1>3, <1>4, <1>5 DEF Next

\* What Redis holds was accepted, and nothing that has been read is newer:
\* replaying from a checkpoint never brings an older snapshot than the ones
\* that were written before the failure.
LEMMA SnapshotFollows == Spec => []RedisFollows
<1>1. Init => RedisFollows
  BY DEF Init, Fresh, RedisFollows
<1> QED
  BY <1>1, DeliveryCorrect, SnapshotStep, PTL DEF Spec

\* With everything read and Redis answering, bus:{busId}:position is the
\* newest accepted position (RedisSinkFunction.map behind process_element).
THEOREM SnapshotCorrect == Spec => []SnapshotIsNewest
<1>1. TypeOK /\ RedisFollows => SnapshotIsNewest
  <2> SUFFICES ASSUME TypeOK, RedisFollows, posR = Len(raw), ~RedisFails
               PROVE  IF \E i \in DOMAIN raw : Accepted(i)
                      THEN /\ redis # NoRecord /\ Accepted(redis.id)
                           /\ \A i \in DOMAIN raw :
                                 Accepted(i) => i <= redis.id
                      ELSE redis = NoRecord
    BY DEF SnapshotIsNewest
  <2>1. DOMAIN raw = 1 .. posR
    BY DEF TypeOK
  <2>2. \A i \in DOMAIN raw : Accepted(i) => i <= redis.id
    BY <2>1 DEF RedisFollows
  <2>3. redis # NoRecord => redis.id \in DOMAIN raw /\ Accepted(redis.id)
    BY <2>1 DEF RedisFollows
  <2>4. redis = NoRecord => \A i \in DOMAIN raw : ~(i <= redis.id)
    BY <2>1 DEF NoRecord
  <2> QED
    BY <2>2, <2>3, <2>4
<1> QED
  BY <1>1, StreamTypeCorrect, SnapshotFollows, PTL

-----------------------------------------------------------------------------
(* Agreement with the database.                                             *)

\* Two events are the same only if they say the same of the same trip.
LEMMA EventsDiffer ==
    /\ \A t, u : Started(t) = Started(u) => t = u
    /\ \A t, u : Ended(t) = Ended(u) => t = u
    /\ \A t, u : Started(t) # Ended(u)
    /\ \A t : Started(t).event = "TRIP_STARTED" /\ Started(t).trip = t
    /\ \A t : Ended(t).event = "TRIP_ENDED" /\ Ended(t).trip = t
<1>1. /\ \A t : Started(t).event = "TRIP_STARTED" /\ Started(t).trip = t
      /\ \A t : Ended(t).event = "TRIP_ENDED" /\ Ended(t).trip = t
  BY DEF Started, Ended
<1> QED
  BY <1>1

\* An event starts a trip, ends one, or reports an incident.
LEMMA EventKinds ==
    ASSUME NEW e \in Event
    PROVE  /\ e.trip \in Trips
           /\ \/ e.event = "TRIP_STARTED" /\ e = Started(e.trip)
              \/ e.event = "TRIP_ENDED" /\ e = Ended(e.trip)
              \/ /\ e.event = "INCIDENT_REPORTED"
                 /\ \A t : e # Started(t) /\ e # Ended(t)
<1>1. /\ e.trip \in Trips
      /\ e.event \in {"TRIP_STARTED", "TRIP_ENDED", "INCIDENT_REPORTED"}
      /\ e = [event |-> e.event, trip |-> e.trip]
  BY DEF Event
<1> QED
  BY <1>1, EventsDiffer DEF Started, Ended

\* A row, the flags and the events of it that are out are in step.
LEMMA PublishesStep ==
    TypeOK /\ FleetPublishes /\ [Next]_vars => FleetPublishes'
<1> SUFFICES ASSUME TypeOK, FleetPublishes, [Next]_vars
             PROVE  FleetPublishes'
  OBVIOUS
<1>0. /\ trips \in [Trips -> Row]
      /\ log \in Seq(Event) /\ unpublished \subseteq Event
  BY DEF TypeOK
<1>1. CASE \E t \in Trips : StartTrip(t)
  <2>1. PICK t \in Trips : StartTrip(t)
    BY <1>1
  <2>2. /\ trips[t].status = "WAITING_AT_DEPOT"
        /\ trips' = [trips EXCEPT ![t].status = "EN_ROUTE",
                                  ![t].started = TRUE]
        /\ unpublished' = unpublished \union {Started(t)} /\ log' = log
    BY <2>1 DEF StartTrip, Owes, Started
  <2>3. SeqRange(log)' = SeqRange(log)
    BY <2>2 DEF SeqRange
  <2>4. /\ ~trips[t].started /\ ~trips[t].ended
        /\ Started(t) \notin unpublished \union SeqRange(log)
    BY <2>2 DEF FleetPublishes
  <2>5. /\ trips'[t].status = "EN_ROUTE" /\ trips'[t].started
        /\ trips'[t].ended = trips[t].ended
        /\ \A u \in Trips \ {t} : trips'[u] = trips[u]
    BY <1>0, <2>2 DEF Row
  <2> QED
    BY <2>2, <2>3, <2>4, <2>5, EventsDiffer DEF FleetPublishes
<1>2. CASE \E t \in Trips : EndTrip(t)
  <2>1. PICK t \in Trips : EndTrip(t)
    BY <1>2
  <2>2. /\ trips' = [trips EXCEPT ![t].status = "ARRIVED_DESTINATION",
                                  ![t].ended = TRUE]
        /\ unpublished' = unpublished \union {Ended(t)} /\ log' = log
    BY <2>1 DEF EndTrip, Owes, Ended
  <2>3. SeqRange(log)' = SeqRange(log)
    BY <2>2 DEF SeqRange
  <2>4. /\ trips'[t].status = "ARRIVED_DESTINATION" /\ trips'[t].ended
        /\ trips'[t].started = trips[t].started
        /\ \A u \in Trips \ {t} : trips'[u] = trips[u]
    BY <1>0, <2>2 DEF Row
  <2> QED
    BY <2>2, <2>3, <2>4, EventsDiffer DEF FleetPublishes
<1>3. CASE \E t \in Trips : ReportIncident(t)
  <2>1. PICK t \in Trips : ReportIncident(t)
    BY <1>3
  <2>2. PICK e \in Event :
          /\ e.event = "INCIDENT_REPORTED"
          /\ unpublished' = unpublished \union {e}
    BY <2>1 DEF ReportIncident, Owes, Event
  <2>3. /\ trips' = [trips EXCEPT ![t].status = "INCIDENT_REPORTED"]
        /\ log' = log
    BY <2>1 DEF ReportIncident
  <2>4. SeqRange(log)' = SeqRange(log)
    BY <2>3 DEF SeqRange
  <2>5. \A u : e # Started(u) /\ e # Ended(u)
    BY <2>2, EventsDiffer
  <2>6. /\ trips'[t].status = "INCIDENT_REPORTED"
        /\ trips'[t].started = trips[t].started
        /\ trips'[t].ended = trips[t].ended
        /\ \A u \in Trips \ {t} : trips'[u] = trips[u]
    BY <1>0, <2>3 DEF Row
  <2> QED
    BY <2>2, <2>3, <2>4, <2>5, <2>6 DEF FleetPublishes
<1>4. CASE \E e \in unpublished : Publish(e)
  <2>1. PICK e \in unpublished : Publish(e)
    BY <1>4
  <2>2. /\ trips' = trips /\ log' = Append(log, e)
        /\ unpublished' = unpublished \ {e}
    BY <2>1 DEF Publish
  <2>3. SeqRange(log)' = SeqRange(log) \union {e}
    <3>1. SeqRange(Append(log, e)) = SeqRange(log) \union {e}
      BY <1>0, RangeAppend
    <3> QED
      BY <2>2, <3>1 DEF SeqRange
  <2>4. ASSUME NEW t \in Trips, NEW i \in DOMAIN log', NEW j \in DOMAIN log',
               log'[i] = Started(t), log'[j] = Started(t)
        PROVE  i = j
    <3>1. /\ \A k \in DOMAIN log' : k = Len(log) + 1 \/ k \in DOMAIN log
          /\ \A k \in DOMAIN log : log'[k] = log[k]
          /\ log'[Len(log) + 1] = e
      BY <1>0, <2>2
    <3>2. \A k \in DOMAIN log : log[k] \in SeqRange(log)
      BY DEF SeqRange
    <3>3. e = Started(t) => Started(t) \notin SeqRange(log)
      BY DEF FleetPublishes
    <3> QED
      BY <2>4, <3>1, <3>2, <3>3 DEF FleetPublishes
  <2> QED
    BY <2>2, <2>3, <2>4 DEF FleetPublishes
<1>5. CASE \/ \E p \in Position : Report(p)
           \/ OpenStep \/ ProcessLifecycle \/ ProcessPosition
           \/ \E k \in Sinks : SinkSends(k)
           \/ Checkpoint \/ Fail \/ Resubmit \/ UNCHANGED vars
  <2>1. UNCHANGED <<trips, unpublished, log>>
    BY <1>5
       DEF Report, OpenStep, FetchEnRoute, FetchIncidents, FetchFails,
           ProcessLifecycle, ProcessPosition, DivertInvalid, DropLate,
           RaiseOnText, EnrichPosition, NextPosition, SinkSends, Checkpoint,
           Fail, Resubmit, RunFrom, vars, fleetVars
  <2> QED
    BY <2>1 DEF FleetPublishes, SeqRange
<1> QED
  BY <1>1, <1>2, <1>3, <1>4, <1>5 DEF Next, FleetStep

\* The turns among the events already on the log are the same in a longer
\* log.
LEMMA TurnsStable ==
    ASSUME log \in Seq(Event), NEW e, log' = log \/ log' = Append(log, e)
    PROVE  /\ \A i \in 1 .. Len(log) : log'[i] = log[i]
           /\ \A p \in 0 .. Len(log) : Turns(p)' = Turns(p)
           /\ \A p \in 0 .. Len(log) :
                 \A i : IsLast(i, p)' <=> IsLast(i, p)
<1>1. \A i \in 1 .. Len(log) : log'[i] = log[i]
  OBVIOUS
<1>2. ASSUME NEW p \in 0 .. Len(log)
      PROVE  Turns(p)' = Turns(p)
  <2>1. \A i \in 1 .. p : i \in 1 .. Len(log)
    OBVIOUS
  <2> QED
    BY <1>1, <2>1 DEF Turns
<1> QED
  BY <1>1, <1>2 DEF IsLast

\* The last turn of a log that has grown by one event.
LEMMA LastAppended ==
    ASSUME log \in Seq(Event), NEW e \in Event, log' = Append(log, e),
           NEW n, n = Len(log)
    PROVE  /\ n \in Nat /\ Len(log') = n + 1 /\ log'[n + 1] = e
           /\ e.event = "INCIDENT_REPORTED" =>
                 /\ Turns(n + 1)' = Turns(n)
                 /\ \A i : IsLast(i, n + 1)' <=> IsLast(i, n)
           /\ e.event # "INCIDENT_REPORTED" =>
                 \A i : IsLast(i, n + 1)' <=> i = n + 1
<1>1. /\ n \in Nat /\ Len(log') = n + 1 /\ log'[n + 1] = e
      /\ 1 .. (n + 1) = (1 .. n) \union {n + 1}
      /\ \A i \in 1 .. n : log'[i] = log[i]
  OBVIOUS
<1>2. e.event = "INCIDENT_REPORTED" => Turns(n + 1)' = Turns(n)
  BY <1>1 DEF Turns
<1>3. e.event # "INCIDENT_REPORTED" =>
        Turns(n + 1)' = Turns(n) \union {n + 1}
  BY <1>1 DEF Turns
<1>4. /\ \A j \in Turns(n) : j \in 1 .. n
      /\ \A j \in 1 .. n : j <= n + 1 /\ ~(n + 1 <= j)
      /\ n + 1 <= n + 1
  BY <1>1 DEF Turns
<1>5. \A i : IsLast(i, n + 1)'
          <=> i \in Turns(n + 1)' /\ \A j \in Turns(n + 1)' : j <= i
  BY DEF IsLast
<1>6. e.event = "INCIDENT_REPORTED" =>
        \A i : IsLast(i, n + 1)' <=> IsLast(i, n)
  BY <1>2, <1>5 DEF IsLast
<1>7. e.event # "INCIDENT_REPORTED" =>
        \A i : IsLast(i, n + 1)' <=> i = n + 1
  BY <1>3, <1>4, <1>5
<1> QED
  BY <1>1, <1>2, <1>6, <1>7

\* A log that is orderly with one more event was orderly without it, and the
\* event fits the turn it follows.
LEMMA OrderlyBefore ==
    ASSUME log \in Seq(Event), NEW e \in Event, log' = Append(log, e),
           Orderly', NEW n, n = Len(log)
    PROVE  /\ Orderly
           /\ e.event = "TRIP_STARTED" =>
                 \A j : IsLast(j, n) => log[j].event = "TRIP_ENDED"
           /\ e.event = "TRIP_ENDED" =>
                 \E j \in 1 .. n : IsLast(j, n) /\ log[j] = Started(e.trip)
<1>1. /\ n \in Nat /\ DOMAIN log = 1 .. n /\ DOMAIN log' = 1 .. (n + 1)
      /\ log'[n + 1] = e /\ (n + 1) - 1 = n
      /\ \A i \in 1 .. n : i \in 1 .. (n + 1) /\ i - 1 \in 0 .. n
      /\ n + 1 \in 1 .. (n + 1) /\ n \in 0 .. n
  OBVIOUS
<1>2. /\ \A i \in 1 .. n : log'[i] = log[i]
      /\ \A p \in 0 .. n : Turns(p)' = Turns(p)
      /\ \A p \in 0 .. n : \A i : IsLast(i, p)' <=> IsLast(i, p)
  BY TurnsStable
<1>3. \A p \in 0 .. n : \A j \in Turns(p) : j \in 1 .. n
  BY <1>1 DEF Turns
<1>4. ASSUME NEW i \in 1 .. (n + 1)
      PROVE  /\ log'[i].event = "TRIP_STARTED" =>
                   \A j \in Turns(i - 1)' : IsLast(j, i - 1)' =>
                      log'[j].event = "TRIP_ENDED"
             /\ log'[i].event = "TRIP_ENDED" =>
                   \E j \in Turns(i - 1)' : IsLast(j, i - 1)' /\
                      log'[j] = Started(log'[i].trip)
  BY <1>1 DEF Orderly, Started
<1>5. ASSUME NEW i \in 1 .. n
      PROVE  /\ log[i].event = "TRIP_STARTED" =>
                   \A j \in Turns(i - 1) : IsLast(j, i - 1) =>
                      log[j].event = "TRIP_ENDED"
             /\ log[i].event = "TRIP_ENDED" =>
                   \E j \in Turns(i - 1) : IsLast(j, i - 1) /\
                      log[j] = Started(log[i].trip)
  <2>1. i \in 1 .. (n + 1) /\ i - 1 \in 0 .. n /\ log'[i] = log[i]
    BY <1>1, <1>2
  <2> QED
    BY <1>2, <1>3, <1>4, <2>1
<1>6. Orderly
  BY <1>1, <1>5 DEF Orderly, Started
<1>7. /\ e.event = "TRIP_STARTED" =>
            \A j \in Turns(n) : IsLast(j, n) => log[j].event = "TRIP_ENDED"
      /\ e.event = "TRIP_ENDED" =>
            \E j \in Turns(n) : IsLast(j, n) /\ log[j] = Started(e.trip)
  <2>1. /\ e.event = "TRIP_STARTED" =>
              \A j \in Turns(n)' : IsLast(j, n)' =>
                  log'[j].event = "TRIP_ENDED"
        /\ e.event = "TRIP_ENDED" =>
              \E j \in Turns(n)' : IsLast(j, n)' /\
                  log'[j] = Started(e.trip)
    BY <1>1, <1>4
  <2> QED
    BY <1>1, <1>2, <1>3, <2>1
<1> QED
  BY <1>1, <1>3, <1>6, <1>7 DEF IsLast

\* A log on which trips follow one another has the start of every trip whose
\* end it has, and before it.
LEMMA EndedWasStarted ==
    ASSUME log \in Seq(Event), Orderly, NEW t, NEW k \in DOMAIN log,
           log[k] = Ended(t)
    PROVE  \E j \in 1 .. (k - 1) : j \in DOMAIN log /\ log[j] = Started(t)
<1>1. log[k].event = "TRIP_ENDED" /\ log[k].trip = t
  BY EventsDiffer
<1>2. PICK j \in Turns(k - 1) : log[j] = Started(t)
  BY <1>1 DEF Orderly, Started
<1>3. j \in 1 .. (k - 1)
  BY DEF Turns
<1>4. \A i \in 1 .. (k - 1) : i \in DOMAIN log
  OBVIOUS
<1> QED
  BY <1>2, <1>3, <1>4

\* On an orderly log the running trip is that of the last turn: one more event
\* keeps it so.
LEMMA LastTurnStep ==
    TypeOK /\ FleetPublishes /\ LastTurnRuns /\ [Next]_vars => LastTurnRuns'
<1> SUFFICES ASSUME TypeOK, FleetPublishes, LastTurnRuns, [Next]_vars
             PROVE  LastTurnRuns'
  OBVIOUS
<1>0. log \in Seq(Event) /\ unpublished \subseteq Event
  BY DEF TypeOK
<1>1. CASE \E e \in unpublished : Publish(e)
  <2>1. PICK e \in unpublished : Publish(e)
    BY <1>1
  <2>2. PICK n : n = Len(log)
    OBVIOUS
  <2>3. log' = Append(log, e) /\ e \in Event
    BY <1>0, <2>1 DEF Publish
  <2>4. SeqRange(log)' = SeqRange(log) \union {e}
    <3>1. SeqRange(Append(log, e)) = SeqRange(log) \union {e}
      BY <1>0, <2>3, RangeAppend
    <3> QED
      BY <2>3, <3>1 DEF SeqRange
  <2>5. /\ n \in Nat /\ Len(log') = n + 1 /\ log'[n + 1] = e
        /\ e.event = "INCIDENT_REPORTED" =>
              \A i : IsLast(i, n + 1)' <=> IsLast(i, n)
        /\ e.event # "INCIDENT_REPORTED" =>
              \A i : IsLast(i, n + 1)' <=> i = n + 1
    BY <1>0, <2>2, <2>3, LastAppended
  <2>6. \A i : IsLast(i, n) => log'[i] = log[i]
    <3>1. \A i : IsLast(i, n) => i \in 1 .. Len(log)
      BY <2>2 DEF IsLast, Turns
    <3>2. \A i \in 1 .. Len(log) : log'[i] = log[i]
      BY <1>0, <2>3, TurnsStable
    <3> QED
      BY <3>1, <3>2
  <2>7. \A i, p : IsLast(i, p)' => i \in Turns(p)'
    BY DEF IsLast
  <2>8. \A i, j : IsLast(i, n) /\ IsLast(j, n) => i = j
    <3> SUFFICES ASSUME NEW i, NEW j, IsLast(i, n), IsLast(j, n)
                 PROVE  i = j
      OBVIOUS
    <3>1. i \in 1 .. n /\ j \in 1 .. n
      BY DEF IsLast, Turns
    <3>2. i <= j /\ j <= i
      BY DEF IsLast
    <3> QED
      BY <2>5, <3>1, <3>2
  <2>9. ASSUME Orderly', NEW t \in Trips
        PROVE  (Started(t) \in SeqRange(log) /\ Ended(t) \notin SeqRange(log))'
                 <=> \E i : IsLast(i, n + 1)' /\ log'[i] = Started(t)
    <3>1. /\ Orderly
          /\ e.event = "TRIP_STARTED" =>
                \A j : IsLast(j, n) => log[j].event = "TRIP_ENDED"
          /\ e.event = "TRIP_ENDED" =>
                \E j \in 1 .. n : IsLast(j, n) /\ log[j] = Started(e.trip)
      BY <1>0, <2>2, <2>3, <2>9, OrderlyBefore
    <3>2. (Started(t) \in SeqRange(log) /\ Ended(t) \notin SeqRange(log))
            <=> \E i : IsLast(i, n) /\ log[i] = Started(t)
      BY <2>2, <3>1 DEF LastTurnRuns, IsLast
    <3>3. CASE /\ e.event = "INCIDENT_REPORTED"
               /\ \A u : e # Started(u) /\ e # Ended(u)
      BY <2>4, <2>5, <2>6, <3>2, <3>3
    <3>4. CASE e = Started(e.trip)
      <4>1. e.event = "TRIP_STARTED" /\ e.trip \in Trips
        BY <2>3, <3>4, EventKinds, EventsDiffer
      <4>2. (\E i : IsLast(i, n + 1)' /\ log'[i] = Started(t))
              <=> t = e.trip
        BY <2>5, <3>4, <4>1, EventsDiffer
      <4>3. CASE t = e.trip
        <5>1. Started(t) \notin SeqRange(log)
          BY <3>4, <4>3 DEF FleetPublishes
        <5>2. Ended(t) \notin SeqRange(log)
          <6>1. SUFFICES ASSUME NEW k \in DOMAIN log, log[k] = Ended(t)
                         PROVE  FALSE
            BY DEF SeqRange
          <6>2. PICK j \in DOMAIN log : log[j] = Started(t)
            BY <1>0, <3>1, <6>1, EndedWasStarted
          <6> QED
            BY <5>1, <6>2 DEF SeqRange
        <5>3. Ended(t) # e
          BY <3>4, EventsDiffer
        <5> QED
          BY <2>4, <3>4, <4>2, <4>3, <5>2, <5>3
      <4>4. CASE t # e.trip
        <5>1. ~\E i : IsLast(i, n) /\ log[i] = Started(t)
          BY <3>1, <4>1, EventsDiffer
        <5>2. Started(t) # e /\ Ended(t) # e
          BY <3>4, <4>4, EventsDiffer
        <5> QED
          BY <2>4, <3>2, <4>2, <4>4, <5>1, <5>2
      <4> QED
        BY <4>3, <4>4
    <3>5. CASE e = Ended(e.trip)
      <4>1. e.event = "TRIP_ENDED"
        BY <3>5, EventsDiffer
      <4>2. ~\E i : IsLast(i, n + 1)' /\ log'[i] = Started(t)
        BY <2>5, <3>5, <4>1, EventsDiffer
      <4>3. PICK j \in 1 .. n : IsLast(j, n) /\ log[j] = Started(e.trip)
        BY <3>1, <4>1
      <4>4. ASSUME Started(t) \in SeqRange(log)', Ended(t) \notin SeqRange(log)'
            PROVE  FALSE
        <5>1. Started(t) \in SeqRange(log) /\ Ended(t) \notin SeqRange(log)
                /\ e # Ended(t)
          BY <2>4, <3>5, <4>4, EventsDiffer
        <5>2. PICK i : IsLast(i, n) /\ log[i] = Started(t)
          BY <3>2, <5>1
        <5>3. t = e.trip
          BY <2>8, <4>3, <5>2, EventsDiffer
        <5> QED
          BY <3>5, <5>1, <5>3
      <4> QED
        BY <4>2, <4>4
    <3> QED
      BY <2>3, <3>3, <3>4, <3>5, EventKinds
  <2> QED
    BY <2>5, <2>7, <2>9 DEF LastTurnRuns
<1>2. CASE log' = log
  BY <1>2 DEF LastTurnRuns, Orderly, IsLast, Turns, SeqRange
<1>3. ASSUME ~\E e \in unpublished : Publish(e)
      PROVE  log' = log
  BY <1>3
     DEF Next, FleetStep, StartTrip, EndTrip, ReportIncident, Report,
         OpenStep, FetchEnRoute, FetchIncidents, FetchFails,
         ProcessLifecycle, ProcessPosition, DivertInvalid, DropLate,
         RaiseOnText, EnrichPosition, NextPosition, SinkSends, Checkpoint,
         Fail, Resubmit, RunFrom, vars, fleetVars
<1> QED
  BY <1>1, <1>2, <1>3

\* What the bootstrap map names is on its way in the database, or its end is
\* still to be published or to be read.
LEMMA BootStep ==
    TypeOK /\ FleetPublishes /\ BootWillEnd /\ [Next]_vars => BootWillEnd'
<1> SUFFICES ASSUME TypeOK, FleetPublishes, BootWillEnd, [Next]_vars,
                    boot' # NoTrip, Orderly'
             PROVE  (\/ trips[boot].status
                            \in {"EN_ROUTE", "INCIDENT_REPORTED"}
                     \/ Ended(boot) \in unpublished
                     \/ \E i \in (posL + 1) .. Len(log) :
                            log[i] = Ended(boot))'
  BY DEF BootWillEnd
<1>0. /\ trips \in [Trips -> Row] /\ boot \in Trips \union {NoTrip}
      /\ log \in Seq(Event) /\ unpublished \subseteq Event
      /\ posL \in 0 .. Len(log)
  BY DEF TypeOK
<1>1. CASE \/ \E t \in Trips : StartTrip(t) \/ EndTrip(t)
                                 \/ ReportIncident(t)
  <2>1. PICK t \in Trips : StartTrip(t) \/ EndTrip(t) \/ ReportIncident(t)
    BY <1>1
  <2>2. log' = log /\ boot' = boot /\ posL' = posL
    BY <2>1 DEF StartTrip, EndTrip, ReportIncident, jobVars
  <2>3. Orderly
    BY <2>2 DEF Orderly, Turns, IsLast
  <2>4. unpublished \subseteq unpublished'
    BY <2>1 DEF StartTrip, EndTrip, ReportIncident, Owes
  <2>5. \A u \in Trips :
          trips[u].status \in {"EN_ROUTE", "INCIDENT_REPORTED"} =>
             \/ trips'[u].status \in {"EN_ROUTE", "INCIDENT_REPORTED"}
             \/ Ended(u) \in unpublished'
    <3>1. CASE StartTrip(t)
      BY <1>0, <3>1 DEF StartTrip, Row
    <3>2. CASE EndTrip(t)
      BY <1>0, <3>2 DEF EndTrip, Owes, Ended, Row
    <3>3. CASE ReportIncident(t)
      BY <1>0, <3>3 DEF ReportIncident, Row
    <3> QED
      BY <2>1, <3>1, <3>2, <3>3
  <2> QED
    BY <1>0, <2>2, <2>3, <2>4, <2>5 DEF BootWillEnd
<1>2. CASE \E e \in unpublished : Publish(e)
  <2>1. PICK e \in unpublished : Publish(e)
    BY <1>2
  <2>2. /\ log' = Append(log, e) /\ e \in Event /\ boot' = boot
        /\ posL' = posL /\ trips' = trips
        /\ unpublished' = unpublished \ {e}
    BY <1>0, <2>1 DEF Publish, jobVars
  <2>3. Orderly
    BY <1>0, <2>2, OrderlyBefore
  <2>4. /\ Len(log') = Len(log) + 1 /\ log'[Len(log) + 1] = e
        /\ \A i \in 1 .. Len(log) : log'[i] = log[i]
    BY <1>0, <2>2
  <2>5. Len(log) + 1 \in (posL + 1) .. Len(log')
    BY <1>0, <2>4
  <2>6. \A i \in (posL + 1) .. Len(log) :
            i \in 1 .. Len(log) /\ i \in (posL + 1) .. Len(log')
    BY <1>0, <2>4
  <2> QED
    BY <2>2, <2>3, <2>4, <2>5, <2>6 DEF BootWillEnd
<1>3. CASE OpenStep
  <2>1. UNCHANGED <<trips, unpublished, log, posL>>
    BY <1>3 DEF OpenStep, FetchEnRoute, FetchIncidents, FetchFails, fleetVars
  <2>2. Orderly
    BY <2>1 DEF Orderly, Turns, IsLast
  <2>3. boot' = boot \/ boot' \in InStatus("EN_ROUTE")
          \/ boot' \in InStatus("INCIDENT_REPORTED")
    BY <1>3 DEF OpenStep, FetchEnRoute, FetchIncidents, FetchFails
  <2> QED
    BY <2>1, <2>2, <2>3 DEF BootWillEnd, InStatus
<1>4. CASE ProcessLifecycle
  <2>1. PICK e \in Event : e = log[posL + 1] /\ posL < Len(log)
    BY <1>0, <1>4 DEF ProcessLifecycle
  <2>2. /\ UNCHANGED <<trips, unpublished, log>>
        /\ posL' = posL + 1 /\ boot' = BootAfter(e)
    BY <1>4, <2>1 DEF ProcessLifecycle, fleetVars
  <2>3. Orderly
    BY <2>2 DEF Orderly, Turns, IsLast
  <2>4. posL + 1 \in DOMAIN log
    BY <1>0, <2>1
  <2>5. \A i \in (posL + 1) .. Len(log) :
            i = posL + 1 \/ i \in (posL' + 1) .. Len(log)
    BY <1>0, <2>2
  <2>6. CASE /\ e.event = "INCIDENT_REPORTED"
             /\ \A t : e # Started(t) /\ e # Ended(t)
    <3>1. boot' = boot
      BY <2>2, <2>6 DEF BootAfter
    <3> QED
      BY <2>1, <2>2, <2>3, <2>5, <2>6, <3>1 DEF BootWillEnd
  <2>7. CASE e.event = "TRIP_ENDED"
    BY <2>2, <2>7 DEF BootAfter
  <2>8. CASE e = Started(e.trip)
    <3>1. PICK t \in Trips : t = e.trip
      BY EventKinds
    <3>2. boot' = t
      BY <2>2, <2>8, <3>1, EventsDiffer DEF BootAfter
    <3>3. Started(t) \in SeqRange(log) /\ log[posL + 1] = Started(t)
      BY <2>1, <2>4, <2>8, <3>1 DEF SeqRange
    <3>4. trips[t].started
      BY <3>3 DEF FleetPublishes
    <3>5. trips[t].status \in {"EN_ROUTE", "INCIDENT_REPORTED"}
            \/ trips[t].ended
      <4>1. trips[t].status \in Statuses
        BY <1>0 DEF Row
      <4> QED
        BY <3>4, <4>1 DEF FleetPublishes, Statuses
    <3>6. CASE Ended(t) \in SeqRange(log)
      <4>1. PICK k \in DOMAIN log : log[k] = Ended(t)
        BY <3>6 DEF SeqRange
      <4>2. PICK j \in 1 .. (k - 1) : j \in DOMAIN log /\ log[j] = Started(t)
        BY <1>0, <2>3, <4>1, EndedWasStarted
      <4>3. j = posL + 1
        BY <2>4, <3>3, <4>2 DEF FleetPublishes
      <4>4. k \in (posL' + 1) .. Len(log)
        BY <1>0, <2>2, <4>1, <4>2, <4>3
      <4> QED
        BY <2>2, <3>2, <4>1, <4>4
    <3> QED
      BY <2>2, <3>2, <3>5, <3>6 DEF FleetPublishes
  <2> QED
    BY <2>6, <2>7, <2>8, EventKinds
<1>5. CASE Fail \/ Resubmit
  BY <1>5 DEF Fail, Resubmit, RunFrom
<1>6. CASE \/ \E p \in Position : Report(p)
           \/ ProcessPosition \/ \E k \in Sinks : SinkSends(k)
           \/ Checkpoint \/ UNCHANGED vars
  <2>1. UNCHANGED <<trips, unpublished, log, posL, boot>>
    BY <1>6
       DEF Report, ProcessPosition, DivertInvalid, DropLate, RaiseOnText,
           EnrichPosition, NextPosition, SinkSends, Checkpoint, vars,
           fleetVars, jobVars
  <2>2. Orderly
    BY <2>1 DEF Orderly, Turns, IsLast
  <2> QED
    BY <2>1, <2>2 DEF BootWillEnd
<1> QED
  BY <1>1, <1>2, <1>3, <1>4, <1>5, <1>6 DEF Next, FleetStep

\* With both inputs read, the two memories of the job, the one restored from a
\* checkpoint and the one loaded from the database, name the same trip.
LEMMA AgreementHolds ==
    TypeOK /\ StateFollowsLifecycle /\ FleetPublishes /\ LastTurnRuns
      /\ BootWillEnd => CaughtUpAgrees
<1> SUFFICES ASSUME TypeOK, StateFollowsLifecycle, FleetPublishes,
                    LastTurnRuns, BootWillEnd, posL = Len(log),
                    unpublished = {}, Orderly,
                    \A t \in InStatus("INCIDENT_REPORTED") : t \in Running
             PROVE  \/ /\ Running = {TripOf(NoTrip)}
                       /\ StatusOf(NoTrip) = "ACTIVE"
                    \/ /\ Running = {} /\ TripOf(NoTrip) = NoTrip
                       /\ StatusOf(NoTrip) = "INACTIVE"
  BY DEF CaughtUpAgrees
<1>1. /\ posL \in Nat /\ state.trip \in Trips \union {NoTrip}
      /\ state.status \in {"none", "ACTIVE", "INACTIVE"}
      /\ boot \in Trips \union {NoTrip}
  BY DEF TypeOK, KeyedState
<1>2. ASSUME NEW t \in Trips
      PROVE  t \in Running <=> state.trip = t
  <2>1. t \in Running
          <=> \E i \in Turns(posL) : IsLast(i, posL) /\ log[i] = Started(t)
    BY DEF Running, FleetPublishes, LastTurnRuns
  <2>2. state.trip = t
          <=> \E i \in 1 .. posL : IsLast(i, posL) /\ log[i] = Started(t)
    BY DEF StateFollowsLifecycle, Follows, Started
  <2> QED
    BY <2>1, <2>2 DEF IsLast, Turns
<1>3. Running \subseteq Trips
  BY DEF Running
<1>4. boot # NoTrip => boot \in Running
  <2>1. SUFFICES ASSUME boot # NoTrip PROVE boot \in Running
    OBVIOUS
  <2>2. (posL + 1) .. posL = {}
    BY <1>1
  <2>3. trips[boot].status \in {"EN_ROUTE", "INCIDENT_REPORTED"}
    BY <2>1, <2>2 DEF BootWillEnd
  <2>4. boot \in Trips
    BY <1>1, <2>1
  <2> QED
    BY <2>3, <2>4 DEF FleetPublishes, InStatus, Running
<1>5. state.status = "ACTIVE" <=> state.trip # NoTrip
  BY DEF StateFollowsLifecycle, Follows
<1>6. CASE state.trip # NoTrip
  <2>1. Running = {state.trip}
    BY <1>1, <1>2, <1>3, <1>6
  <2>2. TripOf(NoTrip) = state.trip
    BY <1>6 DEF TripOf, Or
  <2>3. StatusOf(NoTrip) = "ACTIVE"
    BY <1>5, <1>6 DEF StatusOf
  <2> QED
    BY <2>1, <2>2, <2>3
<1>7. CASE state.trip = NoTrip
  <2>1. Running = {} /\ boot = NoTrip
    BY <1>2, <1>3, <1>4, <1>7, StreamAssumption
  <2>2. TripOf(NoTrip) = NoTrip
    BY <1>7, <2>1 DEF TripOf, Or
  <2>3. RouteOf(NoTrip) = NoTrip
    BY <1>7, <2>1, <2>2 DEF RouteOf, Or
  <2>4. StatusOf(NoTrip) = "INACTIVE"
    BY <1>1, <1>5, <1>7, <2>1, <2>3 DEF StatusOf
  <2> QED
    BY <2>1, <2>2, <2>4
<1> QED
  BY <1>6, <1>7

\* Where trips follow one another, a job that has read all there is to read
\* gives the bus the trip and the status the database gives it, after any
\* failures and whatever open() loaded.
THEOREM AgreementCorrect == Spec => []CaughtUpAgrees
<1>1. Init => FleetPublishes /\ LastTurnRuns /\ BootWillEnd
  <2> SUFFICES ASSUME Init
               PROVE  FleetPublishes /\ LastTurnRuns /\ BootWillEnd
    OBVIOUS
  <2>1. log = <<>> /\ unpublished = {} /\ boot = NoTrip /\ Len(log) = 0
    BY DEF Init
  <2>2. SeqRange(log) = {} /\ Turns(Len(log)) = {} /\ DOMAIN log = {}
    BY <2>1 DEF SeqRange, Turns
  <2>3. \A t \in Trips : trips[t].status = "WAITING_AT_DEPOT"
            /\ ~trips[t].started /\ ~trips[t].ended
    BY DEF Init
  <2> QED
    BY <2>1, <2>2, <2>3 DEF FleetPublishes, LastTurnRuns, BootWillEnd
<1> QED
  BY <1>1, StreamTypeCorrect, StateCorrect, PublishesStep, LastTurnStep,
     BootStep, AgreementHolds, PTL DEF Spec

=============================================================================
