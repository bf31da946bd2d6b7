----------------------------- MODULE MCAlgorithms -----------------------------
(***************************************************************************)
(* Small instances of what the services compute: predictions, validation,  *)
(* geometry, dwell times, and the trust in passengers.  A behaviour is     *)
(* about one of them, chosen at the start, and leaves the others alone.    *)
(***************************************************************************)
EXTENDS EtaPrediction, PositionValidator, RouteGeometry, StopDwell,
        CrowdSensing

CONSTANTS w1, w2  \* passengers

VARIABLE part

vars == <<part, predictionVars, validatorVars, geometryVars, dwellVars,
          crowdVars>>

TwoStops == {<<"r", 1>>, <<"r", 2>>, <<NoRoute, 1>>}
\* One model forecasts well in the first hour and beyond the clamp in the
\* second, the other a past arrival and then nothing.
Forecasters == {[h \in Hours |-> IF h = 0 THEN 20 ELSE 90],
                [h \in Hours |-> IF h = 0 THEN -20 ELSE Raises]}

\* Senders are interchangeable, and so are journeys.
Symmetry == Permutations(Senders) \union Permutations(Journeys)

\* Bounds for predictions.  Positions are read in their own hour; a bus of no
\* known route is on an expressway, for which MLflow has no model; nothing
\* stands at the second stop.  One call may be refused.  A file is changed
\* before the first call, and a second one after it; MLflow's model comes
\* second, beside a joblib file.  An hour begins between calls, a
\* snapshot expires between calls, a restart follows an announcement.
Nobody == \A c \in Callers : pending[c] = Idle
HasEvent == pending["consumer"] = Idle /\ pending'["consumer"] # Idle

\* A third call in the first hour: of a bus that stood at its stop when the
\* first one was made, overlapping the second one; or of a bus that was slow
\* there, for that stop again after the second one was for the next stop, so
\* that the artifact of the first one is no longer cached.
Overlaps ==
    /\ asked = 3 \/ ~Nobody
    /\ \A c \in Callers : pending'[c] # Idle =>
          /\ pending'[c].view.query.pair = <<"r", 2>>
          /\ pending'[c].view.selected # "physics"
AsksAgain ==
    /\ pending'["consumer"] = Idle
    /\ \A c \in Requests : pending'[c] # Idle =>
          /\ pending'[c].view.query = position.query
          /\ pending'[c].view.selected = Default
    /\ answer.status = 200
    /\ answer.view.query # position.query
    /\ answer.view.selected = "sarima"
ThirdCall ==
    /\ position # Nothing /\ position.query.d = 0
    /\ reboots = 0 /\ moment = 0
    /\ IF Slow(position.query) THEN AsksAgain ELSE Overlaps

FewPredictions ==
    /\ HasEvent => LET q == pending'["consumer"].view.query IN
          /\ q.seg = "expressway" <=> q.pair[1] = NoRoute
          /\ q.d = 0 => q.pair = <<"r", 1>>
          /\ q.t = moment
    /\ registry'["expressway"] = Absent
    /\ registry' # registry =>
          joblib # Absent /\ registry'["urban"] # Corrupt
    /\ answer'.status \in {400, 404, 503} => asked' = 2
    /\ trained' # trained => files' # files
    /\ trained' > 1 => asked > 0
    /\ moment' # moment => Nobody /\ asked > 0
    /\ position' = Nothing => position = Nothing \/ Nobody
    /\ reboots' # reboots => position # Nothing /\ asked < 3
    /\ asked' = 3 => asked = 3 \/ ThirdCall

\* A line starts in a corner.
FromCorner == line # <<>> => line[1] = <<0, 0>>

\* Bounds for reports: the endpoint answers once at most, a crash or a
\* failure and not both; reports come while the thread has none in hand,
\* the first of them low, of w1 or nobody, perhaps dated ahead or skipped
\* (then nothing fails: the other two would be as if alone); w2 reports
\* after w1.
FewReports ==
    /\ crashes' + faults' <= 1
    /\ reply' # reply => reply = "none" /\ topic = <<>> /\ minute = 0
    /\ reply = "none" \/ thread' = "down"
    /\ \A i \in 2 .. MaxReports : why'[i] # "skipped"
    /\ why'[1] = "skipped" => crashes' + faults' = 0
    /\ topic' # topic =>
          /\ reply = "none" /\ batch = <<>>
          /\ IF topic = <<>> THEN /\ Last(topic').who # w2
                                 /\ Last(topic').score = Min(Scores)
                            ELSE /\ Last(topic').who # Anonymous
                                 /\ Last(topic').who = w1
                                       \/ \E n \in DOMAIN topic :
                                            topic[n].who = w1
                                 /\ Last(topic').ts = minute

\* Bounds for dwell times: the stops are added first.
StopsFirst == added' # added => calls = 0 /\ hour = 0

InPrediction(A) == part = "prediction" /\ A
    /\ UNCHANGED <<part, validatorVars, geometryVars, dwellVars, crowdVars>>
InValidator(A) == part = "validator" /\ A
    /\ UNCHANGED <<part, predictionVars, geometryVars, dwellVars, crowdVars>>
InGeometry(A) == part = "geometry" /\ A
    /\ UNCHANGED <<part, predictionVars, validatorVars, dwellVars, crowdVars>>
InDwell(A) == part = "dwell" /\ A
    /\ UNCHANGED <<part, predictionVars, validatorVars, geometryVars>>
    /\ UNCHANGED crowdVars
InCrowd(A) == part = "crowd" /\ A
    /\ UNCHANGED <<part, predictionVars, validatorVars, geometryVars>>
    /\ UNCHANGED dwellVars

Init == /\ part \in {"prediction", "validator", "geometry", "dwell", "crowd"}
        /\ PredictionInit /\ ValidatorInit /\ DwellInit /\ CrowdInit
        /\ GeometryInit /\ FromCorner
        /\ part # "validator" => interval = Min(Intervals)
        /\ part # "dwell" => ~tz
        /\ part # "geometry" => line = <<>> /\ gps = <<0, 0>>

Next == \/ InPrediction(PredictionNext /\ FewPredictions)
        \/ InValidator(ValidatorNext)
        \/ InGeometry(GeometryNext)
        \/ InDwell(DwellNext /\ StopsFirst)
        \/ InCrowd(CrowdNext /\ FewReports)

Spec == Init /\ [][Next]_vars
=============================================================================
