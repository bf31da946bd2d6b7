---------------------------- MODULE EtaPrediction ----------------------------
(***************************************************************************)
(* How services/eta-service predicts an arrival: the chain of XGBoost,     *)
(* SARIMA and distance over speed (app/prediction), asked by the consumer  *)
(* for the next stop of each position and by the endpoint for any stop of  *)
(* the last snapshot.  The consumer has a thread of its own and FastAPI    *)
(* answers from a thread pool, so calls overlap; they share two lru_caches *)
(* that load outside any lock, while training writes the files.            *)
(*                                                                         *)
(* Distances are metres, speeds decimetres per second.  A model forecasts  *)
(* seconds, or raises, depending on the hour: XGBoost is asked for the     *)
(* position's own timestamp, SARIMA for the moment of the call.  Kafka,    *)
(* Redis and the smoothing of speeds are EtaService's.                     *)
(***************************************************************************)
EXTENDS Integers, Sequences, SequencesExt

CONSTANTS
    Requests,     \* handlers of the endpoint that run at the same time
    Pairs,        \* <<route, stop>> of the trip; a route may be NoRoute
    Distances,    \* metres to the next stop
    Apart,        \* metres from one stop to the next one
    Speeds,       \* decimetres per second
    MaxMoment,    \* bound: hours a behaviour takes
    Models,       \* hour -> seconds forecast, or Raises
    Raises,       \* instead of a forecast
    Absent,       \* no file, or no model
    Corrupt,      \* a file that cannot be loaded
    Unasked,      \* a model that a call has not looked for
    Default,      \* ETA_DEFAULT_MODEL
    Weather,      \* ETA_WEATHER_COEFFICIENT, in percent
    CacheSize,    \* of _load_artifact: 128
    MaxTrainings, \* bound: files written or removed
    MaxAsked,     \* bound: predictions asked for
    MaxReboots    \* bound: restarts of the process

NoRoute == "noRoute"
Supported == {"physics", "xgboost", "sarima"}
Segments == {"urban", "expressway"}
Hours == 0 .. MaxMoment

ASSUME PredictionAssumption ==
    /\ Distances \subseteq Int /\ {Apart} \union Speeds \subseteq Nat
    /\ Models \subseteq [Hours -> Int \union {Raises}]
    /\ {Absent, Corrupt, Unasked} \intersect Models = {}
    /\ Absent # Corrupt /\ Unasked \notin {Absent, Corrupt}
    /\ Default \in Supported /\ "consumer" \notin Requests
    /\ {Weather, MaxMoment, MaxTrainings, MaxAsked, MaxReboots} \subseteq Nat
    /\ CacheSize \in Nat \ {0}
    /\ \A p \in Pairs : p = <<p[1], p[2]>> /\ p[2] \in Nat
    \* The pairs are a route's stops, or stops of no known route.
    /\ \A p, q \in Pairs : p[1] # NoRoute => <<p[1], q[2]>> \in Pairs

VARIABLES
    registry,   \* segment -> its model in MLflow
    joblib,     \* the XGBoost artifact beside the code
    artifact,   \* pair -> its SARIMA artifact
    loaded,     \* _load_model: segment -> model, or Absent
    cache,      \* _load_artifact: <<pair, model>>, oldest use first
    touched,    \* how often the cache of artifacts was used or filled
    pending,    \* caller -> its call of predict
    position,   \* the snapshot in Redis with its prediction, or Nothing
    answer,     \* what the endpoint answered last
    moment, trained, asked, reboots

files == <<registry, joblib, artifact>>
memory == <<loaded, cache, touched>>
predictionVars == <<files, memory, pending, position, answer, moment, trained,
                    asked, reboots>>

-----------------------------------------------------------------------------
Nothing == [query |-> "none"]
Idle == [stage |-> "idle"]
Callers == Requests \union {"consumer"}
File == Models \union {Absent, Corrupt}
MinSpeed == 14

Larger(a, b) == IF a >= b THEN a ELSE b
Deviation(a, b) == IF a >= b THEN a - b ELSE b - a

PredictionInit ==
    /\ registry = [g \in Segments |-> Absent]
    /\ joblib = Absent
    /\ artifact = [p \in Pairs |-> Absent]
    /\ loaded = [g \in Segments |-> Absent]
    /\ cache = <<>> /\ touched = 0
    /\ pending = [c \in Callers |-> Idle]
    /\ position = Nothing
    /\ answer = [status |-> 0]
    /\ moment = 0 /\ trained = 0 /\ asked = 0 /\ reboots = 0

\* A request: distance, speed, hour of the position, segment and pair.
Query == [d : Distances, s : Speeds, t : Hours, seg : Segments, pair : Pairs]

\* The endpoint's requests: the same, further along the route.
Request == [d : Int, s : Speeds, t : Hours, seg : Segments,
            pair : Pairs \union ({NoRoute} \X Nat)]

\* What a call has seen and will announce: the models it was given, the hour
\* SARIMA was asked for, when it looked for the artifact in terms of touched,
\* and for which of the two caches the model it used is the one that is kept.
View == [selected : Supported, query : Request, boot : 0 .. MaxReboots,
         xgb : Models \union {Absent, Unasked},
         sarima : File \union {Unasked}, ts : Hours, touch : Nat,
         held : SUBSET {"xgb", "sarima"}]

(* compute_eta and compute_eta_expressway.                                  *)
(* Rounded up, so that it is 0 where the code's is: with no distance left.  *)
Physics(q) == LET v == Larger(q.s, MinSpeed)
              IN  (10 * Larger(q.d, 0) + v - 1) \div v
Expressway(q) == (Physics(q) * Larger(Weather, 50)) \div 100
ByHand(q) == IF q.seg = "expressway" THEN Expressway(q) ELSE Physics(q)
Slow(q) == q.s < MinSpeed

Outcome(eta, used, clamped, fallback) ==
    [eta |-> eta, used |-> used, clamped |-> clamped, fallback |-> fallback]

\* What a model says of an hour; no model says Absent.
Says(m, t) == IF m \in Models THEN m[t] ELSE Absent

(* predict_eta_xgb, given what the model says.                              *)
TooFar(q, t) == /\ Physics(q) > 0
                /\ 10 * Deviation(t, Physics(q)) > 8 * Physics(q)

Xgb(v) ==
    LET q == v.query
        said == Says(v.xgb, q.t)
        Of(eta, clamped) ==
            Outcome(eta, IF clamped THEN "physics" ELSE "xgboost",
                    clamped, clamped)
    IN  IF q.d <= 0 THEN Of(0, Slow(q))
        ELSE IF said \in {Absent, Raises} THEN Of(Physics(q), FALSE)
        ELSE IF TooFar(q, said) THEN Of(Physics(q), TRUE)
        ELSE Of(Larger(said, 0), Slow(q))

(* _predict_sarima.                                                         *)
HasForecast(v) == /\ v.query.pair[1] # NoRoute
                  /\ Says(v.sarima, v.ts) \notin {Absent, Raises}
Sarima(v) == Outcome(Larger(Says(v.sarima, v.ts), 0), "sarima", FALSE, FALSE)

(* predict: which model a call looks for next, and what comes out.          *)
XgbAnswered(v) == v.xgb # Unasked \/ v.query.d <= 0
SarimaAnswered(v) == v.sarima # Unasked \/ v.query.pair[1] = NoRoute
WantsXgb(v) ==
    \/ v.selected = "xgboost"
    \/ v.selected = "sarima" /\ SarimaAnswered(v) /\ ~HasForecast(v)
WantsSarima(v) ==
    \/ v.selected = "sarima"
    \/ v.selected = "xgboost" /\ XgbAnswered(v) /\ Xgb(v).fallback

Needs(v) == IF WantsXgb(v) /\ ~XgbAnswered(v) THEN "xgb"
            ELSE IF WantsSarima(v) /\ ~SarimaAnswered(v) THEN "sarima"
            ELSE "nothing"

Predict(v) ==
    CASE v.selected = "physics" ->
            Outcome(ByHand(v.query), "physics", Slow(v.query), FALSE)
      [] v.selected = "sarima" ->
            IF HasForecast(v) THEN Sarima(v) ELSE Xgb(v)
      [] v.selected = "xgboost" ->
            IF ~Xgb(v).fallback THEN Xgb(v)
            ELSE IF HasForecast(v) THEN Sarima(v)
            ELSE Outcome(ByHand(v.query), "physics", Slow(v.query), TRUE)

-----------------------------------------------------------------------------
\* Training, or a deployment, writes or removes a file.
Trains ==
    /\ trained < MaxTrainings /\ trained' = trained + 1
    /\ \E f \in File :
          \/ /\ \E g \in Segments : registry' = [registry EXCEPT ![g] = f]
             /\ UNCHANGED <<joblib, artifact>>
          \/ /\ joblib' = f /\ UNCHANGED <<registry, artifact>>
          \/ /\ \E p \in {p \in Pairs : p[1] # NoRoute} :
                   artifact' = [artifact EXCEPT ![p] = f]
             /\ UNCHANGED <<registry, joblib>>
    /\ UNCHANGED <<memory, pending, position, answer, moment, asked, reboots>>

Ticks ==
    /\ moment < MaxMoment /\ moment' = moment + 1
    /\ UNCHANGED <<files, memory, pending, position, answer, trained, asked,
                   reboots>>

Fresh(selected, q) ==
    [selected |-> selected, query |-> q, boot |-> reboots, xgb |-> Unasked,
     sarima |-> Unasked, ts |-> 0, touch |-> 0, held |-> {}]

\* A call asks, has missed a cache, or has read a file it will keep.
Calls(c, v, snapshot) ==
    /\ asked < MaxAsked /\ asked' = asked + 1
    /\ pending' = [pending EXCEPT ![c] =
                    [stage |-> "asks", view |-> v, file |-> Absent,
                     snapshot |-> snapshot]]

\* process_payload: the next stop's arrival is predicted.
Event(q) ==
    /\ pending["consumer"] = Idle /\ q.t <= moment
    /\ Calls("consumer", Fresh(Default, q), Nothing)
    /\ UNCHANGED <<files, memory, position, answer, moment, trained, reboots>>

\* get_eta: the stop's distance, and all else of the snapshot.
Wanted(stop) ==
    [position.query EXCEPT
        !.d = @ + Apart * (stop - position.query.pair[2]),
        !.pair = <<@[1], stop>>]

Refused(status) ==
    /\ asked < MaxAsked /\ asked' = asked + 1
    /\ answer' = [status |-> status] /\ UNCHANGED pending

GetEta(c, model, stop) ==
    /\ pending[c] = Idle
    /\ IF model \notin Supported THEN Refused(400)
       ELSE IF position = Nothing THEN Refused(503)
       ELSE IF stop < position.query.pair[2] THEN Refused(404)
       ELSE /\ Calls(c, Fresh(model, Wanted(stop)), position)
            /\ UNCHANGED answer
    /\ UNCHANGED <<files, memory, position, moment, trained, reboots>>

\* A step of a call at one of its stages that needs one of the models.
IsAt(c, stage, model) ==
    pending[c].stage = stage /\ Needs(pending[c].view) = model
Moves(c, stage, v, f) ==
    /\ pending' = [pending EXCEPT ![c].stage = stage, ![c].view = v,
                              ![c].file = f]
    /\ UNCHANGED <<files, position, answer, moment, trained, asked, reboots>>

(* _load_model: a model that was loaded is kept, a failure is not.          *)
OnDisk(g) == IF registry[g] \notin {Absent, Corrupt} THEN registry[g]
             ELSE IF joblib = Corrupt THEN Absent ELSE joblib

LooksForXgb(c) ==
    LET v == pending[c].view
        g == v.query.seg
    IN  /\ IsAt(c, "asks", "xgb")
        /\ IF loaded[g] = Absent THEN Moves(c, "misses", v, Absent)
           ELSE Moves(c, "asks", [v EXCEPT !.xgb = loaded[g],
                                           !.held = @ \union {"xgb"}], Absent)
        /\ UNCHANGED memory

ReadsXgb(c) ==
    LET v == pending[c].view
        m == OnDisk(v.query.seg)
    IN  /\ IsAt(c, "misses", "xgb")
        /\ IF m = Absent THEN Moves(c, "asks", [v EXCEPT !.xgb = Absent], m)
           ELSE Moves(c, "keeps", v, m)
        /\ UNCHANGED memory

\* Mutant of KeepsXgb: without the lru_cache, nobody else has the model.
KeepsXgb_forgets(c) ==
    LET v == pending[c].view IN
    /\ IsAt(c, "keeps", "xgb")
    /\ Moves(c, "asks", [v EXCEPT !.xgb = pending[c].file,
                                 !.held = @ \union {"xgb"}], Absent)
    /\ UNCHANGED memory

\* Another call may have been first: then this one uses its own model, and
\* the cache keeps the other's.
KeepsXgb(c) ==
    LET v == pending[c].view
        g == v.query.seg
        m == pending[c].file
    IN  /\ IsAt(c, "keeps", "xgb")
        /\ IF loaded[g] = Absent
           THEN /\ loaded' = [loaded EXCEPT ![g] = m]
                /\ Moves(c, "asks", [v EXCEPT !.xgb = m,
                                         !.held = @ \union {"xgb"}], Absent)
           ELSE /\ UNCHANGED loaded
                /\ Moves(c, "asks", [v EXCEPT !.xgb = m], Absent)
        /\ UNCHANGED <<cache, touched>>

(* _load_artifact: that there is no file is remembered as well, a file that *)
(* cannot be loaded is not.  The hour is read when the artifact is there.   *)
Cached(p) == \E i \in DOMAIN cache : cache[i][1] = p
Entry(p) == CHOOSE i \in DOMAIN cache : cache[i][1] = p
LastOf(e, n) == IF Len(e) > n THEN Tail(e) ELSE e

\* The artifact is used last, whether it was there or not.
Uses(p, m) ==
    /\ cache' = LastOf(
                   Append(IF Cached(p) THEN RemoveAt(cache, Entry(p))
                          ELSE cache, <<p, m>>), CacheSize)
    /\ touched' = touched + 1
Given(v, m) == [v EXCEPT !.sarima = m, !.ts = moment,
                         !.held = @ \union {"sarima"}]

LooksForSarima(c) ==
    LET v == [pending[c].view EXCEPT !.touch = touched + 1]
        p == v.query.pair
        m == cache[Entry(p)][2]
    IN  /\ IsAt(c, "asks", "sarima")
        /\ IF Cached(p)
           THEN Uses(p, m) /\ Moves(c, "asks", Given(v, m), Absent)
           ELSE /\ UNCHANGED <<cache, touched>>
                /\ Moves(c, "misses", v, Absent)
        /\ UNCHANGED loaded

ReadsSarima(c) ==
    LET v == pending[c].view
        m == artifact[v.query.pair]
    IN  /\ IsAt(c, "misses", "sarima")
        /\ IF m = Corrupt
           THEN Moves(c, "asks", [v EXCEPT !.sarima = m], Absent)
           ELSE Moves(c, "keeps", v, m)
        /\ UNCHANGED memory

KeepsSarima(c) ==
    LET v == pending[c].view
        p == v.query.pair
        m == pending[c].file
    IN  /\ IsAt(c, "keeps", "sarima")
        /\ IF ~Cached(p)
           THEN Uses(p, m) /\ Moves(c, "asks", Given(v, m), Absent)
           ELSE /\ UNCHANGED <<cache, touched>>
                /\ Moves(c, "asks", [v EXCEPT !.sarima = m, !.ts = moment],
                         Absent)
        /\ UNCHANGED loaded

\* The consumer keeps the snapshot and publishes it.
Announces ==
    /\ IsAt("consumer", "asks", "nothing")
    /\ position' = pending["consumer"].view
    /\ pending' = [pending EXCEPT !["consumer"] = Idle]
    /\ UNCHANGED <<files, memory, answer, moment, trained, asked, reboots>>

Answers(c) ==
    /\ IsAt(c, "asks", "nothing")
    /\ answer' = [status |-> 200, view |-> pending[c].view,
                  snapshot |-> pending[c].snapshot]
    /\ pending' = [pending EXCEPT ![c] = Idle]
    /\ UNCHANGED <<files, memory, position, moment, trained, asked, reboots>>

Expires ==
    /\ position # Nothing /\ position' = Nothing
    /\ UNCHANGED <<files, memory, pending, answer, moment, trained, asked,
                   reboots>>

Reboot ==
    /\ reboots < MaxReboots /\ reboots' = reboots + 1
    /\ loaded' = [g \in Segments |-> Absent] /\ cache' = <<>>
    /\ pending' = [c \in Callers |-> Idle]
    /\ UNCHANGED <<files, touched, position, answer, moment, trained, asked>>

\* One call of predict, by the consumer or a handler.
Asks(c) ==
    \/ LooksForXgb(c) \/ ReadsXgb(c) \/ KeepsXgb(c)
    \/ LooksForSarima(c) \/ ReadsSarima(c) \/ KeepsSarima(c)

\* What happens after the last prediction asked for changes nothing.
InUse == asked < MaxAsked \/ \E c \in Callers : pending[c] # Idle
PredictionNext ==
    \/ InUse /\ (Trains \/ Ticks \/ Expires \/ Reboot)
    \/ \E q \in Query : Event(q)
    \/ \E c \in Requests, model \in Supported \union {"lstm"}, p \in Pairs :
          GetEta(c, model, p[2])
    \/ \E c \in Callers : Asks(c)
    \/ Announces
    \/ \E c \in Requests : Answers(c)

PredictionSpec == PredictionInit /\ [][PredictionNext]_predictionVars

-----------------------------------------------------------------------------
(* Properties.                                                              *)

Call == [stage : {"asks", "misses", "keeps"}, view : View, file : File,
         snapshot : View \union {Nothing}]

\* Every variable keeps to its type.
PredictionTypeOK ==
    /\ registry \in [Segments -> File] /\ joblib \in File
    /\ artifact \in [Pairs -> File]
    /\ loaded \in [Segments -> Models \union {Absent}]
    /\ cache \in Seq(Pairs \X (Models \union {Absent}))
    /\ Len(cache) <= CacheSize
    /\ touched \in Nat
    /\ pending \in [Callers -> Call \union {Idle}]
    /\ position \in View \union {Nothing}
    /\ answer.status \in {0, 200, 400, 404, 503}
    /\ answer.status = 200 => /\ answer.view \in View
                             /\ answer.snapshot \in View
    /\ moment \in Hours /\ trained \in 0 .. MaxTrainings
    /\ asked \in 0 .. MaxAsked /\ reboots \in 0 .. MaxReboots

\* The snapshots there are: in Redis, with a handler, and behind the last
\* answer; and the predictions on show, which are those and that answer.
Busy == {c \in Callers : pending[c] # Idle}
Answered == IF answer.status = 200 THEN {answer} ELSE {}
Snapshots ==
    ({position} \union {pending[c].snapshot : c \in Busy}
     \union {a.snapshot : a \in Answered}) \ {Nothing}
Shown == Snapshots \union {a.view : a \in Answered}

\* No arrival that is on show lies in the past, whatever was forecast.
ArrivalsAhead ==
    \A v \in Shown :
        Predict(v) \in [eta : Nat, used : Supported, clamped : BOOLEAN,
                       fallback : BOOLEAN]

\* "physics sanity clamp" (predict_eta_xgb): whatever model was trained or
\* could not be loaded, an arrival that SARIMA did not forecast is within
\* 80 % of distance over speed, or is that of the expressway's weather.
NearPhysics ==
    \A v \in Shown : LET q == v.query eta == Predict(v).eta IN
        Predict(v).used # "sarima" =>
            \/ 10 * Deviation(eta, Physics(q)) <= 8 * Physics(q)
            \/ q.seg = "expressway" /\ eta = Expressway(q)

\* An answer labelled "physics" is distance over speed with the weather, and
\* no value of a model, except where SARIMA was asked for and XGBoost was
\* asked instead.
PhysicsIsByHand ==
    \A v \in Shown :
        Predict(v).used = "physics" /\ v.selected # "sarima" =>
            Predict(v).eta = ByHand(v.query)

\* The consumer announces an arrival at the next stop and the endpoint is
\* asked for it.  While the process lives, retraining does not come between
\* the two: the endpoint is given the XGBoost model the announcement used,
\* unless another call's load had been first then, and the SARIMA artifact
\* as well, while fewer uses of that cache than it has room for came between;
\* and with the same models the arrival is the same, unless SARIMA was asked
\* in two different hours.
Repeats(v, p) ==
    LET xgbHeld == "xgb" \in p.held
        sarimaHeld == "sarima" \in p.held /\ v.touch - p.touch <= CacheSize
        sameHour == {v.sarima, p.sarima} = {Unasked} \/ v.ts = p.ts
    IN  (v.selected = Default /\ v.query = p.query /\ v.boot = p.boot) =>
        /\ xgbHeld => v.xgb \in {p.xgb, Unasked}
        /\ sarimaHeld => v.sarima \in {p.sarima, Unasked}
        /\ (/\ xgbHeld \/ p.xgb = Unasked
            /\ sarimaHeld \/ p.sarima = Unasked
            /\ sameHour) => Predict(v) = Predict(p)
AnnouncedIsAnswered == \A a \in Answered : Repeats(a.view, a.snapshot)

\* Why: the cache holds a pair once; ...
CacheIsOrdered ==
    \A i, k \in DOMAIN cache : cache[i][1] = cache[k][1] => i = k

\* ... for as long as the process lives, the model a call used and that was
\* kept stays loaded, and its artifact for as many uses as the cache has room
\* for; ...
Within(p, m, n) == \E i \in DOMAIN cache : /\ cache[i] = <<p, m>>
                                           /\ Len(cache) - i <= n
Lasting(v) ==
    v.boot = reboots =>
        /\ "xgb" \in v.held => v.xgb \in Models /\ loaded[v.query.seg] = v.xgb
        /\ "sarima" \in v.held =>
              /\ v.sarima # Unasked /\ v.touch <= touched
              /\ touched - v.touch < CacheSize =>
                    Within(v.query.pair, v.sarima, touched - v.touch)
Kept(v) == v.boot <= reboots /\ v.touch <= touched + 1 /\ Lasting(v)

\* ... which goes for the snapshots, that have asked for all they needed, ...
SnapshotIsKept(p) == Needs(p) = "nothing" /\ p.selected = Default /\ Kept(p)

\* ... so that a call for what a snapshot announced finds the models there.
Follows(p, v, stage) ==
    (p # Nothing /\ p.boot = v.boot /\ p.query = v.query) =>
        /\ "xgb" \in p.held => /\ v.xgb \in {Unasked, p.xgb}
                               /\ stage = "asks" \/ Needs(v) # "xgb"
        /\ "sarima" \in p.held /\ v.touch - p.touch <= CacheSize =>
              /\ v.sarima \in {Unasked, p.sarima}
              /\ stage = "asks" \/ Needs(v) # "sarima"
CallFollows(c) ==
    LET v == pending[c].view
        p == pending[c].snapshot
        toKeep == IF Needs(v) = "xgb" THEN Models ELSE Models \union {Absent}
    IN
    /\ Kept(v) /\ v.boot = reboots
    /\ pending[c].stage = "keeps" => pending[c].file \in toKeep
    /\ Follows(p, v, pending[c].stage)
    /\ IF c = "consumer" THEN v.selected = Default ELSE p # Nothing

\* A prediction is near physics where there is one, is distance over speed
\* where it says so, and is for the endpoint what it was for the consumer
\* (inference_router, ml_eta_xgb, sarima_eta).
PredictionInv ==
    /\ PredictionTypeOK
    /\ ArrivalsAhead
    /\ NearPhysics
    /\ PhysicsIsByHand
    /\ AnnouncedIsAnswered
    /\ CacheIsOrdered
    /\ \A p \in Snapshots : SnapshotIsKept(p)
    /\ \A c \in Busy : CallFollows(c)
=============================================================================
