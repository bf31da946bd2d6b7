# OnTime: a TLA+ verification of the bus-tracking backend

OnTime tracks buses.  A GPS device on each bus publishes its position over
MQTT; a chain of Python services turns positions into live locations, arrival
times and alerts; a fleet service says which trip each bus is on; a weekly
workflow trains the models.  This directory holds TLA+ models of the parts of
the system where order, failure and shared state matter, TLC configurations that
check them on small instances, and TLAPS proofs of the results that do not
depend on the size of the instance.

All paths below are relative to the repository; services are under `services/`.

## 1. The system

```
 driver app / admin ──> api-gateway ──> fleet-management ──┐ trip.lifecycle
                              │              (Postgres)    │ device.config
                              └──> route-service           ▼
 device ──MQTT──> ingestion ──Kafka raw──> stream-processing (Flink)
                     │  DLQ                  │ cleaned     │ eta-features
                     ▼                       ▼             ▼
               anomaly-service <────────── Kafka      eta-service
                     │         Redis pub/sub + keys        │
                     └──────────> websocket-service <──────┘
 passengers ──> crowd-sensing            │
                                         └──> clients
 airflow ──> training scripts ──> artifacts, MLflow registry ──> service images
```

Every topic has one partition and each service runs as one process with one
uvicorn worker (`docker/docker-compose.yml`, the `Dockerfile`s), so an order
exists per topic, and none between topics.

### Inventory

| Component | State | Operations | Hard behaviour | What makes it correct |
|---|---|---|---|---|
| fleet-management, trips (`trip_service.py`, `routers/trips.py`, `kafka_producer.py`) | `planned_trips`, `trip_incidents`, one shared lazily created Kafka producer | generate, assign, start, end, delay, incident | coroutines on one event loop beside thread-pool handlers; commit before publish; producer shared while it connects; crash between commit and publish | a trip starts once and on one bus; no event without its commit; a success answer means the event is on the topic; every handler answers |
| fleet-management, buses, drivers, schedules (`routers/fleet.py`) | rows | CRUD, route assignment, daily generation | the route is another service's; a retry behind a timeout | one trip per departure; a bus's route was a route |
| ingestion, active-trip cache (`trip_lifecycle_cache.py`) | map bus to trip, status, consumer position | replay, poll, look-up, stop | replay while look-ups run, silent broker, restart | a look-up says what the log says; ready means replayed; rebuilding ends |
| ingestion, MQTT subscriber and validator (`mqtt_subscriber.py`, `validator.py`, `producer.py`) | startup buffer, last accepted time and payloads of each bus | on_message: buffer, drain, enrich, validate, reject | asks the cache three times per message while its thread runs; two modes that read a payload differently | no message lost or handled twice; no bus called inactive because of a restart; both modes agree; a bus refused for its time is not refused for ever |
| ingestion, device configuration (`config_consumer.py`) | Kafka position, MQTT connection | forward to MQTT (retained) | offsets committed by the clock, an MQTT client that may be away | what is committed was published; the retained message is the newest |
| stream-processing (`enrichment.py`, `job.py`, `sinks.py`, `route_client.py`, `geo.py`) | keyed state per bus, bootstrap map per subtask | open, lifecycle event, position | two unordered inputs, checkpoint and replay, bootstrap from today's database | the keyed state is what the events say, whatever was replayed; no accepted position is lost, no late one gets through; a bus is put where it is |
| stream-processing, dwell (`dwell_calculation.py`, `stop_resolution.py`) | per vehicle the stop it is at and the one before; nothing that runs calls it | record, resolve, clean up | late readings, a cleanup every so many calls | a dwell was measured |
| eta-service (`eta_consumer.py`, `app/prediction/`) | speed history, Redis snapshots, model caches | position to ETA; model cascade | a message that ends the thread; caches that two threads fill and that outlive retraining | one bad message costs one message; averages are of recent speeds; a forecast is near physics, and the endpoint says what was announced |
| anomaly-service (`main.py`, `anomaly_model.py`) | per-bus detector state | detect, publish, periodic check | flags set before the publish; tasks that die silently | each episode is alerted, once |
| websocket-service | connections, listener | connect, snapshot, broadcast, reconnect | snapshot after a newer broadcast; messages lost in back-off | a client misses nothing while it is connected, and goes back once at most |
| crowd-sensing | reports, trust scores | consume, adjust trust, predict | two transactions per report, one session per batch, offsets by the clock | trust is what agreement earned; a prediction lies between what was reported |
| api-gateway | none | driver accounts over Keycloak and fleet, forwarding | compensation that may fail; answers lost in a timeout | no account without a profile and the reverse |
| route-service | routes, stops | KML import, replace, delete, search; the stream job's copy | multi-row replace in several transactions; a copy in two requests | a route's stops are one file's, also in a copy; a search finds a route where it runs |
| ml, airflow | artifacts, registry, images | check, export, train, register, build | two runs on one artifact, retries | what is registered is what was trained, whole |
| docker, deploy, scripts, docs | | | | not modelled |

`PROJECT.json` lists the hazards, each at its line, with the properties that
cover it, or why none does.

## 2. Modules

| Module | Models |
|---|---|
| `TripLifecycle` | the trip handlers of fleet-management and the producer they share |
| `TripPromise` | what they promise, without handlers and producer: an abstract specification |
| `TripLifecycle_proofs` | the inductive invariant and the refinement |
| `ActiveTripCache` | ingestion's active-trip cache and the thread that fills it |
| `Ingestion`, `Ingestion_proofs` | `on_message` beside that thread; extends `ActiveTripCache` |
| `PositionValidator` | both validators of a position, and the stream job's classification behind them |
| `DeviceConfig`, `DeviceConfig_proofs` | a device's configuration, from the fleet service to the device |
| `StreamEnrichment`, `StreamEnrichment_proofs` | the Flink job for one bus: bootstrap, keyed state, sinks, checkpoints |
| `RouteGeometry` | projection onto a route, and the stops ahead |
| `StopDwell` | stop zones and dwell times |
| `EtaService` | the ETA consumer between Kafka and Redis |
| `EtaPrediction` | the chain of predictors and their caches |
| `AlertChannels` | anomaly types and the channels of their audiences |
| `AnomalyService` | the detector and the three tasks that call it |
| `LiveFeed`, `LiveFeed_proofs` | the websocket service between Redis and its clients |
| `CrowdSensing` | reports, trust and the weighted prediction |
| `DriverAccounts` | drivers in Keycloak and in the fleet service |
| `RouteCatalog` | routes, stops and their import |
| `FleetAdmin` | buses, schedules and the trips of a day; extends `RouteCatalog` |
| `Retraining` | the weekly workflow, the artifact, the registry, the service's image |
| `Algorithms_proofs` | about `EtaPrediction`, `PositionValidator`, `RouteGeometry`, `StopDwell` and `CrowdSensing` |
| `LiveServices_proofs` | about `EtaService` and `AnomalyService` |
| `Admin_proofs` | about `DriverAccounts`, `RouteCatalog`, `FleetAdmin` and `Retraining` |
| `MC...` | instances for the TLC runs |

`MCLiveServices`, `MCAdmin` and `MCAlgorithms` put components that share no
state into one run: a behaviour picks one of them at the start and leaves the
others where they are.  Which components do interact is modelled in the modules
themselves: `Ingestion` runs on top of the cache, `FleetAdmin` on top of the
route catalog, `LiveFeed` and `AnomalyService` share the channels, `Retraining`
reaches into the anomaly service's process, and `TripLifecycle` is one of the
services that write the log the cache reads.

### TripLifecycle and TripPromise

State: the columns of `planned_trips` the handlers read or write (`status`,
`bus`, `driver`, `started`, `ended`), the committed `incidents`, and for each
HTTP request its operation (`call`), its place in the handler (`pc`) and its
locals (`seen` is the selected bus, `via` the producer it was given).

`start_trip`, `end_trip` and `report_incident` are coroutines: between two
awaits a handler has the event loop to itself, which `running` records.  A
handler is cut where something else can run or fail: the SELECT (`Read...`), the
COMMIT (`Commit...`), the second SELECT of an incident (`BuildIncident`), the
creation of the producer and its `start()`, the metadata wait inside
`send_and_wait`, the acknowledgement.  `assign_resources` is a plain `def`:
FastAPI runs it in the thread pool, so `Assign` may fall between any two of
these.  `Crash` ends every handler, keeps the rows and the topic, and loses the
producer's accumulator.

External and modelled from use: `aiokafka`'s sender and the broker.  A producer
sends its accumulator in order, may send one message up to `MaxSends` times, and
ends each `send_and_wait` with a return or an exception; an exception does not
mean the message is not on the topic.

Not in the module: 404 answers (no state), `report_delay` (one column nobody
here reads), wording of incidents, times.

`TripPromise` is the service as its clients see it: a transition is committed at
once and becomes announceable with the bus read for it; it is announced any
number of times or never; success is told of what was announced.
`TripLifecycle!Promise` is its instance under a mapping: `announceable` are the
events of the handlers that are past their commit with a bus in hand
(`MayBeAnnounced`), `topic` is the log, `acknowledged` are the events of the
handlers that answered with success.  `PromiseIsKept` is the refinement.

### ActiveTripCache

State: the topic (`log`), the map (`active`), the cache's `status`, the
consumer's position (`pos`), the place of the thread in `_run` (`thread`) and of
the main thread in `stop()` (`main`).  Each method of the cache takes its lock,
so each is one step.  `Publish` is the fleet service, of which nothing is
assumed: any event, in any order, undecodable ones included.  `Stalls` says
whether the broker may be silent for a whole rebuild timeout while the topic
holds more; if so the replay may end early, as in the code, and
`InactiveOnlyAfterReplay` promises nothing.  The run has `Stalls = FALSE`.

### Ingestion and PositionValidator

`Ingestion` is the stateful mode (`INGESTION_STATELESS_MODE=false`); the stateless
mode skips the cache and keeps no state.  `on_message` is cut at each look at the
cache: `is_ready` before the drain (`CheckReady`), `is_ready` before each drained
message (`DrainNext`, `DrainEnds`), `is_rebuilding` (`BufferUntilReady`,
`PassOn`), `get_active_trip` (`Enrich`).  The cache thread moves between any two.
What is published goes to an asynchronous producer that nobody waits for: `raw`
and `dlq` hold what was handed over to it.  Of the validator it keeps the per-bus
order of event times, because the startup buffer can break it.  `IngestionRestart`
is a new process: empty buffer, empty validator, empty cache.

`PositionValidator` has the rest of the validation.  `Shape` is a payload by the
kinds of values the two modes treat differently (a number for a bus, a heading
beyond 360, coordinates in quotes, a time without a zone...); `Bridged` and
`Stateful` are the two modes, `Classify` the stream job behind them.  The timed
part is `StatefulValidator` as an automaton: clock window, sequence, interval and
the bounded cache of payloads, one step per arrival and per tick of the clock.
What the hash of a payload covers besides bus and time (trip, latitude,
longitude) is one of `Contents`.

### DeviceConfig

`Configure` is the fleet service's publish, `Poll` and `Process` the consumer's
batches, with offsets committed by the clock inside a poll.  The deserializer runs
inside the poll as well, and one message that is not JSON makes it raise with the
position unmoved.  Whether the records of the fetch in front of it were handed out
by then depends on kafka-python, of which the service asks for 2.3 or newer:
`Poll` may hand them out, and the fairness never makes it (`AllDeserialize`,
`SureWork`).  The MQTT client publishes with QoS 0: without a connection the
message is gone.  `Killed` ends the process at any step; a shutdown stops the
subscriber, whose MQTT client the consumer publishes with, before the consumer
(`StopSubscriber`, `StopConsumer`).

### StreamEnrichment, RouteGeometry, StopDwell

State: the database as far as this bus is concerned (`trips`, `unpublished`),
the two source topics (`log`, `raw`), the operator (`phase`, `boot`, `state`,
`posL`, `posR`), the sinks (`sink` is what is sent but not flushed, `topic` what
is in Kafka, `redis` the snapshot key), and the last checkpoint.

`EnrichmentFunction` keys everything by bus, except the bootstrap map, of which
it only touches the entry of the current key; so one bus is modelled.
`FetchEnRoute`, `FetchIncidents` and `FetchFails` are the two requests of
`fetch_active_trips_sync`; the fleet service moves between them.
`ProcessPosition` has one disjunct for each way out of `process_element`:
`DivertInvalid`, `DropLate`, `RaiseOnText` (the logged exception),
`EnrichPosition`.  The Redis map function runs in the same operator chain, so it
belongs to that step.  The order of the two inputs is free, as the code unions
two topics.

External: Flink and Kafka.  `Checkpoint` waits for the sinks' flush
(`AT_LEAST_ONCE`); `Fail` takes operator state and read positions back to it and
reloads the map; `Resubmit` is the `flink run` of `docker/docker-compose.yml`,
which names no savepoint.  A route is named by its trip.  Event times are
numbers: the code compares strings, and the stateless ingestion rewrites every
time in UTC in one format, whose string order is the order in time.

`RouteGeometry` computes what the enrichment computes of a route, on a grid in
which every foot of a perpendicular is a point: projection, progress, the stops
ahead, and the anomaly service's copy of the projection.  A bus drives along its
line and its reading may lie beside it; the results are compared with definitions
over all points of the line.  The loop of `calculate_route_progress` is `Scan`,
one pass of it `Side`; `Way` is how much of the line is passed at each point.
`StopDwell` has the zones in insertion order, readings with times of their own
(`Record`), and the cleanup that falls due in it.  It models a library: the package
exports the two classes and unit tests call them, but no job does.

### EtaService and EtaPrediction

`EtaService` is the consumer thread: `Join`, `Take...` with the commits that the
clock makes between them, `SetSnapshot` and `Announce` in Redis, and the ways out
of the loop (`RedisRaises`, `TakeNoStop`, `TakeWhenStopping`), all of which close
the consumer and so commit behind what was taken.

`EtaPrediction` is `predict`, called by the consumer for each position and by the
endpoint's handlers, which run in a thread pool, for a stop of the last snapshot.
A call (`pending`) goes in stages, because the two `lru_cache`s load outside any
lock: it looks into a cache (`LooksForXgb`, `LooksForSarima`), reads the file if
it misses (`Reads...`), and enters what it has read (`Keeps...`), unless another
call has done so meanwhile; then it goes on with its own model and the cache
keeps the other's.  `Trains` writes, replaces and removes the files at any of these
steps.  An XGBoost model that was loaded is kept while the process lives, a failure to
load is not; SARIMA artifacts are cached by least recent use, missing files
included, damaged ones not.  A model
forecasts by the hour: XGBoost is asked for the position's own timestamp, SARIMA
for the moment of the call (`ts`; `predict` passes no time on).  What a call has
seen is its `View`, and `Predict` computes the outcome from that: the chain of
predictors, the clamp that compares a forecast with physics, and physics itself,
in whole seconds, rounded up, so that it is 0 where the code's is.

### AnomalyService, AlertChannels, LiveFeed

The detector changes its memory in one step and returns a list; `SendAlert` and
`SendFails` publish it one by one while the other tasks run.  Coordinates,
clustering and the forest's score are a choice of the reading.  `LiveFeed` has
the stream job's write and publish, the Redis subscription, the broadcast to the
clients one after the other, and a client between its registration and its
snapshot.

### CrowdSensing

`SubmitReport` is the endpoint, `Publishes` a report that reaches the topic
otherwise (the endpoint lets none through, see below).  The consumer stores a
report and commits it, then adjusts the trust and commits again; a statement that
fails leaves the session inactive for the rest of the batch.  `Prediction` weighs
the live reports by trust.

### DriverAccounts, RouteCatalog, FleetAdmin

Calls of the gateway are cut at their awaits; a request to the fleet service is
carried out in its own time, also after the gateway has given up on it.  Handlers
of the route service run in a pool of threads with sessions of their own under
READ COMMITTED: each of their transactions is a step.  When the stream job opens
it copies the routes: the lines with one request and the stops of each route with
one more.  `CopyLine` and `CopyStops` are these two for one route, and a handler may
commit between them.  `FleetAdmin` reads the bus, asks the catalog, and writes the id
down later; SQLAlchemy sends no UPDATE where the bus was read with that route
already (`Sets`), so of two overlapping requests for one bus either may prevail.

### Retraining

Tasks of the DAG with their retries and upstream failures, two runs at once.
The anomaly task writes the artifact in two steps (`Fits`, `Dumped`), so that
another run or an image build may meet it half written, reads it back (`Loads`)
and registers it (`Registers`).  `Builds`, `Reboots` and `AsksHealth` are the service:
it loads the file once for detection and once for its health.

## 3. Runs

| Run | Module | Properties | Shows |
|---|---|---|---|
| `trip_lifecycle_safety` | `MCTripLifecycle` | `LifecycleInv LogBackedByDatabase OneBusPerStart AcknowledgedIsLogged PromiseIsKept` | three requests of any kind on one trip, two buses, two transmissions per message, one crash; the handlers implement `TripPromise` |
| `trip_lifecycle_live` | `MCTripLifecycle` | `RequestsSettle` | two requests, one crash, under fairness |
| `trip_arrived_unstarted` | `MCTripLifecycle` | `ArrivedWasStarted` (violated) | incident, then end, of a trip that never started |
| `ingestion_safety` | `MCIngestion` | `IngestionInv OneOvertaker CacheInv CacheFollowsLog InactiveOnlyAfterReplay BufferDrains EventuallyReady` | the cache alone over two restarts with undecodable events; and three GPS messages, a buffer of two, against a cache that moves between any two looks at it |
| `stream_trips` | `MCStreamEnrichment` | `StateFollowsLifecycle CaughtUpAgrees` | two trips, an incident, events late and out of order, two failures or new submissions |
| `stream_delivery` | `MCStreamEnrichment` | `NothingLost LateNeverCleaned SnapshotIsNewest EventuallyCleaned` | three positions of any kind and order, checkpoints anywhere, two failures, fairness |
| `live_services` | `MCLiveServices` | `EtaInv SnapshotKeepsUp AnomalyInv NotedIsAnnounced FeedInv ConfigInv RetainedIsNewest` | each of the four services through errors of Redis or Kafka, lost connections, stops and crashes |
| `live_services_live` | `MCLiveServices` | `EtaKeepsUp SilenceIsAnnounced QueuedIsSent ConfigsArrive` | what each of them owes in the end, under fairness |
| `alert_unheard` | `LiveFeed` | `AlertsHeard` (violated) | alerts on channels the listener has not subscribed to |
| `admin` | `MCAdmin` | `AccountsInv CatalogInv FleetInv RetrainingInv` | calls of administrators and of the scheduler, in several steps among others' |
| `algorithms` | `MCAlgorithms` | `PredictionInv ValidatorInv GeometryInv DwellInv CrowdInv BlendWithinReports` | what the services compute, over bounded inputs and with the memories they keep |
| `crowd_report_refused` | `CrowdSensing` | `ReportsAreAccepted` (violated) | the endpoint answers every report with 500 |

An invariant named for its module is a conjunction of named parts, each with a
comment of its own.  Some parts are there because they make the rest inductive
(section 4 says which and why); the runs check those too.  They are the
module's type invariant and

| Invariant | Parts |
|---|---|
| `LifecycleInv` | `WaitersHaveProducer LoopHeld ReadIsFresh RowsConsistent HandlersRecorded OneStarter MessagesPublishable LogFromHandlers` |
| `CacheInv` | `NothingConsumed ReplayComplete CacheFollowsLog` |
| `IngestionInv` | `HandsFollowStep NewestLast BufferInOrder EveryMessageAccounted StatusSettles NoLookupWhileRebuilding DrainedOrFirst` |
| `EtaInv` | `Offsets Answered SamplesKept OneLossPerClosing AveragesFresh` |
| `AnomalyInv` | `PersistentMeansStreak DeviceActiveIsRare OneAlertPerSilence Heard StreaksKept RejectionsKept SilencesKept LossesRaised` |
| `FeedInv` | `Bookkeeping Covered PositionsOrdered OneStepBack NoGap OneStepBackPerClient` |
| `ConfigInv` | `ThreadShape HandledIsPublished CommittedIsPublished` |
| `AccountsInv` | `CallsInStages ProfileHasAccount NoStrayAccount DisabledIsInactive` |
| `CatalogInv` | `GivenInOrder KnowsItsStops SeenIsCurrent CopyFollows StopsOfItsFile CopyIsOfOneFile UploadedStays FoundWhereItRuns` |
| `FleetInv` | `AskedInOrder AskedAgainAfterError EachWasAskedFor TwiceAfterError PlannedOnce OnARouteThatWas OneTripPerDeparture` |
| `RetrainingInv` | `CheckedFirst VersionsAreChecked TriesAreCounted HeldIsWhole DetectorIsOfTheImage TrainedOnEnough VersionsAreTries RegisteredIsWhole HealthTellsTheDetector` |
| `PredictionInv` | `ArrivalsAhead NearPhysics PhysicsIsByHand AnnouncedIsAnswered CacheIsOrdered`, `SnapshotIsKept` of each snapshot, `CallFollows` of each call |
| `ValidatorInv` | `StatefulIsCleaned ModesAgree RefusalsEnd DuplicateWasAccepted AcceptedOnce AcceptedInOrder MemoryIsOfLife` |
| `GeometryInv` | `PlaceIsExact FirstOfNearest StopsAheadAreAhead CopiesAgree` |
| `DwellInv` | `StaysAreMeasured SweptIsRecent EntryBeganStay` |
| `CrowdInv` | `BatchBookkeeping CountsBehind StoredAhead TrustIsEarned CountedIsStored StoredOncePerCrash CommittedIsHandled` |

The mutant of each property in `PROJECT.json` is a plausible bug of the code
under which the run finds it violated.

Parts that hold only with an exception name it: `OneLossPerClosing`,
`OneStepBackPerClient`, `StoredOncePerCrash` and `OneOvertaker` bound what a
failure may cost, because it does cost something; `NoStrayAccount`,
`ProfileHasAccount`, `StopsOfItsFile`, `CopyIsOfOneFile`, `UploadedStays` and
`OneTripPerDeparture` except the failures and the overlaps under which the code
really leaves the two sides apart.  What each exception costs is in section 5.

### Bounds

* Trips: two requests are enough for each pairwise race of handlers; three add
  one that meets the other two in the middle (a producer made by the first, reset
  by the second, used by the third).  One trip, because handlers of different
  trips meet only in the producer, which three requests share anyhow.  Two
  buses, so that an assignment can change one.  `MaxSends = 2`: a message
  acknowledged late is on the topic twice.  The proofs remove these bounds.
* The cache alone: three events are a start, its overwriting and an end, over one
  bus; the theorems hold for every log and every number of buses.
* Ingestion: with `MaxBuffer = 2` a third message meets a full buffer, and two
  that are buffered have an order; with three messages one is left to overtake
  them; one event and one
  restart (`FewEvents`), since the cache's own behaviour is the other part of the
  run.
* The stream: two trips are the least with which an event can belong to another
  trip than the one the bus is on; three positions are one before a checkpoint,
  one after it, and one that arrives when the second is replayed; two failures
  let a replay fail again.
* ETA: three messages of two trips and two times, a window of two and a TTL of
  one, so that a deque is full and a sample stale with the third; one restart.
* Anomalies: one bus, a streak of two readings in a window of one tick, two
  rejections in a window of one and a cooldown of two: every threshold is met and
  missed within three inputs and two ticks.  One bus, as the memories are per bus
  and the tasks, which are shared, are all there.
* The feed: two clients, so that one is sent to while the other connects or
  fails; two positions; one alert; one error of Redis.
* Configuration: two messages, one drop of a connection, one end of the process.
* Accounts: three calls on two user names and two licences, one fault: the third
  call meets what the first two left.  Routes: two names, two files that share a
  stop, two routes, three uploads, one error, one copy: routes are renamed and
  imported again, replaced under a taken name, share stops and are found by the
  same search, and are replaced between the two requests of the copy.  Fleet:
  three requests, of which one may go unanswered, beside one import, or two beside
  two imports (`ImportsOnly`): three are what it takes to plan a departure that
  was asked for twice, two imports what it takes for an id not to come back.
* Retraining: two runs, one retry.  Runs are interchangeable, as user names and
  licences are above, so the run uses symmetry (it checks no liveness).  `InTurn`
  fixes the order of steps that share nothing with others: `train_eta_models` and
  what follows from failures go first, and images are built, and health is asked,
  around the first training.
* Prediction: two stops of a route, and one of no known route, with a cache of one
  artifact, so that it evicts; two models that forecast within the clamp, beyond
  it, in the past, or nothing, depending on which of two hours it is; two trainings
  (a file appears and is replaced), three calls, the consumer and one handler, one
  restart.  Two calls may be in the same load, so one handler suffices; the third
  call has the artifact evicted in between, or one more to race with.
  `FewPredictions` says which calls and when: expressways only without a known
  route, trainings before and after the first call, MLflow's model beside a joblib
  file.  Announcements that lost a race of loads occur; to ask for one afterwards
  takes a fourth call, which is left to the proof.
* Validation: two buses (interchangeable, as journeys are below), three arrivals
  within three values of the clock, two processes; every field that the modes
  treat differently takes each kind of value it distinguishes.
* Geometry: lines of up to four points on a grid of three by three, from a corner
  (`FromCorner`): they turn back, close and touch themselves.
* Dwell: two journeys, two stops whose zones overlap, three readings, a cleanup
  every second call.  Zones are added first (`StopsFirst`).
* Crowd: two passengers and anonymous ones, three reports of two scores, one
  crash or one failure.  `Reward` and `Penalty` are larger than in the code (30
  and 80 of 100 instead of 2 and 5) so that trust meets 0 and 100 within three
  reports, `Quorum` is 2 of 5 and the window 0 minutes of 20 for the same reason;
  `FewReports` has the endpoint answer once, and the second passenger report
  after the first, as neither differs from the other.
* `MaxLog`, `MaxMessages`, `MaxPositions`, `MaxIncidents`, `MaxRestarts`,
  `MaxCrashes`, `MaxFailures`, `MaxFaults`, `MaxErrors` and their like only bound
  counters.  They sit in the guards of the environment's actions.

### Fairness

* `TripLifecycle!Fairness`: the event loop runs what is ready; `start()`, the
  metadata wait and `send_and_wait` return or raise, which `aiokafka`'s request
  timeout sees to.  Nothing is assumed of a producer whose `start()` failed: the
  object stays in `_producer` and `RequestsSettle` excepts those who wait on it.
* `ActiveTripCache!FairSpec`: the thread runs, and the iterator's
  `consumer_timeout_ms` fires once the topic is silent.  `MaxLog` stands for
  that silence: with events more frequent than the timeout (60 s) the code would
  rebuild for ever.
* `Ingestion!IngestionFairSpec`: both threads run and heartbeats go on coming,
  as the devices send them periodically.  No GPS message is assumed.  `MCSpec`
  states both for the two parts of its run.
* `StreamEnrichment!FairSpec`: the operator opens (each request has a timeout),
  reads both sources and the producers send what they hold.  Nothing is assumed
  of checkpoints, failures, or of the fleet service.  It is `MaxFailures` that
  lets failures end; with a failure that recurs for ever the restart strategy
  gives up and nothing is promised.
* `EtaFairness`: the thread polls and makes its Redis calls; they return or
  raise.  Nobody restarts a process whose thread has ended, so none is assumed.
* `AnomalyFairness`: the periodic task comes round (`asyncio.sleep`), and a send
  is acknowledged or fails, within the client's timeout.
* `FeedFairness`: the listener subscribes and sends.  It sleeps for longer after
  every error and never gives up before its retries are used, which one error of
  Redis does not do.
* `ConfigFairness`: the consumer thread polls and processes.  Nothing is assumed
  of the MQTT connection.

## 4. Proofs

TLAPS checks them for every value of the constants, from the `ASSUME`s of the
modules only.  These say that the values standing for "none" are no bus, trip,
stop, forecast, name and so on, that bounds are natural numbers, that every stop
the ETA service is asked for may be asked for on every route, that
`AnomalyService`'s buses are finitely many, and that the files `RouteCatalog`
imports are sequences of two stops or more, as the parser makes them.  The bounds
themselves stay arbitrary, and with them every number of messages, requests,
crashes and faults.

Every safety property of a passing run is a theorem.  The proof of an invariant
has one lemma per action, or per kind of step, and under it one step per part the
action can disturb.

### TripLifecycle_proofs

The invariant is `LifecycleInv`:

* `LoopHeld`: a handler between two awaits holds the loop.  From it
  `ReadIsFresh`: what `start_trip` read still holds at its commit, although
  other handlers run and `Assign` interferes.  It needs `LoopHeld`, since only
  the absence of an await between SELECT and COMMIT makes it true.
* `RowsConsistent` and `OneStarter`: of all start requests of a trip one at most
  gets past its commit.  This gives `OneBusPerStart` and `NeverRestarted`.
* `HandlersRecorded`, `MessagesPublishable`, `LogFromHandlers`: a message in an
  accumulator, and an event on the topic, belong to a handler past its commit.
  This gives `LogBackedByDatabase`, `StartNamesABus`, `AcknowledgedIsLogged`.

One lemma per kind of step (a handler moves, enters, commits; the broker
appends; a crash), on the strength of one lemma that no step removes history
(`HistoryStep`).

`PromiseKept` is the refinement: the initial states map to initial states, and
under `LifecycleInv` each step of `TripLifecycle` maps to a step of `TripPromise`
or to none.  A commit is `Starts`, `Ends` or a report; the broker's append is an
announcement, allowed because `MessagesPublishable` makes the message one of
`MayBeAnnounced`; a success is told after `LogFromHandlers` has its event on the
log.  That the bus of a start is the one that was announceable first is
`OneStarter`.

### Ingestion_proofs

The cache.  `CacheFollowsLog` reads the consumed part of the log declaratively:
bus *b* is on trip *t* iff a start of *t* on *b* was not followed by an end of *t*
on *b* or another start on *b*.  `ActiveAfterNext` says what one more event does
to that reading, `ApplyFollows` that `apply_event` does the same to the map.
`NothingConsumed` is needed because `_prepare_rebuild_offsets` rewinds without
clearing the map: right only because nothing was consumed before.
`ReplayComplete` carries "the replay reached the end" from the end of the window
to `mark_ready`.

`on_message`.  `IngestionIsACache`: the service with its subscriber is a behaviour
of the cache, since `on_message` only reads it; so the cache's theorems hold
beside it.  The invariant is `CacheInv`, `IngestionInv` and `LoneOvertaker`:

* `HandsFollowStep` says what the callback holds at each of its steps.  With it
  `EveryMessageAccounted`: a message is published, refused, dropped from a full
  buffer, in the buffer or in hand, and never two of these.
* `NewestLast` and `BufferInOrder`: the buffer holds older messages before newer
  ones, all of them older than the one in hand.
* `NoLookupWhileRebuilding` and `DrainedOrFirst`: while the cache rebuilds the
  buffer is left alone and this process has looked nothing up; and when
  `on_message` turns to its own message with the cache ready, it has drained the
  buffer, or nothing has overtaken it yet.  The one message for which the cache
  turned ready in between is what `LoneOvertaker` allows, and `OneOvertaker` with
  it.
* `StatusSettles`: while the process runs its cache is rebuilding, ready or
  degraded, and one that is degraded does not recover.  So a look-up meets a
  cache that is ready, which with `ReplayComplete` gives
  `InactiveOnlyAfterReplay`, or a degraded one, which that property excepts.

### StreamEnrichment_proofs

`StateFollowsLifecycle` is inductive by itself, once it speaks of the checkpoint
as well as of the operator: `FollowsNext` says what one more event does to "the
last start or end of the log", `FollowsLonger` that a log that grows says the
same of its prefix.  That the bootstrap map does not occur in it is the result:
no bootstrap, however stale, reaches the keyed state.

For delivery the invariant is `DeliveryInv`: `LastIsNewest` (`last_timestamp` is
the newest plausible time among the positions read, in the operator and in the
checkpoint; without it a late position could not be told from a new one after a
failure) and `OnItsWay` (what was read and accepted is in the topic or in the
sink; at a checkpoint the sinks are empty, so it becomes `NothingLost`).

* `SnapshotCorrect` adds `RedisFollows`: what Redis holds was accepted, and is no
  older than any accepted position that was read.  A replay writes older positions
  again; what brings it forward again is that it reads to the end.
* `AgreementCorrect` adds, about the fleet service, `FleetPublishes` and
  `LastTurnRuns` (where trips follow one another, the one started and not ended
  is that of the last start or end on the topic), and, about the job,
  `BootWillEnd` (a trip that the bootstrap map still names has its end ahead in the
  topic, or runs).

### DeviceConfig_proofs, LiveFeed_proofs

* `ConfigCorrect`.  `ThreadShape` relates the batch in hand to the group's offset:
  the offset runs ahead of what is handled only once `stopping`.  With
  `HandledIsPublished` (all before the batch was sent or is excused) it gives
  `CommittedIsPublished`.  `RetainedCorrect` needs besides that a batch is handled
  in its order, which the types say.
* `FeedCorrect`.  `NoGap` speaks of an open client and of the last position
  broadcast.  `Covered` extends it to the handler that has read Redis and not sent
  yet, and to the message being broadcast: the position is in Redis before it is
  published, so that whoever registers too late for the broadcast reads it.
  `PositionsOrdered` and `OneStepBack` do the same for `OneStepBackPerClient`: where
  a client has been taken back, what is on its way is newer than what it has.

### Algorithms_proofs

Five components that share no state; the module first has what they share.

* `PredictionCorrect`.  `AnnouncedIsAnswered` speaks of the last answer and the
  snapshot its handler had started from; the argument is about the steps between.
  `Lasting` says of every model that a call has seen and whose load was kept that it is
  still there: XGBoost's while the process lives, SARIMA's while the cache was used
  fewer times since than it has room for; then its entry is that close to the
  end.  `UsesKept` and `LoadKept` are what one use and one load do to that,
  `MemoryKept` and `LastingKept` put them together.  `Follows` says of a call under
  way that it has found the models of its snapshot or will find them, which a
  race, an eviction or a training could only prevent where the premises exclude
  it.  `StepKept` is what all steps of a call share.  That the same models
  for the same hour give the same arrival is `SameSays`.  `NearPhysics` and
  `PhysicsIsByHand` follow from what each predictor returns (`XgbIs`,
  `PredictIs`), for negative distances and forecasts too.
* `ValidatorCorrect`.  `MemoryIsOfLife` has a witness, the acceptances whose hashes
  `recent_hashes` keeps: they are the newest of this bus in this process, in
  order, and one is missing only if the deque is full.  With `AcceptedInOrder`
  (times go up by the interval at least, and no further than the skew ahead of the
  clock) it gives `AcceptedOnce` and `DuplicateWasAccepted`; that a refusal ends
  follows from the clock.  The parts on shapes hold for each shape.
* `DwellCorrect`.  `StaysAreMeasured` reads the dwell off the readings; the state
  keeps only one time per stop.  `EntryBeganStay` says which: the one of the
  reading the stay began with.  `StayFromAppended` is what one more reading does
  to a stay.
* `CrowdCorrect`.  `BatchBookkeeping` relates batch, offset and what was dealt
  with.  `CountsBehind` is `CountedIsStored` with the report between the two
  commits; `StoredAhead` says that a report which is still ahead and stored already
  was stored before a crash.  `TrustIsEarned` is inductive by itself: clamping at 0
  and at 100 errs on the safe side of both bounds.
* `BlendCorrect`.  The prediction's sums are folds over a set of reports.  That
  such a sum exists, and loses the summand of the element that is taken out, is
  shown for sets of every size (`SumsExist`, `SumIs`); then that a weighted sum
  lies between the least and the greatest summand times the weight
  (`WeightedBetween`), that the two divisions and the labels keep this order, and
  that the quorum leaves some report to weigh.
* `GeometryCorrect`.  The steps only keep lines, places and readings well formed
  (`GeometryIsTyped`); all of `GeometryInv` holds of every line and every reading
  (`TypedIsCorrect`).  The loop's invariant (`SideIsScanned`, `ScanIs`) is that
  `best` is the least distance to the sides passed and `along` the first place
  that has it.  `FootIsNearest` says that the clamped projection is the nearest
  point of a side, `WayGrows` and `PlaceIsOne` that a place on the line is one
  point, `CopiesMeasureTheSame` that the anomaly service's loop has the same least.

The theorems of the library on induction take an operator and cannot be used.
Where a recursive function or a fold is met, the proof takes the least input for
which the claim fails instead (`LeastNat`, from the well-foundedness of `<`), and
shows that there is none: `LoopRuns` does so once for the loops over a line,
`SumsExist` and `SumIs` for sums over sets.

### LiveServices_proofs

* `EtaCorrect`.  `Offsets` and `Answered`: all between where the thread joined and
  what it has done is announced, so a commit passes one message at most
  that is not, the one in hand when the thread is closed.  `SamplesKept` has a
  witness, the messages whose samples the deque holds: the last of the trip, where
  one is missing only if it is stale or the deque is full.  `AveragesFresh` counts
  them.
* `EtaSnapshotCorrect`: `SnapshotAhead` is the same statement at every step of the
  thread.
* `AnomalyCorrect`.  `Heard` says which inputs this process has had.
  `StreaksKept` again has a witness, the readings that a streak counts: none on the
  route after any of them, none behind the last alert.  `RejectionsKept` and
  `SilencesKept` relate times kept and flags to the alerts raised already.
* `NotedCorrect` is inductive with `AnomalyInv`.  Its hypothesis
  `"COMMUNICATION_LOSS" \in Watched` says that the instance runs that task at all;
  `Watched` only lets a run leave out the tasks it does not ask about.

### Admin_proofs

* `AccountsCorrect`.  A step touches one call, and at most the account and the
  driver that this call names; what no step takes back (a name given, an answer,
  a fault) is stated once.  `CallsInStages` says what each call has left behind at
  each of its stages, and who may have touched it since.  `ProfileHasAccount` and
  `NoStrayAccount` are what it says of calls that have ended.
* `CatalogCorrect`.  `SeenIsCurrent`: the rows a handler has seen are those that
  are there, unless a replacement overlapped it (`overlapped`).  Without it a
  replacement could delete the stops of one file and leave those of another.
  `StopsOfItsFile` follows, and `FoundWhereItRuns` from it.  For the stream job's
  copy `CopyFollows` relates the line it has to the row it is from, until
  the row is replaced; so the second request, which by `StopsOfItsFile` finds the
  stops of the row's file, finds those of the line (`CopyStopsKept`).
* `FleetCorrect` holds while the catalog moves underneath: a fleet request reads the
  route before it writes, and the route may be gone by then, which is why
  `OnARouteThatWas` says no more.  `OneTripPerDeparture` follows from `PlannedOnce`
  (a schedule is planned once for a date) and `TwiceAfterError` (two schedules are
  the same departure only if it was asked for again after an error), which follows
  from `EachWasAskedFor` and `AskedAgainAfterError`.
* `RetrainingCorrect` goes run by run.  `CheckedFirst` puts the check of the data
  before everything a run leaves; `TriesAreCounted` lets each version use up a
  try; `HeldIsWhole` says that what a run read back for the registry is not a half
  written file, although another run may be writing it; `DetectorIsOfTheImage`
  relates the service's two loads.

### What is only model-checked

* All liveness properties: liveness under fairness, and ENABLED, are out of the
  prover's reach.  So are the violated statements, which are false.
* What Kafka, Redis, Flink, Keycloak and the databases do, which the proofs take
  from the models' external actions as the runs do.

## 5. What the checks say of the code

### The violated runs

They are disagreements between the code and a docstring or a README, quoted in
`PROJECT.json` under `findings`: an incident lets an unstarted trip arrive; alerts
are published on channels that the websocket service is not subscribed to; the
crowd endpoint serializes a datetime with `json.dumps` and answers every report
with 500.

### What the passing properties had to except

* Trips.  The lazily created producer is handed to other handlers before it is
  connected, so `RequestsSettle` excepts those who wait on one whose `start()`
  failed.  A start that is committed may never be announced and cannot be retried
  (`trip_service.py:62`), which is why `TripPromise` announces "or never".
* Stream.  Flink's bootstrap takes every trip with an incident for one that runs
  (`route_client.py:133`), so `CaughtUpAgrees` assumes that no incident is reported
  of another.  The Redis snapshot goes back when positions are processed again
  after a failure, so `SnapshotIsNewest` speaks of a job that has read everything.
  A position that both classifiers accept leaves no trace when its coordinates are
  strings (`RaiseOnText`).
* ETA.  A poisonous message or an error of Redis ends the consumer thread for the
  life of the process while `/health` answers, and closing commits behind it:
  `OneLossPerClosing`, and `EtaKeepsUp` speaks of a thread that lives.  After a
  replay the deque's front may be young and stale samples stand behind it, so
  `AveragesFresh` asks for times in order.
* Anomalies.  A failed send loses the rest of its list, after the flags are set;
  in the periodic task it ends the task for good, which `NotedIsAnnounced` names.
  The streak of off-route readings also persists through event times that go back,
  so `PersistentMeansStreak` asks for times in order.
* Feed.  A snapshot may follow a newer broadcast: one step back per client.
* Configuration.  What is processed without an MQTT connection is lost
  (`excused`), and older configurations are retained again after a crash until the
  newest has been read again.  A message that is not JSON stops the consumer at
  its offset for ever, and may take the good messages of the same fetch with it, those
  in front of it too: the deserializer runs over the fetch inside `poll`.  So
  `ConfigsArrive` promises nothing while there is one behind the position.
* Accounts.  A timeout after the fleet service committed makes the gateway delete
  the Keycloak user of a profile that stays (`unheard`); a compensation that fails
  leaves an account without a profile (`unsettled`).
* Routes.  Two overlapping replacements leave the stops of both (`overlapped`);
  a replacement that commits between the stream job's two requests leaves it, until
  its next start, with the line of one file and the stops of another
  (`CopyIsOfOneFile`: `replaced`), along which it measures the stops ahead;
  an import that breaks off after its first transaction leaves no route; the id
  changes with each import while buses and schedules keep the old one, so that
  `OnARouteThatWas` cannot promise more than its name says.  Schedules are not
  unique: a retry after a lost answer doubles a departure.
* Crowd.  A report may be stored once more per crash, and a failed statement makes
  the session lose the rest of its batch, offsets included; `CommittedIsHandled`
  excepts those (`why`).
* Validation.  The modes disagree where `ModesAgree` says so: a number for a bus,
  a heading beyond 360 and such pass only through the bridge, others only through
  the stateful mode; payloads that spell `bus_id` share the key "unknown".  With
  an interval of 0 a payload older than the duplicate cache passes again.
* Geometry.  On a line that meets itself a reading is put where the line passes
  first: `FirstOfNearest` says so of every line, and `PlaceIsExact` speaks of lines
  that do not touch themselves.
* Prediction.  The consumer and the endpoint may say different things of the same
  position and stop: SARIMA forecasts for the moment of each call, so a new hour
  is enough (`sameHour`); a call that came second in a race of loads uses a model
  that the cache does not keep (`held`); and an artifact evicted in between is
  read anew, after a training with another outcome.  That a SARIMA file was
  missing is remembered like a model, until it is evicted; a failing XGBoost never
  reaches SARIMA; for a slow bus the model's value is labelled `physics`.
* Dwell.  `stop_resolution.py:57` says "Resolve GPS coordinates to the nearest
  stop ID."; `resolve_stop` returns the first stop added whose zone contains the
  place, and where zones overlap that may be the farther one.  No property is
  stated of it, as nothing that runs calls this code.  Late readings may shorten a
  dwell or make it negative; with a time that carries a zone the cleanup raises
  and nothing is ever forgotten.
* Retraining.  The ETA and SARIMA scripts are looked for in a directory that does
  not exist and the spatial data nowhere, so no run ends well; the behavioural
  model is replaced and registered before that, once per try.  Whatever is
  registered, the service loads the file of its image, and a file torn when the
  image was built leaves it with its rules.

## 6. Not modelled, and the plan

* Numbers: the haversine formula, the models' weights, DBSCAN and the isolation
  forest's scores are external choices.  Floating point does not decide any
  property here, except that NaN passes comparisons in Flink.
* `report_delay`, the pool of database connections of fleet-management, single-row
  updates that nothing else reads, and all reading endpoints.
* `stream-processing/flink/job.py`: an older scaffold that nothing starts; the job
  that runs is `app/job.py`.  `eta-service/app/database/eta_db.py`: no caller.
* `train_xgb.py`, `train_sarima.py`, `train_crowd_model.py`: one process, one file
  each, no state shared with a running service beyond the file, which
  `EtaPrediction!Trains` has.
* Keycloak, Kong, Postgres, InfluxDB, MLflow, Mosquitto, Kafka and Flink: as far
  as the code's use of them shows.
* HTTP and serialisation details, metrics, dashboards, simulators, seeding.

Next, in order:

1. `TripPipeline`: `TripLifecycle` with both consumers of its topic, and the two
   hazards that need it (a trip reassigned under way; trips of one bus that
   overlap).
2. The pool of database connections of fleet-management: handlers that keep a
   session while they wait for the broker, and one event loop that waits for a
   session.
