------------------------------ MODULE Retraining ------------------------------
(***************************************************************************)
(* The weekly retraining (airflow/dags/ontime_intelligence_retrain.py):    *)
(* the check of the history (ml/pipelines/sufficient_data.py), the exports *)
(* and the trainings, of which the anomaly service's writes an artifact,   *)
(* and registers what it reads back from it                                *)
(* (services/anomaly-service/app/models/training).  The service has the    *)
(* artifact in its image, and loads it once for what it detects and once   *)
(* for what its health says.                                               *)
(*                                                                         *)
(* A run may be triggered by hand while the weekly one is at work: they    *)
(* share the artifact.  The script of train_eta_models is not where the    *)
(* task looks for it, nor is the spatial mode's CSV anywhere, so that both *)
(* tasks fail whenever they get that far.                                  *)
(***************************************************************************)
EXTENDS Integers, Sequences, FiniteSets, SequencesExt

CONSTANTS
    Runs,      \* runs of the DAG
    MinDays,   \* RETRAIN_MIN_INFLUX_DAYS
    MinRows,   \* RETRAIN_MIN_ETA_RECORDS
    Retries,   \* default_args["retries"]
    MaxHistory, \* bound: days and rows of history
    MaxBuilds  \* bound: images built

ASSUME RetrainingAssumption ==
    {MinDays, MinRows, Retries, MaxHistory, MaxBuilds} \subseteq Nat

VARIABLES
    days, rows, \* the history there is: of telemetry, and of eta_records
    task,       \* run -> task -> its state
    tries,      \* run -> task -> how often it was started
    step,       \* run -> where its train_anomaly_models is
    held,       \* run -> the model its process has in memory
    disk,       \* isolation_forest.joblib
    versions,   \* of ontime-anomaly-if-behavioral: [model, run]
    fits,       \* history: models fitted so far
    saw,        \* history: run -> the history there was when it was checked
    crowded,    \* history: did two runs train at once?
    image,      \* the artifact in the service's image
    builds,     \* images built so far
    detector,   \* the model of the service's detector: isolation_model
    probe       \* _model_probe of its health, or Unasked

retrainVars == <<days, rows, task, tries, step, held, disk, versions, fits,
                 saw, crowded, image, builds, detector, probe>>

-----------------------------------------------------------------------------
Torn == -1   \* an artifact that is not written to its end
Shipped == 0 \* the artifact of the repository
Rules == -2  \* no model: the rules alone
Unasked == -3

Tasks == {"check", "export", "eta", "anomaly", "sarima", "promote"}
Upstream == [check |-> {}, export |-> {"check"}, eta |-> {"export"},
             anomaly |-> {"export"}, sarima |-> {"eta", "anomaly"},
             promote |-> {"sarima"}]

RetrainingInit ==
    /\ days = 0 /\ rows = 0 /\ fits = 0
    /\ task = [r \in Runs |-> [t \in Tasks |-> "none"]]
    /\ tries = [r \in Runs |-> [t \in Tasks |-> 0]]
    /\ step = [r \in Runs |-> "idle"]
    /\ held = [r \in Runs |-> Torn]
    /\ disk = Shipped
    /\ versions = <<>>
    /\ saw = [r \in Runs |-> [days |-> 0, rows |-> 0]]
    /\ crowded = FALSE
    /\ image = Shipped /\ builds = 0
    /\ detector = Shipped /\ probe = Unasked

models == <<held, disk, versions, fits, crowded>>
service == <<image, builds, detector, probe>>
history == <<days, rows>>

\* The services write on.
Grows ==
    /\ \/ days < MaxHistory /\ days' = days + 1 /\ UNCHANGED rows
       \/ rows < MaxHistory /\ rows' = rows + 1 /\ UNCHANGED days
    /\ UNCHANGED <<task, tries, step, models, saw, service>>

\* A task starts, or starts again, when all it waits for has succeeded.
Starts(r, t) ==
    /\ task[r][t] \in {"none", "retry"}
    /\ \A u \in Upstream[t] : task[r][u] = "success"
    /\ task' = [task EXCEPT ![r][t] = "running"]
    /\ tries' = [tries EXCEPT ![r][t] = @ + 1]
    /\ step' = IF t = "anomaly" THEN [step EXCEPT ![r] = "fit"] ELSE step
    /\ crowded' = (crowded \/ (t = "anomaly"
                       /\ \E q \in Runs \ {r} : step[q] # "idle"))
    /\ UNCHANGED <<history, held, disk, versions, fits, saw, service>>

\* A task whose upstream has failed never starts.
Follows(r, t) ==
    /\ task[r][t] = "none"
    /\ \E u \in Upstream[t] : task[r][u] \in {"failed", "upstream_failed"}
    /\ task' = [task EXCEPT ![r][t] = "upstream_failed"]
    /\ UNCHANGED <<history, tries, step, models, saw, service>>

\* default_args: the state of a task that failed at its n-th try.
AfterFailure(n) == IF n > Retries THEN "failed" ELSE "retry"

Fails(r, t) == task' = [task EXCEPT ![r][t] = AfterFailure(tries[r][t])]
Succeeds(r, t) == task' = [task EXCEPT ![r][t] = "success"]

\* _estimate_influx_days, _count_eta_records: an error counts as nothing.
Counted(n, min) == {n, 0}

\* _check_sufficient_data of a ShortCircuitOperator: with too little history
\* whatever comes after it is skipped.
Checks(r) ==
    /\ task[r]["check"] = "running"
    /\ saw' = [saw EXCEPT ![r] = [days |-> days, rows |-> rows]]
    /\ \E d \in Counted(days, MinDays), n \in Counted(rows, MinRows) :
          task' = [task EXCEPT ![r] =
                      [t \in Tasks |->
                          IF t = "check" THEN "success"
                          ELSE IF d < MinDays \/ n < MinRows THEN "skipped"
                          ELSE @[t]]]
    /\ UNCHANGED <<history, tries, step, models, service>>

\* _export_datasets: either export may fail.
Exports(r) ==
    /\ task[r]["export"] = "running"
    /\ Succeeds(r, "export") \/ Fails(r, "export")
    /\ UNCHANGED <<history, tries, step, models, saw, service>>

\* _train_eta: there is no such script.
TrainsEta(r) ==
    /\ task[r]["eta"] = "running"
    /\ Fails(r, "eta")
    /\ UNCHANGED <<history, tries, step, models, saw, service>>

\* While another run writes the CSV the training may find half of it.
FindsNoRows(r) ==
    /\ step[r] = "fit" /\ crowded
    /\ step' = [step EXCEPT ![r] = "idle"]
    /\ Fails(r, "anomaly")
    /\ UNCHANGED <<history, tries, models, saw, service>>

\* train_model in mode behavioral, up to joblib.dump opening the file.  What
\* it does with MLflow itself, after the dump, fails on a name it never
\* defined, and that is passed over.
Fits(r) ==
    /\ step[r] = "fit"
    /\ fits' = fits + 1
    /\ held' = [held EXCEPT ![r] = fits + 1]
    /\ disk' = Torn
    /\ step' = [step EXCEPT ![r] = "dump"]
    /\ UNCHANGED <<history, task, tries, versions, saw, crowded, service>>

\* The file is there.  What two processes write at once may be neither's.
Dumped(r) ==
    /\ step[r] = "dump"
    /\ disk' \in {held[r]} \union (IF crowded THEN {Torn} ELSE {})
    /\ step' = [step EXCEPT ![r] = "load"]
    /\ UNCHANGED <<history, task, tries, held, versions, fits, saw, crowded,
                   service>>

\* Mutant of Loads: whatever is on disk is registered, unread.
Loads_unread(r) ==
    /\ step[r] = "load"
    /\ held' = [held EXCEPT ![r] = disk]
    /\ step' = [step EXCEPT ![r] = "register"]
    /\ UNCHANGED <<history, task, tries, disk, versions, fits, saw, crowded,
                   service>>

\* main: the artifact is read back; one that does not load is not registered.
Loads(r) ==
    /\ step[r] = "load"
    /\ held' = [held EXCEPT ![r] = disk]
    /\ step' = [step EXCEPT ![r] = IF disk = Torn THEN "spatial"
                                   ELSE "register"]
    /\ UNCHANGED <<history, task, tries, disk, versions, fits, saw, crowded,
                   service>>

\* register_sklearn_model; whatever MLflow raises, the script returns 0.
Registers(r) ==
    /\ step[r] = "register"
    /\ step' = [step EXCEPT ![r] = "spatial"]
    /\ \/ versions' = Append(versions, [model |-> held[r], run |-> r])
       \/ UNCHANGED versions
    /\ UNCHANGED <<history, task, tries, held, disk, fits, saw, crowded,
                   service>>

\* train_model in mode spatial: read_csv finds no file, and the task fails.
Spatial(r) ==
    /\ step[r] = "spatial"
    /\ step' = [step EXCEPT ![r] = "idle"]
    /\ Fails(r, "anomaly")
    /\ UNCHANGED <<history, tries, models, saw, service>>

-----------------------------------------------------------------------------
\* load_isolation_model: the file, never the registry while there is one.
LoadIsolationModel(file) == file

\* _load_isolation_forest: an error leaves the detector with its rules.
LoadForest(file) == IF LoadIsolationModel(file) = Torn THEN Rules ELSE file

\* A new image gets the artifact as it is in the repository, and the service
\* starts from it.
Builds ==
    /\ builds < MaxBuilds /\ builds' = builds + 1
    /\ image' = disk
    /\ detector' = LoadForest(disk) /\ probe' = Unasked
    /\ UNCHANGED <<history, task, tries, step, models, saw>>

\* The service restarts.
Reboots ==
    /\ detector' = LoadForest(image) /\ probe' = Unasked
    /\ UNCHANGED <<history, task, tries, step, models, saw, image, builds>>

\* GET /health: the first one loads the model once more.
AsksHealth ==
    /\ probe' = IF probe = Unasked THEN LoadForest(image) ELSE probe
    /\ UNCHANGED <<history, task, tries, step, models, saw, image, builds,
                   detector>>

RetrainingNext ==
    \/ Grows \/ Builds \/ Reboots \/ AsksHealth
    \/ \E r \in Runs :
          \/ \E t \in Tasks : Starts(r, t) \/ Follows(r, t)
          \/ Checks(r) \/ Exports(r) \/ TrainsEta(r) \/ FindsNoRows(r)
          \/ Fits(r) \/ Dumped(r) \/ Loads(r) \/ Registers(r) \/ Spatial(r)

RetrainingSpec == RetrainingInit /\ [][RetrainingNext]_retrainVars

-----------------------------------------------------------------------------
RetrainingTypeOK ==
    /\ {days, rows} \subseteq 0 .. MaxHistory
    /\ task \in [Runs -> [Tasks -> {"none", "running", "retry", "success",
                         "failed", "skipped", "upstream_failed"}]]
    /\ tries \in [Runs -> [Tasks -> 0 .. Retries + 1]]
    /\ step \in [Runs -> {"idle", "fit", "dump", "load", "register",
                         "spatial"}]
    /\ \A r \in Runs : task[r]["anomaly"] = "running" <=> step[r] # "idle"
    /\ fits \in Nat /\ {disk, image} \subseteq Torn .. fits
    /\ held \in [Runs -> Torn .. fits]
    /\ versions \in Seq([model : Torn .. fits, run : Runs])
    /\ saw \in [Runs -> [days : 0 .. MaxHistory, rows : 0 .. MaxHistory]]
    /\ crowded \in BOOLEAN /\ builds \in 0 .. MaxBuilds
    /\ detector \in Shipped .. fits \union {Rules}

\* The gate fails closed: whatever a run has registered, the history was long
\* enough when that run was checked, though neither source need have
\* answered, other runs were checked at other times, and tasks are retried.
TrainedOnEnough ==
    \A v \in ToSet(versions) :
        saw[v.run].days >= MinDays /\ saw[v.run].rows >= MinRows

VersionsOf(r) == Cardinality({i \in DOMAIN versions : versions[i].run = r})

\* Every run of the DAG fails in the end, and each try registers what it has
\* trained before it does: a run leaves no more versions than it has tries.
VersionsAreTries ==
    \A r \in Runs :
        VersionsOf(r) <= tries[r]["anomaly"] /\ VersionsOf(r) <= Retries + 1

\* What is registered can be loaded: never a file that another run is about
\* to write, or that two have written at once.
RegisteredIsWhole == \A v \in ToSet(versions) : v.model # Torn

\* The health of the service tells how it detects: that the first question
\* loads the model anew does no harm, even during a training, since both read
\* the image.
HealthTellsTheDetector == probe # Unasked => probe = detector

\* Why: nothing of a run starts before its check, which is not repeated, and
\* after one that found too little nothing does; a try that has yet to register
\* is one more than there are versions; and the detector runs what the image
\* gave it.
Enough(r) == saw[r].days >= MinDays /\ saw[r].rows >= MinRows

CheckedFirst ==
    \A r \in Runs :
        /\ task[r]["check"] \in {"none", "running", "success"}
        /\ IF task[r]["check"] # "success"
           THEN \A t \in Tasks \ {"check"} : task[r][t] = "none"
           ELSE Enough(r) \/ \A t \in Tasks \ {"check"} :
                                task[r][t] = "skipped"

VersionsAreChecked ==
    \A v \in ToSet(versions) : task[v.run]["check"] = "success"
                               /\ Enough(v.run)

TriesAreCounted ==
    \A r \in Runs :
        /\ \A t \in Tasks : /\ task[r][t] = "none" => tries[r][t] = 0
                            /\ task[r][t] = "retry" => tries[r][t] <= Retries
        /\ step[r] \in {"fit", "dump", "load", "register"} =>
              VersionsOf(r) < tries[r]["anomaly"]

HeldIsWhole == \A r \in Runs : step[r] = "register" => held[r] # Torn

DetectorIsOfTheImage == detector = LoadForest(image)

\* What the registry holds was trained after a check of the history, is whole,
\* and comes from one try each, while two runs share the artifact; the health
\* of the service tells how it detects.
RetrainingInv ==
    /\ RetrainingTypeOK
    /\ CheckedFirst
    /\ VersionsAreChecked
    /\ TriesAreCounted
    /\ HeldIsWhole
    /\ DetectorIsOfTheImage
    /\ TrainedOnEnough
    /\ VersionsAreTries
    /\ RegisteredIsWhole
    /\ HealthTellsTheDetector
=============================================================================
