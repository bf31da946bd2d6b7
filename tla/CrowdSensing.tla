---------------------------- MODULE CrowdSensing ----------------------------
(***************************************************************************)
(* services/crowd-sensing: reports of how full a bus is, what they do to   *)
(* the trust in the passenger who sent them, and the prediction made of    *)
(* them.  All reports are about one stop of one route.                     *)
(*                                                                         *)
(* A thread polls the topic and handles a batch of reports in one database *)
(* session: a report is stored and committed, and then the trust in its    *)
(* passenger is adjusted and committed.  Offsets are committed by later    *)
(* polls and by closing.  Trust is in hundredths, times in minutes.        *)
(***************************************************************************)
EXTENDS Integers, Sequences, FiniteSets, SequencesExt, FiniteSetsExt

CONSTANTS
    Passengers,
    Scores,        \* occupancy scores that are sent
    Base,          \* 80: trust_score of a new passenger
    Reward,        \* 2
    Penalty,       \* 5
    Spread,        \* 30: how far a report may be from the others' average
    WindowLen,     \* 20: minutes
    Quorum,        \* 5: live reports that a prediction listens to
    MaxTime, MaxReports, MaxCrashes, MaxFaults  \* bounds

ASSUME CrowdAssumption ==
    /\ Scores \subseteq 0 .. 100 /\ Base \in 0 .. 100
    /\ {Reward, Penalty, Spread, WindowLen, MaxTime, MaxReports, MaxCrashes,
        MaxFaults} \subseteq Nat
    /\ Quorum \in Nat \ {0}

Anonymous == "anonymous"
Nowhere == -1

VARIABLES
    topic,      \* the reports of the topic
    producer,   \* _producer of the endpoint: cached or not
    reply,      \* its last status
    thread,     \* the consumer thread: "up" or "down"
    offset,     \* the committed offset, or Nowhere
    taken,      \* reports up to here were returned by polls of this thread
    batch,      \* the reports in hand, as places in the topic
    stage,      \* of the first of them: "new", "stored" or "profiled"
    session,    \* "ok", or "inactive" after a statement that failed
    rows,       \* crowd_reports: [from, who, score, ts], from the place
    profiles,   \* passenger_profiles
    minute,
    why,        \* history: place -> why a report was not stored, or "none"
    crashes, faults

crowdVars == <<topic, producer, reply, thread, offset, taken, batch, stage,
               session, rows, profiles, minute, why, crashes, faults>>
workVars == <<batch, stage, session, rows, profiles, why, faults>>

-----------------------------------------------------------------------------
(* The endpoint.                                                            *)

\* report.dict(): the timestamp is a datetime by now.
Dict == [trip_id |-> "str", route_id |-> "int", direction_id |-> "int",
         stop_id |-> "int", stop_sequence |-> "int",
         occupancy_score |-> "int", passenger_id |-> "str",
         timestamp |-> "datetime"]

\* json.dumps without a default takes these only.
Serializes(d) == \A f \in DOMAIN d :
                    d[f] \in {"str", "int", "float", "bool", "none"}

\* submit_crowd_report: the header's passenger counts, not the body's.
SubmitReport(who, score, broker) ==
    LET r == [who |-> who, score |-> score, ts |-> minute] IN
    /\ producer' = ((producer \/ broker) /\ Serializes(Dict))
    /\ reply' = CASE ~producer /\ ~broker -> "503"
                  [] (producer \/ broker) /\ ~Serializes(Dict) -> "500"
                  [] OTHER -> "202"
    /\ topic' = IF reply' = "202" THEN Append(topic, r) ELSE topic
    /\ UNCHANGED <<thread, offset, taken, minute, crashes, workVars>>

\* A report on the topic, as the consumer expects them.
Publishes(who, score, ts) ==
    /\ Len(topic) < MaxReports
    /\ topic' = Append(topic, [who |-> who, score |-> score, ts |-> ts])
    /\ UNCHANGED <<producer, reply, thread, offset, taken, minute, crashes,
                   workVars>>

-----------------------------------------------------------------------------
(* The consumer thread.                                                     *)

\* start: at the committed offset, or at the end when there is none.
Start ==
    /\ thread = "down"
    /\ thread' = "up"
    /\ taken' = IF offset = Nowhere THEN Len(topic) ELSE offset
    /\ why' = [i \in DOMAIN why |->
                IF offset = Nowhere /\ i <= Len(topic) THEN "unseen"
                                                      ELSE why[i]]
    /\ UNCHANGED <<topic, producer, reply, offset, batch, stage, session,
                   rows, profiles, minute, crashes, faults>>

\* Mutant of Poll: what this poll returns may be committed too.
Poll_early(n) ==
    /\ thread = "up" /\ batch = <<>>
    /\ taken + n <= Len(topic)
    /\ offset' \in {offset, taken + n}
    /\ taken' = taken + n
    /\ batch' = [i \in 1 .. n |-> taken + i]
    /\ stage' = "new" /\ session' = "ok"
    /\ UNCHANGED <<topic, producer, reply, thread, rows, profiles, minute,
                   why, crashes, faults>>

\* poll: what earlier polls returned may be committed first.
Poll(n) ==
    /\ thread = "up" /\ batch = <<>>
    /\ taken + n <= Len(topic)
    /\ offset' \in {offset, taken}
    /\ taken' = taken + n
    /\ batch' = [i \in 1 .. n |-> taken + i]
    /\ stage' = "new" /\ session' = "ok"
    /\ UNCHANGED <<topic, producer, reply, thread, rows, profiles, minute,
                   why, crashes, faults>>

\* stop_event, seen between batches, and close().
Close ==
    /\ thread = "up" /\ batch = <<>>
    /\ thread' = "down" /\ offset' = taken
    /\ UNCHANGED <<topic, producer, reply, taken, minute, crashes, workVars>>

\* The process dies, or does not wait for its daemon thread any longer.
Crash ==
    /\ thread = "up" /\ crashes < MaxCrashes
    /\ thread' = "down" /\ batch' = <<>> /\ stage' = "new"
    /\ crashes' = crashes + 1
    /\ UNCHANGED <<topic, producer, reply, offset, taken, session, rows,
                   profiles, minute, why, faults>>

Report == topic[Head(batch)]
NextReport == batch' = Tail(batch) /\ stage' = "new"
GivesUp(reason) ==
    why' = [why EXCEPT ![Head(batch)] = reason]

-----------------------------------------------------------------------------
(* One report.                                                              *)

\* validate_route_stop: not a stop of the route, or no route service.
Skip ==
    /\ stage = "new" /\ batch # <<>>
    /\ GivesUp("skipped") /\ NextReport
    /\ UNCHANGED <<topic, producer, reply, thread, offset, taken, session,
                   rows, profiles, minute, crashes, faults>>

\* db.add(db_report); db.commit()
Store ==
    /\ stage = "new" /\ batch # <<>> /\ session = "ok"
    /\ rows' = Append(rows, [from |-> Head(batch), who |-> Report.who,
                             score |-> Report.score, ts |-> Report.ts])
    /\ IF Report.who = Anonymous THEN NextReport
       ELSE stage' = "stored" /\ UNCHANGED batch
    /\ UNCHANGED <<topic, producer, reply, thread, offset, taken, session,
                   profiles, minute, why, crashes, faults>>

\* A statement fails: the error is logged, the session is not rolled back.
Fail ==
    /\ batch # <<>> /\ session = "ok" /\ faults < MaxFaults
    /\ session' = "inactive" /\ faults' = faults + 1
    /\ IF stage = "new" THEN GivesUp("failed") ELSE UNCHANGED why
    /\ NextReport
    /\ UNCHANGED <<topic, producer, reply, thread, offset, taken, rows,
                   profiles, minute, crashes>>

\* PendingRollbackError: the session takes no statement any more.
Behind ==
    /\ stage = "new" /\ batch # <<>> /\ session = "inactive"
    /\ GivesUp("behind") /\ NextReport
    /\ UNCHANGED <<topic, producer, reply, thread, offset, taken, session,
                   rows, profiles, minute, crashes, faults>>

NewProfile == [trust |-> Base, total |-> 0, verified |-> 0]
Known(w) == IF w \in DOMAIN profiles THEN profiles[w] ELSE NewProfile
With(w, p) == [v \in DOMAIN profiles \union {w} |->
                 IF v = w THEN p ELSE profiles[v]]

\* get_or_create_profile: a new profile is committed on its own.
CreateProfile ==
    /\ stage = "stored" /\ session = "ok"
    /\ stage' = "profiled"
    /\ profiles' = With(Report.who, Known(Report.who))
    /\ UNCHANGED <<topic, producer, reply, thread, offset, taken, batch,
                   session, rows, minute, why, crashes, faults>>

\* Other passengers' reports of the last minutes.  One that is dated ahead
\* counts; SQL's # leaves the anonymous ones out.
Others(w) == {i \in DOMAIN rows : /\ rows[i].who \notin {w, Anonymous}
                                  /\ rows[i].ts >= minute - WindowLen}

\* The scores of the reports, by their place.
Score == [i \in DOMAIN rows |-> rows[i].score]
Magnitude(n) == IF n < 0 THEN -n ELSE n

\* abs(new_report_score - consensus_avg) <= 30.0
Agrees(score, is) ==
    Magnitude(score * Cardinality(is) - SumFunctionOnSet(Score, is))
        <= Spread * Cardinality(is)

\* adjust_trust_scores, of a profile.
Judged(p, score, is) ==
    IF Cardinality(is) < 2 \/ Agrees(score, is)
    THEN [trust |-> IF Cardinality(is) < 2 THEN p.trust
                    ELSE Min({100, p.trust + Reward}),
          total |-> p.total + 1, verified |-> p.verified + 1]
    ELSE [trust |-> Max({0, p.trust - Penalty}),
          total |-> p.total + 1, verified |-> p.verified]

AdjustTrust ==
    /\ stage = "profiled" /\ session = "ok"
    /\ profiles' = With(Report.who, Judged(profiles[Report.who],
                                           Report.score, Others(Report.who)))
    /\ NextReport
    /\ UNCHANGED <<topic, producer, reply, thread, offset, taken, session,
                   rows, minute, why, crashes, faults>>

-----------------------------------------------------------------------------
(* The prediction, at a time and with a historical score.                   *)

Label(n, d) == IF n < 40 * d THEN 1 ELSE IF n < 75 * d THEN 2 ELSE 3
Historical == {20, 55, 90}

\* _get_live_reports: reports dated ahead of the time asked for are not live.
Live(at) == {i \in DOMAIN rows : rows[i].ts \in at - WindowLen .. at}

\* The trust in their passengers now, and the scores weighted with it.
Trust == [i \in DOMAIN rows |-> IF rows[i].who = Anonymous THEN Base
                                ELSE Known(rows[i].who).trust]
Weighted == [i \in DOMAIN rows |-> rows[i].score * Trust[i]]

\* Mutant of Average: the weighted scores over their number.
Average_count(is) ==
    IF SumFunctionOnSet(Trust, is) > 0
    THEN <<SumFunctionOnSet(Weighted, is), Base * Cardinality(is)>>
    ELSE <<SumFunctionOnSet(Score, is), Cardinality(is)>>

\* avg_live_score, as a fraction.
Average(is) ==
    IF SumFunctionOnSet(Trust, is) > 0
    THEN <<SumFunctionOnSet(Weighted, is), SumFunctionOnSet(Trust, is)>>
    ELSE <<SumFunctionOnSet(Score, is), Cardinality(is)>>

\* predict, with 0.7 of the live average when there are enough reports.
Prediction(at, hist) ==
    IF Cardinality(Live(at)) < Quorum THEN Label(hist, 1)
    ELSE LET a == Average(Live(at)) IN
         Label(7 * a[1] + 3 * hist * a[2], 10 * a[2])

-----------------------------------------------------------------------------
Tick == /\ minute < MaxTime
        /\ minute' = minute + 1
        /\ UNCHANGED <<topic, producer, reply, thread, offset, taken, crashes,
                       workVars>>

CrowdInit ==
    /\ topic = <<>> /\ producer = FALSE /\ reply = "none"
    /\ thread = "down" /\ offset = Nowhere /\ taken = 0
    /\ batch = <<>> /\ stage = "new" /\ session = "ok"
    /\ rows = <<>> /\ profiles = <<>>
    /\ minute = 0 /\ why = [i \in 1 .. MaxReports |-> "none"]
    /\ crashes = 0 /\ faults = 0

CrowdNext ==
    \/ \E who \in Passengers \union {Anonymous}, score \in Scores :
          \/ \E ts \in 0 .. MaxTime : Publishes(who, score, ts)
          \/ \E broker \in BOOLEAN : SubmitReport(who, score, broker)
    \/ Start \/ \E n \in 0 .. MaxReports : Poll(n)
    \/ Close \/ Crash \/ Skip \/ Store \/ Fail \/ Behind
    \/ CreateProfile \/ AdjustTrust \/ Tick

CrowdSpec == CrowdInit /\ [][CrowdNext]_crowdVars

-----------------------------------------------------------------------------
(* Type invariant and properties.                                           *)

\* Every variable keeps to its type; a session that took a failed statement
\* stores nothing, and there is always a profile to adjust.
Reports == [who : Passengers \union {Anonymous}, score : Scores,
            ts : 0 .. MaxTime]
Row == [from : 1 .. MaxReports, who : Passengers \union {Anonymous},
        score : Scores, ts : 0 .. MaxTime]
Profile == [trust : 0 .. 100, total : Nat, verified : Nat]
CrowdTypeOK ==
    /\ topic \in Seq(Reports) /\ Len(topic) <= MaxReports
    /\ producer \in BOOLEAN /\ reply \in {"none", "202", "500", "503"}
    /\ thread \in {"up", "down"} /\ session \in {"ok", "inactive"}
    /\ taken \in 0 .. Len(topic) /\ offset \in Nowhere .. taken
    /\ batch \in Seq(1 .. taken) /\ stage \in {"new", "stored", "profiled"}
    /\ rows \in Seq(Row)
    /\ \A n \in DOMAIN rows : rows[n].from <= Len(topic)
    /\ stage # "new" => batch # <<>> /\ session = "ok" /\ thread = "up"
    /\ stage = "profiled" => Report.who \in DOMAIN profiles
    /\ DOMAIN profiles \subseteq Passengers
    /\ \A w \in DOMAIN profiles : profiles[w] \in Profile
    /\ why \in [1 .. MaxReports ->
                   {"none", "unseen", "skipped", "failed", "behind"}]
    /\ minute \in 0 .. MaxTime
    /\ crashes \in 0 .. MaxCrashes /\ faults \in 0 .. MaxFaults

\* The trust in a passenger is no more than the reports found right have
\* earned and no less than the others have cost, whatever was replayed,
\* failed or stopped between the two commits (adjust_trust_scores).
TrustIsEarned ==
    \A w \in DOMAIN profiles :
        LET p == profiles[w] IN
        /\ p.verified <= p.total
        /\ p.trust <= Base + Reward * p.verified
        /\ p.trust >= Base - Penalty * (p.total - p.verified)

\* A report is counted for its passenger once for every time it was stored,
\* at most: the report is committed before its count (_process_message).
RowsOf(w) == {n \in DOMAIN rows : rows[n].who = w}
CountedIsStored ==
    \A w \in DOMAIN profiles : profiles[w].total <= Cardinality(RowsOf(w))

\* Only a crash stores a report again (close() commits, and a poll commits
\* what the polls before it returned).
Copies(i) == {n \in DOMAIN rows : rows[n].from = i}
StoredOncePerCrash ==
    \A i \in DOMAIN topic : Cardinality(Copies(i)) <= 1 + crashes

\* The offset never passes a report that the thread has not dealt with: it
\* is stored, or was seen by no consumer, refused by the route service, or
\* lost with its batch (consume_forever).
Dealt(i) == why[i] # "none" \/ Copies(i) # {}
CommittedIsHandled == \A i \in 1 .. offset : Dealt(i)

\* How far the thread has come, or where the next one resumes.
Passed == IF thread = "up" THEN taken - Len(batch) ELSE offset

\* The batch is the end of what was polled, ahead of the offset; what comes
\* before it has been dealt with, and so has its first report once stored.
BatchBookkeeping ==
    /\ thread = "down" => batch = <<>>
    /\ \A i \in DOMAIN batch : batch[i] = taken - Len(batch) + i
    /\ offset <= taken - Len(batch)
    /\ \A i \in 1 .. Passed : Dealt(i)
    /\ stage # "new" => Report.who # Anonymous /\ Copies(Head(batch)) # {}

\* CountedIsStored, with the report whose count is still to come.
CountsBehind ==
    \A w \in Passengers :
        Known(w).total + (IF stage # "new" /\ Report.who = w THEN 1 ELSE 0)
            <= Cardinality(RowsOf(w))

\* StoredOncePerCrash: a report that is still ahead was stored before a crash.
StoredAhead ==
    \A i \in DOMAIN topic :
        Cardinality(Copies(i)) <=
            crashes + (IF i <= Passed \/ (stage # "new" /\ i = Head(batch))
                       THEN 1 ELSE 0)

\* The level predicted lies between the lowest and the highest of the
\* reports it listens to and the historical one, whatever the trust in
\* them (predict).
BlendWithinReports ==
    \A at \in 0 .. MaxTime, hist \in Historical :
        LET heard == IF Cardinality(Live(at)) < Quorum THEN {}
                     ELSE {rows[i].score : i \in Live(at)}
            all == heard \union {hist}
        IN  Prediction(at, hist) \in Label(Min(all), 1) .. Label(Max(all), 1)

\* A well formed report is accepted when there is a broker: "Accept passenger
\* crowd reports and push to Kafka" (app/api/endpoints.py:39).
ReportsAreAccepted == reply # "500"

\* Reports are stored once per crash, counted for their passenger only when
\* they are stored, and not passed over by the offset, and the trust in the
\* passenger is earned by them; the parts in the middle make it inductive
\* (_process_message, consume_forever, adjust_trust_scores).
CrowdInv ==
    /\ CrowdTypeOK
    /\ BatchBookkeeping /\ CountsBehind /\ StoredAhead
    /\ TrustIsEarned
    /\ CountedIsStored /\ StoredOncePerCrash /\ CommittedIsHandled
=============================================================================
