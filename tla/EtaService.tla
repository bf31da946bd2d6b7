----------------------------- MODULE EtaService -----------------------------
(***************************************************************************)
(* The consumer thread of services/eta-service                             *)
(* (app/consumers/eta_consumer.py) between transport-eta-features and      *)
(* Redis.                                                                  *)
(*                                                                         *)
(* The thread is started once per process.  An exception while a message   *)
(* is handled leaves consume_forever, whose `finally' closes the Kafka     *)
(* consumer, and closing commits the position behind that message: nobody  *)
(* reads it again, and nobody reads at all before the process is restarted *)
(* (/health keeps answering).  A crash commits nothing; the next process   *)
(* resumes from the last offset committed while polling, or from the end   *)
(* of the topic if there is none.                                          *)
(*                                                                         *)
(* A message is an "ok" one with its trip and event time, an "offRoute"    *)
(* one, or a "noStop" one: a bus past its last stop, or without a speed.   *)
(* Speeds, the predicted value (EtaPrediction) and the table of ETA        *)
(* records, which the service writes and never reads, are left out.        *)
(***************************************************************************)
EXTENDS Integers, Sequences, FiniteSets

CONSTANTS
    EtaTrips, EtaTimes,
    Window,      \* eta_smoothing_window_size
    Ttl,         \* eta_smoothing_ttl_seconds
    MaxFeatures, \* bound: messages on transport-eta-features
    MaxRestarts  \* bound: restarts of the process

ASSUME EtaAssumption ==
    /\ EtaTimes \subseteq Nat \ {0}
    /\ Window \in Nat \ {0}
    /\ {Ttl, MaxFeatures, MaxRestarts} \subseteq Nat

VARIABLES
    feats,      \* transport-eta-features
    etaThread,  \* what the thread does next
    stopEvent,  \* has the process been asked to stop?
    read,       \* the consumer's position: messages read
    committed,  \* the offset of its group, or Nobody
    speeds,     \* trip_speed_history: trip -> times of the samples kept
    snapshot,   \* eta:trip:{tripId}:snapshot: trip -> message, 0: none
    live,       \* messages announced on eta:live, in order
    joined,     \* history: position this process started from
    from,       \* history: position the group started from
    closings,   \* history: consumers closed
    restarts

etaVars == <<feats, etaThread, stopEvent, read, committed, speeds, snapshot,
             live, joined, from, closings, restarts>>

-----------------------------------------------------------------------------
Nobody == -1
Feature == [kind : {"ok"}, trip : EtaTrips, ts : EtaTimes]
              \union [kind : {"offRoute", "noStop"}]
Steps == {"joining", "idle", "setex", "publish", "closed"}
NoSpeeds == [t \in EtaTrips |-> <<>>]

EtaInit ==
    /\ feats = <<>>
    /\ etaThread = "joining"
    /\ stopEvent = FALSE
    /\ read = 0 /\ joined = 0 /\ from = 0
    /\ committed = Nobody
    /\ speeds = NoSpeeds
    /\ snapshot = [t \in EtaTrips |-> 0]
    /\ live = <<>>
    /\ closings = 0 /\ restarts = 0

\* The stream job writes a message.
Feed(m) ==
    /\ Len(feats) < MaxFeatures
    /\ feats' = Append(feats, m)
    /\ UNCHANGED <<etaThread, stopEvent, read, committed, speeds, snapshot,
                   live, joined, from, closings, restarts>>

\* Mutant of Join: a consumer group of its own for every process.
Join_latest ==
    /\ etaThread = "joining"
    /\ etaThread' = "idle"
    /\ read' = Len(feats)
    /\ joined' = read'
    /\ from' = IF committed = Nobody THEN read' ELSE from
    /\ UNCHANGED <<feats, stopEvent, committed, speeds, snapshot, live,
                   closings, restarts>>

\* auto_offset_reset is "latest".
Join ==
    /\ etaThread = "joining"
    /\ etaThread' = "idle"
    /\ read' = IF committed = Nobody THEN Len(feats) ELSE committed
    /\ joined' = read'
    /\ from' = IF committed = Nobody THEN read' ELSE from
    /\ UNCHANGED <<feats, stopEvent, committed, speeds, snapshot, live,
                   closings, restarts>>

\* Mutant of AutoCommit: a timer of its own commits the position.
AutoCommit_anytime ==
    /\ etaThread \in {"idle", "setex", "publish"}
    /\ committed' = read
    /\ UNCHANGED <<feats, etaThread, stopEvent, read, speeds, snapshot, live,
                   joined, from, closings, restarts>>

\* Positions are committed from poll(), between two messages.
AutoCommit ==
    /\ etaThread = "idle"
    /\ committed' = read
    /\ UNCHANGED <<feats, etaThread, stopEvent, read, speeds, snapshot, live,
                   joined, from, closings, restarts>>

\* The loop is left behind message p: close() commits, if the broker answers.
CloseBehind(p) ==
    /\ etaThread' = "closed"
    /\ committed' \in {p, committed}
    /\ closings' = closings + 1

-----------------------------------------------------------------------------
(* process_payload.                                                         *)

NextIs(kinds) ==
    /\ etaThread = "idle" /\ read < Len(feats)
    /\ feats[read + 1].kind \in kinds
    /\ read' = read + 1

\* stop_event is looked at after a message has been taken.
TakeWhenStopping ==
    /\ stopEvent /\ NextIs({"ok", "offRoute", "noStop"})
    /\ CloseBehind(read + 1)
    /\ UNCHANGED <<feats, stopEvent, speeds, snapshot, live, joined, from,
                   restarts>>

TakeOffRoute ==
    /\ ~stopEvent /\ NextIs({"offRoute"})
    /\ UNCHANGED <<feats, etaThread, stopEvent, committed, speeds, snapshot,
                   live, joined, from, closings, restarts>>

\* from_payload: int(None) raises.
TakeNoStop ==
    /\ ~stopEvent /\ NextIs({"noStop"})
    /\ CloseBehind(read + 1)
    /\ UNCHANGED <<feats, stopEvent, speeds, snapshot, live, joined, from,
                   restarts>>

\* A deque keeps its last Window members.
Kept(s) == SubSeq(s, IF Len(s) > Window THEN Len(s) - Window + 1 ELSE 1,
                  Len(s))

\* The history after a sample of time now: while the front is stale, popleft.
Smoothed(h, now) ==
    LET s == Kept(Append(h, now))
        k == CHOOSE i \in DOMAIN s :
                /\ s[i] >= now - Ttl
                /\ \A j \in 1 .. (i - 1) : s[j] < now - Ttl
    IN  SubSeq(s, k, Len(s))

TakeOk ==
    /\ ~stopEvent /\ NextIs({"ok"})
    /\ LET m == feats[read + 1]
       IN  speeds' = [speeds EXCEPT ![m.trip] = Smoothed(@, m.ts)]
    /\ etaThread' = "setex"
    /\ UNCHANGED <<feats, stopEvent, committed, snapshot, live, joined, from,
                   closings, restarts>>

SetSnapshot ==
    /\ etaThread = "setex"
    /\ snapshot' = [snapshot EXCEPT ![feats[read].trip] = read]
    /\ etaThread' = "publish"
    /\ UNCHANGED <<feats, stopEvent, read, committed, speeds, live, joined,
                   from, closings, restarts>>

Announce ==
    /\ etaThread = "publish"
    /\ live' = Append(live, read)
    /\ etaThread' = "idle"
    /\ UNCHANGED <<feats, stopEvent, read, committed, speeds, snapshot, joined,
                   from, closings, restarts>>

\* Mutant of RedisRaises: the error is logged, the loop goes on.
RedisRaises_logged ==
    /\ etaThread \in {"setex", "publish"}
    /\ etaThread' = "idle"
    /\ UNCHANGED <<feats, stopEvent, read, committed, speeds, snapshot, live,
                   joined, from, closings, restarts>>

RedisRaises ==
    /\ etaThread \in {"setex", "publish"}
    /\ CloseBehind(read)
    /\ UNCHANGED <<feats, stopEvent, read, speeds, snapshot, live, joined,
                   from, restarts>>

-----------------------------------------------------------------------------
\* The end of lifespan; the thread is given two seconds.
StopRequest ==
    /\ ~stopEvent
    /\ stopEvent' = TRUE
    /\ UNCHANGED <<feats, etaThread, read, committed, speeds, snapshot, live,
                   joined, from, closings, restarts>>

\* The process ends, however, and another starts.
EtaRestart ==
    /\ restarts < MaxRestarts
    /\ restarts' = restarts + 1
    /\ etaThread' = "joining"
    /\ stopEvent' = FALSE
    /\ speeds' = NoSpeeds
    /\ UNCHANGED <<feats, read, committed, snapshot, live, joined, from,
                   closings>>

\* Redis forgets a snapshot that has not been written for a while (external).
SnapshotExpires(t) ==
    /\ snapshot[t] # 0
    /\ snapshot' = [snapshot EXCEPT ![t] = 0]
    /\ UNCHANGED <<feats, etaThread, stopEvent, read, committed, speeds, live,
                   joined, from, closings, restarts>>

Take == TakeWhenStopping \/ TakeOffRoute \/ TakeNoStop \/ TakeOk
Store == SetSnapshot \/ Announce \/ RedisRaises

EtaNext ==
    \/ \E m \in Feature : Feed(m)
    \/ Join \/ AutoCommit \/ Take \/ Store
    \/ StopRequest \/ EtaRestart
    \/ \E t \in EtaTrips : SnapshotExpires(t)

EtaSpec == EtaInit /\ [][EtaNext]_etaVars

\* The thread, while it lives, is scheduled.
EtaFairness == WF_etaVars(Join) /\ WF_etaVars(Take) /\ WF_etaVars(Store)

-----------------------------------------------------------------------------
(* Properties.                                                              *)

Announced == {live[i] : i \in DOMAIN live}
Eligible(i) == feats[i].kind = "ok"
Since(p, t) == {i \in (p + 1) .. read : Eligible(i) /\ feats[i].trip = t}

\* Every variable keeps to its type.
EtaTypeOK ==
    /\ feats \in Seq(Feature)
    /\ etaThread \in Steps
    /\ stopEvent \in BOOLEAN
    /\ {read, joined, from} \subseteq 0 .. Len(feats)
    /\ committed \in Nobody .. Len(feats)
    /\ speeds \in [EtaTrips -> Seq(EtaTimes)]
    /\ snapshot \in [EtaTrips -> 0 .. Len(feats)]
    /\ live \in Seq(1 .. Len(feats))
    /\ closings \in 0 .. restarts + 1
    /\ restarts \in 0 .. MaxRestarts

\* A message whose ETA was never announced, although its offset is committed,
\* costs the life of a thread: crashes lose none of them, each error and each
\* stop at most one.
Lost == {i \in (from + 1) .. committed : Eligible(i) /\ i \notin Announced}
OneLossPerClosing == Cardinality(Lost) <= closings

\* While the thread waits for a message, the snapshot of a trip is the newest
\* message of it that this process has read, unless it has expired: neither an
\* error on the way nor a replay leaves an older one in its place.
SnapshotKeepsUp ==
    \A t \in EtaTrips :
        (etaThread = "idle" /\ Since(joined, t) # {})
            => \/ snapshot[t] = 0
               \/ \A i \in Since(joined, t) :
                     i <= snapshot[t] /\ snapshot[t] \in Since(joined, t)

\* Where the messages of a trip come in the order of their times, the speed is
\* averaged over its last Window samples that are not older than Ttl.  (After
\* the stream job has replayed, the deque's front may be young and stale
\* samples stay behind it.)
InOrder(t) == \A i, j \in Since(joined, t) :
                  i < j => feats[i].ts <= feats[j].ts
AveragesFresh ==
    \A t \in EtaTrips :
      (etaThread \notin {"joining", "closed"} /\ InOrder(t)) =>
        LET n == Len(speeds[t])
            Fresh(i) == \A j \in Since(joined, t) :
                            feats[i].ts >= feats[j].ts - Ttl
            InWindow(i) == Cardinality({j \in Since(joined, t) : j > i})
                               < Window
        IN  /\ n = Cardinality({i \in Since(joined, t) :
                                   Fresh(i) /\ InWindow(i)})
            /\ \A k \in 1 .. n : speeds[t][k] >= speeds[t][n] - Ttl

\* A message that a group with a committed offset has not read yet gets its ETA
\* announced, through crashes, unless the thread is closed.
EtaKeepsUp ==
    \A i \in 1 .. MaxFeatures :
        (/\ etaThread = "idle" /\ committed # Nobody
         /\ read < i /\ i <= Len(feats) /\ Eligible(i))
            ~> (i \in Announced \/ etaThread = "closed")

\* Why: what the thread's step says of its offsets ...
Consuming == etaThread \in {"idle", "setex", "publish"}
InHand    == etaThread \in {"setex", "publish"}
Done      == IF InHand THEN read - 1 ELSE read
Offsets ==
    /\ etaThread = "joining" => speeds = NoSpeeds
    /\ closings <= restarts + (IF etaThread = "closed" THEN 1 ELSE 0)
    /\ Consuming => joined <= read
    /\ InHand => joined < read /\ Eligible(read)
    /\ (Consuming /\ committed # Nobody) => joined <= committed
    /\ (Consuming /\ committed = Nobody) => from = joined

\* ... and of its answers, ...
Answered == Consuming => \A i \in (joined + 1) .. Done :
                             Eligible(i) => i \in Announced
SnapshotAhead ==
    \A t \in EtaTrips :
        (Consuming /\ Since(joined, t) # {} /\ snapshot[t] # 0
         /\ ~(etaThread = "setex" /\ feats[read].trip = t))
            => /\ snapshot[t] \in Since(joined, t)
               /\ \A i \in Since(joined, t) : i <= snapshot[t]

\* ... and which messages the deque of a trip, h, has the samples of: the last
\* ones of the trip, where one that is missing is stale or the deque is full.
Stale(i, t) == \E j \in Since(joined, t) : feats[i].ts < feats[j].ts - Ttl
SamplesOf(h, t, g) ==
    /\ \A k, l \in DOMAIN h : k < l => g[k] < g[l]
    /\ \A k \in DOMAIN h : h[k] = feats[g[k]].ts /\ ~Stale(g[k], t)
    /\ \A i \in Since(joined, t) :
          \/ \E k \in DOMAIN h : g[k] = i
          \/ /\ \A k \in DOMAIN h : i < g[k]
             /\ Stale(i, t) \/ Len(h) = Window
SamplesKept ==
    \A t \in EtaTrips :
        (Consuming /\ InOrder(t)) =>
            /\ Len(speeds[t]) <= Window
            /\ \E g \in [DOMAIN speeds[t] -> Since(joined, t)] :
                  SamplesOf(speeds[t], t, g)

\* The consumer thread loses one message at most for each time it is closed,
\* and averages speeds that are fresh.
EtaInv ==
    /\ EtaTypeOK /\ Offsets /\ Answered /\ SamplesKept
    /\ OneLossPerClosing /\ AveragesFresh
=============================================================================
