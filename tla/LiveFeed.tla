------------------------------ MODULE LiveFeed ------------------------------
(***************************************************************************)
(* services/websocket-service between Redis and its clients: the task      *)
(* redis_listener (main.py) and the connections (connection_manager.py),   *)
(* for ONE bus, numbered positions, and clients whose filters it passes.   *)
(*                                                                         *)
(* The stream job writes bus:{busId}:position and then publishes the       *)
(* position on fleet:live; who is not subscribed misses it.  A new client  *)
(* is registered, and is then sent the position found in Redis, while the  *)
(* listener may already be sending it newer ones.  The listener sends a    *)
(* message to the clients that were registered when it began, one after    *)
(* the other, and waits for each.                                          *)
(***************************************************************************)
EXTENDS Naturals, Sequences, FiniteSets, AlertChannels

CONSTANTS
    Clients,
    MaxPositions,  \* bound: positions the stream job writes
    MaxAlerts,     \* bound: alerts the anomaly service publishes
    MaxConnects,   \* bound: connections made
    MaxErrors      \* bound: errors of Redis

ASSUME FeedAssumption ==
    {MaxPositions, MaxAlerts, MaxConnects, MaxErrors} \subseteq Nat

VARIABLES
    place,       \* bus:{busId}:position, 0: none
    announced,   \* is there a position the stream job has yet to publish?
    alertsOut,   \* alerts published so far
    listener,    \* "connecting", "listening" or "sending"
    queue,       \* what Redis holds for the subscription
    sending,     \* the message the listener broadcasts, 0: an alert
    to,          \* the clients it still has to send it to
    dead,        \* those it failed to send it to
    done,        \* the last position broadcast to the end (history)
    client,      \* client -> where its handler is
    registered,  \* active_connections
    copy,        \* client -> the position read from Redis for it, 0: none
    got,         \* client -> the positions it was sent (history)
    snapped,     \* client -> has the initial state been sent? (history)
    gone,        \* clients that have closed their connection
    connects, errors

pubVars    == <<place, announced, alertsOut>>
taskVars   == <<listener, queue, sending, to, dead, done>>
clientVars == <<client, registered, copy, got, snapped, gone, connects>>
feedVars   == <<pubVars, taskVars, clientVars, errors>>

-----------------------------------------------------------------------------
AlertMessage == 0
Subscribed == {"fleet:live", "eta:live", "anomaly:live", "crowd:live"}
Phases == {"away", "keys", "send", "open"}

FeedInit ==
    /\ place = 0 /\ announced = TRUE /\ alertsOut = 0
    /\ listener = "connecting"
    /\ queue = <<>> /\ sending = 0 /\ to = {} /\ dead = {} /\ done = 0
    /\ client = [c \in Clients |-> "away"]
    /\ registered = {}
    /\ copy = [c \in Clients |-> 0]
    /\ got = [c \in Clients |-> <<>>]
    /\ snapped = [c \in Clients |-> FALSE]
    /\ gone = {}
    /\ connects = 0 /\ errors = 0

\* Redis hands what is published to a subscriber.
Deliver(m) == queue' = IF listener = "connecting" THEN queue
                       ELSE Append(queue, m)

SetPosition ==
    /\ announced /\ place < MaxPositions
    /\ place' = place + 1
    /\ announced' = FALSE
    /\ UNCHANGED <<alertsOut, taskVars, clientVars, errors>>

PublishPosition ==
    /\ ~announced
    /\ announced' = TRUE
    /\ Deliver(place)
    /\ UNCHANGED <<place, alertsOut, listener, sending, to, dead, done,
                   clientVars, errors>>

\* The error is logged, the position not published.
PublishFails ==
    /\ ~announced /\ errors < MaxErrors
    /\ announced' = TRUE
    /\ errors' = errors + 1
    /\ UNCHANGED <<place, alertsOut, taskVars, clientVars>>

\* publish_alerts of the anomaly service, on every channel of the audience.
PublishAlert(type) ==
    /\ alertsOut < MaxAlerts
    /\ alertsOut' = alertsOut + 1
    /\ IF Audiences(type) \intersect Subscribed # {}
       THEN Deliver(AlertMessage)
       ELSE queue' = queue
    /\ UNCHANGED <<place, announced, listener, sending, to, dead, done,
                   clientVars, errors>>

-----------------------------------------------------------------------------
(* redis_listener and broadcast.                                            *)

Subscribe ==
    /\ listener = "connecting"
    /\ listener' = "listening"
    /\ UNCHANGED <<pubVars, queue, sending, to, dead, done, clientVars,
                   errors>>

\* get_message raises, or a message is not JSON: the subscription is given up.
ListenerFails ==
    /\ listener = "listening" /\ errors < MaxErrors
    /\ errors' = errors + 1
    /\ listener' = "connecting"
    /\ queue' = <<>>
    /\ UNCHANGED <<pubVars, sending, to, dead, done, clientVars>>

\* Mutant of TakeMessage: clients that have not been sent their initial state
\* are left out.
TakeMessage_openOnly ==
    /\ listener = "listening" /\ queue # <<>>
    /\ listener' = "sending"
    /\ sending' = Head(queue)
    /\ queue' = Tail(queue)
    /\ to' = {c \in registered : client[c] = "open"}
    /\ UNCHANGED <<pubVars, dead, done, clientVars, errors>>

TakeMessage ==
    /\ listener = "listening" /\ queue # <<>>
    /\ listener' = "sending"
    /\ sending' = Head(queue)
    /\ queue' = Tail(queue)
    /\ to' = registered
    /\ UNCHANGED <<pubVars, dead, done, clientVars, errors>>

\* Mutant of SendTo: an error ends the broadcast.
SendTo_raises(c) ==
    /\ listener = "sending" /\ c \in to
    /\ IF c \in gone
       THEN to' = {} /\ dead' = dead \union {c} /\ got' = got
       ELSE /\ to' = to \ {c}
            /\ dead' = dead
            /\ got' = [got EXCEPT ![c] = IF sending = AlertMessage THEN @
                                         ELSE Append(@, sending)]
    /\ UNCHANGED <<pubVars, listener, queue, sending, done, client,
                   registered, copy, snapped, gone, connects, errors>>

\* Sending to a client that is gone raises, or the transport still takes it.
SendTo(c) ==
    /\ listener = "sending" /\ c \in to
    /\ to' = to \ {c}
    /\ \/ /\ c \in gone
          /\ dead' = dead \union {c}
          /\ got' = got
       \/ /\ dead' = dead
          /\ got' = [got EXCEPT ![c] = IF sending = AlertMessage THEN @
                                       ELSE Append(@, sending)]
    /\ UNCHANGED <<pubVars, listener, queue, sending, done, client,
                   registered, copy, snapped, gone, connects, errors>>

BroadcastEnds ==
    /\ listener = "sending" /\ to = {}
    /\ listener' = "listening"
    /\ registered' = registered \ dead
    /\ dead' = {}
    /\ done' = IF sending = AlertMessage THEN done ELSE sending
    /\ UNCHANGED <<pubVars, queue, sending, to, client, copy, got, snapped,
                   gone, connects, errors>>

-----------------------------------------------------------------------------
(* websocket_endpoint.                                                      *)

\* Every connection is an object of its own: a name is used again when the
\* listener has forgotten it.
Connect(c) ==
    /\ client[c] = "away" /\ c \notin to \union dead
    /\ connects < MaxConnects
    /\ connects' = connects + 1
    /\ client' = [client EXCEPT ![c] = "keys"]
    /\ registered' = registered \union {c}
    /\ got' = [got EXCEPT ![c] = <<>>]
    /\ snapped' = [snapped EXCEPT ![c] = FALSE]
    /\ gone' = gone \ {c}
    /\ UNCHANGED <<pubVars, taskVars, copy, errors>>

ReadSnapshot(c) ==
    /\ client[c] = "keys"
    /\ copy' = [copy EXCEPT ![c] = place]
    /\ client' = [client EXCEPT ![c] = "send"]
    /\ UNCHANGED <<pubVars, taskVars, registered, got, snapped, gone, connects,
                   errors>>

SendSnapshot(c) ==
    /\ client[c] = "send" /\ c \notin gone
    /\ got' = [got EXCEPT ![c] = IF copy[c] = 0 THEN @
                                 ELSE Append(@, copy[c])]
    /\ snapped' = [snapped EXCEPT ![c] = TRUE]
    /\ client' = [client EXCEPT ![c] = "open"]
    /\ copy' = [copy EXCEPT ![c] = 0]
    /\ UNCHANGED <<pubVars, taskVars, registered, gone, connects, errors>>

\* The client is told nothing, and stays connected.
SnapshotFails(c) ==
    /\ client[c] \in {"keys", "send"}
    /\ \/ c \in gone /\ errors' = errors
       \/ errors < MaxErrors /\ errors' = errors + 1
    /\ client' = [client EXCEPT ![c] = "open"]
    /\ copy' = [copy EXCEPT ![c] = 0]
    /\ UNCHANGED <<pubVars, taskVars, registered, got, snapped, gone,
                   connects>>

\* The peer closes; its handler learns of it in receive_text.
Leave(c) ==
    /\ client[c] # "away" /\ c \notin gone
    /\ gone' = gone \union {c}
    /\ UNCHANGED <<pubVars, taskVars, client, registered, copy, got, snapped,
                   connects, errors>>

Disconnect(c) ==
    /\ client[c] = "open" /\ c \in gone
    /\ client' = [client EXCEPT ![c] = "away"]
    /\ registered' = registered \ {c}
    /\ UNCHANGED <<pubVars, taskVars, copy, got, snapped, gone, connects,
                   errors>>

PublisherStep == SetPosition \/ PublishPosition \/ PublishFails
                    \/ \E type \in AnomalyTypes : PublishAlert(type)
Broadcast == TakeMessage \/ BroadcastEnds \/ \E c \in Clients : SendTo(c)

FeedNext ==
    \/ PublisherStep
    \/ Subscribe \/ ListenerFails \/ Broadcast
    \/ \E c \in Clients : \/ Connect(c) \/ ReadSnapshot(c) \/ SendSnapshot(c)
                          \/ SnapshotFails(c) \/ Leave(c) \/ Disconnect(c)

FeedSpec == FeedInit /\ [][FeedNext]_feedVars

\* The listener is scheduled; a send to a client that does not answer ends
\* when the server's ping times out.
FeedFairness == WF_feedVars(Subscribe) /\ WF_feedVars(Broadcast)

-----------------------------------------------------------------------------
(* Properties.                                                              *)

\* Every variable keeps to its type.
FeedTypeOK ==
    /\ place \in 0 .. MaxPositions /\ announced \in BOOLEAN
    /\ alertsOut \in 0 .. MaxAlerts
    /\ listener \in {"connecting", "listening", "sending"}
    /\ queue \in Seq(0 .. place)
    /\ sending \in 0 .. place /\ done \in 0 .. place
    /\ to \subseteq Clients /\ dead \subseteq Clients
    /\ client \in [Clients -> Phases]
    /\ registered \subseteq {c \in Clients : client[c] # "away"}
    /\ copy \in [Clients -> 0 .. place]
    /\ got \in [Clients -> Seq(1 .. MaxPositions)]
    /\ snapped \in [Clients -> BOOLEAN]
    /\ gone \subseteq Clients
    /\ connects \in 0 .. MaxConnects /\ errors \in 0 .. MaxErrors

Has(c, n) == \E i \in DOMAIN got[c] : got[c][i] >= n

\* A client that was sent its initial state misses nothing: it has been sent
\* the last position broadcast or a newer one, however its connection, the
\* snapshot and the broadcast fell together.
NoGap ==
    \A c \in Clients :
        (client[c] = "open" /\ snapped[c] /\ c \notin gone /\ done # 0)
            => Has(c, done)

\* What a client is shown goes back in time at most once, where the initial
\* state arrives behind a newer position.
OneStepBackPerClient ==
    \A c \in Clients :
        Cardinality({i \in 2 .. Len(got[c]) : got[c][i] <= got[c][i - 1]})
            <= IF snapped[c] THEN 1 ELSE 0

\* A position the listener has been handed reaches every client that stays,
\* also where another has left in the middle.
QueuedIsSent ==
    \A c \in Clients : \A n \in 1 .. MaxPositions :
        (c \in registered /\ \E i \in DOMAIN queue : queue[i] = n)
            ~> (Has(c, n) \/ c \in gone \/ listener = "connecting")

\* README.md: "Broadcast live bus, ETA, and targeted Anomaly alerts to
\* connected clients."  An alert published while the listener listens is
\* handed to it.
AlertsHeard ==
    [][(alertsOut' > alertsOut /\ listener # "connecting")
          => Len(queue') > Len(queue)]_feedVars

\* The listener broadcasts one message at a time, and forgets no client that
\* has not left; a handler is done when the snapshot is.
Bookkeeping ==
    /\ listener # "sending" => to = {}
    /\ dead \subseteq gone
    /\ \A c \in Clients : /\ client[c] # "away" => c \in registered \union gone
                          /\ client[c] \in {"keys", "send"} => ~snapped[c]
                          /\ \A i \in DOMAIN got[c] : got[c][i] <= place

\* What a client was sent, or is about to be sent by its handler.
Shown(c, n) == Has(c, n) \/ (client[c] = "send" /\ copy[c] >= n)

\* NoGap, from the time the handler has read Redis, and also for the message
\* that is being broadcast.
Covered ==
    \A c \in Clients \ gone :
        (client[c] = "send" \/ (client[c] = "open" /\ snapped[c])) =>
            /\ done # 0 => Shown(c, done)
            /\ (listener = "sending" /\ sending # 0 /\ c \notin to)
                  => Shown(c, sending)

\* Positions travel in their order: on the way to the queue, in it, and out.
PositionsOrdered ==
    /\ \A i, j \in DOMAIN queue :
          (i < j /\ queue[i] # 0 /\ queue[j] # 0) => queue[i] < queue[j]
    /\ \A i \in DOMAIN queue :
          (to # {} /\ queue[i] # 0) => sending < queue[i]
    /\ ~announced => /\ \A i \in DOMAIN queue : queue[i] < place
                     /\ to # {} => sending < place
                     /\ place # 0

\* What is on its way to a client, and where what it is shown goes back.
Ahead(c) == {queue[i] : i \in DOMAIN queue}
              \union (IF c \in to THEN {sending} ELSE {})
              \union (IF announced THEN {} ELSE {place})
StepsBack(s) == {i \in 2 .. Len(s) : s[i] <= s[i - 1]}

\* OneStepBackPerClient; and where it has been made, or there was no snapshot
\* to make it, what is on its way is newer than what was sent.
OneStepBack ==
    \A c \in Clients :
        /\ ~snapped[c] => StepsBack(got[c]) = {}
        /\ \A i, j \in StepsBack(got[c]) : i = j
        /\ (~snapped[c] \/ StepsBack(got[c]) # {}) =>
              \A n \in Ahead(c) : n # 0 /\ got[c] # <<>>
                                     => got[c][Len(got[c])] < n

\* A client that is connected misses no position from its snapshot on, and is
\* taken back by that snapshot once at most; the parts in the middle make it
\* inductive (redis_listener, websocket_endpoint).
FeedInv ==
    /\ FeedTypeOK
    /\ Bookkeeping /\ Covered /\ PositionsOrdered /\ OneStepBack
    /\ NoGap /\ OneStepBackPerClient
=============================================================================
