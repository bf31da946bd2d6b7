--------------------------- MODULE LiveFeed_proofs ---------------------------
(***************************************************************************)
(* Proofs about LiveFeed: the types and the bookkeeping of the listener    *)
(* (FeedTypeOK, Bookkeeping); that positions keep their order              *)
(* (PositionsOrdered); that a client which was sent its initial state      *)
(* misses nothing (Covered, NoGap); and that what it is shown goes back    *)
(* once at most (OneStepBack, OneStepBackPerClient).                       *)
(***************************************************************************)
EXTENDS LiveFeed, SequenceTheorems, FiniteSetTheorems, TLAPS

-----------------------------------------------------------------------------
(* Types.                                                                   *)

\* FeedTypeOK by the variables that change together.
PlaceOK  == /\ place \in 0 .. MaxPositions /\ announced \in BOOLEAN
            /\ alertsOut \in 0 .. MaxAlerts
TaskOK   == /\ listener \in {"connecting", "listening", "sending"}
            /\ queue \in Seq(0 .. place)
            /\ sending \in 0 .. place /\ done \in 0 .. place
            /\ to \subseteq Clients /\ dead \subseteq Clients
PhaseOK  == /\ client \in [Clients -> Phases]
            /\ registered \subseteq {c \in Clients : client[c] # "away"}
            /\ snapped \in [Clients -> BOOLEAN]
            /\ gone \subseteq Clients
CopyOK   == copy \in [Clients -> 0 .. place]
GotOK    == got \in [Clients -> Seq(1 .. MaxPositions)]
BoundsOK == connects \in 0 .. MaxConnects /\ errors \in 0 .. MaxErrors

FeedParts == PlaceOK /\ TaskOK /\ PhaseOK /\ CopyOK /\ GotOK /\ BoundsOK

LEMMA FeedTypeParts == FeedTypeOK <=> FeedParts
  BY DEF FeedTypeOK, FeedParts, PlaceOK, TaskOK, PhaseOK, CopyOK, GotOK,
         BoundsOK

LEMMA FeedTypePartsNext == FeedTypeOK' <=> FeedParts'
  BY DEF FeedTypeOK, FeedParts, PlaceOK, TaskOK, PhaseOK, CopyOK, GotOK,
         BoundsOK

LEMMA PositionSent ==
    ASSUME FeedTypeOK, NEW n \in 0 .. place, n # 0
    PROVE  n \in 1 .. MaxPositions
  BY FeedAssumption DEF FeedTypeOK

\* Nothing comes into the queue but what is appended.
LEMMA AppendHas ==
    ASSUME NEW m \in 0 .. place, queue \in Seq(0 .. place),
           queue' = queue \/ queue' = Append(queue, m)
    PROVE  \A i \in DOMAIN queue' :
              queue'[i] = m \/ \E j \in DOMAIN queue : queue'[i] = queue[j]
<1> SUFFICES ASSUME NEW i \in DOMAIN queue'
             PROVE  \/ queue'[i] = m
                    \/ \E j \in DOMAIN queue : queue'[i] = queue[j]
  OBVIOUS
<1>1. CASE queue' = queue
  BY <1>1
<1>2. CASE queue' = Append(queue, m)
  <2>1. CASE i = Len(queue) + 1
    BY <1>2, <2>1
  <2>2. CASE i # Len(queue) + 1
    <3>1. i \in DOMAIN queue /\ queue'[i] = queue[i]
      BY <1>2, <2>2
    <3> QED
      BY <3>1
  <2> QED
    BY <2>1, <2>2
<1> QED
  BY <1>1, <1>2

\* What a subscriber is handed when something is published.
LEMMA Delivered ==
    ASSUME NEW m, Deliver(m)
    PROVE  queue' = queue \/ queue' = Append(queue, m)
  BY DEF Deliver

\* The publishers write nothing but this.
LEMMA PublisherFrame ==
    ASSUME PublisherStep
    PROVE  UNCHANGED <<listener, sending, to, dead, done, clientVars>>
  BY DEF PublisherStep, SetPosition, PublishPosition, PublishFails,
         PublishAlert, taskVars, clientVars

LEMMA AlertFrame ==
    ASSUME NEW type \in AnomalyTypes, PublishAlert(type)
    PROVE  /\ UNCHANGED <<place, announced, errors>>
           /\ queue' = queue \/ queue' = Append(queue, 0)
           /\ alertsOut < MaxAlerts /\ alertsOut' = alertsOut + 1
  BY Delivered DEF PublishAlert, AlertMessage

\* The types survive every step.
LEMMA FeedTypeStep == FeedTypeOK /\ [FeedNext]_feedVars => FeedTypeOK'
<1> SUFFICES ASSUME FeedTypeOK, [FeedNext]_feedVars
             PROVE  FeedParts'
  BY FeedTypePartsNext
<1>0. /\ PlaceOK /\ TaskOK /\ PhaseOK /\ CopyOK /\ GotOK /\ BoundsOK
      /\ place \in Nat /\ MaxPositions \in Nat /\ MaxAlerts \in Nat
      /\ MaxConnects \in Nat /\ MaxErrors \in Nat
  <2>1. PlaceOK /\ TaskOK /\ PhaseOK /\ CopyOK /\ GotOK /\ BoundsOK
    BY FeedTypeParts DEF FeedParts
  <2> QED
    BY <2>1, FeedAssumption DEF PlaceOK
<1>1. CASE SetPosition
  <2>1. /\ place' = place + 1 /\ place < MaxPositions /\ announced' = FALSE
        /\ UNCHANGED <<alertsOut, listener, queue, sending, to, dead, done,
                       client, registered, copy, got, snapped, gone, connects,
                       errors>>
    BY <1>1 DEF SetPosition, taskVars, clientVars
  <2>2. 0 .. place \subseteq 0 .. place'
    BY <1>0, <2>1
  <2>3. PlaceOK'
    <3>1. place' \in 0 .. MaxPositions
      BY <1>0, <2>1
    <3>2. alertsOut' \in 0 .. MaxAlerts
      BY <1>0, <2>1 DEF PlaceOK
    <3> QED
      BY <2>1, <3>1, <3>2 DEF PlaceOK
  <2>4. queue' \in Seq(0 .. place')
    BY <1>0, <2>1, <2>2, SeqMonotonic DEF TaskOK
  <2>5. TaskOK'
    BY <1>0, <2>1, <2>2, <2>4 DEF TaskOK
  <2>6. CopyOK'
    BY <1>0, <2>1, <2>2 DEF CopyOK
  <2> QED
    BY <1>0, <2>1, <2>3, <2>5, <2>6 DEF FeedParts, PhaseOK, GotOK, BoundsOK
<1>2. CASE PublishPosition \/ PublishFails
           \/ \E type \in AnomalyTypes : PublishAlert(type)
  <2>1. /\ UNCHANGED <<place, listener, sending, to, dead, done, client,
                       registered, copy, got, snapped, gone, connects>>
        /\ announced' \in {announced, TRUE}
    BY <1>2 DEF PublishPosition, PublishFails, PublishAlert, taskVars,
                clientVars
  <2>2. queue' = queue \/ queue' = Append(queue, place)
          \/ queue' = Append(queue, 0)
    BY <1>2, Delivered, AlertFrame DEF PublishPosition, PublishFails, taskVars
  <2>3. queue' \in Seq(0 .. place)
    BY <1>0, <2>2 DEF TaskOK
  <2>4. alertsOut' \in 0 .. MaxAlerts
    BY <1>0, <1>2, AlertFrame DEF PublishPosition, PublishFails, PlaceOK
  <2>5. errors' \in 0 .. MaxErrors
    BY <1>0, <1>2, AlertFrame DEF PublishPosition, PublishFails, BoundsOK
  <2>6. PlaceOK' /\ TaskOK'
    BY <1>0, <2>1, <2>3, <2>4 DEF PlaceOK, TaskOK
  <2> QED
    BY <1>0, <2>1, <2>5, <2>6
       DEF FeedParts, PhaseOK, CopyOK, GotOK, BoundsOK
<1>3. CASE Subscribe \/ ListenerFails \/ TakeMessage \/ BroadcastEnds
  <2>1. /\ UNCHANGED <<place, announced, alertsOut, client, copy, got, snapped,
                       gone, connects>>
        /\ registered' \subseteq registered
        /\ errors' = errors \/ (errors < MaxErrors /\ errors' = errors + 1)
    BY <1>3 DEF Subscribe, ListenerFails, TakeMessage, BroadcastEnds, pubVars,
                clientVars
  <2>2. TaskOK'
    <3>1. queue' \in Seq(0 .. place)
      <4>1. queue \in Seq(0 .. place) /\ <<>> \in Seq(0 .. place)
        BY <1>0, EmptySeq DEF TaskOK
      <4>2. queue # <<>> => Tail(queue) \in Seq(0 .. place)
        BY <4>1
      <4>3. \/ queue' = queue \/ queue' = <<>>
            \/ (queue # <<>> /\ queue' = Tail(queue))
        BY <1>3 DEF Subscribe, ListenerFails, TakeMessage, BroadcastEnds
      <4> QED
        BY <4>1, <4>2, <4>3
    <3>2. sending' \in 0 .. place /\ done' \in 0 .. place
      BY <1>0, <1>3
         DEF TaskOK, Subscribe, ListenerFails, TakeMessage, BroadcastEnds
    <3>3. to' \subseteq Clients /\ dead' \subseteq Clients
      BY <1>0, <1>3
         DEF TaskOK, PhaseOK, Subscribe, ListenerFails, TakeMessage,
             BroadcastEnds
    <3>4. listener' \in {"connecting", "listening", "sending"}
      BY <1>3 DEF Subscribe, ListenerFails, TakeMessage, BroadcastEnds
    <3> QED
      BY <2>1, <3>1, <3>2, <3>3, <3>4 DEF TaskOK
  <2>3. errors' \in 0 .. MaxErrors
    BY <1>0, <2>1 DEF BoundsOK
  <2> QED
    BY <1>0, <2>1, <2>2, <2>3
       DEF FeedParts, PlaceOK, PhaseOK, CopyOK, GotOK, BoundsOK
<1>4. ASSUME NEW c \in Clients, SendTo(c)
      PROVE  FeedParts'
  <2>1. /\ UNCHANGED <<place, announced, alertsOut, listener, queue, sending,
                       done, client, registered, copy, snapped, gone,
                       connects, errors>>
        /\ to' \subseteq to /\ dead' \subseteq dead \union {c}
        /\ got' = got \/ got' = [got EXCEPT ![c] =
              IF sending = 0 THEN @ ELSE Append(@, sending)]
    BY <1>4 DEF SendTo, pubVars, AlertMessage
  <2>2. sending # 0 => sending \in 1 .. MaxPositions
    BY <1>0, PositionSent DEF TaskOK
  <2>3. GotOK'
    BY <1>0, <2>1, <2>2 DEF GotOK
  <2>4. TaskOK'
    BY <1>0, <2>1 DEF TaskOK
  <2> QED
    BY <1>0, <2>1, <2>3, <2>4
       DEF FeedParts, PlaceOK, PhaseOK, CopyOK, BoundsOK
<1>5. ASSUME NEW c \in Clients, Connect(c)
      PROVE  FeedParts'
  <2>1. /\ UNCHANGED <<place, announced, alertsOut, listener, queue, sending,
                       to, dead, done, copy, errors>>
        /\ client' = [client EXCEPT ![c] = "keys"]
        /\ registered' = registered \union {c}
        /\ got' = [got EXCEPT ![c] = <<>>]
        /\ snapped' = [snapped EXCEPT ![c] = FALSE]
        /\ gone' = gone \ {c}
        /\ connects < MaxConnects /\ connects' = connects + 1
    BY <1>5 DEF Connect, pubVars, taskVars
  <2>2. GotOK'
    BY <1>0, <2>1, EmptySeq DEF GotOK
  <2>3. PhaseOK'
    BY <1>0, <2>1 DEF PhaseOK, Phases
  <2>4. BoundsOK'
    BY <1>0, <2>1 DEF BoundsOK
  <2> QED
    BY <1>0, <2>1, <2>2, <2>3, <2>4 DEF FeedParts, PlaceOK, TaskOK, CopyOK
<1>6. ASSUME NEW c \in Clients,
             ReadSnapshot(c) \/ SendSnapshot(c) \/ SnapshotFails(c)
      PROVE  FeedParts'
  <2>1. /\ UNCHANGED <<place, announced, alertsOut, listener, queue, sending,
                       to, dead, done, registered, gone, connects>>
        /\ client[c] \in {"keys", "send"}
        /\ client' \in {[client EXCEPT ![c] = "send"],
                        [client EXCEPT ![c] = "open"]}
        /\ copy' \in {[copy EXCEPT ![c] = place], [copy EXCEPT ![c] = 0]}
        /\ snapped' \in {snapped, [snapped EXCEPT ![c] = TRUE]}
        /\ got' = got \/ got' = [got EXCEPT ![c] = IF copy[c] = 0 THEN @
                                                 ELSE Append(@, copy[c])]
        /\ errors' = errors \/ (errors < MaxErrors /\ errors' = errors + 1)
    BY <1>6 DEF ReadSnapshot, SendSnapshot, SnapshotFails, pubVars, taskVars
  <2>2. copy[c] # 0 => copy[c] \in 1 .. MaxPositions
    BY <1>0, PositionSent DEF CopyOK
  <2>3. GotOK'
    <3>1. got \in [Clients -> Seq(1 .. MaxPositions)]
      BY <1>0 DEF GotOK
    <3>2. got[c] \in Seq(1 .. MaxPositions)
      BY <3>1
    <3>3. copy[c] # 0 => Append(got[c], copy[c]) \in Seq(1 .. MaxPositions)
      BY <2>2, <3>2
    <3> QED
      BY <2>1, <3>1, <3>2, <3>3 DEF GotOK
  <2>4. CopyOK'
    BY <1>0, <2>1 DEF CopyOK
  <2>5. PhaseOK'
    BY <1>0, <2>1 DEF PhaseOK, Phases
  <2>6. BoundsOK'
    BY <1>0, <2>1 DEF BoundsOK
  <2> QED
    BY <1>0, <2>1, <2>3, <2>4, <2>5, <2>6 DEF FeedParts, PlaceOK, TaskOK
<1>7. ASSUME NEW c \in Clients, Leave(c) \/ Disconnect(c)
      PROVE  FeedParts'
  <2>1. /\ UNCHANGED <<place, announced, alertsOut, listener, queue, sending,
                       to, dead, done, copy, got, snapped, connects, errors>>
        /\ gone' \subseteq gone \union {c}
        /\ \/ client' = client /\ registered' = registered
           \/ /\ client' = [client EXCEPT ![c] = "away"]
              /\ registered' = registered \ {c}
    BY <1>7 DEF Leave, Disconnect, pubVars, taskVars
  <2>2. PhaseOK'
    BY <1>0, <2>1 DEF PhaseOK, Phases
  <2> QED
    BY <1>0, <2>1, <2>2
       DEF FeedParts, PlaceOK, TaskOK, CopyOK, GotOK, BoundsOK
<1>8. CASE UNCHANGED feedVars
  BY <1>0, <1>8 DEF feedVars, pubVars, taskVars, clientVars, FeedParts,
                    PlaceOK, TaskOK, PhaseOK, CopyOK, GotOK, BoundsOK
<1> QED
  BY <1>1, <1>2, <1>3, <1>4, <1>5, <1>6, <1>7, <1>8
     DEF FeedNext, PublisherStep, Broadcast

LEMMA FeedTypeInit == FeedInit => FeedTypeOK
  BY FeedAssumption, EmptySeq DEF FeedInit, FeedTypeOK, Phases

-----------------------------------------------------------------------------
(* The bookkeeping of the listener and of the handlers.                     *)

LEMMA BookkeepingStep ==
    FeedTypeOK /\ Bookkeeping /\ [FeedNext]_feedVars => Bookkeeping'
<1> SUFFICES ASSUME FeedTypeOK, Bookkeeping, [FeedNext]_feedVars
             PROVE  Bookkeeping'
  OBVIOUS
<1>0. /\ place \in Nat
      /\ client \in [Clients -> Phases] /\ snapped \in [Clients -> BOOLEAN]
      /\ got \in [Clients -> Seq(1 .. MaxPositions)]
      /\ copy \in [Clients -> 0 .. place] /\ sending \in 0 .. place
      /\ registered \subseteq Clients /\ dead \subseteq gone
      /\ listener # "sending" => to = {}
  BY DEF FeedTypeOK, Bookkeeping
<1>1. ASSUME NEW c \in Clients
      PROVE  /\ client[c] # "away" => c \in registered \union gone
             /\ client[c] \in {"keys", "send"} => ~snapped[c]
             /\ \A i \in DOMAIN got[c] : got[c][i] \in Nat /\ got[c][i] <= place
             /\ \A n \in 0 .. place : \A i \in DOMAIN Append(got[c], n) :
                   Append(got[c], n)[i] <= place
  <2>1. got[c] \in Seq(1 .. MaxPositions)
    BY <1>0
  <2>2. \A i \in DOMAIN got[c] : got[c][i] \in Nat /\ got[c][i] <= place
    BY <2>1, FeedAssumption DEF Bookkeeping
  <2>3. ASSUME NEW n \in 0 .. place, NEW i \in DOMAIN Append(got[c], n)
        PROVE  Append(got[c], n)[i] <= place
    BY <1>0, <2>1, <2>2
  <2> QED
    BY <2>2, <2>3 DEF Bookkeeping
<1>2. CASE PublisherStep
  <2>1. UNCHANGED <<listener, sending, to, dead, done, client, registered,
                    snapped, got, gone>>
    BY <1>2, PublisherFrame DEF clientVars
  <2>2. place' \in Nat /\ place <= place'
    BY <1>0, <1>2
       DEF PublisherStep, SetPosition, PublishPosition, PublishFails,
           PublishAlert
  <2>3. \A c \in Clients : \A i \in DOMAIN got[c] : got[c][i] <= place'
    BY <1>0, <1>1, <2>2
  <2> QED
    BY <1>0, <1>1, <2>1, <2>3 DEF Bookkeeping
<1>3. CASE Subscribe \/ ListenerFails \/ TakeMessage \/ BroadcastEnds
  <2>1. /\ UNCHANGED <<place, client, got, snapped, gone>>
        /\ dead' \subseteq dead /\ registered \subseteq registered' \union dead
        /\ listener' # "sending" => to' = {}
    BY <1>0, <1>3
       DEF Subscribe, ListenerFails, TakeMessage, BroadcastEnds, pubVars,
           clientVars
  <2> QED
    BY <1>0, <1>1, <2>1 DEF Bookkeeping
<1>4. ASSUME NEW c \in Clients, SendTo(c)
      PROVE  Bookkeeping'
  <2>1. /\ UNCHANGED <<place, listener, client, registered, snapped, gone>>
        /\ listener = "sending" /\ dead' \subseteq gone
        /\ got' = got \/ got' = [got EXCEPT ![c] =
              IF sending = 0 THEN @ ELSE Append(@, sending)]
    BY <1>0, <1>4 DEF SendTo, pubVars, AlertMessage
  <2>2. \A d \in Clients : \A i \in DOMAIN got'[d] : got'[d][i] <= place
    <3>1. \A d \in Clients : got'[d] = got[d] \/ got'[d] = Append(got[d], sending)
      BY <1>0, <2>1
    <3> QED
      BY <1>0, <1>1, <3>1
  <2> QED
    BY <1>1, <2>1, <2>2 DEF Bookkeeping
<1>5. ASSUME NEW c \in Clients, Connect(c)
      PROVE  Bookkeeping'
  <2>1. /\ UNCHANGED <<place, listener, to, dead>>
        /\ client' = [client EXCEPT ![c] = "keys"] /\ c \notin dead
        /\ registered' = registered \union {c}
        /\ got' = [got EXCEPT ![c] = <<>>]
        /\ snapped' = [snapped EXCEPT ![c] = FALSE]
        /\ gone' = gone \ {c}
    BY <1>5 DEF Connect, pubVars, taskVars
  <2>2. \A d \in Clients : \A i \in DOMAIN got'[d] : got'[d][i] <= place
    <3>1. \A d \in Clients : got'[d] = got[d] \/ got'[d] = <<>>
      BY <1>0, <2>1
    <3> QED
      BY <1>1, <3>1
  <2> QED
    BY <1>0, <1>1, <2>1, <2>2 DEF Bookkeeping
<1>6. ASSUME NEW c \in Clients,
             ReadSnapshot(c) \/ SendSnapshot(c) \/ SnapshotFails(c)
      PROVE  Bookkeeping'
  <2>1. /\ UNCHANGED <<place, listener, to, dead, registered, gone>>
        /\ client[c] \in {"keys", "send"}
        /\ \/ client' = [client EXCEPT ![c] = "send"] /\ snapped' = snapped
           \/ /\ client' = [client EXCEPT ![c] = "open"]
              /\ snapped' \in {snapped, [snapped EXCEPT ![c] = TRUE]}
        /\ got' = got \/ got' = [got EXCEPT ![c] = IF copy[c] = 0 THEN @
                                                 ELSE Append(@, copy[c])]
    BY <1>6 DEF ReadSnapshot, SendSnapshot, SnapshotFails, pubVars, taskVars
  <2>2. \A d \in Clients : \A i \in DOMAIN got'[d] : got'[d][i] <= place
    <3>1. \A d \in Clients : got'[d] = got[d] \/ got'[d] = Append(got[d], copy[d])
      BY <1>0, <2>1
    <3> QED
      BY <1>0, <1>1, <3>1
  <2>3. \A d \in Clients : client'[d] # "away" => d \in registered \union gone
    BY <1>0, <1>1, <2>1
  <2>4. \A d \in Clients : client'[d] \in {"keys", "send"} => ~snapped'[d]
    BY <1>0, <1>1, <2>1
  <2> QED
    BY <1>0, <2>1, <2>2, <2>3, <2>4 DEF Bookkeeping
<1>7. ASSUME NEW c \in Clients, Leave(c) \/ Disconnect(c)
      PROVE  Bookkeeping'
  <2>1. /\ UNCHANGED <<place, listener, to, dead, got, snapped>>
        /\ gone \subseteq gone'
        /\ \/ client' = client /\ registered' = registered
           \/ /\ client' = [client EXCEPT ![c] = "away"]
              /\ registered' = registered \ {c}
    BY <1>7 DEF Leave, Disconnect, pubVars, taskVars
  <2> QED
    BY <1>0, <1>1, <2>1 DEF Bookkeeping
<1>8. CASE UNCHANGED feedVars
  BY <1>8 DEF feedVars, pubVars, taskVars, clientVars, Bookkeeping
<1> QED
  BY <1>2, <1>3, <1>4, <1>5, <1>6, <1>7, <1>8
     DEF FeedNext, Broadcast

-----------------------------------------------------------------------------
(* The order of positions.                                                  *)

LEMMA PositionsOrderedStep ==
    FeedTypeOK /\ Bookkeeping /\ PositionsOrdered /\ [FeedNext]_feedVars
        => PositionsOrdered'
<1> SUFFICES ASSUME FeedTypeOK, Bookkeeping, PositionsOrdered,
                    [FeedNext]_feedVars
             PROVE  PositionsOrdered'
  OBVIOUS
<1>0. /\ place \in Nat /\ queue \in Seq(0 .. place) /\ sending \in 0 .. place
      /\ \A i \in DOMAIN queue : queue[i] \in 0 .. place /\ i \in 1 .. Len(queue)
      /\ Len(queue) \in Nat
      /\ listener # "sending" => to = {}
  BY DEF FeedTypeOK, Bookkeeping
<1>1. /\ \A i, j \in DOMAIN queue :
            (i < j /\ queue[i] # 0 /\ queue[j] # 0) => queue[i] < queue[j]
      /\ \A i \in DOMAIN queue :
            (to # {} /\ queue[i] # 0) => sending < queue[i]
      /\ ~announced => /\ \A i \in DOMAIN queue : queue[i] < place
                       /\ to # {} => sending < place
                       /\ place # 0
  BY DEF PositionsOrdered
<1>2. CASE SetPosition
  <2>1. UNCHANGED <<queue, sending, to>> /\ place' = place + 1
    BY <1>2 DEF SetPosition, taskVars
  <2>2. /\ \A i \in DOMAIN queue : queue[i] < place'
        /\ sending < place' /\ place' # 0
    BY <1>0, <2>1
  <2> QED
    BY <1>1, <2>1, <2>2 DEF PositionsOrdered
\* A message that is newer than those before it, or an alert.
<1>3. ASSUME NEW m \in 0 .. place, queue' = Append(queue, m),
             UNCHANGED <<place, sending, to>>,
             m # 0 => (~announced /\ m = place /\ announced'),
             m = 0 => announced' = announced
      PROVE  PositionsOrdered'
  <2>1. /\ DOMAIN queue' = 1 .. (Len(queue) + 1)
        /\ \A i \in DOMAIN queue : queue'[i] = queue[i]
        /\ queue'[Len(queue) + 1] = m
    BY <1>0, <1>3
  <2>2. \A i \in DOMAIN queue' : i \in DOMAIN queue \/ i = Len(queue) + 1
    BY <1>0, <2>1
  <2>3. m # 0 => \A i \in DOMAIN queue : queue[i] < m
    BY <1>1, <1>3
  <2>4. ASSUME NEW i \in DOMAIN queue', NEW j \in DOMAIN queue',
               i < j, queue'[i] # 0, queue'[j] # 0
        PROVE  queue'[i] < queue'[j]
    <3>1. i \in DOMAIN queue
      BY <1>0, <2>1, <2>2, <2>4
    <3>2. CASE j \in DOMAIN queue
      BY <1>1, <2>1, <2>4, <3>1, <3>2
    <3>3. CASE j = Len(queue) + 1
      BY <2>1, <2>3, <2>4, <3>1, <3>3
    <3> QED
      BY <2>2, <3>2, <3>3
  <2>5. ASSUME NEW i \in DOMAIN queue', to' # {}, queue'[i] # 0
        PROVE  sending' < queue'[i]
    <3>1. CASE i \in DOMAIN queue
      BY <1>1, <1>3, <2>1, <2>5, <3>1
    <3>2. CASE i = Len(queue) + 1
      BY <1>1, <1>3, <2>1, <2>5, <3>2
    <3> QED
      BY <2>2, <3>1, <3>2
  <2>6. ~announced' => /\ \A i \in DOMAIN queue' : queue'[i] < place'
                       /\ to' # {} => sending' < place'
                       /\ place' # 0
    <3>1. CASE announced'
      BY <3>1
    <3>2. CASE ~announced'
      <4>1. m = 0 /\ ~announced
        BY <1>3, <3>2
      <4>2. 0 < place
        BY <1>0, <1>1, <4>1
      <4> QED
        BY <1>1, <1>3, <2>1, <2>2, <4>1, <4>2
    <3> QED
      BY <3>1, <3>2
  <2> QED
    BY <2>4, <2>5, <2>6 DEF PositionsOrdered
\* Nothing new, or the oldest message taken off.
<1>4. ASSUME UNCHANGED <<place, sending, to, queue>>,
             announced' = announced \/ announced'
      PROVE  PositionsOrdered'
  BY <1>1, <1>4 DEF PositionsOrdered
<1>5. CASE PublishPosition
  <2>1. UNCHANGED <<place, sending, to>> /\ ~announced /\ announced' = TRUE
    BY <1>5 DEF PublishPosition
  <2>2. queue' = queue \/ queue' = Append(queue, place)
    BY <1>5, Delivered DEF PublishPosition
  <2>3. place \in 0 .. place /\ place # 0
    BY <1>0, <1>1, <2>1
  <2> QED
    BY <1>3, <1>4, <2>1, <2>2, <2>3
<1>6. CASE PublishFails
  BY <1>4, <1>6 DEF PublishFails, taskVars
<1>7. ASSUME NEW type \in AnomalyTypes, PublishAlert(type)
      PROVE  PositionsOrdered'
  <2>1. UNCHANGED <<place, announced, sending, to>>
    BY <1>7, AlertFrame DEF PublishAlert
  <2>2. queue' = queue \/ queue' = Append(queue, 0)
    BY <1>7, AlertFrame
  <2>3. 0 \in 0 .. place
    BY <1>0
  <2> QED
    BY <1>3, <1>4, <2>1, <2>2, <2>3
<1>8. CASE ListenerFails
  <2>1. /\ UNCHANGED <<place, announced, sending, to>> /\ queue' = <<>>
        /\ to = {}
    BY <1>0, <1>8 DEF ListenerFails, pubVars
  <2>2. DOMAIN queue' = {}
    BY <2>1
  <2> QED
    BY <1>1, <2>1, <2>2 DEF PositionsOrdered
<1>9. CASE TakeMessage
  <2>1. /\ UNCHANGED <<place, announced>> /\ queue # <<>>
        /\ sending' = Head(queue) /\ queue' = Tail(queue)
    BY <1>9 DEF TakeMessage, pubVars
  <2>2. /\ 1 \in DOMAIN queue /\ Head(queue) = queue[1]
        /\ \A i \in DOMAIN Tail(queue) :
              /\ i \in Nat \ {0} /\ i + 1 \in DOMAIN queue
              /\ Tail(queue)[i] = queue[i + 1]
    BY <1>0, <2>1
  <2>3. ASSUME NEW i \in DOMAIN queue', NEW j \in DOMAIN queue',
               i < j, queue'[i] # 0, queue'[j] # 0
        PROVE  queue'[i] < queue'[j]
    <3>1. i + 1 < j + 1
      BY <2>1, <2>2, <2>3
    <3> QED
      BY <1>1, <2>1, <2>2, <2>3, <3>1
  <2>4. ASSUME NEW i \in DOMAIN queue', queue'[i] # 0
        PROVE  sending' < queue'[i]
    <3>1. CASE sending' = 0
      <4>1. queue'[i] \in Nat
        BY <1>0, <2>1, <2>2, <2>4
      <4> QED
        BY <2>4, <3>1, <4>1
    <3>2. CASE sending' # 0
      <4>1. 1 < i + 1
        BY <2>1, <2>2, <2>4
      <4> QED
        BY <1>1, <2>1, <2>2, <2>4, <3>2, <4>1
    <3> QED
      BY <3>1, <3>2
  <2>5. ~announced' => /\ \A i \in DOMAIN queue' : queue'[i] < place'
                       /\ sending' < place' /\ place' # 0
    BY <1>1, <2>1, <2>2
  <2> QED
    BY <2>3, <2>4, <2>5 DEF PositionsOrdered
<1>10. CASE \/ Subscribe \/ BroadcastEnds
            \/ \E c \in Clients : \/ SendTo(c) \/ Connect(c) \/ ReadSnapshot(c)
                                  \/ SendSnapshot(c) \/ SnapshotFails(c)
                                  \/ Leave(c) \/ Disconnect(c)
            \/ UNCHANGED feedVars
  <2>1. UNCHANGED <<place, announced, sending, queue>> /\ to' \subseteq to
    BY <1>10
       DEF Subscribe, BroadcastEnds, SendTo, Connect, ReadSnapshot,
           SendSnapshot, SnapshotFails, Leave, Disconnect, feedVars, pubVars,
           taskVars
  <2>2. to' # {} => to # {}
    BY <2>1
  <2> QED
    BY <1>1, <2>1, <2>2 DEF PositionsOrdered
<1> QED
  BY <1>2, <1>5, <1>6, <1>7, <1>8, <1>9, <1>10
     DEF FeedNext, PublisherStep, Broadcast

-----------------------------------------------------------------------------
(* Nothing is missed.                                                       *)

\* What has been sent stays sent.
LEMMA HasKept ==
    ASSUME FeedTypeOK, NEW c \in Clients, NEW n,
           \/ got'[c] = got[c]
           \/ \E x \in Nat : got'[c] = Append(got[c], x)
    PROVE  Has(c, n) => Has(c, n)'
<1>1. got[c] \in Seq(1 .. MaxPositions)
  BY DEF FeedTypeOK
<1>2. ASSUME NEW i \in DOMAIN got[c], got[c][i] >= n
      PROVE  i \in DOMAIN got'[c] /\ got'[c][i] >= n
  BY <1>1, <1>2
<1> QED
  BY <1>2 DEF Has

\* What is sent has been sent.
LEMMA HasSent ==
    ASSUME FeedTypeOK, NEW c \in Clients, NEW x \in Nat, NEW n \in Nat,
           n <= x, got'[c] = Append(got[c], x)
    PROVE  Has(c, n)'
<1>1. got[c] \in Seq(1 .. MaxPositions)
  BY DEF FeedTypeOK
<1>2. /\ Len(got[c]) + 1 \in DOMAIN got'[c]
      /\ got'[c][Len(got[c]) + 1] = x
  BY <1>1
<1>3. x >= n
  OBVIOUS
<1> QED
  BY <1>2, <1>3 DEF Has

\* The part of Covered about one client.
CoveredAt(c) ==
    (client[c] = "send" \/ (client[c] = "open" /\ snapped[c])) =>
        /\ done # 0 => Shown(c, done)
        /\ (listener = "sending" /\ sending # 0 /\ c \notin to)
              => Shown(c, sending)

LEMMA CoveredStep ==
    FeedTypeOK /\ Bookkeeping /\ Covered /\ [FeedNext]_feedVars => Covered'
<1> SUFFICES ASSUME FeedTypeOK, Bookkeeping, Covered, [FeedNext]_feedVars,
                    NEW d \in Clients, d \notin gone'
             PROVE  CoveredAt(d)'
  BY DEF Covered, CoveredAt
<1>0. /\ place \in Nat /\ done \in 0 .. place /\ sending \in 0 .. place
      /\ client \in [Clients -> Phases] /\ snapped \in [Clients -> BOOLEAN]
      /\ got \in [Clients -> Seq(1 .. MaxPositions)]
      /\ copy \in [Clients -> 0 .. place]
      /\ client[d] # "away" => d \in registered \union gone
      /\ client[d] \in {"keys", "send"} => ~snapped[d]
  BY DEF FeedTypeOK, Bookkeeping
<1>1. d \notin gone => CoveredAt(d)
  BY DEF Covered, CoveredAt
\* Steps that do not concern the client.
<1>2. ASSUME d \notin gone, done' = done, sending' = sending,
             listener' = listener \/ listener' # "sending",
             d \in to => (d \in to' \/ listener' # "sending"),
             client'[d] = client[d], snapped'[d] = snapped[d],
             got'[d] = got[d], copy'[d] = copy[d]
      PROVE  CoveredAt(d)'
  <2>1. \A n : Has(d, n) => Has(d, n)'
    BY <1>2, HasKept
  <2>2. \A n : Shown(d, n) => Shown(d, n)'
    BY <1>2, <2>1 DEF Shown
  <2> QED
    BY <1>1, <1>2, <2>2 DEF CoveredAt
<1>3. CASE PublisherStep
  <2>1. UNCHANGED <<listener, sending, to, dead, done, client, registered,
                    snapped, got, copy, gone>>
    BY <1>3, PublisherFrame DEF clientVars
  <2> QED
    BY <1>2, <2>1
<1>4. CASE Subscribe \/ ListenerFails
  <2>1. /\ UNCHANGED <<sending, to, done, client, snapped, got, copy, gone>>
        /\ listener' # "sending"
    BY <1>4 DEF Subscribe, ListenerFails, clientVars
  <2> QED
    BY <1>2, <2>1
<1>5. CASE TakeMessage
  <2>1. /\ UNCHANGED <<done, client, snapped, got, copy, gone>>
        /\ to' = registered
    BY <1>5 DEF TakeMessage, clientVars
  <2>2. \A n : Has(d, n) => Has(d, n)'
    BY <2>1, HasKept
  <2>3. client[d] # "away" => d \in to'
    BY <1>0, <2>1
  <2>4. \A n : Shown(d, n) => Shown(d, n)'
    BY <2>1, <2>2 DEF Shown
  <2> QED
    BY <1>1, <2>1, <2>3, <2>4 DEF CoveredAt
<1>6. CASE BroadcastEnds
  <2>1. /\ UNCHANGED <<sending, to, client, snapped, got, copy, gone>>
        /\ listener = "sending" /\ to = {} /\ listener' = "listening"
        /\ done' = IF sending = 0 THEN done ELSE sending
    BY <1>6 DEF BroadcastEnds, AlertMessage
  <2>2. \A n : Has(d, n) => Has(d, n)'
    BY <2>1, HasKept
  <2>3. \A n : Shown(d, n) => Shown(d, n)'
    BY <2>1, <2>2 DEF Shown
  <2> QED
    BY <1>1, <2>1, <2>3 DEF CoveredAt
<1>7. ASSUME NEW c \in Clients, SendTo(c)
      PROVE  CoveredAt(d)'
  <2>1. /\ UNCHANGED <<listener, sending, done, client, snapped, copy, gone>>
        /\ to' = to \ {c} /\ d \notin gone
    BY <1>7 DEF SendTo
  <2>2. CASE d # c
    <3>1. got'[d] = got[d]
      BY <1>0, <1>7, <2>2 DEF SendTo
    <3> QED
      BY <1>2, <2>1, <2>2, <3>1
  <2>3. CASE d = c
    <3>1. got'[d] = IF sending = 0 THEN got[d] ELSE Append(got[d], sending)
      BY <1>0, <1>7, <2>1, <2>3 DEF SendTo, AlertMessage
    <3>2. sending \in Nat
      BY <1>0
    <3>3. \A n : Has(d, n) => Has(d, n)'
      BY <3>1, <3>2, HasKept
    <3>4. \A n : Shown(d, n) => Shown(d, n)'
      BY <2>1, <3>3 DEF Shown
    <3>5. sending # 0 => Has(d, sending)'
      <4>1. ASSUME sending # 0
            PROVE  \A n \in Nat : n <= sending => Has(d, n)'
        BY <3>1, <3>2, <4>1, HasSent
      <4>2. PICK n \in Nat : n = sending /\ n <= sending
        BY <3>2
      <4> QED
        BY <2>1, <4>1, <4>2 DEF Has
    <3> QED
      BY <1>1, <2>1, <3>4, <3>5 DEF CoveredAt, Shown
  <2> QED
    BY <2>2, <2>3
<1>8. ASSUME NEW c \in Clients, Connect(c)
      PROVE  CoveredAt(d)'
  <2>1. /\ UNCHANGED <<listener, sending, to, done, copy>>
        /\ client' = [client EXCEPT ![c] = "keys"]
        /\ got' = [got EXCEPT ![c] = <<>>]
        /\ snapped' = [snapped EXCEPT ![c] = FALSE]
        /\ gone' = gone \ {c}
    BY <1>8 DEF Connect, taskVars
  <2>2. CASE d # c
    BY <1>0, <1>2, <2>1, <2>2
  <2>3. CASE d = c
    BY <1>0, <2>1, <2>3 DEF CoveredAt
  <2> QED
    BY <2>2, <2>3
<1>9. ASSUME NEW c \in Clients, ReadSnapshot(c)
      PROVE  CoveredAt(d)'
  <2>1. /\ UNCHANGED <<place, listener, sending, to, done, got, snapped, gone>>
        /\ client' = [client EXCEPT ![c] = "send"]
        /\ copy' = [copy EXCEPT ![c] = place]
    BY <1>9 DEF ReadSnapshot, pubVars, taskVars
  <2>2. CASE d # c
    BY <1>0, <1>2, <2>1, <2>2
  <2>3. CASE d = c
    <3>1. /\ client'[d] = "send" /\ copy'[d] = place
          /\ place >= done /\ place >= sending
      BY <1>0, <2>1, <2>3
    <3> QED
      BY <2>1, <3>1 DEF CoveredAt, Shown
  <2> QED
    BY <2>2, <2>3
<1>10. ASSUME NEW c \in Clients, SendSnapshot(c)
       PROVE  CoveredAt(d)'
  <2>1. /\ UNCHANGED <<listener, sending, to, done, gone>>
        /\ client[c] = "send" /\ c \notin gone
        /\ client' = [client EXCEPT ![c] = "open"]
        /\ snapped' = [snapped EXCEPT ![c] = TRUE]
        /\ copy' = [copy EXCEPT ![c] = 0]
        /\ got' = [got EXCEPT ![c] = IF copy[c] = 0 THEN @
                                     ELSE Append(@, copy[c])]
    BY <1>10 DEF SendSnapshot, taskVars
  <2>2. CASE d # c
    BY <1>0, <1>2, <2>1, <2>2
  <2>3. CASE d = c
    <3>1. copy[d] \in Nat /\ client[d] = "send"
      BY <1>0, <2>1, <2>3
    <3>2. got'[d] = IF copy[d] = 0 THEN got[d] ELSE Append(got[d], copy[d])
      BY <1>0, <2>1, <2>3
    <3>3. \A n : Has(d, n) => Has(d, n)'
      BY <3>1, <3>2, HasKept
    <3>4. \A n \in Nat : (n # 0 /\ n <= copy[d]) => Has(d, n)'
      <4> SUFFICES ASSUME NEW n \in Nat, n # 0, n <= copy[d]
                   PROVE  Has(d, n)'
        OBVIOUS
      <4>1. got'[d] = Append(got[d], copy[d])
        BY <3>1, <3>2
      <4> QED
        BY <3>1, <4>1, HasSent
    <3>5. \A n \in Nat : (n # 0 /\ Shown(d, n)) => Shown(d, n)'
      BY <3>1, <3>3, <3>4 DEF Shown
    <3>6. done \in Nat /\ sending \in Nat
      BY <1>0
    <3>7. CoveredAt(d) /\ done' = done /\ sending' = sending
            /\ listener' = listener /\ to' = to
      BY <1>1, <2>1, <2>3
    <3>8. done # 0 => Shown(d, done)'
      <4>1. PICK n \in Nat : n = done
        BY <3>6
      <4>2. done # 0 => Shown(d, n)'
        BY <3>1, <3>5, <3>7, <4>1 DEF CoveredAt
      <4> QED
        BY <3>7, <4>1, <4>2 DEF Shown, Has
    <3>9. (listener = "sending" /\ sending # 0 /\ d \notin to)
             => Shown(d, sending)'
      <4>1. PICK n \in Nat : n = sending
        BY <3>6
      <4>2. (listener = "sending" /\ sending # 0 /\ d \notin to)
               => Shown(d, n)'
        BY <3>1, <3>5, <3>7, <4>1 DEF CoveredAt
      <4> QED
        BY <3>7, <4>1, <4>2 DEF Shown, Has
    <3> QED
      BY <3>7, <3>8, <3>9 DEF CoveredAt
  <2> QED
    BY <2>2, <2>3
<1>11. ASSUME NEW c \in Clients, SnapshotFails(c)
       PROVE  CoveredAt(d)'
  <2>1. /\ UNCHANGED <<listener, sending, to, done, got, snapped, gone>>
        /\ client[c] \in {"keys", "send"}
        /\ client' = [client EXCEPT ![c] = "open"]
        /\ copy' = [copy EXCEPT ![c] = 0]
    BY <1>11 DEF SnapshotFails, taskVars
  <2>2. CASE d # c
    BY <1>0, <1>2, <2>1, <2>2
  <2>3. CASE d = c
    BY <1>0, <2>1, <2>3 DEF CoveredAt
  <2> QED
    BY <2>2, <2>3
<1>12. ASSUME NEW c \in Clients, Leave(c) \/ Disconnect(c)
       PROVE  CoveredAt(d)'
  <2>1. /\ UNCHANGED <<listener, sending, to, done, copy, got, snapped>>
        /\ gone \subseteq gone'
        /\ client' = client \/ client' = [client EXCEPT ![c] = "away"]
    BY <1>12 DEF Leave, Disconnect, taskVars
  <2>2. CASE client'[d] = client[d]
    BY <1>2, <2>1, <2>2
  <2>3. CASE client'[d] # client[d]
    BY <1>0, <2>1, <2>3 DEF CoveredAt
  <2> QED
    BY <2>2, <2>3
<1>13. CASE UNCHANGED feedVars
  BY <1>2, <1>13 DEF feedVars, taskVars, clientVars
<1> QED
  BY <1>3, <1>4, <1>5, <1>6, <1>7, <1>8, <1>9, <1>10, <1>11, <1>12, <1>13
     DEF FeedNext, Broadcast

LEMMA CoveredIsNoGap == Covered => NoGap
  BY DEF Covered, NoGap, Shown

-----------------------------------------------------------------------------
(* What a client is shown goes back once at most.                           *)

LEMMA StepsBackAppend ==
    ASSUME NEW s \in Seq(Nat), NEW x \in Nat
    PROVE  /\ StepsBack(Append(s, x)) \subseteq StepsBack(s) \union {Len(s) + 1}
           /\ (s = <<>> \/ s[Len(s)] < x)
                 => StepsBack(Append(s, x)) = StepsBack(s)
<1>1. /\ Len(s) \in Nat /\ Len(Append(s, x)) = Len(s) + 1
      /\ \A i \in 1 .. Len(s) : Append(s, x)[i] = s[i] /\ s[i] \in Nat
      /\ Append(s, x)[Len(s) + 1] = x
  OBVIOUS
<1>2. ASSUME NEW i \in 2 .. Len(s)
      PROVE  /\ i \in 2 .. (Len(s) + 1) /\ i \in 1 .. Len(s)
             /\ i - 1 \in 1 .. Len(s)
  BY <1>1
<1>3. \A i \in 2 .. (Len(s) + 1) : i \in 2 .. Len(s) \/ i = Len(s) + 1
  BY <1>1
<1>4. \A i \in 2 .. Len(s) : i \in StepsBack(Append(s, x)) <=> i \in StepsBack(s)
  BY <1>1, <1>2 DEF StepsBack
<1>5. \A i \in StepsBack(s) : i \in 2 .. Len(s)
  BY DEF StepsBack
<1>6. \A i \in StepsBack(Append(s, x)) : i \in 2 .. Len(s) \/ i = Len(s) + 1
  BY <1>1, <1>3 DEF StepsBack
<1>7. StepsBack(Append(s, x)) \subseteq StepsBack(s) \union {Len(s) + 1}
  BY <1>4, <1>6
<1>8. ASSUME s = <<>> \/ s[Len(s)] < x
      PROVE  Len(s) + 1 \notin StepsBack(Append(s, x))
  <2>1. CASE s = <<>>
    <3>1. Len(s) = 0
      BY <2>1, EmptySeq
    <3>2. Len(s) + 1 \notin 2 .. (Len(s) + 1)
      BY <3>1
    <3> QED
      BY <1>1, <3>2 DEF StepsBack
  <2>2. CASE s # <<>>
    <3>1. Len(s) \in 1 .. Len(s) /\ (Len(s) + 1) - 1 = Len(s)
      BY <1>1, <2>2, EmptySeq
    <3>2. Append(s, x)[(Len(s) + 1) - 1] = s[Len(s)]
      BY <1>1, <3>1
    <3>3. ~(x <= s[Len(s)])
      BY <1>1, <1>8, <2>2, <3>1
    <3> QED
      BY <1>1, <3>2, <3>3 DEF StepsBack
  <2> QED
    BY <2>1, <2>2
<1> QED
  BY <1>4, <1>5, <1>6, <1>7, <1>8

\* The parts of OneStepBack about one client.
Newest(c) == got[c] # <<>> =>
                \A n \in Ahead(c) : n # 0 => got[c][Len(got[c])] < n
BackAt(c) ==
    /\ ~snapped[c] => StepsBack(got[c]) = {}
    /\ \A i, j \in StepsBack(got[c]) : i = j
    /\ (~snapped[c] \/ StepsBack(got[c]) # {}) => Newest(c)

LEMMA OneStepBackAt ==
    /\ OneStepBack <=> \A c \in Clients : BackAt(c)
    /\ OneStepBack' <=> \A c \in Clients : BackAt(c)'
  BY DEF OneStepBack, BackAt, Newest

\* A client that was sent nothing, and has nothing new on its way.
LEMMA BackKept ==
    ASSUME NEW d \in Clients, BackAt(d),
           got'[d] = got[d], snapped'[d] = snapped[d],
           \A n \in Ahead(d)' : n = 0 \/ n \in Ahead(d)
    PROVE  BackAt(d)'
<1>1. Newest(d) => Newest(d)'
  BY DEF Newest
<1> QED
  BY <1>1 DEF BackAt

LEMMA OneStepBackStep ==
    FeedTypeOK /\ Bookkeeping /\ PositionsOrdered /\ OneStepBack
      /\ [FeedNext]_feedVars
        => OneStepBack'
<1> SUFFICES ASSUME FeedTypeOK, Bookkeeping, PositionsOrdered, OneStepBack,
                    [FeedNext]_feedVars, NEW d \in Clients
             PROVE  BackAt(d)'
  BY OneStepBackAt
<1>0. /\ place \in Nat /\ MaxPositions \in Nat /\ queue \in Seq(0 .. place)
      /\ sending \in 0 .. place /\ copy \in [Clients -> 0 .. place]
      /\ client \in [Clients -> Phases] /\ snapped \in [Clients -> BOOLEAN]
      /\ got \in [Clients -> Seq(1 .. MaxPositions)]
      /\ client[d] \in {"keys", "send"} => ~snapped[d]
  BY FeedAssumption DEF FeedTypeOK, Bookkeeping
<1>1. BackAt(d)
  BY OneStepBackAt
<1>2. /\ got[d] \in Seq(Nat) /\ Len(got[d]) \in Nat
      /\ \A i \in DOMAIN got[d] : got[d][i] \in Nat /\ got[d][i] <= place
      /\ got[d] # <<>> => Len(got[d]) \in DOMAIN got[d]
  <2>1. got[d] \in Seq(1 .. MaxPositions)
    BY <1>0
  <2>2. 1 .. MaxPositions \subseteq Nat
    BY <1>0
  <2>3. got[d] \in Seq(Nat)
    BY <2>1, <2>2, SeqMonotonic
  <2>4. got[d] # <<>> => Len(got[d]) \in DOMAIN got[d]
    BY <2>3, EmptySeq
  <2> QED
    BY <2>3, <2>4 DEF Bookkeeping
\* What is on its way to the client is of these three kinds.
<1>3. \A n : n \in Ahead(d) <=> \/ \E i \in DOMAIN queue : n = queue[i]
                                \/ d \in to /\ n = sending
                                \/ ~announced /\ n = place
  BY DEF Ahead
<1>4. \A n : n \in Ahead(d)' <=> \/ \E i \in DOMAIN queue' : n = queue'[i]
                                 \/ d \in to' /\ n = sending'
                                 \/ ~announced' /\ n = place'
  BY DEF Ahead
<1>5. CASE SetPosition
  <2>1. /\ UNCHANGED <<queue, to, sending, got, snapped>>
        /\ announced /\ place' = place + 1
    BY <1>5 DEF SetPosition, taskVars, clientVars
  <2>2. \A n \in Ahead(d)' : n \in Ahead(d) \/ n = place'
    BY <1>3, <1>4, <2>1
  <2>3. got[d] # <<>> => got[d][Len(got[d])] < place'
    <3>1. got[d] # <<>> => /\ got[d][Len(got[d])] \in Nat
                           /\ got[d][Len(got[d])] <= place
      BY <1>2
    <3> QED
      BY <1>0, <2>1, <3>1
  <2>4. Newest(d) => Newest(d)'
    BY <2>1, <2>2, <2>3 DEF Newest
  <2> QED
    BY <1>1, <2>1, <2>4 DEF BackAt
<1>6. CASE PublishPosition
  <2>1. /\ UNCHANGED <<place, to, sending, got, snapped>>
        /\ ~announced /\ announced' = TRUE
    BY <1>6 DEF PublishPosition, clientVars
  <2>2. queue' = queue \/ queue' = Append(queue, place)
    BY <1>6, Delivered DEF PublishPosition
  <2>3. \A i \in DOMAIN queue' :
           queue'[i] = place \/ \E j \in DOMAIN queue : queue'[i] = queue[j]
    <3>1. place \in 0 .. place
      BY <1>0
    <3> QED
      BY <1>0, <2>2, <3>1, AppendHas
  <2> QED
    BY <1>1, <1>3, <1>4, <2>1, <2>3, BackKept
<1>7. CASE PublishFails
  <2>1. /\ UNCHANGED <<place, to, sending, queue, got, snapped>>
        /\ announced' = TRUE
    BY <1>7 DEF PublishFails, taskVars, clientVars
  <2> QED
    BY <1>1, <1>3, <1>4, <2>1, BackKept
<1>8. ASSUME NEW type \in AnomalyTypes, PublishAlert(type)
      PROVE  BackAt(d)'
  <2>1. UNCHANGED <<place, announced, to, sending, got, snapped>>
    BY <1>8 DEF PublishAlert, clientVars
  <2>2. queue' = queue \/ queue' = Append(queue, 0)
    BY <1>8, AlertFrame
  <2>3. \A i \in DOMAIN queue' :
           queue'[i] = 0 \/ \E j \in DOMAIN queue : queue'[i] = queue[j]
    <3>1. 0 \in 0 .. place
      BY <1>0
    <3> QED
      BY <1>0, <2>2, <3>1, AppendHas
  <2> QED
    BY <1>1, <1>3, <1>4, <2>1, <2>3, BackKept
<1>9. CASE Subscribe \/ ListenerFails \/ BroadcastEnds
  <2>1. /\ UNCHANGED <<place, announced, to, sending, got, snapped>>
        /\ queue' = queue \/ queue' = <<>>
    BY <1>9 DEF Subscribe, ListenerFails, BroadcastEnds, pubVars, clientVars
  <2>2. DOMAIN queue' = {} \/ queue' = queue
    BY <2>1
  <2> QED
    BY <1>1, <1>3, <1>4, <2>1, <2>2, BackKept
<1>10. CASE TakeMessage
  <2>1. /\ UNCHANGED <<place, announced, got, snapped>> /\ queue # <<>>
        /\ sending' = Head(queue) /\ queue' = Tail(queue)
    BY <1>10 DEF TakeMessage, pubVars, clientVars
  <2>2. /\ 1 \in DOMAIN queue /\ sending' = queue[1]
        /\ \A i \in DOMAIN queue' :
              i + 1 \in DOMAIN queue /\ queue'[i] = queue[i + 1]
    BY <1>0, <2>1
  <2> QED
    BY <1>1, <1>3, <1>4, <2>1, <2>2, BackKept
<1>11. ASSUME NEW c \in Clients, SendTo(c)
       PROVE  BackAt(d)'
  <2>1. /\ UNCHANGED <<place, announced, sending, queue, snapped>>
        /\ c \in to /\ to' = to \ {c}
        /\ got' = got \/ got' = [got EXCEPT ![c] =
              IF sending = 0 THEN @ ELSE Append(@, sending)]
    BY <1>11 DEF SendTo, pubVars, AlertMessage
  <2>2. \A n \in Ahead(d)' : n \in Ahead(d)
    BY <1>3, <1>4, <2>1
  <2>3. CASE got'[d] = got[d]
    BY <1>1, <2>1, <2>2, <2>3, BackKept
  <2>4. CASE got'[d] # got[d]
    <3>1. /\ d = c /\ sending # 0 /\ sending \in Nat
          /\ got'[d] = Append(got[d], sending)
      BY <1>0, <2>1, <2>4
    <3>2. sending \in Ahead(d)
      BY <1>3, <2>1, <3>1
    <3>3. \A n \in Ahead(d)' : n # 0 => sending < n
      <4>1. \A i \in DOMAIN queue : queue[i] # 0 => sending < queue[i]
        BY <2>1 DEF PositionsOrdered
      <4>2. ~announced => sending < place
        BY <2>1 DEF PositionsOrdered
      <4> QED
        BY <1>4, <2>1, <3>1, <4>1, <4>2
    <3>4. Newest(d)'
      <4>1. got'[d][Len(got'[d])] = sending
        BY <1>2, <3>1
      <4> QED
        BY <3>3, <4>1 DEF Newest
    <3>5. CASE ~snapped[d] \/ StepsBack(got[d]) # {}
      <4>1. got[d] = <<>> \/ got[d][Len(got[d])] < sending
        BY <1>1, <3>1, <3>2, <3>5 DEF BackAt, Newest
      <4>2. StepsBack(got'[d]) = StepsBack(got[d])
        BY <1>2, <3>1, <4>1, StepsBackAppend
      <4> QED
        BY <1>1, <2>1, <3>4, <4>2 DEF BackAt
    <3>6. CASE snapped[d] /\ StepsBack(got[d]) = {}
      <4>1. StepsBack(got'[d]) \subseteq {Len(got[d]) + 1}
        BY <1>2, <3>1, <3>6, StepsBackAppend
      <4> QED
        BY <2>1, <3>4, <3>6, <4>1 DEF BackAt
    <3> QED
      BY <1>0, <3>5, <3>6
  <2> QED
    BY <2>3, <2>4
<1>12. ASSUME NEW c \in Clients, Connect(c)
       PROVE  BackAt(d)'
  <2>1. /\ UNCHANGED <<place, announced, to, sending, queue>>
        /\ got' = [got EXCEPT ![c] = <<>>]
        /\ snapped' = [snapped EXCEPT ![c] = FALSE]
    BY <1>12 DEF Connect, pubVars, taskVars
  <2>2. CASE d # c
    <3>1. got'[d] = got[d] /\ snapped'[d] = snapped[d]
      BY <1>0, <2>1, <2>2
    <3>2. \A n \in Ahead(d)' : n \in Ahead(d)
      BY <1>3, <1>4, <2>1
    <3> QED
      BY <1>1, <3>1, <3>2, BackKept
  <2>3. CASE d = c
    <3>1. got'[d] = <<>>
      BY <1>0, <2>1, <2>3
    <3>2. Newest(d)'
      BY <3>1 DEF Newest
    <3>3. StepsBack(got'[d]) = {}
      <4>1. Len(got'[d]) = 0
        BY <3>1, EmptySeq
      <4>2. 2 .. 0 = {}
        OBVIOUS
      <4> QED
        BY <4>1, <4>2 DEF StepsBack
    <3> QED
      BY <3>2, <3>3 DEF BackAt
  <2> QED
    BY <2>2, <2>3
<1>13. ASSUME NEW c \in Clients, SendSnapshot(c)
       PROVE  BackAt(d)'
  <2>1. /\ UNCHANGED <<place, announced, to, sending, queue>>
        /\ client[c] = "send"
        /\ snapped' = [snapped EXCEPT ![c] = TRUE]
        /\ got' = [got EXCEPT ![c] = IF copy[c] = 0 THEN @
                                     ELSE Append(@, copy[c])]
    BY <1>13 DEF SendSnapshot, pubVars, taskVars
  <2>2. \A n \in Ahead(d)' : n \in Ahead(d)
    BY <1>3, <1>4, <2>1
  <2>3. CASE d # c
    BY <1>0, <1>1, <2>1, <2>2, <2>3, BackKept
  <2>4. CASE d = c
    <3>1. /\ ~snapped[d] /\ snapped'[d] /\ copy[d] \in Nat
          /\ got'[d] = IF copy[d] = 0 THEN got[d] ELSE Append(got[d], copy[d])
      BY <1>0, <2>1, <2>4
    <3>2. StepsBack(got[d]) = {} /\ Newest(d)
      BY <1>1, <3>1 DEF BackAt
    <3>3. CASE copy[d] = 0
      BY <2>2, <3>1, <3>2, <3>3 DEF BackAt, Newest
    <3>4. CASE copy[d] # 0 /\ (got[d] = <<>> \/ got[d][Len(got[d])] < copy[d])
      <4>1. StepsBack(got'[d]) = {}
        BY <1>2, <3>1, <3>2, <3>4, StepsBackAppend
      <4> QED
        BY <3>1, <4>1 DEF BackAt
    <3>5. CASE /\ copy[d] # 0
               /\ ~(got[d] = <<>> \/ got[d][Len(got[d])] < copy[d])
      <4>1. StepsBack(got'[d]) \subseteq {Len(got[d]) + 1}
        BY <1>2, <3>1, <3>2, <3>5, StepsBackAppend
      <4>2. got'[d][Len(got'[d])] = copy[d]
        BY <1>2, <3>1, <3>5
      <4>3. /\ got[d][Len(got[d])] \in Nat
            /\ copy[d] <= got[d][Len(got[d])]
        BY <1>2, <3>1, <3>5
      <4>4. \A n \in Ahead(d)' : n \in Nat
        <5>1. \A n \in Ahead(d) : n \in Nat
          <6>1. \A i \in DOMAIN queue : queue[i] \in Nat
            BY <1>0
          <6>2. place \in Nat /\ sending \in Nat
            BY <1>0
          <6> QED
            BY <1>3, <6>1, <6>2
        <5> QED
          BY <2>2, <5>1
      <4>5. \A n \in Ahead(d)' : n # 0 => got[d][Len(got[d])] < n
        BY <2>2, <3>2, <3>5 DEF Newest
      <4>6. \A n \in Ahead(d)' : n # 0 => copy[d] < n
        BY <3>1, <4>3, <4>4, <4>5
      <4>7. Newest(d)'
        BY <4>2, <4>6 DEF Newest
      <4> QED
        BY <3>1, <4>1, <4>7 DEF BackAt
    <3> QED
      BY <3>3, <3>4, <3>5
  <2> QED
    BY <2>3, <2>4
<1>14. CASE \/ \E c \in Clients : \/ ReadSnapshot(c) \/ SnapshotFails(c)
                                  \/ Leave(c) \/ Disconnect(c)
            \/ UNCHANGED feedVars
  <2>1. UNCHANGED <<place, announced, to, sending, queue, got, snapped>>
    BY <1>14 DEF ReadSnapshot, SnapshotFails, Leave, Disconnect, feedVars,
                 pubVars, taskVars, clientVars
  <2> QED
    BY <1>1, <1>3, <1>4, <2>1, BackKept
<1> QED
  BY <1>5, <1>6, <1>7, <1>8, <1>9, <1>10, <1>11, <1>12, <1>13, <1>14
     DEF FeedNext, PublisherStep, Broadcast

LEMMA OneStepBackIsPerClient == OneStepBack => OneStepBackPerClient
<1> SUFFICES ASSUME OneStepBack, NEW c \in Clients
             PROVE  Cardinality(StepsBack(got[c]))
                       <= IF snapped[c] THEN 1 ELSE 0
  BY DEF OneStepBackPerClient, StepsBack
<1>1. /\ ~snapped[c] => StepsBack(got[c]) = {}
      /\ \A i, j \in StepsBack(got[c]) : i = j
  BY DEF OneStepBack
<1>2. CASE StepsBack(got[c]) = {}
  BY <1>2, FS_EmptySet
<1>3. CASE StepsBack(got[c]) # {}
  <2>1. PICK x : StepsBack(got[c]) = {x}
    BY <1>1, <1>3
  <2>2. Cardinality(StepsBack(got[c])) = 1 /\ snapped[c]
    BY <1>1, <1>3, <2>1, FS_Singleton
  <2> QED
    BY <2>2
<1> QED
  BY <1>2, <1>3

-----------------------------------------------------------------------------
\* A client that is connected misses no position from its snapshot on, and is
\* taken back by that snapshot once at most, for any number of clients,
\* positions, connections and errors (redis_listener, websocket_endpoint).
THEOREM FeedCorrect == FeedSpec => []FeedInv
<1> DEFINE Inductive == /\ FeedTypeOK /\ Bookkeeping /\ Covered
                        /\ PositionsOrdered /\ OneStepBack
<1>1. FeedInit => Inductive
  <2> SUFFICES ASSUME FeedInit
               PROVE  Inductive
    OBVIOUS
  <2>1. FeedTypeOK
    BY FeedTypeInit
  <2>2. /\ announced /\ queue = <<>> /\ to = {} /\ dead = {} /\ done = 0
        /\ listener = "connecting"
        /\ \A c \in Clients : /\ client[c] = "away" /\ got[c] = <<>>
                              /\ ~snapped[c]
    BY DEF FeedInit
  <2>3. /\ DOMAIN queue = {}
        /\ \A c \in Clients : DOMAIN got[c] = {} /\ Len(got[c]) = 0
    BY <2>2, EmptySeq
  <2>4. Bookkeeping
    BY <2>2, <2>3 DEF Bookkeeping
  <2>5. Covered
    BY <2>2 DEF Covered
  <2>6. PositionsOrdered
    BY <2>2, <2>3 DEF PositionsOrdered
  <2>7. \A c \in Clients : StepsBack(got[c]) = {}
    <3>1. 2 .. 0 = {}
      OBVIOUS
    <3> QED
      BY <2>3, <3>1 DEF StepsBack
  <2>8. OneStepBack
    BY <2>2, <2>7 DEF OneStepBack
  <2> QED
    BY <2>1, <2>4, <2>5, <2>6, <2>8
<1>2. Inductive /\ [FeedNext]_feedVars => Inductive'
  BY FeedTypeStep, BookkeepingStep, CoveredStep, PositionsOrderedStep,
     OneStepBackStep
<1>3. Inductive => FeedInv
  BY CoveredIsNoGap, OneStepBackIsPerClient DEF FeedInv
<1> QED
  BY <1>1, <1>2, <1>3, PTL DEF FeedSpec

=============================================================================
