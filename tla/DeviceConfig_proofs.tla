------------------------- MODULE DeviceConfig_proofs -------------------------
(***************************************************************************)
(* Proofs about DeviceConfig: the types and the places of the consumer in  *)
(* its topic (ConfigTypeOK, ThreadShape); that nothing the group's offset  *)
(* has passed was left out (HandledIsPublished, CommittedIsPublished); and *)
(* that what is retained is the newest (RetainedIsNewest).                 *)
(***************************************************************************)
EXTENDS DeviceConfig, SequenceTheorems, TLAPS

\* A configuration names a device and the settings it is for.
LEMMA GoodMessage ==
    ASSUME NEW m \in Message, m.kind = "good"
    PROVE  m.device \in Devices /\ m.sets \in SUBSET Settings
  BY DEF Message

LEMMA NoneInHand == \A p \in Nat : \A b : Len(b) = 0 => p - Len(b) = p
  OBVIOUS

\* What is in hand lies behind the position.
LEMMA InHand ==
    ASSUME ConfigTypeOK, ThreadShape, thread = "processing"
    PROVE  /\ Head(batch) = Handled + 1
           /\ Handled + 1 \in 1 .. position
           /\ Handled + 1 \in 1 .. Len(configs)
           /\ Tail(batch) \in Seq(Nat)
           /\ Len(Tail(batch)) = Len(batch) - 1
           /\ \A k \in DOMAIN Tail(batch) : Tail(batch)[k] = batch[k + 1]
           /\ \A k \in DOMAIN Tail(batch) : k + 1 \in DOMAIN batch
<1>1. /\ batch \in Seq(Nat) /\ batch # <<>> /\ position \in 0 .. Len(configs)
      /\ configs \in Seq(Message)
      /\ \A k \in DOMAIN batch : batch[k] = position - Len(batch) + k
  BY DEF ConfigTypeOK, ThreadShape
<1>2. Len(batch) \in Nat \ {0} /\ 1 \in DOMAIN batch /\ Head(batch) = batch[1]
  BY <1>1
<1>3. position - Len(batch) \in Nat
  BY DEF ThreadShape, Handled
<1> QED
  BY <1>1, <1>2, <1>3 DEF Handled

\* What Publish leaves as it is, and the types of the rest.
LEMMA PublishType ==
    ASSUME ConfigTypeOK, NEW i \in 1 .. Len(configs), Good(i), Publish(i)
    PROVE  /\ sent' \subseteq sent \union {i} /\ sent \subseteq sent'
           /\ excused' \subseteq excused \union {i} /\ excused \subseteq excused'
           /\ i \in sent' \union excused'
           /\ retained' \in [Devices -> {0} \union sent']
           /\ applied' \in [Devices -> [Settings -> {0} \union sent']]
<1>1. configs[i].device \in Devices
  BY GoodMessage DEF Good, ConfigTypeOK
<1>2. /\ retained \in [Devices -> {0} \union sent]
      /\ applied \in [Devices -> [Settings -> {0} \union sent]]
  BY DEF ConfigTypeOK
<1>3. CASE mqtt
  <2>1. sent' = sent \union {i} /\ excused' = excused
          /\ retained' = [retained EXCEPT ![configs[i].device] = i]
    BY <1>3 DEF Publish
  <2>2. applied' \in [Devices -> [Settings -> {0} \union sent']]
    BY <1>1, <1>2, <1>3, <2>1 DEF Publish, Apply
  <2> QED
    BY <1>1, <1>2, <2>1, <2>2
<1>4. CASE ~mqtt
  BY <1>2, <1>4 DEF Publish
<1> QED
  BY <1>3, <1>4

-----------------------------------------------------------------------------
(* Types.                                                                   *)

\* ConfigTypeOK by the variables that change together.
TopicOK  == configs \in Seq(Message) /\ offset \in {None} \union 0 .. Len(configs)
ThreadOK == /\ thread \in {"new", "polling", "processing", "gone"}
            /\ position \in 0 .. Len(configs)
            /\ \A k \in DOMAIN batch : batch[k] = position - Len(batch) + k
            /\ stopping \in BOOLEAN /\ mqtt \in BOOLEAN
HistoryOK == sent \subseteq 1 .. Len(configs)
               /\ excused \subseteq 1 .. Len(configs)
DeviceOK == /\ retained \in [Devices -> {0} \union sent]
            /\ online \subseteq Devices
            /\ applied \in [Devices -> [Settings -> {0} \union sent]]
BoundOK  == drops \in 0 .. MaxMqttDrops /\ ends \in 0 .. MaxEnds

ConfigParts == TopicOK /\ ThreadOK /\ HistoryOK /\ DeviceOK /\ BoundOK

LEMMA ConfigTypeParts == ConfigTypeOK <=> ConfigParts
  BY DEF ConfigTypeOK, ConfigParts, TopicOK, ThreadOK, HistoryOK, DeviceOK,
         BoundOK

LEMMA ConfigTypePartsNext == ConfigTypeOK' <=> ConfigParts'
  BY DEF ConfigTypeOK, ConfigParts, TopicOK, ThreadOK, HistoryOK, DeviceOK,
         BoundOK

\* The types and the thread's places survive every step.
LEMMA ConfigTypeStep ==
    ConfigTypeOK /\ ThreadShape /\ [ConfigNext]_configVars
        => ConfigTypeOK' /\ ThreadShape'
<1> SUFFICES ASSUME ConfigTypeOK, ThreadShape, [ConfigNext]_configVars
             PROVE  ConfigParts' /\ ThreadShape'
  BY ConfigTypePartsNext
<1>0. /\ TopicOK /\ ThreadOK /\ HistoryOK /\ DeviceOK /\ BoundOK
      /\ Len(configs) \in Nat /\ position \in Nat
      /\ batch \in Seq(Nat) /\ Len(batch) \in Nat
      /\ MaxMqttDrops \in Nat /\ MaxEnds \in Nat
  <2>1. TopicOK /\ ThreadOK /\ HistoryOK /\ DeviceOK /\ BoundOK
    BY ConfigTypeParts DEF ConfigParts
  <2> QED
    BY <2>1, ConfigAssumption DEF TopicOK, ThreadOK, ThreadShape
<1>1. ASSUME NEW m \in Message, Configure(m)
      PROVE  ConfigParts' /\ ThreadShape'
  <2>1. configs' \in Seq(Message) /\ Len(configs') = Len(configs) + 1
    BY <1>0, <1>1 DEF Configure, TopicOK
  <2>2. UNCHANGED <<offset, thread, position, batch, stopping, mqtt, sent,
                    excused, retained, online, applied, drops, ends>>
    BY <1>1 DEF Configure
  <2>3. TopicOK' /\ ThreadOK' /\ HistoryOK'
    BY <1>0, <2>1, <2>2 DEF TopicOK, ThreadOK, HistoryOK
  <2>4. DeviceOK' /\ BoundOK' /\ ThreadShape'
    BY <1>0, <2>2 DEF DeviceOK, BoundOK, ThreadShape, Handled
  <2> QED
    BY <2>3, <2>4 DEF ConfigParts
<1>2. CASE JoinGroup
  <2>1. /\ UNCHANGED <<configs, offset, batch, stopping, mqtt, sent, retained,
                       online, applied, drops, ends>>
        /\ thread' = "polling" /\ batch = <<>> /\ ~stopping
    BY <1>2 DEF JoinGroup, ThreadShape
  <2>2. /\ position' \in 0 .. Len(configs) /\ offset <= position'
        /\ excused' \subseteq 1 .. Len(configs)
    <3>1. CASE offset = None
      <4>1. /\ position' = Len(configs)
            /\ excused' = excused \union 1 .. Len(configs)
        BY <1>2, <3>1 DEF JoinGroup
      <4>2. offset <= Len(configs)
        BY <1>0, <3>1 DEF None
      <4> QED
        <5>1. position' \in 0 .. Len(configs)
          BY <1>0, <4>1
        <5>2. offset <= position'
          BY <4>1, <4>2
        <5>3. excused' \subseteq 1 .. Len(configs)
          BY <1>0, <4>1 DEF HistoryOK
        <5> QED
          BY <5>1, <5>2, <5>3
    <3>2. CASE offset # None
      BY <1>0, <1>2, <3>2 DEF JoinGroup, TopicOK, HistoryOK
    <3> QED
      BY <3>1, <3>2
  <2>3. TopicOK' /\ ThreadOK' /\ HistoryOK' /\ DeviceOK' /\ BoundOK'
    BY <1>0, <2>1, <2>2
       DEF TopicOK, ThreadOK, HistoryOK, DeviceOK, BoundOK
  <2>4. Len(batch) = 0 /\ position' \in Nat
    BY <1>0, <2>1, <2>2, EmptySeq
  <2>5. ThreadShape'
    <3>1. position' \in Nat /\ Len(batch') = 0 /\ offset' <= position'
      BY <2>1, <2>2, <2>4
    <3>2. Handled' = position'
      BY <3>1, NoneInHand, Zenon DEF Handled
    <3>3. Handled' \in Nat /\ offset' <= Handled'
      BY <3>1, <3>2
    <3>4. batch' = batch
      BY <2>1
    <3> QED
      BY <1>0, <2>1, <3>2, <3>3, <3>4 DEF ThreadShape
  <2> QED
    BY <2>3, <2>5 DEF ConfigParts
<1>3. CASE JoinFails
  BY <1>0, <1>3
     DEF JoinFails, ConfigParts, TopicOK, ThreadOK, HistoryOK, DeviceOK, BoundOK,
         ThreadShape, Handled
<1>4. ASSUME NEW n \in 1 .. MaxConfigs, Poll(n)
      PROVE  ConfigParts' /\ ThreadShape'
  <2>1. /\ UNCHANGED <<configs, stopping, mqtt, sent, excused, retained,
                       online, applied, drops, ends>>
        /\ thread = "polling" /\ thread' = "processing" /\ ~stopping
        /\ position' = position + n /\ position + n <= Len(configs)
        /\ batch' = [i \in 1 .. n |-> position + i]
        /\ offset' \in {offset, position}
    BY <1>4 DEF Poll, CommitInPoll
  <2>2. n \in Nat \ {0}
    BY ConfigAssumption
  <2>3. /\ batch' \in Seq(Nat) /\ Len(batch') = n /\ batch' # <<>>
        /\ \A k \in DOMAIN batch' : batch'[k] = position' - Len(batch') + k
    <3>1. \A i \in 1 .. n : position + i \in Nat
      BY <1>0, <2>2
    <3>2. batch' \in [1 .. n -> Nat]
      BY <2>1, <3>1
    <3>3. batch' \in Seq(Nat) /\ Len(batch') = n /\ DOMAIN batch' = 1 .. n
      BY <2>2, <3>2, IsASeq, LenProperties
    <3>4. \A k \in 1 .. n : batch'[k] = position' - n + k
      BY <1>0, <2>1, <2>2
    <3> QED
      BY <2>2, <3>3, <3>4, EmptySeq
  <2>4. batch = <<>> /\ offset <= position
    BY <1>0, <2>1 DEF ThreadShape, Handled
  <2>5. TopicOK' /\ ThreadOK'
    BY <1>0, <2>1, <2>2, <2>3 DEF TopicOK, ThreadOK
  <2>6. HistoryOK' /\ DeviceOK' /\ BoundOK'
    BY <1>0, <2>1 DEF HistoryOK, DeviceOK, BoundOK
  <2>7. ThreadShape'
    BY <1>0, <2>1, <2>2, <2>3, <2>4 DEF ThreadShape, Handled, TopicOK
  <2> QED
    BY <2>5, <2>6, <2>7 DEF ConfigParts
<1>5. CASE Process
  <2>1. /\ UNCHANGED <<configs, offset, position, stopping, mqtt, online,
                       drops, ends>>
        /\ thread = "processing" /\ batch' = Tail(batch)
        /\ thread' = IF batch' = <<>> THEN "polling" ELSE "processing"
    BY <1>5 DEF Process
  <2>2. /\ Head(batch) \in 1 .. Len(configs)
        /\ batch' \in Seq(Nat) /\ Len(batch') = Len(batch) - 1
        /\ \A k \in DOMAIN batch' : batch'[k] = batch[k + 1]
        /\ \A k \in DOMAIN batch' : k + 1 \in DOMAIN batch
    BY <2>1, InHand
  <2>3. ThreadOK'
    BY <1>0, <2>1, <2>2 DEF ThreadOK
  <2>4. HistoryOK' /\ DeviceOK'
    <3>1. CASE Good(Head(batch))
      <4>1. Publish(Head(batch))
        BY <1>5, <3>1 DEF Process
      <4>2. /\ sent' \subseteq sent \union {Head(batch)}
            /\ excused' \subseteq excused \union {Head(batch)}
            /\ retained' \in [Devices -> {0} \union sent']
            /\ applied' \in [Devices -> [Settings -> {0} \union sent']]
        BY <2>2, <3>1, <4>1, PublishType
      <4> QED
        BY <1>0, <2>1, <2>2, <4>2 DEF HistoryOK, DeviceOK
    <3>2. CASE ~Good(Head(batch))
      BY <1>0, <1>5, <2>1, <3>2 DEF Process, HistoryOK, DeviceOK
    <3> QED
      BY <3>1, <3>2
  <2>5. TopicOK' /\ BoundOK'
    BY <1>0, <2>1 DEF TopicOK, BoundOK
  <2>6. ThreadShape'
    <3>1. /\ Handled \in Nat
          /\ IF stopping THEN offset = position ELSE offset <= Handled
      BY <2>1 DEF ThreadShape
    <3>2. Handled' = Handled + 1
      BY <1>0, <2>1, <2>2 DEF Handled
    <3>3. offset \in Int
      BY <1>0 DEF TopicOK, None
    <3> QED
      BY <2>1, <2>2, <3>1, <3>2, <3>3 DEF ThreadShape
  <2> QED
    BY <2>3, <2>4, <2>5, <2>6 DEF ConfigParts
<1>6. CASE StopSubscriber \/ MqttDrops \/ MqttReturns
  <2>1. /\ UNCHANGED <<configs, offset, thread, position, batch, stopping,
                       sent, excused, retained, online, applied>>
        /\ mqtt' \in BOOLEAN
        /\ drops' \in 0 .. MaxMqttDrops /\ ends' \in 0 .. MaxEnds
    <3>1. /\ UNCHANGED <<configs, offset, thread, position, batch, stopping,
                         sent, excused, retained, online, applied>>
          /\ mqtt' \in BOOLEAN
      BY <1>6 DEF StopSubscriber, MqttDrops, MqttReturns
    <3>2. /\ drops' \in {drops, drops + 1} /\ (drops' = drops \/ drops < MaxMqttDrops)
          /\ ends' \in {ends, ends + 1} /\ (ends' = ends \/ ends < MaxEnds)
      BY <1>6 DEF StopSubscriber, MqttDrops, MqttReturns
    <3>3. drops' \in 0 .. MaxMqttDrops
      BY <1>0, <3>2 DEF BoundOK
    <3>4. ends' \in 0 .. MaxEnds
      BY <1>0, <3>2 DEF BoundOK
    <3> QED
      BY <3>1, <3>3, <3>4
  <2> QED
    BY <1>0, <2>1 DEF ConfigParts, TopicOK, ThreadOK, HistoryOK, DeviceOK,
                      BoundOK, ThreadShape, Handled
<1>7. CASE StopConsumer
  <2>1. /\ UNCHANGED <<configs, thread, position, batch, mqtt, sent, excused,
                       retained, online, applied, drops, ends>>
        /\ stopping' = TRUE
        /\ offset' = IF thread \in {"polling", "processing"} THEN position
                                                              ELSE offset
    BY <1>7 DEF StopConsumer
  <2>2. TopicOK' /\ ThreadOK' /\ HistoryOK' /\ DeviceOK' /\ BoundOK'
    BY <1>0, <2>1 DEF TopicOK, ThreadOK, HistoryOK, DeviceOK, BoundOK
  <2>3. ThreadShape'
    BY <1>0, <2>1 DEF ThreadShape, Handled
  <2> QED
    BY <2>2, <2>3 DEF ConfigParts
<1>8. CASE StartAgain \/ Killed
  <2>1. /\ NewProcess
        /\ UNCHANGED <<configs, offset, sent, retained, online, applied,
                       drops>>
    BY <1>8 DEF StartAgain, Killed
  <2>2. excused' \subseteq 1 .. Len(configs)
    <3>1. \A k \in DOMAIN batch : batch[k] \in 1 .. Len(configs)
      <4>1. \A k \in DOMAIN batch : k \in 1 .. Len(batch)
        BY <1>0
      <4>2. position - Len(batch) \in Nat
        BY DEF ThreadShape, Handled
      <4> QED
        BY <1>0, <4>1, <4>2 DEF ThreadOK
    <3> QED
      BY <1>0, <1>8, <3>1 DEF StartAgain, Killed, HistoryOK
  <2>3. ends' \in 0 .. MaxEnds
    BY <1>0, <1>8, ConfigAssumption DEF StartAgain, Killed, BoundOK
  <2>4. TopicOK' /\ ThreadOK' /\ HistoryOK' /\ DeviceOK' /\ BoundOK'
    <3>1. ThreadOK'
      <4>1. batch' \in Seq(Nat) /\ Len(batch') = 0 /\ DOMAIN batch' = {}
        BY <2>1, EmptySeq DEF NewProcess
      <4>2. position' \in 0 .. Len(configs')
        BY <1>0, <2>1 DEF NewProcess
      <4> QED
        BY <2>1, <4>1, <4>2 DEF NewProcess, ThreadOK
    <3> QED
      BY <1>0, <2>1, <2>2, <2>3, <3>1
         DEF TopicOK, HistoryOK, DeviceOK, BoundOK
  <2>5. ThreadShape'
    BY <2>1 DEF NewProcess, ThreadShape, Handled
  <2> QED
    BY <2>4, <2>5 DEF ConfigParts
<1>9. ASSUME NEW d \in Devices, DeviceDrops(d) \/ DeviceReturns(d)
      PROVE  ConfigParts' /\ ThreadShape'
  <2>1. /\ UNCHANGED <<configs, offset, thread, position, batch, stopping,
                       mqtt, sent, excused, retained, ends>>
        /\ online' \subseteq Devices /\ drops' \in 0 .. MaxMqttDrops
    BY <1>0, <1>9, ConfigAssumption
       DEF DeviceDrops, DeviceReturns, DeviceOK, BoundOK
  <2>2. applied' \in [Devices -> [Settings -> {0} \union sent]]
    <3>1. /\ applied \in [Devices -> [Settings -> {0} \union sent]]
          /\ retained[d] \in {0} \union sent
      BY <1>0 DEF DeviceOK
    <3>2. CASE Apply(d, retained[d])
      BY <3>1, <3>2 DEF Apply
    <3> QED
      BY <1>9, <3>1, <3>2 DEF DeviceDrops, DeviceReturns
  <2> QED
    BY <1>0, <2>1, <2>2 DEF ConfigParts, TopicOK, ThreadOK, HistoryOK, DeviceOK,
                            BoundOK, ThreadShape, Handled
<1>10. CASE UNCHANGED configVars
  BY <1>0, <1>10 DEF configVars, ConfigParts, TopicOK, ThreadOK, HistoryOK, DeviceOK,
                     BoundOK, ThreadShape, Handled
<1> QED
  BY <1>1, <1>2, <1>3, <1>4, <1>5, <1>6, <1>7, <1>8, <1>9, <1>10
     DEF ConfigNext, Work

\* The start is of the right types.
LEMMA ConfigTypeInit == ConfigInit => ConfigTypeOK /\ ThreadShape
<1> SUFFICES ASSUME ConfigInit
             PROVE  ConfigTypeOK /\ ThreadShape
  OBVIOUS
<1>1. configs \in Seq(Message) /\ Len(configs) = 0
  BY EmptySeq DEF ConfigInit
<1>2. batch \in Seq(Nat) /\ Len(batch) = 0 /\ DOMAIN batch = {}
  BY EmptySeq DEF ConfigInit
<1>3. ThreadShape
  BY <1>2 DEF ConfigInit, ThreadShape, Handled
<1>4. 0 \in 0 .. MaxMqttDrops /\ 0 \in 0 .. MaxEnds
  BY ConfigAssumption
<1>5. TopicOK /\ HistoryOK /\ DeviceOK
  BY <1>1 DEF ConfigInit, TopicOK, HistoryOK, DeviceOK
<1>6. ThreadOK
  <2>1. position \in 0 .. Len(configs)
    BY <1>1 DEF ConfigInit
  <2> QED
    BY <1>2, <2>1 DEF ConfigInit, ThreadOK
<1>7. BoundOK
  BY <1>4 DEF ConfigInit, BoundOK
<1> QED
  BY <1>3, <1>5, <1>6, <1>7, ConfigTypeParts DEF ConfigParts

-----------------------------------------------------------------------------
(* The offset.                                                              *)

\* What the offset has passed was handed to MQTT.
LEMMA PublishedStep ==
    /\ ConfigTypeOK /\ ThreadShape /\ HandledIsPublished
    /\ CommittedIsPublished /\ [ConfigNext]_configVars
    => HandledIsPublished' /\ CommittedIsPublished'
<1> SUFFICES ASSUME ConfigTypeOK, ThreadShape, HandledIsPublished,
                    CommittedIsPublished, [ConfigNext]_configVars
             PROVE  HandledIsPublished' /\ CommittedIsPublished'
  OBVIOUS
<1> DEFINE Told(i) == i \in sent \union excused
           InBatch(i) == \E k \in DOMAIN batch : batch[k] = i
<1>0. /\ position \in Nat /\ Handled \in Nat /\ Len(configs) \in Nat
      /\ offset \in Int /\ offset <= Len(configs)
      /\ position <= Len(configs) /\ Handled <= position
      /\ batch \in Seq(Nat) /\ Len(batch) \in Nat
      /\ configs \in Seq(Message)
      /\ \A k \in DOMAIN batch : batch[k] = Handled + k
      /\ sent \subseteq 1 .. Len(configs)
  BY DEF ConfigTypeOK, ThreadShape, Handled, None
<1>1. /\ \A i \in sent : Good(i)
      /\ \A i \in 1 .. Handled : Good(i) => Told(i)
      /\ \A i \in 1 .. offset : Good(i) => Told(i) \/ (stopping /\ InBatch(i))
  BY DEF HandledIsPublished, CommittedIsPublished
\* Where messages, what was told of them and the numbers stay as they are.
<1>2. ASSUME /\ \A i \in 1 .. Len(configs) : Good(i)' <=> Good(i)
             /\ sent' = sent /\ excused \subseteq excused'
             /\ Handled' \in 0 .. Handled
             /\ offset' \in Int
             /\ offset' <= offset \/ offset' <= Handled
             /\ \A i \in 1 .. Len(configs) :
                   stopping /\ InBatch(i)
                      => i \in excused' \/ (stopping' /\ InBatch(i)')
      PROVE  HandledIsPublished' /\ CommittedIsPublished'
  <2>1. HandledIsPublished'
    BY <1>0, <1>1, <1>2 DEF HandledIsPublished
  <2>2. ASSUME NEW i \in 1 .. offset', Good(i)'
        PROVE  Told(i)' \/ (stopping' /\ InBatch(i)')
    <3>1. i \in 1 .. Len(configs) /\ Good(i)
      BY <1>0, <1>2, <2>2
    <3>2. Told(i) \/ (stopping /\ InBatch(i))
      BY <1>0, <1>1, <1>2, <2>2, <3>1
    <3> QED
      BY <1>2, <3>1, <3>2
  <2> QED
    BY <2>1, <2>2 DEF CommittedIsPublished
<1>3. ASSUME NEW m \in Message, Configure(m)
      PROVE  HandledIsPublished' /\ CommittedIsPublished'
  <2>1. /\ UNCHANGED <<offset, position, batch, stopping, sent, excused>>
        /\ configs' = Append(configs, m)
    BY <1>3 DEF Configure
  <2>2. \A i \in 1 .. Len(configs) : Good(i)' <=> Good(i)
    BY <1>0, <2>1 DEF Good
  <2> QED
    BY <1>0, <1>2, <2>1, <2>2 DEF Handled
<1>4. CASE JoinGroup
  <2>1. /\ UNCHANGED <<configs, offset, batch, stopping, sent>>
        /\ batch = <<>> /\ ~stopping
        /\ position' = IF offset = None THEN Len(configs) ELSE offset
        /\ excused' = IF offset = None THEN excused \union 1 .. Len(configs)
                                         ELSE excused
    BY <1>4 DEF JoinGroup, ThreadShape
  <2>2. Handled' = position'
    <3>1. position' \in Int
      BY <1>0, <2>1
    <3> QED
      BY <2>1, <3>1, EmptySeq DEF Handled
  <2>3. \A i : Good(i)' <=> Good(i)
    BY <2>1 DEF Good
  <2>4. \A i \in 1 .. position' : Good(i) => Told(i)'
    <3>1. CASE offset = None
      BY <2>1, <3>1
    <3>2. CASE offset # None
      BY <1>1, <2>1, <3>2
    <3> QED
      BY <3>1, <3>2
  <2>5. \A i \in 1 .. offset' : Good(i) => Told(i)'
    BY <1>1, <2>1
  <2> QED
    BY <1>1, <2>1, <2>2, <2>3, <2>4, <2>5
       DEF HandledIsPublished, CommittedIsPublished
<1>5. ASSUME NEW n \in 1 .. MaxConfigs, Poll(n)
      PROVE  HandledIsPublished' /\ CommittedIsPublished'
  <2>1. /\ UNCHANGED <<configs, stopping, sent, excused>>
        /\ ~stopping /\ batch = <<>>
        /\ position' = position + n
        /\ batch' = [i \in 1 .. n |-> position + i]
        /\ offset' \in {offset, position}
    BY <1>5 DEF Poll, CommitInPoll, ThreadShape
  <2>2. n \in Nat
    BY ConfigAssumption
  <2>3. Len(batch') = n
    BY <1>0, <2>1, <2>2
  <2>4. Handled = position /\ Handled' = position
    <3>1. Handled = position
      BY <1>0, <2>1, EmptySeq DEF Handled
    <3>2. Handled' = position
      BY <1>0, <2>1, <2>2, <2>3 DEF Handled
    <3> QED
      BY <3>1, <3>2
  <2>5. \A i \in 1 .. Len(configs) : Good(i)' <=> Good(i)
    BY <2>1 DEF Good
  <2> QED
    BY <1>0, <1>2, <2>1, <2>4, <2>5
<1>6. CASE Process
  <2>1. /\ UNCHANGED <<configs, offset, position, stopping>>
        /\ thread = "processing" /\ batch' = Tail(batch)
        /\ Head(batch) = Handled + 1 /\ Handled + 1 \in 1 .. Len(configs)
        /\ Len(batch') = Len(batch) - 1
        /\ \A k \in DOMAIN batch' : batch'[k] = batch[k + 1]
        /\ DOMAIN batch' = 1 .. Len(batch')
    BY <1>6, InHand DEF Process
  <2>2. Handled' = Handled + 1
    <3>1. position' = position /\ Len(batch') = Len(batch) - 1
      BY <2>1
    <3> QED
      BY <1>0, <3>1 DEF Handled
  <2>3. \A i : Good(i)' <=> Good(i)
    BY <2>1 DEF Good
  <2>9. PICK h \in 1 .. Len(configs) : h = Handled + 1
    BY <2>1
  <2>4. /\ sent' \subseteq sent \union {h} /\ sent \subseteq sent'
        /\ excused \subseteq excused'
        /\ Good(h) => Told(h)'
        /\ ~Good(h) => sent' = sent
    <3>1. CASE Good(h)
      <4>1. Publish(h)
        BY <1>6, <2>1, <2>9, <3>1 DEF Process
      <4> QED
        BY <3>1, <4>1, PublishType
    <3>2. CASE ~Good(h)
      BY <1>6, <2>1, <2>9, <3>2 DEF Process
    <3> QED
      BY <3>1, <3>2
  <2>5. \A i : Told(i) => Told(i)'
    BY <2>4
  <2>6. \A i \in 1 .. Handled' : Good(i) => Told(i)'
    <3>1. \A i \in 1 .. Handled' : i \in 1 .. Handled \/ i = h
      BY <1>0, <2>2, <2>9
    <3> QED
      BY <1>1, <2>4, <2>5, <3>1
  <2>7. HandledIsPublished'
    BY <1>1, <2>3, <2>4, <2>6 DEF HandledIsPublished
  <2>8. ASSUME NEW i \in 1 .. offset', Good(i)'
        PROVE  Told(i)' \/ (stopping' /\ InBatch(i)')
    <3>1. i \in 1 .. offset /\ Good(i) /\ i \in Int
      BY <2>1, <2>3, <2>8
    <3>2. CASE stopping /\ InBatch(i)
      <4>1. PICK k \in DOMAIN batch : batch[k] = i
        BY <3>2
      <4>2. k \in 1 .. Len(batch) /\ i = Handled + k
        BY <1>0, <4>1
      <4>3. CASE k = 1
        BY <2>9, <2>4, <3>1, <4>2, <4>3
      <4>4. CASE k # 1
        <5>0. k \in 1 .. Len(batch) /\ k # 1
          BY <4>2, <4>4
        <5>1. k - 1 \in DOMAIN batch' /\ batch'[k - 1] = batch[(k - 1) + 1]
          <6>1. /\ Len(batch) \in Nat /\ Len(batch') = Len(batch) - 1
                /\ DOMAIN batch' = 1 .. Len(batch')
            BY <1>0, <2>1
          <6>2. k - 1 \in 1 .. (Len(batch) - 1)
            BY ONLY <5>0, <6>1
          <6>3. k - 1 \in DOMAIN batch'
            BY ONLY <6>1, <6>2
          <6> QED
            BY <2>1, <6>3
        <5>2. batch'[k - 1] = i
          BY <4>1, <4>2, <5>1
        <5> QED
          BY <2>1, <3>2, <5>1, <5>2
      <4> QED
        BY <4>3, <4>4
    <3> QED
      BY <1>1, <2>5, <3>1, <3>2
  <2> QED
    BY <2>7, <2>8 DEF CommittedIsPublished
<1>7. CASE StopConsumer
  <2>1. /\ UNCHANGED <<configs, thread, position, batch, sent, excused>>
        /\ stopping' = TRUE
        /\ offset' = IF thread \in {"polling", "processing"} THEN position
                                                              ELSE offset
        /\ ~stopping
    BY <1>7 DEF StopConsumer
  <2>2. Handled' = Handled /\ \A i : Good(i)' <=> Good(i)
    BY <2>1 DEF Handled, Good
  <2>3. ASSUME NEW i \in 1 .. offset', Good(i)
        PROVE  Told(i) \/ InBatch(i)
    <3>1. CASE offset' = offset
      BY <1>1, <2>1, <2>3, <3>1
    <3>2. CASE offset' = position /\ i <= Handled
      BY <1>0, <1>1, <2>3, <3>2
    <3>3. CASE offset' = position /\ Handled < i
      <4>1. i - Handled \in 1 .. Len(batch)
        BY <1>0, <3>3 DEF Handled
      <4>2. i - Handled \in DOMAIN batch /\ batch[i - Handled] = i
        BY <1>0, <4>1
      <4> QED
        BY <4>2
    <3> QED
      BY <1>0, <2>1, <3>1, <3>2, <3>3
  <2> QED
    BY <1>1, <2>1, <2>2, <2>3 DEF HandledIsPublished, CommittedIsPublished
<1>8. CASE StartAgain \/ Killed
  <2>1. /\ UNCHANGED <<configs, offset, sent>>
        /\ position' = 0 /\ batch' = <<>> /\ excused \subseteq excused'
    BY <1>8 DEF StartAgain, Killed, NewProcess
  <2>2. Handled' = 0
    <3>1. Len(batch') = 0
      BY <2>1, EmptySeq
    <3>2. position' = 0
      BY <2>1
    <3> QED
      BY <3>1, <3>2 DEF Handled
  <2>3. \A i \in 1 .. Len(configs) : Good(i)' <=> Good(i)
    BY <2>1 DEF Good
  <2>4. \A i : stopping /\ InBatch(i) => i \in excused'
    <3>1. CASE StartAgain
      <4>1. batch = <<>>
        BY <3>1 DEF StartAgain, ThreadShape
      <4>2. DOMAIN batch = {}
        BY <4>1
      <4> QED
        BY <4>2
    <3>2. CASE Killed
      BY <3>2 DEF Killed
    <3> QED
      BY <1>8, <3>1, <3>2
  <2> QED
    BY <1>0, <1>2, <2>1, <2>2, <2>3, <2>4
<1>9. CASE \/ JoinFails \/ StopSubscriber \/ MqttDrops \/ MqttReturns
           \/ \E d \in Devices : DeviceDrops(d) \/ DeviceReturns(d)
           \/ UNCHANGED configVars
  <2>1. UNCHANGED <<configs, offset, position, batch, stopping, sent, excused>>
    BY <1>9 DEF JoinFails, StopSubscriber, MqttDrops, MqttReturns,
                DeviceDrops, DeviceReturns, configVars
  <2> QED
    BY <1>1, <2>1
       DEF HandledIsPublished, CommittedIsPublished, Handled, Good
<1> QED
  BY <1>3, <1>4, <1>5, <1>6, <1>7, <1>8, <1>9 DEF ConfigNext, Work

\* The types, and that what the group's offset has passed was handed to MQTT.
THEOREM ConfigCorrect == ConfigSpec => []ConfigInv
<1>1. ConfigInit => ConfigInv
  <2>1. ASSUME ConfigInit
        PROVE  HandledIsPublished /\ CommittedIsPublished
    <3>1. sent = {} /\ offset = -1 /\ Handled = 0
      <4>1. sent = {} /\ offset = -1 /\ position = 0 /\ Len(batch) = 0
        BY <2>1, EmptySeq DEF ConfigInit, None
      <4> QED
        BY <4>1 DEF Handled
    <3>2. 1 .. Handled = {} /\ 1 .. offset = {}
      BY <3>1
    <3> QED
      BY <3>1, <3>2 DEF HandledIsPublished, CommittedIsPublished
  <2> QED
    BY <2>1, ConfigTypeInit DEF ConfigInv
<1>2. ConfigInv /\ [ConfigNext]_configVars => ConfigInv'
  BY ConfigTypeStep, PublishedStep DEF ConfigInv
<1> QED
  BY <1>1, <1>2, PTL DEF ConfigSpec

-----------------------------------------------------------------------------
(* What is retained.                                                        *)

\* RetainedIsNewest looks back to here.
ReadAgainFrom == IF thread \in {"polling", "processing"} THEN Handled ELSE offset

\* What is retained for a device stays its newest configuration.
LEMMA RetainedStep ==
    ConfigInv /\ RetainedIsNewest /\ [ConfigNext]_configVars
    => RetainedIsNewest'
<1> SUFFICES ASSUME ConfigInv, RetainedIsNewest, [ConfigNext]_configVars
             PROVE  RetainedIsNewest'
  OBVIOUS
<1> DEFINE Newest(i) == i <= retained[configs[i].device]
           InBatch(i) == \E k \in DOMAIN batch : batch[k] = i
<1>0. /\ position \in Nat /\ Handled \in Nat /\ Len(configs) \in Nat
      /\ offset \in Int /\ offset <= Len(configs)
      /\ batch \in Seq(Nat) /\ Len(batch) \in Nat
      /\ configs \in Seq(Message)
      /\ \A k \in DOMAIN batch : batch[k] = Handled + k
      /\ sent \subseteq 1 .. Len(configs)
      /\ retained \in [Devices -> {0} \union sent]
      /\ \A i \in sent : configs[i].device \in Devices /\ Good(i)
      /\ \A i \in sent \ excused : Newest(i) \/ i > ReadAgainFrom
      /\ thread \in {"polling", "processing"} =>
            IF stopping THEN offset = position ELSE offset <= Handled
  <2>1. \A i \in sent : configs[i].device \in Devices /\ Good(i)
    BY GoodMessage DEF ConfigInv, HandledIsPublished, ConfigTypeOK, Good
  <2>2. \A i \in sent \ excused : Newest(i) \/ i > ReadAgainFrom
    BY DEF RetainedIsNewest, ReadAgainFrom, Handled
  <2>3. position \in Nat /\ Len(configs) \in Nat /\ offset \in Int
          /\ offset <= Len(configs)
    BY DEF ConfigInv, ConfigTypeOK, None
  <2> QED
    BY <2>1, <2>2, <2>3 DEF ConfigInv, ConfigTypeOK, ThreadShape, Handled
<1>1. ReadAgainFrom \in Int
  BY <1>0 DEF ReadAgainFrom
\* Steps that hand nothing to MQTT.
<1>2. ASSUME /\ sent' = sent /\ retained' = retained
             /\ excused \subseteq excused'
             /\ \A i \in sent : configs'[i] = configs[i]
             /\ ReadAgainFrom' \in Int
             /\ \A i \in sent :
                   i > ReadAgainFrom => i > ReadAgainFrom' \/ i \in excused'
      PROVE  RetainedIsNewest'
  <2>1. \A i \in (sent \ excused)' : Newest(i)' \/ i > ReadAgainFrom'
    BY <1>0, <1>2
  <2> QED
    BY <2>1 DEF RetainedIsNewest, ReadAgainFrom, Handled
<1>3. ASSUME NEW m \in Message, Configure(m)
      PROVE  RetainedIsNewest'
  <2>1. /\ UNCHANGED <<offset, thread, position, batch, sent, excused,
                       retained>>
        /\ configs' = Append(configs, m)
    BY <1>3 DEF Configure
  <2>2. \A i \in sent : configs'[i] = configs[i]
    BY <1>0, <2>1
  <2>3. ReadAgainFrom' = ReadAgainFrom
    BY <2>1 DEF ReadAgainFrom, Handled
  <2> QED
    BY <1>1, <1>2, <2>1, <2>2, <2>3
<1>4. CASE JoinGroup
  <2>1. /\ UNCHANGED <<configs, offset, batch, sent, retained>>
        /\ thread = "new" /\ thread' = "polling" /\ batch = <<>>
        /\ position' = IF offset = None THEN Len(configs) ELSE offset
        /\ excused' = IF offset = None THEN excused \union 1 .. Len(configs)
                                         ELSE excused
    BY <1>4 DEF JoinGroup, ConfigInv, ThreadShape
  <2>2. position' \in Int
    BY <1>0, <2>1
  <2>3. ReadAgainFrom = offset /\ ReadAgainFrom' = position'
    BY <2>1, <2>2, EmptySeq DEF ReadAgainFrom, Handled
  <2>4. offset # None => position' = offset
    BY <2>1
  <2>5. \A i \in sent : i > ReadAgainFrom => i > ReadAgainFrom' \/ i \in excused'
    <3>1. CASE offset = None
      BY <1>0, <2>1, <3>1
    <3>2. CASE offset # None
      BY <2>3, <2>4, <3>2
    <3> QED
      BY <3>1, <3>2
  <2> QED
    BY <1>2, <2>1, <2>2, <2>3, <2>5
<1>5. ASSUME NEW n \in 1 .. MaxConfigs, Poll(n)
      PROVE  RetainedIsNewest'
  <2>1. /\ UNCHANGED <<configs, sent, excused, retained>>
        /\ thread = "polling" /\ thread' = "processing" /\ batch = <<>>
        /\ position' = position + n
        /\ batch' = [i \in 1 .. n |-> position + i]
    BY <1>5 DEF Poll, ConfigInv, ThreadShape
  <2>2. n \in Nat
    BY ConfigAssumption
  <2>3. Len(batch') = n
    BY <1>0, <2>1, <2>2
  <2>4. Handled = position /\ Handled' = position
    <3>1. Handled = position
      BY <1>0, <2>1, EmptySeq DEF Handled
    <3>2. Handled' = position
      BY <1>0, <2>1, <2>2, <2>3 DEF Handled
    <3> QED
      BY <3>1, <3>2
  <2>5. ReadAgainFrom' = ReadAgainFrom
    BY <2>1, <2>4 DEF ReadAgainFrom
  <2> QED
    BY <1>1, <1>2, <2>1, <2>5
<1>6. CASE Process
  <2>1. /\ configs' = configs /\ position' = position
        /\ thread = "processing" /\ thread' \in {"polling", "processing"}
        /\ batch' = Tail(batch)
        /\ Head(batch) = Handled + 1 /\ Handled + 1 \in 1 .. Len(configs)
        /\ Len(batch') = Len(batch) - 1
    BY <1>6, InHand DEF Process, ConfigInv
  <2>2. Handled' = Handled + 1
    <3>1. position' = position /\ Len(batch') = Len(batch) - 1
      BY <2>1
    <3> QED
      BY <1>0, <3>1 DEF Handled
  <2>3. ReadAgainFrom = Handled /\ ReadAgainFrom' = Handled + 1
    BY <2>1, <2>2 DEF ReadAgainFrom
  <2>4. CASE Good(Handled + 1) /\ mqtt
    <3>1. /\ sent' = sent \union {Handled + 1} /\ excused' = excused
          /\ retained' =
                [retained EXCEPT ![configs[Handled + 1].device] = Handled + 1]
      BY <1>6, <2>1, <2>4 DEF Process, Publish
    <3>2. ASSUME NEW i \in (sent \ excused)'
          PROVE  Newest(i)' \/ i > ReadAgainFrom'
      <4>1. CASE configs[i].device = configs[Handled + 1].device
        <5>1. configs[Handled + 1].device \in Devices
          BY <1>0, <2>1, <2>4, GoodMessage DEF Good
        <5>2. retained'[configs'[i].device] = Handled + 1
          BY <1>0, <2>1, <3>1, <4>1, <5>1
        <5>3. i <= Handled + 1 \/ i > Handled + 1
          BY <1>0, <2>1, <3>1
        <5> QED
          BY <2>3, <5>2, <5>3
      <4>2. CASE configs[i].device # configs[Handled + 1].device
        <5>1. i # Handled + 1 /\ i \in sent \ excused /\ i \in Int
          BY <1>0, <3>1, <4>2
        <5>2. retained'[configs'[i].device] = retained[configs[i].device]
          BY <1>0, <2>1, <3>1, <4>2, <5>1
        <5>3. Newest(i) \/ i > Handled
          BY <1>0, <2>3, <5>1
        <5>4. i > Handled => i > Handled + 1
          BY <1>0, <5>1
        <5> QED
          BY <2>3, <5>2, <5>3, <5>4
      <4> QED
        BY <4>1, <4>2
    <3> QED
      BY <3>2 DEF RetainedIsNewest, ReadAgainFrom, Handled
  <2>5. CASE ~(Good(Handled + 1) /\ mqtt)
    <3>1. /\ sent' = sent /\ retained' = retained /\ excused \subseteq excused'
          /\ Good(Handled + 1) => Handled + 1 \in excused'
      BY <1>6, <2>1, <2>5 DEF Process, Publish
    <3>2. \A i \in sent : i > Handled => i > Handled + 1 \/ i \in excused'
      <4> SUFFICES ASSUME NEW i \in sent, i > Handled
                   PROVE  i > Handled + 1 \/ i \in excused'
        OBVIOUS
      <4>1. i > Handled + 1 \/ i = Handled + 1
        BY <1>0
      <4> QED
        BY <1>0, <3>1, <4>1
    <3>3. Handled + 1 \in Int
      BY <1>0
    <3> QED
      BY <1>2, <2>1, <2>3, <3>1, <3>2, <3>3
  <2> QED
    BY <2>4, <2>5
<1>7. CASE StopConsumer
  <2>1. /\ UNCHANGED <<configs, thread, position, batch, sent, excused,
                       retained>>
        /\ thread \notin {"polling", "processing"} => offset' = offset
    BY <1>7 DEF StopConsumer
  <2>2. ReadAgainFrom' = ReadAgainFrom
    BY <2>1 DEF ReadAgainFrom, Handled
  <2> QED
    BY <1>1, <1>2, <2>1, <2>2
<1>8. CASE StartAgain \/ Killed
  <2>1. /\ UNCHANGED <<configs, offset, sent, retained>>
        /\ thread' = "new" /\ excused \subseteq excused'
    BY <1>8 DEF StartAgain, Killed, NewProcess
  <2>2. ReadAgainFrom' = offset
    BY <2>1 DEF ReadAgainFrom
  <2>3. ASSUME NEW i \in sent, i > ReadAgainFrom
        PROVE  i > offset \/ i \in excused'
    <3>1. CASE thread \notin {"polling", "processing"}
      BY <2>3, <3>1 DEF ReadAgainFrom
    <3>2. CASE thread \in {"polling", "processing"} /\ ~stopping
      BY <1>0, <2>3, <3>2 DEF ReadAgainFrom
    <3>3. CASE thread \in {"polling", "processing"} /\ stopping
      <4>1. offset = position /\ i > Handled /\ i \in Int
        BY <1>0, <2>3, <3>3 DEF ReadAgainFrom
      <4>2. CASE i > position
        BY <4>1, <4>2
      <4>3. CASE i <= position
        <5>1. i - Handled \in DOMAIN batch /\ batch[i - Handled] = i
          <6>1. i - Handled \in 1 .. Len(batch)
            BY <1>0, <4>1, <4>3 DEF Handled
          <6> QED
            BY <1>0, <4>1, <6>1
        <5>2. batch # <<>>
          BY <5>1
        <5>3. Killed
          BY <1>8, <5>2 DEF StartAgain, ConfigInv, ThreadShape
        <5> QED
          BY <3>3, <5>1, <5>3 DEF Killed
      <4> QED
        BY <1>0, <4>1, <4>2, <4>3
    <3> QED
      BY <3>1, <3>2, <3>3
  <2> QED
    BY <1>0, <1>2, <2>1, <2>2, <2>3
<1>9. CASE \/ JoinFails \/ StopSubscriber \/ MqttDrops \/ MqttReturns
           \/ \E d \in Devices : DeviceDrops(d) \/ DeviceReturns(d)
           \/ UNCHANGED configVars
  <2>1. /\ UNCHANGED <<configs, offset, position, batch, sent, excused,
                       retained>>
        /\ thread' = thread \/ (thread = "new" /\ thread' = "gone")
    BY <1>9 DEF JoinFails, StopSubscriber, MqttDrops, MqttReturns,
                DeviceDrops, DeviceReturns, configVars
  <2>2. ReadAgainFrom' = ReadAgainFrom
    BY <2>1 DEF ReadAgainFrom, Handled
  <2> QED
    BY <1>1, <1>2, <2>1, <2>2
<1> QED
  BY <1>3, <1>4, <1>5, <1>6, <1>7, <1>8, <1>9 DEF ConfigNext, Work

\* What is retained for a device is its newest configuration, with the
\* exceptions that RetainedIsNewest names.
THEOREM RetainedCorrect == ConfigSpec => []RetainedIsNewest
<1>1. ConfigInit => RetainedIsNewest
  BY DEF ConfigInit, RetainedIsNewest
<1>2. ConfigInv /\ RetainedIsNewest /\ [ConfigNext]_configVars
        => RetainedIsNewest'
  BY RetainedStep
<1> QED
  BY <1>1, <1>2, ConfigCorrect, PTL DEF ConfigSpec
=============================================================================
