---------------------------- MODULE DeviceConfig ----------------------------
(***************************************************************************)
(* The way of a device's configuration: PUT .../config of the fleet        *)
(* service, the topic device.config, the thread of DeviceConfigConsumer    *)
(* in services/ingestion (app/config_consumer.py), the retained message    *)
(* of the MQTT broker, the device on the bus.                              *)
(*                                                                         *)
(* A message sets some of the device's settings: I, H and B stand for the  *)
(* three parts of the string the device is sent.  It may also lack its     *)
(* bus_id, or not be JSON (of another writer's making).  value_deserializer*)
(* raises for the latter inside poll, which leaves the position in front   *)
(* of what it was to hand out: the loop logs that and polls again, which   *)
(* is no step.  The good records that a fetch brought in front of such a   *)
(* message may share its fate (a client that unpacks a fetch as a whole    *)
(* hands out none of them; one that unpacks it record by record hands them *)
(* out first, and requirements.txt leaves the version open): Poll may take *)
(* them, and nothing makes it.  The MQTT client publishes with QoS 0 and   *)
(* keeps nothing for a connection that is down.                            *)
(***************************************************************************)
EXTENDS Integers, Sequences

CONSTANTS
    Devices,
    Settings,     \* of "I", "H", "B"
    Kinds,        \* kinds of messages, of "good", "noBus", "notJson"
    MaxConfigs,   \* bound: messages on the topic
    MaxMqttDrops, \* bound: connections lost, of the service and of devices
    MaxEnds       \* bound: ends of the process

ASSUME ConfigAssumption ==
    /\ Settings \subseteq {"I", "H", "B"}
    /\ Kinds \subseteq {"good", "noBus", "notJson"}
    /\ {MaxConfigs, MaxMqttDrops, MaxEnds} \subseteq Nat

VARIABLES
    configs,    \* the topic device.config
    offset,     \* the group's offset, or None
    thread,     \* where DeviceConfigConsumer is
    position,   \* records it has polled
    batch,      \* those of them it still has to process, by number
    stopping,   \* _stop_event
    mqtt,       \* is the MQTT client connected?
    sent,       \* messages the broker took (history)
    excused,    \* messages processed without a connection, or skipped by a
                \* consumer that joined at the end, or killed (history)
    retained,   \* device -> the message retained for it, 0: none
    online,     \* devices connected to the broker
    applied,    \* device -> setting -> the message it is from, 0: none
    drops, ends

configVars == <<configs, offset, thread, position, batch, stopping, mqtt,
                sent, excused, retained, online, applied, drops, ends>>

-----------------------------------------------------------------------------
None == -1
Message == [kind : Kinds \intersect {"good"}, device : Devices,
            sets : SUBSET Settings \ {{}}]
             \union [kind : Kinds \ {"good"}]
Good(i) == configs[i].kind = "good"

ConfigInit ==
    /\ configs = <<>>
    /\ offset = None
    /\ thread = "new" /\ position = 0 /\ batch = <<>>
    /\ stopping = FALSE /\ mqtt = TRUE
    /\ sent = {} /\ excused = {}
    /\ retained = [d \in Devices |-> 0]
    /\ online = Devices
    /\ applied = [d \in Devices |-> [s \in Settings |-> 0]]
    /\ drops = 0 /\ ends = 0

\* configure_bus, for a bus there is and a body that is not empty.
Configure(m) ==
    /\ Len(configs) < MaxConfigs
    /\ configs' = Append(configs, m)
    /\ UNCHANGED <<offset, thread, position, batch, stopping, mqtt, sent,
                   excused, retained, online, applied, drops, ends>>

-----------------------------------------------------------------------------
(* The thread.                                                              *)

\* auto_offset_reset is "latest".
JoinGroup ==
    /\ thread = "new" /\ ~stopping
    /\ thread' = "polling"
    /\ position' = IF offset = None THEN Len(configs) ELSE offset
    /\ excused' = IF offset = None THEN excused \union 1 .. Len(configs)
                                      ELSE excused
    /\ UNCHANGED <<configs, offset, batch, stopping, mqtt, sent, retained,
                   online, applied, drops, ends>>

\* No broker: the thread returns, and the service goes on without it.
JoinFails ==
    /\ thread = "new" /\ ends < MaxEnds
    /\ thread' = "gone"
    /\ UNCHANGED <<configs, offset, position, batch, stopping, mqtt, sent,
                   excused, retained, online, applied, drops, ends>>

\* Mutant of CommitInPoll: the records just polled are offset as well.
CommitInPoll_next == offset' \in {offset, position'}

\* enable_auto_commit, every five seconds, at the start of a poll.
CommitInPoll == offset' \in {offset, position}

\* The records it hands out are in front of any that does not deserialize.
Poll(n) ==
    /\ thread = "polling" /\ ~stopping
    /\ position + n <= Len(configs)
    /\ \A i \in position + 1 .. position + n : configs[i].kind # "notJson"
    /\ position' = position + n
    /\ batch' = [i \in 1 .. n |-> position + i]
    /\ thread' = "processing"
    /\ CommitInPoll
    /\ UNCHANGED <<configs, stopping, mqtt, sent, excused, retained, online,
                   applied, drops, ends>>

\* A device takes over what a message sets, and keeps the rest.
Apply(d, i) ==
    applied' = [applied EXCEPT ![d] =
                  [s \in Settings |-> IF s \in configs[i].sets THEN i
                                                               ELSE @[s]]]

\* publish_config.
Publish(i) ==
    LET d == configs[i].device IN
    IF mqtt
    THEN /\ sent' = sent \union {i}
         /\ retained' = [retained EXCEPT ![d] = i]
         /\ IF d \in online THEN Apply(d, i) ELSE applied' = applied
         /\ excused' = excused
    ELSE /\ excused' = excused \union {i}
         /\ UNCHANGED <<sent, retained, applied>>

\* Mutants of Process: the records are gone through from the last; a message
\* without bus_id ends the thread.
Process_newestFirst ==
    /\ thread = "processing"
    /\ LET i == batch[Len(batch)] IN
       IF Good(i) THEN Publish(i)
                  ELSE UNCHANGED <<sent, retained, applied, excused>>
    /\ batch' = SubSeq(batch, 1, Len(batch) - 1)
    /\ thread' = IF batch' = <<>> THEN "polling" ELSE "processing"
    /\ UNCHANGED <<configs, offset, position, stopping, mqtt, online,
                   drops, ends>>

Process_raises ==
    /\ thread = "processing"
    /\ LET i == Head(batch) IN
       /\ IF Good(i) THEN Publish(i)
                     ELSE UNCHANGED <<sent, retained, applied, excused>>
       /\ batch' = Tail(batch)
       /\ thread' = IF ~Good(i) THEN "gone" ELSE
                    IF batch' = <<>> THEN "polling" ELSE "processing"
    /\ UNCHANGED <<configs, offset, position, stopping, mqtt, online,
                   drops, ends>>

\* _process_message.
Process ==
    /\ thread = "processing"
    /\ LET i == Head(batch) IN
       IF Good(i) THEN Publish(i)
                  ELSE UNCHANGED <<sent, retained, applied, excused>>
    /\ batch' = Tail(batch)
    /\ thread' = IF batch' = <<>> THEN "polling" ELSE "processing"
    /\ UNCHANGED <<configs, offset, position, stopping, mqtt, online,
                   drops, ends>>

-----------------------------------------------------------------------------
(* The end of the process: handle_shutdown stops the MQTT client first, and*)
(* then the consumer, whose close commits the position.                     *)

StopSubscriber ==
    /\ ~stopping /\ mqtt /\ ends < MaxEnds
    /\ ends' = ends + 1
    /\ mqtt' = FALSE
    /\ UNCHANGED <<configs, offset, thread, position, batch, stopping,
                   sent, excused, retained, online, applied, drops>>

StopConsumer ==
    /\ ~stopping /\ ~mqtt
    /\ stopping' = TRUE
    /\ offset' = IF thread \in {"polling", "processing"} THEN position
                                                            ELSE offset
    /\ UNCHANGED <<configs, thread, position, batch, mqtt, sent, excused,
                   retained, online, applied, drops, ends>>

NewProcess ==
    /\ thread' = "new" /\ position' = 0 /\ batch' = <<>>
    /\ stopping' = FALSE /\ mqtt' = TRUE

\* The thread has been joined; the service is started again.
StartAgain ==
    /\ stopping /\ thread # "processing"
    /\ NewProcess
    /\ UNCHANGED <<configs, offset, sent, excused, retained, online,
                   applied, drops, ends>>

Killed ==
    /\ ends < MaxEnds /\ thread # "new"
    /\ ends' = ends + 1
    /\ excused' = excused \union
                    IF stopping THEN {batch[k] : k \in DOMAIN batch} ELSE {}
    /\ NewProcess
    /\ UNCHANGED <<configs, offset, sent, retained, online, applied, drops>>

-----------------------------------------------------------------------------
(* Connections to the broker.                                               *)

MqttDrops ==
    /\ mqtt /\ ~stopping /\ drops < MaxMqttDrops
    /\ mqtt' = FALSE /\ drops' = drops + 1
    /\ UNCHANGED <<configs, offset, thread, position, batch, stopping,
                   sent, excused, retained, online, applied, ends>>

MqttReturns ==
    /\ ~mqtt /\ ~stopping
    /\ mqtt' = TRUE
    /\ UNCHANGED <<configs, offset, thread, position, batch, stopping,
                   sent, excused, retained, online, applied, drops, ends>>

DeviceDrops(d) ==
    /\ d \in online /\ drops < MaxMqttDrops
    /\ online' = online \ {d} /\ drops' = drops + 1
    /\ UNCHANGED <<configs, offset, thread, position, batch, stopping,
                   mqtt, sent, excused, retained, applied, ends>>

\* The broker hands the device what is retained on its topic.
DeviceReturns(d) ==
    /\ d \notin online
    /\ online' = online \union {d}
    /\ IF retained[d] # 0 THEN Apply(d, retained[d]) ELSE applied' = applied
    /\ UNCHANGED <<configs, offset, thread, position, batch, stopping,
                   mqtt, sent, excused, retained, drops, ends>>

Work == JoinGroup \/ (\E n \in 1 .. MaxConfigs : Poll(n)) \/ Process

ConfigNext ==
    \/ \E m \in Message : Configure(m)
    \/ Work
    \/ JoinFails
    \/ StopSubscriber \/ StopConsumer \/ StartAgain \/ Killed
    \/ MqttDrops \/ MqttReturns
    \/ \E d \in Devices : DeviceDrops(d) \/ DeviceReturns(d)

\* No message behind the position makes a fetch raise.
AllDeserialize ==
    \A k \in position + 1 .. Len(configs) : configs[k].kind # "notJson"

\* The thread runs whenever it can, but polls may be in vain while there is a
\* message that raises behind the position; nothing else has to happen.
SureWork ==
    JoinGroup \/ (AllDeserialize /\ \E n \in 1 .. MaxConfigs : Poll(n))
              \/ Process
ConfigFairness == WF_configVars(SureWork)

ConfigSpec == ConfigInit /\ [][ConfigNext]_configVars

-----------------------------------------------------------------------------
(* Properties.                                                              *)

\* Every variable keeps to its type.
ConfigTypeOK ==
    /\ configs \in Seq(Message)
    /\ offset \in {None} \union 0 .. Len(configs)
    /\ thread \in {"new", "polling", "processing", "gone"}
    /\ position \in 0 .. Len(configs)
    /\ \A k \in DOMAIN batch : batch[k] = position - Len(batch) + k
    /\ stopping \in BOOLEAN /\ mqtt \in BOOLEAN
    /\ sent \subseteq 1 .. Len(configs)
    /\ excused \subseteq 1 .. Len(configs)
    /\ retained \in [Devices -> {0} \union sent]
    /\ online \subseteq Devices
    /\ applied \in [Devices -> [Settings -> {0} \union sent]]
    /\ drops \in 0 .. MaxMqttDrops /\ ends \in 0 .. MaxEnds

\* A configuration that the group's offset has passed was handed to MQTT, but
\* for those processed while the connection was down (as all are that are
\* processed after handle_shutdown has begun), and those from before the first
\* consumer: a crash in the middle of a batch loses none.
CommittedIsPublished ==
    \A i \in 1 .. offset :
        Good(i) => i \in sent \union excused
                   \/ (stopping /\ \E k \in DOMAIN batch : batch[k] = i)

\* What is retained for a device is its newest configuration, but while older
\* ones are read again after a crash, or where the newest was read without a
\* connection.
RetainedIsNewest ==
    \A i \in sent \ excused :
        \/ i <= retained[configs[i].device]
        \/ i > (IF thread \in {"polling", "processing"}
                THEN position - Len(batch) ELSE offset)

\* A configuration behind the consumer's position is handed to MQTT in the
\* end, if there is a connection, unless the process ends, or a message that
\* is not JSON is behind the position too, before it or after it: the fetch
\* they come in raises.
ConfigsArrive ==
    \A i \in 1 .. MaxConfigs :
        (thread = "polling" /\ position < i /\ i <= Len(configs) /\ Good(i))
            ~> (\/ i \in sent \union excused
                \/ stopping \/ thread = "new"
                \/ ~AllDeserialize)

\* What the consumer has behind it of the records it polled.
Handled == position - Len(batch)

\* How the thread stands to what it polled, and the group's offset to it.
ThreadShape ==
    /\ batch \in Seq(Nat)
    /\ thread = "processing" <=> batch # <<>>
    /\ thread \in {"new", "gone"} => position = 0
    /\ Handled \in Nat
    /\ thread \in {"polling", "processing"} =>
          IF stopping THEN offset = position ELSE offset <= Handled

\* What is sent is a configuration, and what is behind the consumer was sent
\* or has its excuse.
HandledIsPublished ==
    /\ \A i \in sent : Good(i)
    /\ \A i \in 1 .. Handled : Good(i) => i \in sent \union excused

\* What the group's offset has passed was handed to MQTT, and variables keep to
\* their types; the two parts in the middle make it inductive
\* (DeviceConfigConsumer).
ConfigInv ==
    /\ ConfigTypeOK
    /\ ThreadShape
    /\ HandledIsPublished
    /\ CommittedIsPublished
=============================================================================
