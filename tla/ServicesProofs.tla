---------------------------- MODULE ServicesProofs ----------------------------
(***************************************************************************)
(* Proofs about the services of a head that share no state: the MQTT       *)
(* bridge, the Wi-Fi station, the event log and the view of the group; for *)
(* every set of names, networks and peers, every size of the ring, the     *)
(* files and the queues, and every number of events and faults.            *)
(***************************************************************************)
EXTENDS MqttBridge, WifiStation, EventLog, GroupView, TLAPS, FiniteSetTheorems,
        WellFoundedInduction

(***************************************************************************)
(* MQTT bridge                                                             *)
(***************************************************************************)

(* A link is that of this head; what is online has a last will at the broker. *)
LinkInv ==
  /\ linked => connected /\ name \in Names /\ session = name
  /\ \A n \in Names : avail[n] = "online" => session = n

(* How far the callback of a session whose link held has brought the broker.  *)
(* What is published is the unit's, what it was when the handler read it, or  *)
(* was queued when the session began; a state left in the outbox was there    *)
(* when this session published its own, and that was noted.                   *)
SyncInv ==
  linked /\ whole =>
    /\ at \in {"discover", "read", "publish", "idle"} => name \notin configs
    /\ at \in {"read", "publish", "idle"} => Stable \in configs
    /\ {real} \cup QueuedStates \subseteq recent
    /\ at = "publish" => snap \in recent
    /\ at = "idle" => shown[name] \in recent
    /\ at = "idle" /\ ~overtaken => ~Stale /\ (~telling => shown[name] = real)

MqttInv == MqttTypeOK /\ LinkInv /\ SyncInv

-------------------------------------------------------------------------------
(* Messages                                                                *)

LEMMA MessageKinds ==
  /\ [topic |-> "avail"] \in Message /\ [topic |-> "legacy"] \in Message
  /\ [topic |-> "config"] \in Message
  /\ \A v \in States : [topic |-> "state", value |-> v] \in Message
  /\ \A m \in Message : m.topic = "state" => m.value \in States
BY DEF Message

LEMMA NamesDiffer ==
  Nameless \notin Names /\ Stable \notin Names
BY NamesAreNames

(* The broker's side of a message: types, and who is online. *)
LEMMA ArrivesSound ==
  ASSUME MqttTypeOK, LinkInv, linked, NEW m \in Message, Arrives(m)
  PROVE  /\ session' = session
         /\ avail' \in [Names -> {"none", "online", "offline"}]
         /\ shown' \in [Names -> States \cup {NoState}]
         /\ configs' \subseteq Names \cup {Stable}
         /\ \A n \in Names : avail'[n] = "online" => session = n
<1>1. name \in Names /\ session' = session
  BY DEF LinkInv, Arrives
<1>2. avail' \in [Names -> {"none", "online", "offline"}]
      /\ \A n \in Names : avail'[n] = "online" => session = n
  BY <1>1 DEF Arrives, MqttTypeOK, LinkInv
<1>3. shown' \in [Names -> States \cup {NoState}]
  <2>1. CASE m.topic = "state"
    BY <1>1, <2>1, MessageKinds DEF Arrives, MqttTypeOK
  <2>2. CASE m.topic # "state"
    BY <2>2 DEF Arrives, MqttTypeOK
  <2> QED BY <2>1, <2>2
<1>4. configs' \subseteq Names \cup {Stable}
  BY DEF Arrives, MqttTypeOK
<1> QED BY <1>1, <1>2, <1>3, <1>4

LEMMA PublishSound ==
  ASSUME MqttTypeOK, LinkInv, NEW m \in Message, Publish(m), UNCHANGED name
  PROVE  /\ session' \in Names \cup {Nameless}
         /\ avail' \in [Names -> {"none", "online", "offline"}]
         /\ shown' \in [Names -> States \cup {NoState}]
         /\ configs' \subseteq Names \cup {Stable}
         /\ linked' = linked /\ connected' = connected
         /\ outbox' \in Seq(Message) /\ Len(outbox') <= MaxOutbox
         /\ overtaken' \in BOOLEAN
         /\ LinkInv'
<1>1. CASE linked
  <2>1. Arrives(m) /\ UNCHANGED clientVars
        /\ overtaken' = IF m.topic = "state" THEN Stale ELSE overtaken
    BY <1>1 DEF Publish
  <2>2. overtaken' \in BOOLEAN
    BY <2>1 DEF Stale, MqttTypeOK
  <2> QED
    BY <1>1, <2>1, <2>2, ArrivesSound DEF clientVars, MqttTypeOK, LinkInv
<1>2. CASE ~linked
  <2>1. /\ outbox' \in {outbox} \cup IF Len(outbox) < MaxOutbox THEN {Append(outbox, m)} ELSE {}
        /\ UNCHANGED <<brokerVars, linked, connected, overtaken>>
    BY <1>2 DEF Publish
  <2>2. outbox' \in Seq(Message) /\ Len(outbox') <= MaxOutbox
    BY <2>1, MqttAssumption DEF MqttTypeOK
  <2> QED BY <1>2, <2>1, <2>2 DEF brokerVars, MqttTypeOK, LinkInv
<1> QED BY <1>1, <1>2

(* What is queued, and what is left of it when the first message has gone. *)
LEMMA QueueStays ==
  UNCHANGED outbox => QueuedStates' = QueuedStates /\ Stale' = Stale
BY DEF QueuedStates, Stale

LEMMA QueueOfStates ==
  MqttTypeOK => QueuedStates \subseteq States
<1> SUFFICES ASSUME MqttTypeOK, NEW i \in DOMAIN outbox, outbox[i].topic = "state"
             PROVE  outbox[i].value \in States
  BY DEF QueuedStates
<1>1. outbox[i] \in Message
  BY DEF MqttTypeOK
<1> QED BY <1>1, MessageKinds

LEMMA QueueShrinks ==
  ASSUME MqttTypeOK, outbox # <<>>, outbox' = Tail(outbox)
  PROVE  /\ QueuedStates' \subseteq QueuedStates
         /\ Head(outbox).topic = "state" => Head(outbox).value \in QueuedStates
<1>1. /\ outbox \in Seq(Message) /\ 1 \in DOMAIN outbox /\ Head(outbox) = outbox[1]
      /\ \A i \in DOMAIN Tail(outbox) : i + 1 \in DOMAIN outbox /\ Tail(outbox)[i] = outbox[i + 1]
  BY DEF MqttTypeOK
<1>2. QueuedStates' \subseteq QueuedStates
  BY <1>1 DEF QueuedStates
<1> QED BY <1>1, <1>2 DEF QueuedStates

-------------------------------------------------------------------------------
(* The steps                                                               *)

LEMMA MqttStep == MqttInv /\ [MqttNext]_mqttVars => MqttInv'
<1> SUFFICES ASSUME MqttInv, [MqttNext]_mqttVars PROVE MqttInv'
  OBVIOUS
<1>0. MqttTypeOK /\ LinkInv /\ SyncInv
  BY DEF MqttInv
<1>f. MqttFault => mqttFaults' \in 0 .. MaxMqttFaults
  BY <1>0, MqttAssumption DEF MqttFault, MqttTypeOK
<1>1. CASE StartClient
  <2>1. MqttTypeOK'
    BY <1>1, <1>0
    DEF StartClient, MqttTypeOK, brokerVars, clientVars, headVars, driverVars, histVars
  <2>2. LinkInv'
    BY <1>1, <1>0, NamesDiffer
    DEF StartClient, LinkInv, MqttTypeOK, brokerVars, clientVars, headVars, driverVars, histVars
  <2>3. SyncInv'
    BY <1>1, <1>0, NamesDiffer
    DEF StartClient, SyncInv, LinkInv, Stale, QueuedStates, brokerVars, clientVars, headVars,
        driverVars, histVars
  <2> QED BY <2>1, <2>2, <2>3 DEF MqttInv
<1>2. CASE SetOnConnected
  <2>1. MqttTypeOK'
    BY <1>2, <1>0
    DEF SetOnConnected, MqttTypeOK, brokerVars, clientVars, headVars, driverVars, histVars
  <2>2. LinkInv'
    BY <1>2, <1>0, NamesDiffer
    DEF SetOnConnected, LinkInv, MqttTypeOK, brokerVars, clientVars, headVars, driverVars, histVars
  <2>3. SyncInv'
    BY <1>2, <1>0, NamesDiffer
    DEF SetOnConnected, SyncInv, LinkInv, Stale, QueuedStates, brokerVars, clientVars, headVars,
        driverVars, histVars
  <2> QED BY <2>1, <2>2, <2>3 DEF MqttInv
<1>3. CASE ConnectBroker
  <2>1. name \in Names /\ session' = name /\ linked' /\ connected' /\ name' = name
    BY <1>3, <1>0 DEF ConnectBroker, headVars, MqttTypeOK
  <2>2. /\ avail' \in [Names -> {"none", "online", "offline"}]
        /\ \A m \in Names : avail'[m] # "online"
    BY <1>3, <1>0, NamesDiffer DEF ConnectBroker, Will, MqttTypeOK, LinkInv
  <2>q. QueuedStates' = QueuedStates /\ QueuedStates \subseteq States /\ real' = real
    BY <1>3, <1>0, QueueStays, QueueOfStates DEF ConnectBroker, driverVars
  <2>r. recent' = {real} \cup QueuedStates /\ recent' \subseteq States
    BY <1>3, <1>0, <2>q DEF ConnectBroker, MqttTypeOK
  <2>3. MqttTypeOK'
    BY <1>3, <1>0, <2>1, <2>2, <2>r DEF ConnectBroker, MqttTypeOK, headVars, driverVars
  <2>4. LinkInv' /\ SyncInv'
    BY <1>3, <2>1, <2>2, <2>q, <2>r DEF ConnectBroker, LinkInv, SyncInv
  <2> QED BY <2>3, <2>4 DEF MqttInv
<1>4. CASE SayOnline
  <2> DEFINE m == [topic |-> "avail"]
  <2>1. /\ m \in Message /\ Publish(m) /\ UNCHANGED <<headVars, snap, driverVars, mqttFaults>>
        /\ UNCHANGED <<whole, recent, name>>
    BY <1>4, MessageKinds DEF SayOnline, Step, headVars
  <2>2. at' = "callback"
    BY <1>4 DEF SayOnline, Step, Publish, Arrives
  <2> HIDE DEF m
  <2>3. /\ LinkInv' /\ linked' = linked
        /\ MqttTypeOK'
    <3>1. whole' \in BOOLEAN
      BY <2>1, <1>0 DEF MqttTypeOK
    <3> QED
      BY <1>0, <2>1, <2>2, <3>1, PublishSound DEF MqttTypeOK, headVars, driverVars, histVars
  <2>q. linked => QueuedStates' = QueuedStates
    BY <2>1, QueueStays DEF Publish, clientVars
  <2>4. SyncInv'
    BY <1>0, <2>1, <2>2, <2>3, <2>q, NamesDiffer DEF SyncInv, LinkInv, headVars, driverVars
  <2> QED BY <2>3, <2>4 DEF MqttInv
<1>5. CASE ClearLegacy
  <2> DEFINE m == [topic |-> "legacy"]
  <2>1. /\ m \in Message /\ Publish(m) /\ UNCHANGED <<headVars, snap, driverVars, mqttFaults>>
        /\ UNCHANGED <<whole, recent, name>>
    BY <1>5, MessageKinds DEF ClearLegacy, Step, headVars
  <2>2. at' = "discover" /\ (linked => name \notin configs')
    BY <1>5 DEF ClearLegacy, Step, Publish, Arrives
  <2> HIDE DEF m
  <2>3. /\ LinkInv' /\ linked' = linked
        /\ MqttTypeOK'
    <3>1. whole' \in BOOLEAN
      BY <2>1, <1>0 DEF MqttTypeOK
    <3> QED
      BY <1>0, <2>1, <2>2, <3>1, PublishSound DEF MqttTypeOK, headVars, driverVars, histVars
  <2>q. linked => QueuedStates' = QueuedStates
    BY <2>1, QueueStays DEF Publish, clientVars
  <2>4. SyncInv'
    BY <1>0, <2>1, <2>2, <2>3, <2>q, NamesDiffer DEF SyncInv, LinkInv, headVars, driverVars
  <2> QED BY <2>3, <2>4 DEF MqttInv
<1>6. CASE Discovery
  <2> DEFINE m == [topic |-> "config"]
  <2>1. /\ m \in Message /\ Publish(m) /\ UNCHANGED <<headVars, snap, driverVars, mqttFaults>>
        /\ UNCHANGED <<whole, recent, name>>
    BY <1>6, MessageKinds DEF Discovery, Step, headVars
  <2>2. at = "discover" /\ at' = "read" /\ (linked => configs' = configs \cup {Stable})
    BY <1>6 DEF Discovery, Step, Publish, Arrives
  <2> HIDE DEF m
  <2>3. /\ LinkInv' /\ linked' = linked
        /\ MqttTypeOK'
    <3>1. whole' \in BOOLEAN
      BY <2>1, <1>0 DEF MqttTypeOK
    <3> QED
      BY <1>0, <2>1, <2>2, <3>1, PublishSound DEF MqttTypeOK, headVars, driverVars, histVars
  <2>q. linked => QueuedStates' = QueuedStates
    BY <2>1, QueueStays DEF Publish, clientVars
  <2>4. SyncInv'
    BY <1>0, <2>1, <2>2, <2>3, <2>q, NamesDiffer DEF SyncInv, LinkInv, headVars, driverVars
  <2> QED BY <2>3, <2>4 DEF MqttInv
<1>7. CASE NoCallback
  <2>1. MqttTypeOK'
    BY <1>7, <1>0 DEF NoCallback, MqttTypeOK, brokerVars, clientVars, headVars, driverVars, histVars
  <2>2. LinkInv'
    BY <1>7, <1>0, NamesDiffer
    DEF NoCallback, LinkInv, MqttTypeOK, brokerVars, clientVars, headVars, driverVars, histVars
  <2>3. SyncInv'
    BY <1>7, <1>0, NamesDiffer
    DEF NoCallback, SyncInv, LinkInv, Stale, QueuedStates, brokerVars, clientVars, headVars,
        driverVars, histVars
  <2> QED BY <2>1, <2>2, <2>3 DEF MqttInv
<1>8. CASE ReadSettings
  <2>1. MqttTypeOK'
    BY <1>8, <1>0
    DEF ReadSettings, Step, MqttTypeOK, brokerVars, clientVars, headVars, driverVars, histVars
  <2>2. LinkInv'
    BY <1>8, <1>0, NamesDiffer
    DEF ReadSettings, Step, LinkInv, MqttTypeOK, brokerVars, clientVars, headVars, driverVars,
        histVars
  <2>3. SyncInv'
    BY <1>8, <1>0, NamesDiffer
    DEF ReadSettings, Step, SyncInv, LinkInv, Stale, QueuedStates, brokerVars, clientVars,
        headVars, driverVars, histVars
  <2> QED BY <2>1, <2>2, <2>3 DEF MqttInv
<1>9. CASE PublishSettings
  <2> DEFINE m == [topic |-> "state", value |-> snap]
  <2>1. /\ m \in Message /\ UNCHANGED <<headVars, snap, driverVars, mqttFaults>>
        /\ at = "publish" /\ at' = "idle"
        /\ UNCHANGED <<whole, recent, name, real, telling>>
    BY <1>9, <1>0, MessageKinds DEF PublishSettings, Step, headVars, driverVars, MqttTypeOK
  <2>2. whole' \in BOOLEAN
    BY <2>1, <1>0 DEF MqttTypeOK
  <2>3. CASE linked
    <3>1. /\ Arrives(m) /\ UNCHANGED clientVars
          /\ overtaken' = (Stale \/ (snap # real /\ ~telling))
      BY <1>9, <2>3 DEF PublishSettings
    <3>2. /\ configs' = configs /\ shown' = [shown EXCEPT ![name] = snap]
          /\ name \in Names
      BY <1>0, <3>1, <2>3 DEF Arrives, LinkInv
    <3> HIDE DEF m
    <3>3. overtaken' \in BOOLEAN
      BY <3>1
    <3>4. MqttTypeOK' /\ LinkInv'
      BY <1>0, <2>1, <2>2, <2>3, <3>1, <3>3, ArrivesSound
      DEF MqttTypeOK, LinkInv, headVars, driverVars, clientVars
    <3>5. shown'[name'] = snap
      BY <1>0, <2>1, <3>2 DEF MqttTypeOK
    <3>6. SyncInv'
      <4>1. QueuedStates' = QueuedStates /\ Stale' = Stale /\ name' = name /\ linked' = linked
        BY <2>1, <3>1, QueueStays DEF clientVars
      <4>2. ~overtaken' => ~Stale /\ (~telling => snap = real)
        BY <3>1
      <4> QED BY <1>0, <2>1, <2>3, <3>2, <3>5, <4>1, <4>2 DEF SyncInv
    <3> QED BY <3>4, <3>6 DEF MqttInv
  <2>4. CASE ~linked
    <3>1. Publish(m)
      BY <1>9, <2>4 DEF PublishSettings
    <3> HIDE DEF m
    <3>2. LinkInv' /\ linked' = linked /\ MqttTypeOK'
      BY <1>0, <2>1, <2>2, <3>1, PublishSound DEF MqttTypeOK, headVars, driverVars, histVars
    <3>3. SyncInv'
      BY <2>4, <3>2 DEF SyncInv
    <3> QED BY <3>2, <3>3 DEF MqttInv
  <2> QED BY <2>3, <2>4
<1>10. CASE Disconnected
  <2>1. MqttTypeOK'
    BY <1>10, <1>0
    DEF Disconnected, MqttTypeOK, brokerVars, clientVars, headVars, driverVars, histVars
  <2>2. LinkInv'
    BY <1>10, <1>0, NamesDiffer
    DEF Disconnected, LinkInv, MqttTypeOK, brokerVars, clientVars, headVars, driverVars, histVars
  <2>3. SyncInv'
    BY <1>10, <1>0, NamesDiffer
    DEF Disconnected, SyncInv, LinkInv, Stale, QueuedStates, brokerVars, clientVars, headVars,
        driverVars, histVars
  <2> QED BY <2>1, <2>2, <2>3 DEF MqttInv
<1>11. CASE UnitChanges
  <2>1. MqttTypeOK'
    BY <1>11, <1>0, <1>f
    DEF UnitChanges, MqttFault, MqttTypeOK, brokerVars, clientVars, headVars, driverVars, histVars
  <2>2. LinkInv'
    BY <1>11, <1>0, NamesDiffer, <1>f
    DEF UnitChanges, MqttFault, LinkInv, MqttTypeOK, brokerVars, clientVars, headVars, driverVars,
        histVars
  <2>3. SyncInv'
    BY <1>11, <1>0, NamesDiffer DEF UnitChanges, MqttFault, SyncInv, LinkInv, Stale, QueuedStates,
      brokerVars, clientVars, headVars, driverVars, histVars
  <2> QED BY <2>1, <2>2, <2>3 DEF MqttInv
<1>12. CASE TellSettings
  <2> DEFINE m == [topic |-> "state", value |-> real]
  <2>1. /\ m \in Message /\ Publish(m) /\ telling' = FALSE
        /\ UNCHANGED <<headVars, at, snap, real, whole, recent, mqttFaults>> /\ UNCHANGED name
    BY <1>12, <1>0, MessageKinds DEF TellSettings, headVars, MqttTypeOK
  <2>2. linked => /\ configs' = configs /\ shown' = [shown EXCEPT ![name] = real]
                  /\ overtaken' = Stale /\ outbox' = outbox
    BY <2>1 DEF Publish, Arrives, clientVars
  <2> HIDE DEF m
  <2>3. LinkInv' /\ linked' = linked /\ MqttTypeOK'
    BY <1>0, <2>1, PublishSound DEF MqttTypeOK, headVars, driverVars
  <2>4. linked => shown'[name'] = real
    BY <1>0, <2>1, <2>2 DEF MqttTypeOK, LinkInv
  <2>5. linked => QueuedStates' = QueuedStates /\ Stale' = Stale
    BY <2>2, QueueStays
  <2>6. SyncInv'
    BY <1>0, <2>1, <2>2, <2>3, <2>4, <2>5 DEF SyncInv
  <2> QED BY <2>3, <2>6 DEF MqttInv
<1>t. CASE TellStatus
  <2> DEFINE m == [topic |-> "state", value |-> real]
  <2>1. /\ m \in Message /\ Publish(m) /\ UNCHANGED <<real, telling>>
        /\ UNCHANGED <<headVars, at, snap, whole, recent, mqttFaults>> /\ UNCHANGED name
    BY <1>t, <1>0, MessageKinds DEF TellStatus, headVars, driverVars, MqttTypeOK
  <2>2. linked => /\ configs' = configs /\ shown' = [shown EXCEPT ![name] = real]
                  /\ overtaken' = Stale /\ outbox' = outbox
    BY <2>1 DEF Publish, Arrives, clientVars
  <2> HIDE DEF m
  <2>3. LinkInv' /\ linked' = linked /\ MqttTypeOK'
    BY <1>0, <2>1, PublishSound DEF MqttTypeOK, headVars
  <2>4. linked => shown'[name'] = real
    BY <1>0, <2>1, <2>2 DEF MqttTypeOK, LinkInv
  <2>5. linked => QueuedStates' = QueuedStates /\ Stale' = Stale
    BY <2>2, QueueStays
  <2>6. SyncInv'
    BY <1>0, <2>1, <2>2, <2>3, <2>4, <2>5 DEF SyncInv
  <2> QED BY <2>3, <2>6 DEF MqttInv
<1>13. CASE SendKept
  <2> DEFINE m == Head(outbox)
  <2>1. /\ m \in Message /\ Arrives(m) /\ linked /\ at = "idle" /\ outbox # <<>>
        /\ outbox' = Tail(outbox)
        /\ UNCHANGED <<linked, connected, headVars, at, snap, driverVars, whole, recent,
                       overtaken, mqttFaults>>
        /\ UNCHANGED <<name, real, telling>>
    BY <1>13, <1>0 DEF SendKept, headVars, driverVars, histVars, MqttTypeOK
  <2>2. outbox' \in Seq(Message) /\ Len(outbox') <= MaxOutbox
    BY <1>0, <2>1, MqttAssumption DEF MqttTypeOK
  <2>q. QueuedStates' \subseteq QueuedStates /\ (m.topic = "state" => m.value \in QueuedStates)
    BY <1>0, <2>1, QueueShrinks
  <2>3. ~Stale => ~Stale' /\ m.topic # "state"
    BY <2>q DEF Stale
  <2>4. /\ Stable \in configs => Stable \in configs'
        /\ name \notin configs => name \notin configs'
        /\ m.topic # "state" => shown' = shown
    BY <1>0, <2>1, NamesDiffer DEF Arrives, LinkInv
  <2>s. m.topic = "state" => shown'[name] = m.value
    BY <1>0, <2>1 DEF Arrives, LinkInv, MqttTypeOK
  <2> HIDE DEF m
  <2>5. MqttTypeOK' /\ LinkInv'
    BY <1>0, <2>1, <2>2, ArrivesSound DEF MqttTypeOK, LinkInv, headVars, driverVars
  <2>6. SyncInv'
    <3>1. shown'[name'] \in QueuedStates \/ shown' = shown
      BY <2>1, <2>4, <2>q, <2>s
    <3> QED BY <1>0, <2>1, <2>3, <2>4, <2>q, <3>1 DEF SyncInv
  <2> QED BY <2>5, <2>6 DEF MqttInv
<1>14. CASE LinkDies
  <2>1. MqttTypeOK'
    BY <1>14, <1>0, <1>f
    DEF LinkDies, MqttFault, MqttTypeOK, brokerVars, clientVars, headVars, driverVars, histVars
  <2>2. LinkInv'
    BY <1>14, <1>0, NamesDiffer, <1>f
    DEF LinkDies, MqttFault, LinkInv, MqttTypeOK, brokerVars, clientVars, headVars, driverVars,
        histVars
  <2>3. SyncInv'
    BY <1>14, <1>0, NamesDiffer
    DEF LinkDies, MqttFault, SyncInv, LinkInv, Stale, QueuedStates, brokerVars, clientVars,
        headVars, driverVars, histVars
  <2> QED BY <2>1, <2>2, <2>3 DEF MqttInv
<1>15. CASE BrokerNotices
  <2>1. /\ avail' \in [Names -> {"none", "online", "offline"}]
        /\ \A m \in Names : avail'[m] # "online"
    BY <1>15, <1>0 DEF BrokerNotices, Will, MqttTypeOK, LinkInv
  <2>2. MqttTypeOK'
    BY <1>15, <1>0, <2>1 DEF BrokerNotices, MqttTypeOK, clientVars, headVars, driverVars, histVars
  <2>3. LinkInv' /\ SyncInv'
    BY <1>15, <2>1 DEF BrokerNotices, LinkInv, SyncInv, clientVars
  <2> QED BY <2>2, <2>3 DEF MqttInv
<1>16. ASSUME NEW next \in Names, MqttReset(next) PROVE MqttInv'
  <2>1. outbox' \in Seq(Message) /\ Len(outbox') <= MaxOutbox
    BY <1>16, MqttAssumption DEF MqttReset
  <2>2. MqttTypeOK'
    BY <1>16, <1>0, <1>f, <2>1, MqttAssumption DEF MqttReset, MqttTypeOK, brokerVars
  <2>3. LinkInv' /\ SyncInv'
    BY <1>16, <1>0 DEF MqttReset, LinkInv, SyncInv, brokerVars
  <2> QED BY <2>2, <2>3 DEF MqttInv
<1>17. CASE MqttReset(stored) \/ Rename
  BY <1>0, <1>16, <1>17 DEF Rename, MqttTypeOK
<1>18. CASE UNCHANGED mqttVars
  BY <1>18, <1>0
  DEF mqttVars, brokerVars, clientVars, headVars, driverVars, histVars, MqttInv, MqttTypeOK,
      LinkInv, SyncInv, Stale, QueuedStates
<1> QED
  BY <1>1, <1>2, <1>3, <1>4, <1>5, <1>6, <1>7, <1>8, <1>9, <1>10, <1>11, <1>12,
     <1>t, <1>13, <1>14, <1>15, <1>16, <1>17, <1>18
  DEF MqttNext, EventHandler

-------------------------------------------------------------------------------
(* The theorems                                                            *)

LEMMA MqttStart == MqttInit => MqttInv
<1> SUFFICES ASSUME MqttInit PROVE MqttInv
  OBVIOUS
<1>1. outbox \in Seq(Message) /\ Len(outbox) <= MaxOutbox /\ mqttFaults \in 0 .. MaxMqttFaults
  BY MqttAssumption DEF MqttInit
<1>2. MqttTypeOK
  BY <1>1, MqttAssumption DEF MqttInit, MqttTypeOK
<1>3. LinkInv /\ SyncInv
  BY DEF MqttInit, LinkInv, SyncInv
<1> QED BY <1>2, <1>3 DEF MqttInv

LEMMA MqttAlways == MqttSpec => []MqttInv
BY MqttStart, MqttStep, PTL DEF MqttSpec

(* Every variable of the bridge keeps its type. *)
THEOREM MqttTypeCorrect == MqttSpec => []MqttTypeOK
<1>1. MqttInv => MqttTypeOK
  BY DEF MqttInv
<1> QED BY <1>1, MqttAlways, PTL

(* Home Assistant shows no head that is gone: every name that is "online" has *)
(* the last will of a live session behind it, under renames, resets and any   *)
(* message kept from an earlier connection.                                   *)
THEOREM NoGhosts == MqttSpec => []GhostsGoOffline
<1>1. MqttInv => GhostsGoOffline
  BY DEF MqttInv, LinkInv, GhostsGoOffline
<1> QED BY <1>1, MqttAlways, PTL

(* Once the connected callback has run on a link that still stands, Home      *)
(* Assistant has the discovery under the present name only, and a state of    *)
(* this session or one that was kept in the queue; it is the unit's own state *)
(* unless a publish is still owed or an older one overtook it.                *)
THEOREM AlwaysResynced == MqttSpec => []Resynced
<1>1. MqttInv => Resynced
  BY DEF MqttInv, SyncInv, Resynced
<1> QED BY <1>1, MqttAlways, PTL

(***************************************************************************)
(* Wi-Fi station                                                           *)
(***************************************************************************)

WifiEvents == {"start", "down", "ip"}
Station    == mode \in {"CONNECTING", "CONNECTED"}

(* Attempts are counted from the last address; a station at rest has either  *)
(* used them all, or has an event before it that makes it try again: the     *)
(* last one posted is never an address.                                      *)
PersistInv ==
  /\ retries = misses
  /\ Station => using # Empty
  /\ Station /\ radio = "still" =>
       IF posted = <<>> THEN misses > Retries ELSE posted[Len(posted)] # "ip"

WifiInv == WifiTypeOK /\ PersistInv

-------------------------------------------------------------------------------
(* The event queue                                                         *)

LEMMA Posting ==
  ASSUME posted \in Seq(WifiEvents), NEW e \in WifiEvents, Post(e)
  PROVE  posted' \in Seq(WifiEvents) /\ posted' # <<>> /\ posted'[Len(posted')] = e
<1>1. posted' = Append(posted, e)
  BY DEF Post
<1> QED BY <1>1

LEMMA Handling ==
  ASSUME posted \in Seq(WifiEvents), NEW e \in WifiEvents, Handles(e)
  PROVE  /\ posted' \in Seq(WifiEvents) /\ posted # <<>>
         /\ posted' # <<>> => posted'[Len(posted')] = posted[Len(posted)]
         /\ posted' = <<>> => posted[Len(posted)] = e
<1>1. posted # <<>> /\ Head(posted) = e /\ posted' = Tail(posted)
  BY DEF Handles
<1>2. Len(posted) \in Nat /\ Len(posted) > 0 /\ posted' \in Seq(WifiEvents)
      /\ Len(posted') = Len(posted) - 1
  BY <1>1
<1>3. posted' # <<>> => posted'[Len(posted')] = posted[Len(posted)]
  BY <1>1, <1>2
<1>4. ASSUME posted' = <<>> PROVE posted[Len(posted)] = e
  <2>1. Len(posted) = 1
    BY <1>2, <1>4
  <2> QED BY <1>1, <2>1
<1> QED BY <1>1, <1>2, <1>3, <1>4

LEMMA SavedCreds ==
  ASSUME creds \in Creds, NEW c \in Creds, NEW d \in Saves(c)
  PROVE  d \in Creds
BY DEF Saves, Creds

LEMMA EmptyCreds == Empty \in Creds
BY DEF Empty, Creds

(* Every way to start again leaves the station out of it. *)
LEMMA Restarting ==
  ASSUME WifiTypeOK, NEW c \in Creds, StartOver(c), wifiFaults' \in 0 .. MaxWifiFaults
  PROVE  WifiInv'
<1>1. /\ creds' = c /\ using' = Empty /\ mode' = "boot" /\ radio' = "off" /\ posted' = <<>>
      /\ retries' = 0 /\ bits' = {} /\ misses' = 0 /\ timer' = "off" /\ router' = router
  BY DEF StartOver
<1>2. WifiTypeOK'
  BY <1>1, EmptyCreds DEF WifiTypeOK
<1>3. PersistInv'
  BY <1>1 DEF PersistInv, Station
<1> QED BY <1>2, <1>3 DEF WifiInv

-------------------------------------------------------------------------------
(* The steps                                                               *)

LEMMA WifiStep == WifiInv /\ [WifiNext]_wifiVars => WifiInv'
<1> SUFFICES ASSUME WifiInv, [WifiNext]_wifiVars PROVE WifiInv'
  OBVIOUS
<1>0. WifiTypeOK /\ PersistInv /\ posted \in Seq(WifiEvents) /\ creds \in Creds /\ using \in Creds
  BY DEF WifiInv, WifiTypeOK, WifiEvents
<1>f. WifiFault => wifiFaults' \in 0 .. MaxWifiFaults
  BY <1>0, WifiAssumption DEF WifiFault, WifiTypeOK
<1>k. wifiFaults \in 0 .. MaxWifiFaults
  BY <1>0 DEF WifiTypeOK
<1>1. CASE WifiReset
  BY <1>0, <1>1, <1>f, Restarting DEF WifiReset
<1>2. CASE Connect
  <2>1. /\ using' = creds /\ using' # Empty /\ posted' = <<"start">> /\ radio' = "still"
        /\ mode' = "CONNECTING"
        /\ UNCHANGED <<creds, retries, bits, misses, timer, router, wifiFaults>>
    <3>1. Empty.ssid = NoNet
      BY DEF Empty
    <3> QED BY <1>2, <3>1 DEF Connect
  <2>2. posted' \in Seq(WifiEvents) /\ posted' # <<>> /\ posted'[Len(posted')] = "start"
    BY <2>1 DEF WifiEvents
  <2>3. WifiTypeOK'
    BY <1>0, <2>1, <2>2 DEF WifiTypeOK, WifiEvents
  <2>4. PersistInv'
    BY <1>0, <2>1, <2>2 DEF PersistInv, Station
  <2> QED BY <2>3, <2>4 DEF WifiInv
<1>3. CASE Provision \/ ConnectFails
  <2>1. posted' \in Seq(WifiEvents)
    <3>1. \/ posted' = <<"start">> \/ posted' = posted \o <<"start">>
          \/ posted' = posted \o <<"down", "start">>
      BY <1>3 DEF Provision, ConnectFails
    <3>2. <<"start">> \in Seq(WifiEvents) /\ <<"down", "start">> \in Seq(WifiEvents)
      BY DEF WifiEvents
    <3>3. \A x \in Seq(WifiEvents) : posted \o x \in Seq(WifiEvents)
      BY <1>0
    <3> QED BY <3>1, <3>2, <3>3
  <2>2. mode' = "PROVISIONING" /\ radio' = "still"
        /\ UNCHANGED <<creds, using, retries, bits, misses, timer, router, wifiFaults>>
    BY <1>3 DEF Provision, ConnectFails, StartProvisioning
  <2>3. WifiTypeOK'
    BY <1>0, <2>1, <2>2 DEF WifiTypeOK, WifiEvents
  <2>4. PersistInv'
    BY <1>0, <2>2 DEF PersistInv, Station
  <2> QED BY <2>3, <2>4 DEF WifiInv
<1>4. CASE Connected
  BY <1>0, <1>4 DEF Connected, WifiInv, WifiTypeOK, PersistInv, Station, stationVars
<1>5. CASE AttemptEnds
  <2>1. PICK e \in WifiEvents : /\ Post(e) /\ radio' \in {"up", "still"}
                                /\ radio' = "still" => e # "ip"
    BY <1>5 DEF AttemptEnds, WifiEvents
  <2>2. UNCHANGED <<creds, using, mode, retries, bits, misses, timer, router, wifiFaults>>
    BY <1>5 DEF AttemptEnds
  <2>3. posted' \in Seq(WifiEvents) /\ posted' # <<>> /\ posted'[Len(posted')] = e
    BY <1>0, <2>1, Posting
  <2>4. WifiTypeOK'
    BY <1>0, <2>1, <2>2, <2>3 DEF WifiTypeOK, WifiEvents
  <2>5. PersistInv'
    BY <1>0, <2>1, <2>2, <2>3 DEF PersistInv, Station
  <2> QED BY <2>4, <2>5 DEF WifiInv
<1>6. CASE RouterToggles
  <2>1. /\ router' \in BOOLEAN /\ wifiFaults' \in 0 .. MaxWifiFaults
        /\ UNCHANGED <<creds, using, mode, retries, bits, misses, timer>>
    BY <1>0, <1>6, <1>f DEF RouterToggles, WifiTypeOK
  <2>2. CASE radio = "up"
    <3>1. radio' = "still" /\ Post("down")
      BY <1>6, <2>2 DEF RouterToggles
    <3>2. posted' \in Seq(WifiEvents) /\ posted' # <<>> /\ posted'[Len(posted')] = "down"
      BY <1>0, <3>1, Posting DEF WifiEvents
    <3>3. WifiTypeOK'
      BY <1>0, <2>1, <3>1, <3>2 DEF WifiTypeOK, WifiEvents
    <3>4. PersistInv'
      BY <1>0, <2>1, <3>1, <3>2 DEF PersistInv, Station
    <3> QED BY <3>3, <3>4 DEF WifiInv
  <2>3. CASE radio # "up"
    BY <1>0, <1>6, <2>1, <2>3 DEF RouterToggles, WifiInv, WifiTypeOK, PersistInv, Station
  <2> QED BY <2>2, <2>3
<1>7. CASE OnStart
  <2>1. Handles("start") /\ "start" \in WifiEvents /\ radio' \in {radio, "trying"}
        /\ (radio = "still" /\ using # Empty => radio' = "trying")
        /\ UNCHANGED <<creds, using, mode, retries, bits, misses, timer, router, wifiFaults>>
    BY <1>7 DEF OnStart, Tries, WifiEvents
  <2>2. posted' \in Seq(WifiEvents)
    BY <1>0, <2>1, Handling
  <2>3. WifiTypeOK'
    BY <1>0, <2>1, <2>2 DEF WifiTypeOK, WifiEvents
  <2>4. PersistInv'
    BY <1>0, <2>1 DEF PersistInv, Station
  <2> QED BY <2>3, <2>4 DEF WifiInv
<1>8. CASE OnDisconnected
  <2>1. Handles("down") /\ "down" \in WifiEvents
        /\ retries' = retries + 1 /\ misses' = misses + 1
        /\ radio' \in {radio, "trying"} /\ bits' \in {bits, bits \cup {"fail"}}
        /\ UNCHANGED <<creds, using, mode, timer, router, wifiFaults>>
    BY <1>8 DEF OnDisconnected, Tries, WifiEvents
  <2>2. retries < Retries /\ radio = "still" /\ using # Empty => radio' = "trying"
    BY <1>8 DEF OnDisconnected, Tries
  <2>3. /\ posted' \in Seq(WifiEvents) /\ posted # <<>>
        /\ posted' # <<>> => posted'[Len(posted')] = posted[Len(posted)]
    BY <1>0, <2>1, Handling
  <2>4. retries \in Nat /\ misses \in Nat /\ Retries \in Nat
    BY <1>0, WifiAssumption DEF WifiTypeOK
  <2>5. WifiTypeOK'
    BY <1>0, <2>1, <2>3, <2>4 DEF WifiTypeOK, WifiEvents
  <2>6. PersistInv'
    BY <1>0, <2>1, <2>2, <2>3, <2>4 DEF PersistInv, Station
  <2> QED BY <2>5, <2>6 DEF WifiInv
<1>9. CASE OnGotIp
  <2>1. Handles("ip") /\ "ip" \in WifiEvents /\ retries' = 0 /\ misses' = 0
        /\ bits' = bits \cup {"connected"}
        /\ UNCHANGED <<creds, using, mode, radio, timer, router, wifiFaults>>
    BY <1>9 DEF OnGotIp, WifiEvents
  <2>2. /\ posted' \in Seq(WifiEvents) /\ posted # <<>>
        /\ posted' # <<>> => posted'[Len(posted')] = posted[Len(posted)]
        /\ posted' = <<>> => posted[Len(posted)] = "ip"
    BY <1>0, <2>1, Handling
  <2>3. WifiTypeOK'
    BY <1>0, <2>1, <2>2 DEF WifiTypeOK, WifiEvents
  <2>4. PersistInv'
    BY <1>0, <2>1, <2>2 DEF PersistInv, Station
  <2> QED BY <2>3, <2>4 DEF WifiInv
<1>10. CASE PortalConnect
  <2>1. PICK n \in Nets, p \in Nets \cup {Open} : creds' \in Saves([ssid |-> n, pass |-> p])
    BY <1>10 DEF PortalConnect
  <2>2. [ssid |-> n, pass |-> p] \in Creds
    BY DEF Creds
  <2>3. creds' \in Creds
    BY <1>0, <2>1, <2>2, SavedCreds
  <2> QED
    BY <1>0, <1>10, <1>f, <2>3
    DEF PortalConnect, WifiInv, WifiTypeOK, PersistInv, Station, stationVars
<1>11. CASE PortalFinish
  BY <1>0, <1>11 DEF PortalFinish, WifiInv, WifiTypeOK, PersistInv, Station, stationVars
<1>12. CASE TimerFires
  BY <1>0, <1>12, <1>k, Restarting DEF TimerFires
<1>13. CASE WifiPost
  <2>1. PICK n \in Nets, p \in Nets \cup {using.pass} :
          \E d \in Saves([ssid |-> n, pass |-> p]) : StartOver(d)
    BY <1>13 DEF WifiPost
  <2>c. PICK c \in Saves([ssid |-> n, pass |-> p]) : StartOver(c)
    BY <2>1
  <2>2. [ssid |-> n, pass |-> p] \in Creds
    BY <1>0 DEF Creds
  <2>3. c \in Creds
    BY <1>0, <2>c, <2>2, SavedCreds
  <2> QED BY <1>0, <1>13, <1>f, <2>c, <2>3, Restarting DEF WifiPost
<1>14. CASE FactoryReset
  BY <1>0, <1>14, <1>f, EmptyCreds, Restarting DEF FactoryReset
<1>15. CASE UNCHANGED wifiVars
  BY <1>15 DEF wifiVars, stationVars, WifiInv, WifiTypeOK, PersistInv, Station
<1> QED
  BY <1>1, <1>2, <1>3, <1>4, <1>5, <1>6, <1>7, <1>8, <1>9, <1>10, <1>11, <1>12,
     <1>13, <1>14, <1>15 DEF WifiNext

-------------------------------------------------------------------------------
(* The theorems                                                            *)

LEMMA WifiStart == WifiInit => WifiInv
<1> SUFFICES ASSUME WifiInit PROVE WifiInv
  OBVIOUS
<1>1. creds \in Creds
  BY EmptyCreds DEF WifiInit, Creds
<1>2. using \in Creds /\ wifiFaults \in 0 .. MaxWifiFaults
  BY EmptyCreds, WifiAssumption DEF WifiInit
<1>3. WifiTypeOK
  BY <1>1, <1>2 DEF WifiInit, WifiTypeOK
<1>4. PersistInv
  BY DEF WifiInit, PersistInv, Station
<1> QED BY <1>3, <1>4 DEF WifiInv

LEMMA WifiAlways == WifiSpec => []WifiInv
BY WifiStart, WifiStep, PTL DEF WifiSpec

(* Every variable of the station keeps its type. *)
THEOREM WifiTypeCorrect == WifiSpec => []WifiTypeOK
<1>1. WifiInv => WifiTypeOK
  BY DEF WifiInv
<1> QED BY <1>1, WifiAlways, PTL

(* A station at rest with nothing to hear has spent every attempt since its  *)
(* last address, however attempts, lost links and addresses interleave.      *)
THEOREM AlwaysPersists == WifiSpec => []StationPersists
<1>1. WifiInv => StationPersists
  BY DEF WifiInv, PersistInv, Station, StationPersists
<1> QED BY <1>1, WifiAlways, PTL

(***************************************************************************)
(* Event log                                                               *)
(***************************************************************************)

(* Division with remainder. *)
LEMMA Division ==
  ASSUME NEW a \in Nat, NEW r \in Nat \ {0}
  PROVE  a % r \in 0 .. r - 1 /\ \E q \in Nat : a = r * q + (a % r)
<1>1. a % r \in 0 .. r - 1 /\ a = r * (a \div r) + (a % r) /\ a \div r \in Int
  OBVIOUS
<1>2. a \div r \in Nat
  <2> DEFINE q == a \div r
  <2>1. SUFFICES ASSUME q < 0 PROVE FALSE
    BY <1>1
  <2>2. q <= -1 /\ q \in Int
    BY <1>1, <2>1
  <2>3. r * q <= r * (-1)
    <3> HIDE DEF q
    <3>1. \A p \in Int : p <= -1 => r * p <= r * (-1)
      OBVIOUS
    <3> QED BY <2>2, <3>1
  <2> QED BY <1>1, <2>3
<1> QED BY <1>1, <1>2

(* The remainder is unique. *)
LEMMA Remainder ==
  ASSUME NEW r \in Nat \ {0}, NEW q \in Nat, NEW x \in 0 .. r - 1
  PROVE  (r * q + x) % r = x
<1> DEFINE a == r * q + x
           y == a % r
<1>1. a \in Nat
  OBVIOUS
<1>2. y \in 0 .. r - 1 /\ \E p \in Nat : a = r * p + y
  <2> HIDE DEF a
  <2> QED BY <1>1, Division
<1>3. PICK p \in Nat : r * q + x = r * p + y
  BY <1>2
<1> HIDE DEF y
<1>4. CASE p < q
  <2>1. PICK d \in Nat : q = p + 1 + d
    <3>1. q - p - 1 \in Nat /\ q = p + 1 + (q - p - 1)
      BY <1>4
    <3> QED BY <3>1
  <2>2. r * q = r * p + r + r * d /\ r * d \in Nat
    BY <2>1
  <2> QED BY <1>2, <1>3, <2>2
<1>5. CASE q < p
  <2>1. PICK d \in Nat : p = q + 1 + d
    <3>1. p - q - 1 \in Nat /\ p = q + 1 + (p - q - 1)
      BY <1>5
    <3> QED BY <3>1
  <2>2. r * p = r * q + r + r * d /\ r * d \in Nat
    BY <2>1
  <2> QED BY <1>2, <1>3, <2>2
<1>6. CASE p = q
  <2>1. y = x
    BY <1>2, <1>3, <1>6
  <2> QED BY <2>1 DEF y
<1> QED BY <1>2, <1>4, <1>5, <1>6

(* Within one round of the ring a slot is used once. *)
LEMMA SameSlot ==
  ASSUME NEW r \in Nat \ {0}, NEW a \in Nat, NEW b \in Nat, a % r = b % r,
         a < b + r, b < a + r
  PROVE  a = b
<1>1. PICK p \in Nat : a = r * p + (a % r)
  BY Division
<1>2. PICK q \in Nat : b = r * q + (b % r)
  BY Division
<1>3. a % r \in 0 .. r - 1
  BY Division
<1> DEFINE x == a % r
<1>4. x \in Nat /\ a = r * p + x /\ b = r * q + x
  BY <1>1, <1>2, <1>3
<1> HIDE DEF x
<1>5. ASSUME NEW m \in Nat, NEW n \in Nat, m < n PROVE r * m + x + r <= r * n + x
  <2>1. PICK d \in Nat : n = m + 1 + d
    <3>1. n - m - 1 \in Nat /\ n = m + 1 + (n - m - 1)
      BY <1>5
    <3> QED BY <3>1
  <2>2. r * n = r * m + r + r * d /\ r * d \in Nat
    BY <2>1
  <2> QED BY <1>4, <2>2
<1>6. ~(p < q) /\ ~(q < p)
  BY <1>4, <1>5
<1> QED BY <1>4, <1>6

(* The slot behind a slot, *)
LEMMA NextSlot ==
  ASSUME NEW r \in Nat \ {0}, NEW a \in Nat
  PROVE  ((a % r) + 1) % r = (a + 1) % r
<1>1. PICK q \in Nat : a = r * q + (a % r)
  BY Division
<1>2. a % r \in 0 .. r - 1
  BY Division
<1> DEFINE x == a % r
<1>3. x \in 0 .. r - 1 /\ a = r * q + x
  BY <1>1, <1>2
<1> HIDE DEF x
<1>4. CASE x + 1 < r
  <2>1. x + 1 \in 0 .. r - 1
    BY <1>3, <1>4
  <2>2. (r * q + (x + 1)) % r = x + 1 /\ (r * 0 + (x + 1)) % r = x + 1
    BY <2>1, Remainder
  <2>3. a + 1 = r * q + (x + 1) /\ x + 1 = r * 0 + (x + 1)
    BY <1>3
  <2>4. (a + 1) % r = x + 1 /\ (x + 1) % r = x + 1
    BY <2>2, <2>3
  <2> QED BY <2>4 DEF x
<1>5. CASE x + 1 = r
  <2>1. 0 \in 0 .. r - 1 /\ q + 1 \in Nat /\ 1 \in Nat
    OBVIOUS
  <2>2. (r * (q + 1) + 0) % r = 0 /\ (r * 1 + 0) % r = 0
    BY <2>1, Remainder
  <2>3. a + 1 = r * (q + 1) + 0 /\ x + 1 = r * 1 + 0
    BY <1>3, <1>5
  <2>4. (a + 1) % r = 0 /\ (x + 1) % r = 0
    BY <2>2, <2>3
  <2> QED BY <2>4 DEF x
<1> QED BY <1>3, <1>4, <1>5

(* and the one some way back, as get_json finds it. *)
LEMMA SlotBack ==
  ASSUME NEW r \in Nat \ {0}, NEW a \in Nat, NEW i \in 0 .. r - 1, i < a
  PROVE  ((a % r) + 2 * r - 1 - i) % r = (a - 1 - i) % r
<1>1. PICK q \in Nat : a = r * q + (a % r)
  BY Division
<1>2. a % r \in 0 .. r - 1
  BY Division
<1> DEFINE x == a % r
<1>3. x \in 0 .. r - 1 /\ a = r * q + x
  BY <1>1, <1>2
<1> HIDE DEF x
<1>4. CASE i < x
  <2>1. x - 1 - i \in 0 .. r - 1 /\ 2 \in Nat
    BY <1>3, <1>4
  <2>2. (r * q + (x - 1 - i)) % r = x - 1 - i /\ (r * 2 + (x - 1 - i)) % r = x - 1 - i
    BY <2>1, Remainder
  <2>3. a - 1 - i = r * q + (x - 1 - i) /\ x + 2 * r - 1 - i = r * 2 + (x - 1 - i)
    BY <1>3
  <2> QED BY <2>2, <2>3 DEF x
<1>5. CASE x <= i
  <2>1. x - 1 - i + r \in 0 .. r - 1 /\ 1 \in Nat
    BY <1>3, <1>5
  <2>2. q # 0
    <3>1. q = 0 => a = x
      BY <1>3
    <3> QED BY <1>3, <1>5, <3>1
  <2>3. q - 1 \in Nat
    BY <2>2
  <2>4. /\ (r * (q - 1) + (x - 1 - i + r)) % r = x - 1 - i + r
        /\ (r * 1 + (x - 1 - i + r)) % r = x - 1 - i + r
    BY <2>1, <2>3, Remainder
  <2>5. /\ a - 1 - i = r * (q - 1) + (x - 1 - i + r)
        /\ x + 2 * r - 1 - i = r * 1 + (x - 1 - i + r)
    <3>1. r * (q - 1) = r * q - r
      OBVIOUS
    <3> QED BY <1>3, <3>1
  <2> QED BY <2>4, <2>5 DEF x
<1> QED BY <1>3, <1>4, <1>5

(* A set of numbers has a least one. *)
LEMMA Least ==
  ASSUME NEW S \in SUBSET Nat, S # {}
  PROVE  \E m \in S : \A k \in S : m <= k
<1>1. IsWellFoundedOn(OpToRel(<, Nat), Nat)
  BY NatLessThanWellFounded
<1>2. PICK m \in S : \A k \in S : ~(<<k, m>> \in OpToRel(<, Nat))
  BY <1>1, WFMin
<1>3. \A k \in S : ~(k < m)
  BY <1>2 DEF OpToRel
<1> QED BY <1>3

(* A set of numbers up to a bound has a greatest one. *)
LEMMA Greatest ==
  ASSUME NEW n \in Nat, NEW S \in SUBSET (0 .. n), S # {}
  PROVE  \E m \in S : \A k \in S : k <= m
<1> DEFINE T == {n - k : k \in S}
<1>1. T \in SUBSET Nat /\ T # {}
  <2>1. \A k \in S : k \in Nat /\ n - k \in Nat
    OBVIOUS
  <2>2. T \in SUBSET Nat
    BY <2>1
  <2>3. PICK k \in S : TRUE
    OBVIOUS
  <2>4. n - k \in T
    OBVIOUS
  <2> QED BY <2>2, <2>4
<1>2. PICK d \in T : \A e \in T : d <= e
  <2> HIDE DEF T
  <2> QED BY <1>1, Least
<1>3. PICK m \in S : d = n - m
  BY <1>2 DEF T
<1>4. ASSUME NEW k \in S PROVE k <= m
  <2>1. n - m <= n - k
    BY <1>2, <1>3
  <2> QED BY <2>1
<1> QED BY <1>4

(* The highest number in some lines is one of them, or none. *)
LEMMA HighestIsANumber ==
  ASSUME NEW found \in Seq(Events \cup {Broken})
  PROVE  /\ Highest(found) \in 0 .. MaxEvents
         /\ \A i \in DOMAIN found : found[i] <= Highest(found)
<1> DEFINE S == {found[i] : i \in DOMAIN found} \cup {0}
<1>1. S \in SUBSET (0 .. MaxEvents) /\ S # {}
  BY EventAssumption DEF Events, Broken
<1>2. \E m \in S : \A k \in S : k <= m
  <2> HIDE DEF S
  <2> QED BY <1>1, Greatest, EventAssumption
<1>3. Highest(found) = CHOOSE m \in S : \A k \in S : k <= m
  BY DEF Highest
<1>4. \A i \in DOMAIN found : found[i] \in S
  OBVIOUS
<1> HIDE DEF S
<1>5. Highest(found) \in S /\ \A k \in S : k <= Highest(found)
  BY <1>2, <1>3
<1> QED BY <1>1, <1>4, <1>5

(* Induction, for a set of numbers. *)
LEMMA Induction ==
  ASSUME NEW S, 0 \in S, \A n \in Nat : n \in S => n + 1 \in S
  PROVE  Nat \subseteq S
<1> DEFINE T == Nat \ S
<1>1. SUFFICES ASSUME T # {} PROVE FALSE
  OBVIOUS
<1>2. PICK m \in T : \A k \in T : m <= k
  <2>1. T \in SUBSET Nat
    OBVIOUS
  <2> HIDE DEF T
  <2> QED BY <1>1, <2>1, Least
<1>3. m # 0 /\ m - 1 \in Nat
  BY <1>2
<1>4. m - 1 \in S
  BY <1>2, <1>3
<1> QED BY <1>2, <1>3, <1>4

(* load_file() after n lines. *)
Line == Events \cup {Broken}
Reads(lines, read, m) ==
  read = [n \in 0 .. m |->
            IF n = 0 THEN <<>>
            ELSE IF lines[n] = Broken THEN read[n - 1] ELSE Append(read[n - 1], lines[n])]

(* The loop has a result, *)
LEMMA ReadExists ==
  ASSUME NEW lines \in Seq(Line), NEW m \in Nat
  PROVE  \E read : Reads(lines, read, m)
<1> DEFINE S == {n \in Nat : \E read : Reads(lines, read, n)}
<1>1. 0 \in S
  <2>1. Reads(lines, [n \in 0 .. 0 |-> <<>>], 0)
    BY DEF Reads
  <2> QED BY <2>1
<1>2. ASSUME NEW n \in Nat, n \in S PROVE n + 1 \in S
  <2>1. PICK f : Reads(lines, f, n)
    BY <1>2
  <2> DEFINE g == [k \in 0 .. n + 1 |->
                     IF k <= n THEN f[k]
                     ELSE IF lines[n + 1] = Broken THEN f[n] ELSE Append(f[n], lines[n + 1])]
             h == [k \in 0 .. n + 1 |->
                     IF k = 0 THEN <<>>
                     ELSE IF lines[k] = Broken THEN g[k - 1] ELSE Append(g[k - 1], lines[k])]
  <2>2. ASSUME NEW k \in 0 .. n + 1 PROVE g[k] = h[k]
    <3>1. CASE k = n + 1
      BY <3>1
    <3>2. CASE k = 0
      BY <2>1, <3>2 DEF Reads
    <3>3. CASE k \in 1 .. n
      <4>1. k - 1 \in 0 .. n /\ k \in 0 .. n /\ k # 0
        BY <3>3
      <4>2. f[k] = IF lines[k] = Broken THEN f[k - 1] ELSE Append(f[k - 1], lines[k])
        BY <2>1, <4>1 DEF Reads
      <4>3. g[k] = f[k] /\ g[k - 1] = f[k - 1]
        BY <4>1
      <4> QED BY <4>1, <4>2, <4>3
    <3> QED BY <3>1, <3>2, <3>3
  <2>3. g = h
    BY <2>2
  <2>4. Reads(lines, g, n + 1)
    BY <2>3 DEF Reads
  <2> QED BY <2>4
<1> HIDE DEF S
<1>3. m \in S
  BY <1>1, <1>2, Induction
<1> QED BY <1>3 DEF S

(* which is what is parsed. *)
LEMMA ParsedIsRead ==
  ASSUME NEW lines \in Seq(Line)
  PROVE  \E read : Reads(lines, read, Len(lines)) /\ Parsed(lines) = read[Len(lines)]
<1>1. Len(lines) \in Nat
  OBVIOUS
<1> DEFINE R(f) == f = [n \in 0 .. Len(lines) |->
            IF n = 0 THEN <<>>
            ELSE IF lines[n] = Broken THEN f[n - 1] ELSE Append(f[n - 1], lines[n])]
<1>2. Parsed(lines) = (CHOOSE f : R(f))[Len(lines)]
  BY DEF Parsed
<1>3. \E f : R(f)
  BY <1>1, ReadExists DEF Reads
<1>4. R(CHOOSE f : R(f))
  BY <1>3
<1> QED BY <1>2, <1>4 DEF Reads

(* Numbers grow from line to line, but for lines that cannot be parsed. *)
Rising(s) ==
  \A i, j \in DOMAIN s : i < j /\ s[i] # Broken /\ s[j] # Broken => s[i] < s[j]
Below(s, n) == \A i \in DOMAIN s : s[i] <= n

(* What is read of rising lines is rising, and comes from them. *)
LEMMA ParsedRises ==
  ASSUME NEW lines \in Seq(Line), Rising(lines)
  PROVE  /\ Parsed(lines) \in Seq(Events) /\ Rising(Parsed(lines))
         /\ \A i \in DOMAIN Parsed(lines) : \E k \in DOMAIN lines : Parsed(lines)[i] = lines[k]
<1> DEFINE last == Len(lines)
<1>1. last \in Nat /\ DOMAIN lines = 1 .. last /\ \A k \in 1 .. last : lines[k] \in Line
  OBVIOUS
<1>2. PICK read : Reads(lines, read, last) /\ Parsed(lines) = read[last]
  BY ParsedIsRead
<1> DEFINE Good(n) == /\ read[n] \in Seq(Events) /\ Rising(read[n])
                      /\ \A i \in DOMAIN read[n] : \E k \in 1 .. n : read[n][i] = lines[k]
           S == {n \in Nat : n <= last => Good(n)}
<1> HIDE DEF last
<1>3. 0 \in S
  <2>1. read[0] = <<>>
    BY <1>1, <1>2 DEF Reads
  <2>2. read[0] \in Seq(Events) /\ DOMAIN read[0] = {}
    BY <2>1
  <2>3. Good(0)
    BY <2>2 DEF Rising
  <2> QED BY <2>3
<1>4. ASSUME NEW n \in Nat, n \in S PROVE n + 1 \in S
  <2>1. SUFFICES ASSUME n + 1 <= last PROVE Good(n + 1)
    OBVIOUS
  <2>2. Good(n)
    BY <1>1, <1>4, <2>1
  <2>3. n + 1 \in 1 .. last /\ n + 1 \in 0 .. last /\ n + 1 # 0 /\ (n + 1) - 1 = n
    BY <1>1, <2>1
  <2>4. read[n + 1] = IF lines[n + 1] = Broken THEN read[n] ELSE Append(read[n], lines[n + 1])
    BY <1>2, <2>3 DEF Reads
  <2>5. CASE lines[n + 1] = Broken
    <3>1. read[n + 1] = read[n]
      BY <2>4, <2>5
    <3> QED BY <2>2, <3>1
  <2>6. CASE lines[n + 1] # Broken
    <3> DEFINE r == read[n]
               e == lines[n + 1]
    <3>1. read[n + 1] = Append(r, e)
      BY <2>4, <2>6
    <3>2. e \in Events /\ r \in Seq(Events)
      BY <1>1, <2>2, <2>3, <2>6 DEF Line
    <3>3. \A i \in DOMAIN r : r[i] # Broken => r[i] < e
      <4>1. TAKE i \in DOMAIN r
      <4>2. PICK k \in 1 .. n : r[i] = lines[k]
        BY <2>2
      <4>3. k \in DOMAIN lines /\ n + 1 \in DOMAIN lines /\ k < n + 1
        BY <1>1, <2>3
      <4> QED BY <2>6, <4>2, <4>3 DEF Rising
    <3>4. \A i \in DOMAIN r : \E k \in 1 .. n + 1 : r[i] = lines[k]
      BY <2>2
    <3>5. Rising(r)
      BY <2>2
    <3>6. e = lines[n + 1]
      OBVIOUS
    <3> HIDE DEF r, e
    <3>7. /\ Append(r, e) \in Seq(Events) /\ DOMAIN Append(r, e) = 1 .. Len(r) + 1
          /\ DOMAIN r = 1 .. Len(r) /\ Len(r) \in Nat
          /\ \A i \in 1 .. Len(r) : Append(r, e)[i] = r[i]
          /\ Append(r, e)[Len(r) + 1] = e
      BY <3>2
    <3>8. Rising(Append(r, e))
      BY <3>3, <3>5, <3>7 DEF Rising
    <3>9. \A i \in DOMAIN Append(r, e) : \E k \in 1 .. n + 1 : Append(r, e)[i] = lines[k]
      BY <3>4, <3>6, <3>7
    <3> QED BY <3>1, <3>7, <3>8, <3>9
  <2> QED BY <2>5, <2>6
<1> HIDE DEF S
<1>5. last \in S
  BY <1>1, <1>3, <1>4, Induction
<1>6. Good(last)
  BY <1>1, <1>5 DEF S
<1> QED BY <1>1, <1>2, <1>6

(* A line longer. *)
LEMMA RisingAppend ==
  ASSUME NEW s \in Seq(Line), Rising(s), NEW e \in Line,
         e = Broken \/ \A i \in DOMAIN s : s[i] < e
  PROVE  Rising(Append(s, e))
<1>1. /\ DOMAIN Append(s, e) = 1 .. Len(s) + 1
      /\ DOMAIN s = 1 .. Len(s) /\ Len(s) \in Nat
      /\ \A i \in 1 .. Len(s) : Append(s, e)[i] = s[i]
      /\ Append(s, e)[Len(s) + 1] = e
  OBVIOUS
<1> QED BY <1>1 DEF Rising

(* The ring after init(). *)
LEMMA FilledHolds ==
  ASSUME NEW found \in Seq(Events)
  PROVE  /\ Filled(found) \in [0 .. Ring - 1 -> Line]
         /\ \A k \in DOMAIN found :
              k + Ring > Len(found) => Filled(found)[(k - 1) % Ring] = found[k]
<1> DEFINE Slots(i) == {k \in DOMAIN found : (k - 1) % Ring = i /\ k + Ring > Len(found)}
<1> USE EventAssumption
<1>1. Filled(found) =
        [i \in 0 .. Ring - 1 |-> IF Slots(i) = {} THEN Broken ELSE found[CHOOSE k \in Slots(i) : TRUE]]
  BY DEF Filled
<1>2. \A k \in DOMAIN found : k \in Nat /\ k - 1 \in Nat /\ k <= Len(found) /\ found[k] \in Line
  BY DEF Line
<1>3. ASSUME NEW i \in 0 .. Ring - 1, Slots(i) # {}
      PROVE  (CHOOSE k \in Slots(i) : TRUE) \in Slots(i)
  BY <1>3
<1>4. Filled(found) \in [0 .. Ring - 1 -> Line]
  <2>1. ASSUME NEW i \in 0 .. Ring - 1
        PROVE  (IF Slots(i) = {} THEN Broken ELSE found[CHOOSE k \in Slots(i) : TRUE]) \in Line
    <3>1. CASE Slots(i) = {}
      BY <3>1 DEF Line
    <3>2. CASE Slots(i) # {}
      <4>1. (CHOOSE k \in Slots(i) : TRUE) \in DOMAIN found
        BY <1>3, <3>2
      <4> QED BY <1>2, <3>2, <4>1
    <3> QED BY <3>1, <3>2
  <2> HIDE DEF Slots
  <2> QED BY <1>1, <2>1
<1>5. ASSUME NEW k \in DOMAIN found, k + Ring > Len(found)
      PROVE  Filled(found)[(k - 1) % Ring] = found[k]
  <2> DEFINE i == (k - 1) % Ring
             c == CHOOSE m \in Slots(i) : TRUE
  <2>1. k - 1 \in Nat /\ i \in 0 .. Ring - 1
    BY <1>2, Division
  <2>2. k \in Slots(i)
    BY <1>5
  <2>3. c \in Slots(i)
    BY <2>2
  <2>4. c \in DOMAIN found /\ (c - 1) % Ring = (k - 1) % Ring /\ c + Ring > Len(found)
    BY <2>3
  <2> HIDE DEF c
  <2>5. c - 1 \in Nat /\ c - 1 < (k - 1) + Ring /\ k - 1 < (c - 1) + Ring
    <3>1. /\ c \in Nat /\ c - 1 \in Nat /\ c <= Len(found) /\ k \in Nat /\ k <= Len(found)
          /\ Len(found) \in Nat
      BY <1>2, <2>4
    <3>2. c + Ring > Len(found) /\ k + Ring > Len(found) /\ Ring \in Nat
      BY <1>5, <2>4
    <3> QED BY <3>1, <3>2
  <2>6. c - 1 = k - 1
    BY <2>1, <2>4, <2>5, SameSlot
  <2>7. c = k
    BY <1>2, <2>4, <2>6
  <2>8. Filled(found)[i] = found[c]
    <3>1. Slots(i) # {}
      BY <2>2
    <3> HIDE DEF Slots, i
    <3> QED BY <1>1, <2>1, <3>1 DEF c
  <2> QED BY <2>7, <2>8
<1> QED BY <1>4, <1>5
(* Part of rising lines rises. *)
LEMMA FilesApart ==
  ASSUME NEW s \in Seq(Line), NEW t \in Seq(Line), Rising(s \o t), NEW n, Below(s \o t, n)
  PROVE  Rising(s) /\ Below(s, n) /\ Rising(t) /\ Below(t, n)
<1>1. /\ Len(s) \in Nat /\ Len(t) \in Nat
      /\ DOMAIN s = 1 .. Len(s) /\ DOMAIN t = 1 .. Len(t)
      /\ DOMAIN (s \o t) = 1 .. Len(s) + Len(t)
      /\ \A i \in 1 .. Len(s) : (s \o t)[i] = s[i]
  OBVIOUS
<1>2. ASSUME NEW i \in 1 .. Len(t)
      PROVE  i + Len(s) \in 1 .. Len(s) + Len(t) /\ (s \o t)[i + Len(s)] = t[i]
  BY <1>1
<1>3. Rising(s) /\ Below(s, n)
  BY <1>1 DEF Rising, Below
<1>4. Below(t, n)
  BY <1>1, <1>2 DEF Below
<1>5. Rising(t)
  <2> SUFFICES ASSUME NEW i \in 1 .. Len(t), NEW j \in 1 .. Len(t),
                      i < j, t[i] # Broken, t[j] # Broken
               PROVE  t[i] < t[j]
    BY <1>1 DEF Rising
  <2>1. i + Len(s) < j + Len(s)
    BY <1>1
  <2> QED BY <1>1, <1>2, <2>1 DEF Rising
<1> QED BY <1>3, <1>4, <1>5

(* A line, whole or half, at the end of the newer file. *)
LEMMA LineAdded ==
  ASSUME NEW s \in Seq(Line), NEW t \in Seq(Line), NEW e \in Line, Rising(s \o t),
         e = Broken \/ Below(s \o t, e - 1)
  PROVE  Rising(s \o Append(t, e)) /\ (Below(s \o t, e - 1) => Below(s \o Append(t, e), e))
<1> USE EventAssumption
<1> DEFINE all == s \o t
<1>1. s \o Append(t, e) = Append(all, e) /\ all \in Seq(Line) /\ e \in Nat
  BY DEF Line, Events, Broken
<1>2. \A i \in DOMAIN all : all[i] \in Nat
  BY DEF Line, Events, Broken
<1> HIDE DEF all
<1>3. Below(all, e - 1) => \A i \in DOMAIN all : all[i] < e
  BY <1>1, <1>2 DEF Below
<1>4. Rising(Append(all, e))
  BY <1>1, <1>3, RisingAppend DEF all
<1>5. ASSUME Below(all, e - 1) PROVE Below(Append(all, e), e)
  <2>1. /\ DOMAIN Append(all, e) = 1 .. Len(all) + 1 /\ DOMAIN all = 1 .. Len(all)
        /\ Len(all) \in Nat /\ Append(all, e)[Len(all) + 1] = e
        /\ \A i \in 1 .. Len(all) : Append(all, e)[i] = all[i]
    BY <1>1
  <2> QED BY <1>1, <1>2, <1>3, <1>5, <2>1 DEF Below
<1> QED BY <1>1, <1>4, <1>5 DEF all

(* Half a line more. *)
LEMMA HalfLineBelow ==
  ASSUME NEW s \in Seq(Line), NEW t \in Seq(Line), NEW n \in Nat, Below(s \o t, n - 1)
  PROVE  Below(s \o Append(t, Broken), n)
<1> USE EventAssumption
<1> DEFINE all == s \o t
<1>1. s \o Append(t, Broken) = Append(all, Broken) /\ all \in Seq(Line)
  OBVIOUS
<1>2. \A i \in DOMAIN all : all[i] \in Nat
  BY DEF Line, Events, Broken
<1> HIDE DEF all
<1>3. /\ DOMAIN Append(all, Broken) = 1 .. Len(all) + 1 /\ DOMAIN all = 1 .. Len(all)
      /\ Len(all) \in Nat /\ Append(all, Broken)[Len(all) + 1] = Broken
      /\ \A i \in 1 .. Len(all) : Append(all, Broken)[i] = all[i]
  BY <1>1
<1>4. Below(all, n - 1)
  BY DEF all
<1> QED BY <1>1, <1>2, <1>3, <1>4 DEF Below, Broken

(* The newer file in both, *)
LEMMA NewerPart ==
  ASSUME NEW s \in Seq(Line), NEW t \in Seq(Line), NEW k \in DOMAIN t
  PROVE  k + Len(s) \in DOMAIN (s \o t) /\ (s \o t)[k + Len(s)] = t[k]
<1>1. /\ Len(s) \in Nat /\ Len(t) \in Nat /\ DOMAIN t = 1 .. Len(t)
      /\ DOMAIN (s \o t) = 1 .. Len(s) + Len(t)
  OBVIOUS
<1> QED BY <1>1

(* which has the higher numbers, if it has any. *)
LEMMA NewerIsHigher ==
  ASSUME NEW s \in Seq(Line), NEW t \in Seq(Line), Rising(s \o t),
         NEW k \in DOMAIN t, t[k] # Broken,
         NEW n \in Nat \ {0}, NEW i \in DOMAIN (s \o t), (s \o t)[i] >= n
  PROVE  \E j \in DOMAIN t : t[j] >= n
<1> USE EventAssumption
<1>1. /\ Len(s) \in Nat /\ Len(t) \in Nat /\ DOMAIN t = 1 .. Len(t)
      /\ DOMAIN (s \o t) = 1 .. Len(s) + Len(t) /\ t[k] \in Nat /\ (s \o t)[i] \in Nat
  BY DEF Line, Events, Broken
<1>2. k + Len(s) \in DOMAIN (s \o t) /\ (s \o t)[k + Len(s)] = t[k]
  BY NewerPart
<1>3. CASE i <= Len(s)
  <2>1. i < k + Len(s) /\ (s \o t)[i] # Broken
    BY <1>1, <1>3 DEF Broken
  <2>2. (s \o t)[i] < t[k]
    BY <1>2, <2>1 DEF Rising
  <2> QED BY <1>1, <2>2
<1>4. CASE i > Len(s)
  <2>1. i - Len(s) \in DOMAIN t /\ (i - Len(s)) + Len(s) = i
    BY <1>1, <1>4
  <2>2. (s \o t)[i] = t[i - Len(s)]
    BY <2>1, NewerPart
  <2> QED BY <2>1, <2>2
<1> QED BY <1>1, <1>3, <1>4

(* The files hold rising numbers, which are used if they are mounted;      *)
FilesInv ==
  LET writing == logStep \in {"file", "rename", "append"}
  IN  /\ Rising(old \o file)
      /\ mounted => Below(old \o file, IF writing THEN seq - 1 ELSE seq)
      /\ writing => mounted /\ seq > 0

(* the ring holds the end of the history, each event in the slot that       *)
(* belongs to its place in it;                                              *)
RingInv ==
  /\ Rising(entries) /\ Below(entries, seq)
  /\ count = IF Len(entries) < Ring THEN Len(entries) ELSE Ring
  /\ head = Len(entries) % Ring
  /\ \A k \in DOMAIN entries : k + Ring > Len(entries) => ring[(k - 1) % Ring] = entries[k]


(* and the last number of a finished log() is in memory, and in NVS or in a *)
(* file that is mounted.                                                    *)
OnRecord == \E i \in DOMAIN (old \o file) : (old \o file)[i] >= top
NumberInv == unsaved \/ (top <= seq /\ (top <= savedSeq \/ (mounted /\ OnRecord)))

LogInv == LogTypeOK /\ FilesInv /\ RingInv /\ NumberInv

(* get_json reads the history backwards. *)
LEMMA ReadsBack ==
  ASSUME LogInv, NEW i \in 0 .. count - 1
  PROVE  Len(entries) - i \in DOMAIN entries /\ AtIndex(i) = entries[Len(entries) - i]
<1> DEFINE last == Len(entries)
           k    == last - i
<1> USE EventAssumption
<1>1. last \in Nat /\ DOMAIN entries = 1 .. last
  BY DEF LogInv, LogTypeOK
<1>2. count = (IF last < Ring THEN last ELSE Ring) /\ head = last % Ring
  BY DEF LogInv, RingInv
<1>3. i \in 0 .. Ring - 1 /\ i < last
  BY <1>1, <1>2
<1>4. k \in DOMAIN entries /\ k + Ring > last
  BY <1>1, <1>3
<1>5. ring[(k - 1) % Ring] = entries[k]
  BY <1>4 DEF LogInv, RingInv
<1>6. (head + 2 * Ring - 1 - i) % Ring = (last - 1 - i) % Ring
  <2> HIDE DEF last
  <2> QED BY <1>1, <1>2, <1>3, SlotBack
<1>7. last - 1 - i = k - 1
  BY <1>1, <1>3
<1> QED BY <1>4, <1>5, <1>6, <1>7 DEF AtIndex

(* From the newest back until one is known or there are enough: as numbers   *)
(* fall on the way back, none that is newer is missed.                       *)
LEMMA AnswersNewestHolds == LogInv => AnswersNewest
<1> SUFFICES ASSUME LogInv, NEW since \in 0 .. seq, NEW limit \in 1 .. Ring
             PROVE  LET events == GetJson(since, limit)
                        n      == Len(events)
                        last   == Len(entries)
                    IN  /\ n <= limit /\ n <= last
                        /\ \A i \in 1 .. n : events[i] = entries[last + 1 - i] /\ events[i] > since
                        /\ \A k \in 1 .. last : entries[k] > since => n = limit \/ k > last - n
  BY DEF AnswersNewest
<1> USE EventAssumption
<1> DEFINE last == Len(entries)
           most == IF limit < count THEN limit ELSE count
           Ends(k) == /\ \A i \in 0 .. k - 1 : AtIndex(i) > since
                      /\ k = most \/ AtIndex(k) <= since
           n == CHOOSE k \in 0 .. most : Ends(k)
           events == [i \in 1 .. n |-> AtIndex(i - 1)]
<1>1. last \in Nat /\ DOMAIN entries = 1 .. last /\ seq \in Nat /\ since \in Nat
      /\ \A k \in 1 .. last : entries[k] \in Nat /\ entries[k] # Broken
  BY DEF LogInv, LogTypeOK, Events, Broken
<1>2. count = IF last < Ring THEN last ELSE Ring
  BY DEF LogInv, RingInv
<1>3. most \in Nat /\ most <= limit /\ most <= count /\ count \in Nat /\ count <= last
  BY <1>1, <1>2
<1>4. \A i \in 0 .. most - 1 : AtIndex(i) = entries[last - i] /\ last - i \in 1 .. last
  BY <1>1, <1>3, ReadsBack
<1> HIDE DEF last, most
<1>5. n \in 0 .. most /\ Ends(n)
  <2> DEFINE S == {k \in 0 .. most : k = most \/ AtIndex(k) <= since}
  <2>1. most \in S /\ S \in SUBSET Nat
    BY <1>3
  <2>2. PICK k \in S : \A j \in S : k <= j
    <3> HIDE DEF S
    <3> QED BY <2>1, Least
  <2>3. \A i \in 0 .. k - 1 : AtIndex(i) > since
    <3>1. TAKE i \in 0 .. k - 1
    <3>2. i \in 0 .. most /\ i # most /\ i \notin S
      BY <1>3, <2>2
    <3>3. AtIndex(i) \in Nat /\ ~(AtIndex(i) <= since)
      BY <1>1, <1>3, <1>4, <3>2
    <3> QED BY <1>1, <3>3
  <2>4. Ends(k)
    BY <2>2, <2>3
  <2> HIDE DEF Ends
  <2> QED BY <2>2, <2>4
<1>6. GetJson(since, limit) = events
  BY DEF GetJson, most
<1> HIDE DEF n
<1>7. Len(events) = n /\ n \in Nat /\ n <= limit /\ n <= last
  BY <1>1, <1>3, <1>5
<1>8. ASSUME NEW i \in 1 .. n
      PROVE  events[i] = entries[last + 1 - i] /\ events[i] > since
  <2>1. i - 1 \in 0 .. most - 1 /\ i - 1 \in 0 .. n - 1 /\ last - (i - 1) = last + 1 - i
    BY <1>1, <1>3, <1>5, <1>7
  <2> QED BY <1>4, <1>5, <2>1
<1>9. ASSUME NEW k \in 1 .. last, entries[k] > since, n # limit
      PROVE  k > last - n
  <2>1. CASE n = most
    <3>1. most = last
      BY <1>2, <1>3, <1>9, <2>1 DEF most
    <3> QED BY <1>1, <2>1, <3>1
  <2>2. CASE n # most
    <3>1. n \in 0 .. most - 1 /\ AtIndex(n) <= since
      BY <1>3, <1>5, <2>2
    <3>2. entries[last - n] <= since /\ last - n \in 1 .. last
      BY <1>4, <3>1
    <3>3. k <= last - n => entries[k] <= entries[last - n]
      <4>1. Rising(entries)
        BY DEF LogInv, RingInv
      <4> QED BY <1>1, <3>2, <4>1 DEF Rising
    <3> QED BY <1>1, <1>7, <1>9, <3>2, <3>3
  <2> QED BY <2>1, <2>2
<1> QED BY <1>6, <1>7, <1>8, <1>9 DEF last


(* ring_push() of the next number. *)
LEMMA PushKeeps ==
  ASSUME LogInv, seq < MaxEvents, RingPush(seq + 1), seq' = seq + 1
  PROVE  /\ RingInv'
         /\ ring' \in [0 .. Ring - 1 -> Line] /\ head' \in 0 .. Ring - 1 /\ count' \in 0 .. Ring
         /\ entries' \in Seq(Events) /\ seq' \in 0 .. MaxEvents
<1> USE EventAssumption
<1> DEFINE last == Len(entries)
           e    == seq + 1
<1>1. /\ last \in Nat /\ DOMAIN entries = 1 .. last /\ entries \in Seq(Events) /\ seq \in 0 .. MaxEvents
      /\ ring \in [0 .. Ring - 1 -> Line] /\ head \in 0 .. Ring - 1 /\ count \in 0 .. Ring
      /\ \A k \in 1 .. last : entries[k] \in Events
  BY DEF LogInv, LogTypeOK, Line
<1>2. /\ ring' = [ring EXCEPT ![head] = e] /\ head' = (head + 1) % Ring
      /\ count' = (IF count < Ring THEN count + 1 ELSE count) /\ entries' = Append(entries, e)
  BY DEF RingPush
<1>3. /\ Rising(entries) /\ Below(entries, seq)
      /\ count = (IF last < Ring THEN last ELSE Ring) /\ head = last % Ring
      /\ \A k \in DOMAIN entries : k + Ring > last => ring[(k - 1) % Ring] = entries[k]
  BY DEF LogInv, RingInv
<1>4. /\ entries' \in Seq(Events) /\ Len(entries') = last + 1 /\ DOMAIN entries' = 1 .. last + 1
      /\ \A k \in 1 .. last : entries'[k] = entries[k]
      /\ entries'[last + 1] = e /\ e \in Events /\ e \in Line
  BY <1>1, <1>2 DEF Events, Line
<1> HIDE DEF last
<1>5. Rising(entries') /\ Below(entries', seq')
  <2>1. \A k \in 1 .. last : entries[k] \in Nat /\ entries[k] < e
    <3>1. TAKE k \in 1 .. last
    <3>2. entries[k] \in Events /\ entries[k] <= seq
      BY <1>1, <1>3 DEF Below
    <3> QED BY <1>1, <3>2 DEF Events
  <2>2. Rising(entries')
    <3>1. entries \in Seq(Line)
      BY <1>1 DEF Line
    <3> QED BY <1>1, <1>2, <1>3, <1>4, <2>1, <3>1, RisingAppend
  <2>3. Below(entries', seq')
    BY <1>1, <1>4, <2>1 DEF Below
  <2> QED BY <2>2, <2>3
<1>6. head' = (last + 1) % Ring /\ head' \in 0 .. Ring - 1
  <2>1. ((last % Ring) + 1) % Ring = (last + 1) % Ring
    BY <1>1, NextSlot
  <2>2. (last + 1) % Ring \in 0 .. Ring - 1
    <3>1. last + 1 \in Nat
      BY <1>1
    <3> QED BY <3>1, Division
  <2> QED BY <1>2, <1>3, <2>1, <2>2
<1>7. count' = (IF last + 1 < Ring THEN last + 1 ELSE Ring) /\ count' \in 0 .. Ring
  BY <1>1, <1>2, <1>3
<1>8. ASSUME NEW k \in 1 .. last + 1, k + Ring > last + 1
      PROVE  ring'[(k - 1) % Ring] = entries'[k]
  <2>1. k - 1 \in Nat /\ (k - 1) % Ring \in 0 .. Ring - 1
    <3>1. k - 1 \in Nat
      BY <1>1
    <3> QED BY <3>1, Division
  <2>2. CASE k = last + 1
    <3>1. k - 1 = last
      BY <1>1, <2>2
    <3> QED BY <1>1, <1>2, <1>3, <1>4, <2>2, <3>1
  <2>3. CASE k # last + 1
    <3>1. k \in 1 .. last /\ k + Ring > last
      BY <1>1, <1>8, <2>3
    <3>2. (k - 1) % Ring # head
      <4>1. k - 1 # last /\ k - 1 < last + Ring /\ last < (k - 1) + Ring
        BY <1>1, <1>8, <3>1
      <4> QED BY <1>1, <1>3, <2>1, <4>1, SameSlot
    <3> QED BY <1>1, <1>2, <1>3, <1>4, <2>1, <3>1, <3>2
  <2> QED BY <2>2, <2>3
<1>9. seq' \in 0 .. MaxEvents /\ ring' \in [0 .. Ring - 1 -> Line]
  BY <1>1, <1>2, <1>4
<1> QED BY <1>4, <1>5, <1>6, <1>7, <1>8, <1>9 DEF RingInv, last

(* A line more leaves the others where they are. *)
LEMMA LinesStay ==
  ASSUME NEW s \in Seq(Line), NEW t \in Seq(Line), NEW e \in Line, NEW i \in DOMAIN (s \o t)
  PROVE  i \in DOMAIN (s \o Append(t, e)) /\ (s \o Append(t, e))[i] = (s \o t)[i]
<1> DEFINE all == s \o t
<1>1. s \o Append(t, e) = Append(all, e) /\ all \in Seq(Line)
  OBVIOUS
<1>2. i \in DOMAIN all
  OBVIOUS
<1> HIDE DEF all
<1>3. i \in DOMAIN Append(all, e) /\ Append(all, e)[i] = all[i]
  BY <1>1, <1>2
<1> QED BY <1>1, <1>3 DEF all

(* So NumberInv outlives a step that touches no number and keeps what was on *)
(* record,                                                                   *)
LEMMA NumberStays ==
  ASSUME LogTypeOK, NumberInv, UNCHANGED <<savedSeq, top, mounted>>,
         seq' \in {seq, seq + 1}, unsaved => unsaved',
         ~unsaved' /\ Behind /\ OnRecord => OnRecord'
  PROVE  NumberInv'
<1>1. CASE unsaved'
  BY <1>1 DEF NumberInv
<1>2. CASE ~unsaved'
  <2>1. top <= seq /\ (top <= savedSeq \/ (mounted /\ OnRecord))
    BY <1>2 DEF NumberInv
  <2>2. savedSeq \in Nat /\ top \in Nat /\ seq \in Nat
    BY EventAssumption DEF LogTypeOK
  <2>3. top' <= seq'
    BY <2>1, <2>2
  <2>4. CASE top <= savedSeq
    BY <2>3, <2>4 DEF NumberInv
  <2>5. CASE ~(top <= savedSeq)
    <3>1. Behind
      BY <2>2, <2>5 DEF Behind
    <3>2. mounted' /\ OnRecord'
      BY <1>2, <2>1, <2>5, <3>1
    <3> QED BY <2>3, <3>2 DEF NumberInv
  <2> QED BY <2>4, <2>5
<1> QED BY <1>1, <1>2

(* init() makes the ring of what the files hold, and goes on from NVS or from *)
(* the files, whichever is further.                                          *)
LEMMA BootHolds ==
  ASSUME LogInv, NEW lines \in Seq(Line), Rising(old \o lines),
         OnRecord => \E i \in DOMAIN (old \o lines) : (old \o lines)[i] >= top,
         NEW torn \in BOOLEAN, LogBoot(lines, torn)
  PROVE  LogInv'
<1> USE EventAssumption
<1> DEFINE all == old' \o file'
           found == IF mounted' THEN Parsed(all) ELSE <<>>
           numbers == IF mounted' THEN all ELSE <<>>
<1>1. old \in Seq(Line)
  BY DEF LogInv, LogTypeOK, Line
<1>2. /\ mounted' \in BOOLEAN
      /\ ring' = Filled(Parsed(numbers)) /\ head' = Len(Parsed(numbers)) % Ring
      /\ count' = (IF Len(Parsed(numbers)) < Ring THEN Len(Parsed(numbers)) ELSE Ring)
      /\ entries' = Parsed(numbers)
      /\ seq' = Resume(numbers) /\ logStep' = "idle"
      /\ UNCHANGED <<savedSeq, top>> /\ LogFault
  BY DEF LogBoot
<1>3. \/ /\ file' = lines /\ ragged' = torn /\ old' = old
         /\ unsaved' = (unsaved \/ (Behind /\ ~mounted'))
      \/ /\ file' = <<>> /\ ragged' = FALSE /\ old' = <<>>
         /\ unsaved' = (unsaved \/ Behind)
  BY DEF LogBoot
<1>4. Parsed(<<>>) = <<>>
  <2>1. <<>> \in Seq(Line) /\ Len(<<>>) = 0
    OBVIOUS
  <2>2. PICK read : Reads(<<>>, read, 0) /\ Parsed(<<>>) = read[0]
    BY <2>1, ParsedIsRead
  <2> QED BY <2>2 DEF Reads
<1>5. Parsed(numbers) = found
  BY <1>4
<1>6. all \in Seq(Line) /\ Rising(all) /\ old' \in Seq(Line) /\ file' \in Seq(Line)
      /\ ragged' \in BOOLEAN
  <2>1. <<>> \in Seq(Line) /\ <<>> \o <<>> = <<>> /\ Rising(<<>>)
    BY DEF Rising
  <2>2. CASE file' = lines /\ ragged' = torn /\ old' = old
    BY <1>1, <2>2
  <2>3. CASE file' = <<>> /\ ragged' = FALSE /\ old' = <<>>
    <3>1. all = <<>>
      BY <2>1, <2>3
    <3> QED BY <2>1, <2>3, <3>1
  <2> QED BY <1>3, <2>2, <2>3
<1> HIDE DEF all
<1>7. /\ found \in Seq(Events) /\ Rising(found)
      /\ \A i \in DOMAIN found : \E k \in DOMAIN numbers : found[i] = numbers[k]
  <2>1. CASE mounted'
    BY <1>6, <2>1, ParsedRises
  <2>2. CASE ~mounted'
    BY <2>2 DEF Rising
  <2> QED BY <2>1, <2>2
<1>8. numbers \in Seq(Line)
  BY <1>6
<1> HIDE DEF found
<1>9. /\ Highest(numbers) \in 0 .. MaxEvents
      /\ \A k \in DOMAIN numbers : numbers[k] <= Highest(numbers)
  BY <1>8, HighestIsANumber DEF Line
<1>10. numbers = IF mounted' THEN all ELSE <<>>
  OBVIOUS
<1> HIDE DEF numbers
<1>11. seq' \in 0 .. MaxEvents /\ \A k \in DOMAIN numbers : numbers[k] <= seq'
  <2>1. savedSeq \in 0 .. MaxEvents /\ \A k \in DOMAIN numbers : numbers[k] \in Nat
    BY <1>8 DEF LogInv, LogTypeOK, Line, Events, Broken
  <2> QED BY <1>2, <1>9, <2>1 DEF Resume
<1>12. RingInv'
  <2>1. Below(found, seq')
    BY <1>7, <1>11 DEF Below
  <2> QED BY <1>2, <1>5, <1>7, <2>1, FilledHolds DEF RingInv
<1>13. FilesInv'
  BY <1>2, <1>6, <1>10, <1>11 DEF FilesInv, Below, all
<1>14. LogTypeOK'
  <2>1. Len(found) \in Nat
    BY <1>7
  <2>2. head' \in 0 .. Ring - 1 /\ count' \in 0 .. Ring
    <3>1. Len(found) % Ring \in 0 .. Ring - 1
      BY <2>1, Division
    <3> QED BY <1>2, <1>5, <2>1, <3>1
  <2>3. ring' \in [0 .. Ring - 1 -> Line]
    BY <1>2, <1>5, <1>7, FilledHolds
  <2>4. logFaults' \in 0 .. MaxLogFaults
    BY <1>2 DEF LogFault, LogInv, LogTypeOK
  <2>5. unsaved' \in BOOLEAN
    BY <1>2, <1>3 DEF LogInv, LogTypeOK, Behind
  <2> QED BY <1>2, <1>5, <1>6, <1>7, <1>11, <2>2, <2>3, <2>4, <2>5 DEF LogInv, LogTypeOK, Line
<1>15. NumberInv'
  <2>1. savedSeq \in 0 .. MaxEvents /\ top \in 0 .. MaxEvents /\ savedSeq <= seq'
    BY <1>2, <1>9 DEF Resume, LogInv, LogTypeOK
  <2>2. CASE unsaved'
    BY <2>2 DEF NumberInv
  <2>3. CASE ~unsaved' /\ top <= savedSeq
    BY <1>2, <1>11, <2>1, <2>3 DEF NumberInv
  <2>4. CASE ~unsaved' /\ ~(top <= savedSeq)
    <3>1. Behind
      BY <2>1, <2>4 DEF Behind
    <3>2. file' = lines /\ old' = old /\ mounted' /\ ~unsaved
      BY <1>2, <1>3, <2>4, <3>1
    <3>3. OnRecord
      BY <2>4, <3>2 DEF LogInv, NumberInv
    <3>4. PICK i \in DOMAIN (old \o lines) : (old \o lines)[i] >= top
      BY <3>3
    <3>5. numbers = old \o lines /\ numbers[i] \in Nat
      BY <1>8, <1>10, <3>2, <3>4 DEF all, Line, Events, Broken
    <3>6. top <= seq'
      BY <1>11, <2>1, <3>4, <3>5
    <3>7. OnRecord'
      BY <1>2, <3>2, <3>4 DEF OnRecord
    <3> QED BY <1>2, <3>2, <3>6, <3>7 DEF NumberInv
  <2> QED BY <2>2, <2>3, <2>4
<1> QED BY <1>12, <1>13, <1>14, <1>15 DEF LogInv

(* Every step of log(), clear() and init() keeps ring and files in step.     *)
LEMMA LogStep == LogInv /\ [LogNext]_logVars => LogInv'
<1> SUFFICES ASSUME LogInv, [LogNext]_logVars PROVE LogInv'
  OBVIOUS
<1> USE EventAssumption
<1>0. LogTypeOK /\ FilesInv /\ RingInv /\ NumberInv
  BY DEF LogInv
<1>e. <<>> \in Seq(Line) /\ \A s \in Seq(Line) : <<>> \o s = s /\ s \o <<>> = s
  OBVIOUS
<1>f. old \in Seq(Line) /\ file \in Seq(Line) /\ old \o file \in Seq(Line)
  BY <1>0 DEF LogTypeOK, Line
<1>n. ASSUME UNCHANGED <<savedSeq, top, mounted, unsaved>>, seq' \in {seq, seq + 1},
             UNCHANGED <<old, file>>
      PROVE  NumberInv'
  BY <1>0, <1>n, NumberStays DEF OnRecord
<1>1. CASE LogEvent
  <2>1. RingInv' /\ ring' \in [0 .. Ring - 1 -> Line] /\ head' \in 0 .. Ring - 1 /\ count' \in 0 .. Ring
         /\ entries' \in Seq(Events) /\ seq' \in 0 .. MaxEvents
    BY <1>1, PushKeeps DEF LogEvent
  <2>2. LogTypeOK'
    BY <1>0, <1>1, <2>1 DEF LogEvent, LogTypeOK, fileVars, Line
  <2>3. FilesInv'
    <3>1. /\ UNCHANGED <<old, file, mounted>> /\ seq \in Nat /\ seq' = seq + 1
          /\ logStep' = (IF mounted THEN "file" ELSE "save") /\ logStep = "idle"
      BY <1>0, <1>1 DEF LogEvent, fileVars, LogTypeOK
    <3>2. Rising(old \o file) /\ (mounted => Below(old \o file, seq))
      BY <1>0, <3>1 DEF FilesInv
    <3>3. seq' - 1 = seq /\ seq' > 0
      BY <3>1
    <3> QED BY <3>1, <3>2, <3>3 DEF FilesInv
  <2>n. NumberInv'
    BY <1>1, <1>n DEF LogEvent, fileVars
  <2> QED BY <2>1, <2>2, <2>3, <2>n DEF LogInv
<1>2. CASE RemoveOld
  <2>1. RingInv'
    BY <1>0, <1>2 DEF RemoveOld, RingInv, ringVars
  <2>t. unsaved' \in BOOLEAN /\ logFaults' \in 0 .. MaxLogFaults
    <3>1. logFaults \in 0 .. MaxLogFaults /\ unsaved \in BOOLEAN
      BY <1>0 DEF LogTypeOK
    <3>2. LogFault => logFaults' \in 0 .. MaxLogFaults
      BY <3>1 DEF LogFault
    <3>3. UNCHANGED unsaved \/ unsaved' = (unsaved \/ (Behind /\ ~Whole(file)))
      BY <1>2 DEF RemoveOld
    <3>4. unsaved' \in BOOLEAN
      BY <3>1, <3>3
    <3> QED BY <1>2, <3>1, <3>2, <3>4 DEF RemoveOld
  <2>2. LogTypeOK'
    <3>1. UNCHANGED <<ringVars, seq, mounted, file, ragged, savedSeq, top>>
          /\ logStep' \in {"append", "rename"} /\ old' \in {old, <<>>}
      BY <1>2 DEF RemoveOld
    <3> QED BY <1>0, <1>e, <2>t, <3>1 DEF LogTypeOK, ringVars, Line
  <2>3. FilesInv'
    <3>1. CASE UNCHANGED old
      BY <1>0, <1>2, <3>1 DEF RemoveOld, FilesInv
    <3>2. CASE old' = <<>>
      <4>1. Rising(file) /\ Below(file, seq - 1)
        BY <1>0, <1>2, <1>f, FilesApart DEF RemoveOld, FilesInv
      <4>2. old' \o file' = file
        BY <1>2, <1>e, <1>f, <3>2 DEF RemoveOld
      <4> QED BY <1>0, <1>2, <4>1, <4>2 DEF RemoveOld, FilesInv
    <3> QED BY <1>2, <3>1, <3>2 DEF RemoveOld
  <2>n. NumberInv'
    <3>1. UNCHANGED <<savedSeq, top, mounted, seq, file>>
      BY <1>2 DEF RemoveOld
    <3>2. CASE UNCHANGED <<old, unsaved>>
      BY <1>n, <3>1, <3>2
    <3>3. CASE old' = <<>> /\ unsaved' = (unsaved \/ (Behind /\ ~Whole(file)))
      <4>1. ASSUME ~unsaved', Behind, OnRecord PROVE OnRecord'
        <5>1. PICK k \in DOMAIN file : file[k] # Broken
          BY <3>3, <4>1 DEF Whole
        <5>2. PICK i \in DOMAIN (old \o file) : (old \o file)[i] >= top
          BY <4>1 DEF OnRecord
        <5>3. top \in Nat /\ top > 0
          BY <1>0, <4>1 DEF Behind, LogTypeOK
        <5>4. Rising(old \o file)
          BY <1>0 DEF FilesInv
        <5>5. PICK j \in DOMAIN file : file[j] >= top
          BY <1>f, <5>1, <5>2, <5>3, <5>4, NewerIsHigher
        <5>6. old' \o file' = file
          BY <1>e, <1>f, <3>1, <3>3
        <5> QED BY <3>1, <5>5, <5>6 DEF OnRecord
      <4> QED BY <1>0, <3>1, <3>3, <4>1, NumberStays
    <3> QED BY <1>2, <3>2, <3>3 DEF RemoveOld
  <2> QED BY <2>1, <2>2, <2>3, <2>n DEF LogInv
<1>3. CASE RenameFile
  <2>1. RingInv'
    BY <1>0, <1>3 DEF RenameFile, RingInv, ringVars
  <2>2. LogTypeOK'
    <3>1. logFaults \in 0 .. MaxLogFaults
      BY <1>0 DEF LogTypeOK
    <3>2. logFaults' \in 0 .. MaxLogFaults
      BY <1>3, <3>1 DEF RenameFile, LogFault
    <3>3. old' \in Seq(Line) /\ file' \in Seq(Line) /\ ragged' \in BOOLEAN
      BY <1>0, <1>3, <1>e, <1>f DEF RenameFile, LogTypeOK, fileVars
    <3>4. UNCHANGED <<ringVars, seq, mounted, savedSeq, top, unsaved>> /\ logStep' = "append"
      BY <1>3 DEF RenameFile
    <3> QED BY <1>0, <3>2, <3>3, <3>4 DEF LogTypeOK, ringVars, Line
  <2>l. old' \o file' = old \o file
    <3>1. CASE old = <<>> /\ old' = file /\ file' = <<>>
      BY <1>e, <1>f, <3>1
    <3>2. CASE UNCHANGED fileVars
      BY <3>2 DEF fileVars
    <3> QED BY <1>3, <3>1, <3>2 DEF RenameFile
  <2>3. FilesInv'
    BY <1>0, <1>3, <2>l DEF RenameFile, FilesInv
  <2>n. NumberInv'
    <3>1. UNCHANGED <<savedSeq, top, mounted, seq, unsaved>>
      BY <1>3 DEF RenameFile
    <3> QED BY <1>0, <2>l, <3>1, NumberStays DEF OnRecord
  <2> QED BY <2>1, <2>2, <2>3, <2>n DEF LogInv
<1>4. CASE AppendLine
  <2>1. RingInv'
    BY <1>0, <1>4 DEF AppendLine, RingInv, ringVars
  <2>2. seq \in Line /\ seq \in Nat
    BY <1>0 DEF LogTypeOK, Line, Events, Broken
  <2>l. /\ file' \in {file, Append(file, seq), Append(file, Broken)}
        /\ ragged' \in BOOLEAN /\ logFaults' \in 0 .. MaxLogFaults
    <3>1. logFaults \in 0 .. MaxLogFaults /\ ragged \in BOOLEAN
      BY <1>0 DEF LogTypeOK
    <3>2. LogFault => logFaults' \in 0 .. MaxLogFaults
      BY <3>1 DEF LogFault
    <3> QED BY <1>4, <3>1, <3>2 DEF AppendLine, Torn
  <2>3. LogTypeOK'
    <3>1. file' \in Seq(Line)
      <4>1. Append(file, seq) \in Seq(Line)
        BY <1>f, <2>2
      <4>2. Append(file, Broken) \in Seq(Line)
        BY <1>f DEF Line
      <4> QED BY <1>f, <2>l, <4>1, <4>2
    <3>2. logStep' = "save" /\ UNCHANGED <<ringVars, seq, mounted, old, savedSeq, top, unsaved>>
      BY <1>4 DEF AppendLine
    <3> QED BY <1>0, <2>l, <3>1, <3>2 DEF LogTypeOK, ringVars, Line
  <2>4. Rising(old \o file) /\ Below(old \o file, seq - 1) /\ mounted /\ seq > 0
    BY <1>0, <1>4 DEF FilesInv, AppendLine
  <2>5. Rising(old' \o file') /\ Below(old' \o file', seq)
    <3>1. CASE file' = file
      <4>1. \A i \in DOMAIN (old \o file) : (old \o file)[i] \in Nat
        BY <1>f DEF Line, Events, Broken
      <4>2. Below(old \o file, seq)
        BY <2>2, <2>4, <4>1 DEF Below
      <4> QED BY <1>4, <2>4, <3>1, <4>2 DEF AppendLine
    <3>2. CASE file' = Append(file, seq)
      BY <1>4, <1>f, <2>2, <2>4, <3>2, LineAdded DEF AppendLine
    <3>3. CASE file' = Append(file, Broken)
      <4>1. old' \o file' = old \o Append(file, Broken) /\ Broken \in Line
        BY <1>4, <3>3 DEF AppendLine, Line
      <4>2. Rising(old \o Append(file, Broken))
        BY <1>f, <2>4, <4>1, LineAdded
      <4>3. Below(old \o Append(file, Broken), seq)
        BY <1>f, <2>2, <2>4, HalfLineBelow
      <4> QED BY <4>1, <4>2, <4>3
    <3> QED BY <2>l, <3>1, <3>2, <3>3
  <2>6. FilesInv'
    BY <1>4, <2>5 DEF AppendLine, FilesInv
  <2>n. NumberInv'
    <3>1. UNCHANGED <<savedSeq, top, mounted, seq, old, unsaved>>
      BY <1>4 DEF AppendLine
    <3>2. ASSUME NEW e \in Line, file' = Append(file, e), OnRecord PROVE OnRecord'
      <4>1. PICK i \in DOMAIN (old \o file) : (old \o file)[i] >= top
        BY <3>2 DEF OnRecord
      <4>2. i \in DOMAIN (old' \o file') /\ (old' \o file')[i] = (old \o file)[i]
        BY <1>f, <3>1, <3>2, <4>1, LinesStay
      <4> QED BY <3>1, <4>1, <4>2 DEF OnRecord
    <3>3. CASE file' = file
      BY <1>n, <3>1, <3>3
    <3>4. CASE file' \in {Append(file, seq), Append(file, Broken)}
      <4>1. OnRecord => OnRecord'
        BY <2>2, <3>2, <3>4 DEF Line
      <4> QED BY <1>0, <3>1, <4>1, NumberStays
    <3> QED BY <2>l, <3>3, <3>4
  <2> QED BY <2>1, <2>3, <2>6, <2>n DEF LogInv
<1>5. CASE PersistSeq
  <2>1. RingInv' /\ FilesInv'
    BY <1>0, <1>5 DEF PersistSeq, RingInv, FilesInv, ringVars, fileVars
  <2>2. LogTypeOK'
    <3>1. /\ savedSeq' \in 0 .. MaxEvents /\ top' \in 0 .. MaxEvents
          /\ unsaved' \in BOOLEAN /\ logFaults' \in 0 .. MaxLogFaults
      <4>1. logFaults \in 0 .. MaxLogFaults /\ seq \in 0 .. MaxEvents /\ savedSeq \in 0 .. MaxEvents
        BY <1>0 DEF LogTypeOK
      <4>2. top' = seq
        BY <1>5 DEF PersistSeq
      <4>3. CASE savedSeq' = seq /\ unsaved' = FALSE /\ UNCHANGED logFaults
        BY <4>1, <4>2, <4>3
      <4>4. CASE LogFault /\ UNCHANGED savedSeq
                 /\ unsaved' = (savedSeq < seq /\ ~(mounted /\ OnFile(seq)))
        <5>1. logFaults' \in 0 .. MaxLogFaults
          BY <4>1, <4>4 DEF LogFault
        <5>2. unsaved' \in BOOLEAN
          BY <4>4
        <5> QED BY <4>1, <4>2, <4>4, <5>1, <5>2
      <4> QED BY <1>5, <4>3, <4>4 DEF PersistSeq
    <3>2. logStep' = "idle" /\ UNCHANGED <<ringVars, seq, mounted, fileVars>>
      BY <1>5 DEF PersistSeq
    <3> QED BY <1>0, <3>1, <3>2 DEF LogTypeOK, ringVars, fileVars
  <2>3. NumberInv'
    <3>1. /\ top' = seq /\ seq' = seq /\ seq \in Nat /\ savedSeq \in Nat
          /\ UNCHANGED <<mounted, old, file>>
      BY <1>0, <1>5 DEF PersistSeq, LogTypeOK, fileVars
    <3>2. CASE savedSeq' = seq
      BY <3>1, <3>2 DEF NumberInv
    <3>3. CASE UNCHANGED savedSeq /\ unsaved' = (savedSeq < seq /\ ~(mounted /\ OnFile(seq)))
      <4>1. CASE unsaved' \/ seq <= savedSeq
        BY <3>1, <3>3, <4>1 DEF NumberInv
      <4>2. CASE ~unsaved' /\ ~(seq <= savedSeq)
        <5>1. mounted /\ OnFile(seq)
          <6>1. savedSeq < seq
            BY <3>1, <4>2
          <6>2. ~(savedSeq < seq /\ ~(mounted /\ OnFile(seq)))
            BY <3>3, <4>2
          <6> QED BY <6>1, <6>2
        <5>2. PICK k \in DOMAIN file : file[k] = seq
          BY <5>1 DEF OnFile
        <5>3. k + Len(old) \in DOMAIN (old \o file) /\ (old \o file)[k + Len(old)] = seq
          BY <1>f, <5>2, NewerPart
        <5>4. OnRecord'
          BY <3>1, <5>3 DEF OnRecord
        <5> QED BY <3>1, <5>1, <5>4 DEF NumberInv
      <4> QED BY <4>1, <4>2
    <3> QED BY <1>5, <3>2, <3>3 DEF PersistSeq
  <2> QED BY <2>1, <2>2, <2>3 DEF LogInv
<1>6. CASE ClearFile
  <2>1. RingInv'
    BY <1>0, <1>6 DEF ClearFile, RingInv, ringVars
  <2>t. unsaved' \in BOOLEAN /\ logFaults' \in 0 .. MaxLogFaults
    <3>1. logFaults \in 0 .. MaxLogFaults /\ unsaved \in BOOLEAN
      BY <1>0 DEF LogTypeOK
    <3>2. LogFault => logFaults' \in 0 .. MaxLogFaults
      BY <3>1 DEF LogFault
    <3>3. UNCHANGED unsaved \/ unsaved' = (unsaved \/ Behind)
      BY <1>6 DEF ClearFile
    <3>4. unsaved' \in BOOLEAN
      BY <3>1, <3>3
    <3> QED BY <1>6, <3>1, <3>2, <3>4 DEF ClearFile
  <2>2. LogTypeOK'
    <3>1. UNCHANGED <<ringVars, seq, mounted, old, savedSeq, top>> /\ logStep' = "clear"
      BY <1>6 DEF ClearFile
    <3>2. file' \in Seq(Line) /\ ragged' \in BOOLEAN
      BY <1>0, <1>6, <1>e, <1>f DEF ClearFile, LogTypeOK
    <3> QED BY <1>0, <2>t, <3>1, <3>2 DEF LogTypeOK, ringVars, Line
  <2>3. FilesInv'
    <3>1. CASE file' = file
      BY <1>0, <1>6, <3>1 DEF ClearFile, FilesInv
    <3>2. CASE file' = <<>> /\ mounted
      <4>1. Rising(old) /\ Below(old, seq)
        BY <1>0, <1>6, <1>f, <3>2, FilesApart DEF ClearFile, FilesInv
      <4>2. old' \o file' = old
        BY <1>6, <1>e, <1>f, <3>2 DEF ClearFile
      <4> QED BY <1>0, <1>6, <4>1, <4>2 DEF ClearFile, FilesInv
    <3> QED BY <1>6, <3>1, <3>2 DEF ClearFile
  <2>n. NumberInv'
    <3>1. UNCHANGED <<savedSeq, top, mounted, seq, old>>
      BY <1>6 DEF ClearFile
    <3>2. CASE UNCHANGED <<file, unsaved>>
      BY <1>n, <3>1, <3>2
    <3>3. CASE unsaved' = (unsaved \/ Behind)
      BY <1>0, <3>1, <3>3, NumberStays
    <3> QED BY <1>6, <3>2, <3>3 DEF ClearFile
  <2> QED BY <2>1, <2>2, <2>3, <2>n DEF LogInv
<1>7. CASE ClearRing
  <2>1. RingInv'
    <3>1. entries' = <<>> /\ head' = 0 /\ count' = 0
      BY <1>7 DEF ClearRing
    <3>2. 0 % Ring = 0
      <4>1. 0 \in Nat /\ 0 \in 0 .. Ring - 1 /\ Ring * 0 + 0 = 0
        OBVIOUS
      <4>2. (Ring * 0 + 0) % Ring = 0
        BY <4>1, Remainder
      <4> QED BY <4>1, <4>2
    <3> QED BY <3>1, <3>2 DEF RingInv, Rising, Below
  <2>t. unsaved' \in BOOLEAN /\ logFaults' \in 0 .. MaxLogFaults
    <3>1. logFaults \in 0 .. MaxLogFaults /\ unsaved \in BOOLEAN
      BY <1>0 DEF LogTypeOK
    <3>2. LogFault => logFaults' \in 0 .. MaxLogFaults
      BY <3>1 DEF LogFault
    <3>3. UNCHANGED unsaved \/ unsaved' = (unsaved \/ Behind)
      BY <1>7 DEF ClearRing
    <3>4. unsaved' \in BOOLEAN
      BY <3>1, <3>3
    <3> QED BY <1>7, <3>1, <3>2, <3>4 DEF ClearRing
  <2>2. LogTypeOK'
    <3>1. old' \in Seq(Line) /\ head' \in 0 .. Ring - 1 /\ count' \in 0 .. Ring /\ entries' \in Seq(Events)
      <4>1. old' \in Seq(Line)
        BY <1>e, <1>f, <1>7 DEF ClearRing
      <4>2. head' = 0 /\ count' = 0 /\ entries' = <<>>
        BY <1>7 DEF ClearRing
      <4> QED BY <4>1, <4>2
    <3>2. logStep' = "save"
          /\ UNCHANGED <<ring, seq, mounted, file, ragged, savedSeq, top>>
      BY <1>7 DEF ClearRing
    <3> QED BY <1>0, <2>t, <3>1, <3>2 DEF LogTypeOK, Line
  <2>3. FilesInv'
    <3>1. CASE old' = old
      BY <1>0, <1>7, <3>1 DEF ClearRing, FilesInv
    <3>2. CASE old' = <<>> /\ mounted
      <4>1. Rising(file) /\ Below(file, seq)
        BY <1>0, <1>7, <1>f, <3>2, FilesApart DEF ClearRing, FilesInv
      <4>2. old' \o file' = file
        BY <1>7, <1>e, <1>f, <3>2 DEF ClearRing
      <4> QED BY <1>0, <1>7, <4>1, <4>2 DEF ClearRing, FilesInv
    <3> QED BY <1>7, <3>1, <3>2 DEF ClearRing
  <2>n. NumberInv'
    <3>1. UNCHANGED <<savedSeq, top, mounted, seq, file>>
      BY <1>7 DEF ClearRing
    <3>2. CASE UNCHANGED <<old, unsaved>>
      BY <1>n, <3>1, <3>2
    <3>3. CASE unsaved' = (unsaved \/ Behind)
      BY <1>0, <3>1, <3>3, NumberStays
    <3> QED BY <1>7, <3>2, <3>3 DEF ClearRing
  <2> QED BY <2>1, <2>2, <2>3, <2>n DEF LogInv
<1>8. CASE LogReset
  <2>1. Rising(old \o file)
    BY <1>0 DEF FilesInv
  <2>2. CASE LogBoot(file, ragged)
    <3>1. ragged \in BOOLEAN
      BY <1>0 DEF LogTypeOK
    <3> QED BY <1>f, <2>1, <2>2, <3>1, BootHolds DEF OnRecord
  <2>3. CASE Torn = file /\ LogBoot(Torn, TRUE)
    BY <1>f, <2>1, <2>3, BootHolds DEF OnRecord
  <2>4. CASE Torn = Append(file, Broken) /\ LogBoot(Torn, TRUE)
    <3>1. Append(file, Broken) \in Seq(Line) /\ Broken \in Line
      BY <1>f DEF Line
    <3>2. Rising(old \o Append(file, Broken))
      BY <1>f, <2>1, <3>1, LineAdded
    <3>3. ASSUME OnRecord
          PROVE  \E i \in DOMAIN (old \o Append(file, Broken)) :
                   (old \o Append(file, Broken))[i] >= top
      <4>1. PICK i \in DOMAIN (old \o file) : (old \o file)[i] >= top
        BY <3>3 DEF OnRecord
      <4> QED BY <1>f, <3>1, <4>1, LinesStay
    <3>4. LogBoot(Append(file, Broken), TRUE)
      BY <2>4
    <3> QED BY <3>1, <3>2, <3>3, <3>4, BootHolds
  <2>5. Torn \in {file, Append(file, Broken)}
    BY DEF Torn
  <2> QED BY <1>8, <2>2, <2>3, <2>4, <2>5 DEF LogReset
<1>9. CASE UNCHANGED logVars
  BY <1>0, <1>9 DEF logVars, LogInv, LogTypeOK, FilesInv, RingInv, NumberInv, OnRecord
<1> QED BY <1>1, <1>2, <1>3, <1>4, <1>5, <1>6, <1>7, <1>8, <1>9 DEF LogNext

(* The log starts empty. *)
LEMMA LogStart == LogInit => LogInv
<1> SUFFICES ASSUME LogInit PROVE LogInv
  OBVIOUS
<1> USE EventAssumption
<1>1. 0 % Ring = 0
  <2>1. 0 \in Nat /\ 0 \in 0 .. Ring - 1 /\ Ring * 0 + 0 = 0
    OBVIOUS
  <2>2. (Ring * 0 + 0) % Ring = 0
    BY <2>1, Remainder
  <2> QED BY <2>1, <2>2
<1>2. LogTypeOK
  BY DEF LogInit, LogTypeOK
<1>3. FilesInv
  BY DEF LogInit, FilesInv, Rising, Below
<1>4. RingInv
  BY <1>1 DEF LogInit, RingInv, Rising, Below
<1>5. NumberInv
  BY DEF LogInit, NumberInv
<1> QED BY <1>2, <1>3, <1>4, <1>5 DEF LogInv

(* The ring, the files and the numbers keep their types. *)
THEOREM LogTypes == LogSpec => []LogTypeOK
<1>1. LogInv => LogTypeOK
  BY DEF LogInv
<1> QED BY <1>1, LogStart, LogStep, PTL DEF LogSpec

(* AnswersNewest: the web server is told exactly the newest events after the  *)
(* one it knows, for any size of the ring, across its seam, after clear(),    *)
(* and when a reset has refilled it from files with half lines.               *)
THEOREM NewestAnswered == LogSpec => []AnswersNewest
BY AnswersNewestHolds, LogStart, LogStep, PTL DEF LogSpec

(* NeverRepeats of the event log: the next number is above that of every log() *)
(* that has returned, through rotations, half lines, failed writes and resets, *)
(* if NVS took its number or else a file did; the cases in which neither has   *)
(* it any more are those NeverRepeats names.  A log() cut by a reset before it *)
(* has stored its number promises nothing.                                     *)
THEOREM NumbersAreUsedOnce == LogSpec => []NeverRepeats
<1>1. LogInv => NeverRepeats
  BY DEF LogInv, NumberInv, NeverRepeats
<1> QED BY <1>1, LogStart, LogStep, PTL DEF LogSpec

(***************************************************************************)
(* Group view                                                              *)
(***************************************************************************)

(* An answer on its way is this round's, *)
AnswerInv ==
  round = "answer" =>
    /\ answer \in [look : Looks, from : Peers]
    /\ answer.look = looks[answer.from] \/ calm <= (IF slow THEN 1 ELSE 0)

(* an entry that is used has its age, but for the tick its answer took, *)
CacheInv ==
  \A p \in Peers : Has(p) => cache[p].look = looks[p] \/ calm <= cache[p].age + 1

(* and the light was set when the group had been at rest for as long, but for *)
(* the ticks of this round.                                                   *)
Lit == IF round \in {"wait", "mqtt"} THEN 0 ELSE IF slow THEN 2 ELSE 1
LedTrue ==
  /\ led = "Off" => Truth \in {"Ok", "Standalone"}
  /\ led = "Alert" => Alarm(Truth)
LedInv == LedTrue \/ calm <= Trusted + Lit

SeenInv == ViewTypeOK /\ AnswerInv /\ CacheInv /\ LedInv

(* The members, one after the other. *)
LEMMA MembersInASequence ==
  ASSUME NEW S \in SUBSET Peers
  PROVE  SetToSeq(S) \in Seq(S)
<1>1. IsFiniteSet(S)
  BY FS_Subset, ViewAssumption
<1>2. Cardinality(S) \in Nat /\ \E f : f \in Bijection(1 .. Cardinality(S), S)
  BY <1>1, FS_CardinalityType DEF ExistsBijection
<1>3. PICK f : f \in [1 .. Cardinality(S) -> S] /\ IsInjective(f)
  BY <1>2 DEF Bijection, Injection, IsInjective
<1>4. SetToSeq(S) \in [1 .. Cardinality(S) -> S]
  BY <1>3 DEF SetToSeq
<1> QED BY <1>2, <1>4

(* Obs is what is known of each peer: the status is that of this list. *)
Zones(obs) == LET ps == SetToSeq(members)
              IN  <<ObsOf(here, "SelfKnown")>> \o [i \in DOMAIN ps |-> obs[ps[i]]]

(* compute_group_view looks at the head itself and then at every member.   *)
LEMMA ZonesAreSelfAndMembers ==
  ASSUME members \in SUBSET Peers, NEW obs
  PROVE  LET ps == SetToSeq(members)
         IN  /\ ps \in Seq(members)
             /\ DOMAIN Zones(obs) = 1 .. Len(ps) + 1 /\ Len(Zones(obs)) = Len(ps) + 1
             /\ Zones(obs)[1] = ObsOf(here, "SelfKnown")
             /\ \A i \in 2 .. Len(ps) + 1 : Zones(obs)[i] = obs[ps[i - 1]]
<1> DEFINE ps == SetToSeq(members)
           rest == [i \in DOMAIN ps |-> obs[ps[i]]]
           U == {ObsOf(here, "SelfKnown")} \cup {obs[ps[i]] : i \in DOMAIN ps}
<1>1. ps \in Seq(members)
  BY MembersInASequence
<1> HIDE DEF ps
<1>2. DOMAIN ps = 1 .. Len(ps) /\ Len(ps) \in Nat
  BY <1>1
<1>3. rest \in Seq(U) /\ Len(rest) = Len(ps) /\ <<ObsOf(here, "SelfKnown")>> \in Seq(U)
  BY <1>2
<1>4. Zones(obs) = <<ObsOf(here, "SelfKnown")>> \o rest
  BY DEF Zones, ps
<1>5. \A i \in 1 .. Len(ps) : rest[i] = obs[ps[i]]
  BY <1>2
<1> HIDE DEF rest
<1>6. Len(Zones(obs)) = Len(ps) + 1 /\ DOMAIN Zones(obs) = 1 .. Len(ps) + 1
  BY <1>2, <1>3, <1>4
<1>7. Zones(obs)[1] = ObsOf(here, "SelfKnown")
  BY <1>3, <1>4
<1>8. ASSUME NEW i \in 2 .. Len(ps) + 1 PROVE Zones(obs)[i] = obs[ps[i - 1]]
  <2>1. Zones(obs)[i] = rest[i - 1]
    BY <1>2, <1>3, <1>4
  <2> QED BY <1>2, <1>5, <2>1
<1> QED BY <1>1, <1>6, <1>7, <1>8 DEF ps

(* A status is an alarm if some zones oppose or one waits, whoever else is *)
(* not known.                                                              *)
LEMMA AlarmIs ==
  ASSUME NEW ms
  PROVE  /\ Policy!Status(ms) \in Statuses
         /\ Policy!Status(ms) = "Standalone" <=> Len(ms) <= 1
         /\ Alarm(Policy!Status(ms)) <=>
              ~(Len(ms) <= 1) /\ (Policy!Opposing(ms) \/ Policy!Blocked(ms))
         /\ Policy!Status(ms) = "Ok" <=>
              /\ ~(Len(ms) <= 1) /\ ~Policy!Opposing(ms) /\ ~Policy!Blocked(ms)
              /\ \A i \in DOMAIN ms : Policy!Sure(ms[i]) /\ ~(ms[i].on /\ ms[i].demand = "Auto")
BY DEF Alarm, Policy!Status, Statuses

(* Who knows less of a group, but nothing that is not so, sees no conflict   *)
(* that is not there, and sees that all is well only where it is.            *)
LEMMA KnowingLess ==
  ASSUME NEW ms, NEW mt, DOMAIN ms = DOMAIN mt, Len(ms) = Len(mt),
         \A i \in DOMAIN ms : Policy!Sure(ms[i]) => ms[i] = mt[i]
  PROVE  /\ Policy!Status(ms) = "Ok" => Policy!Status(mt) = "Ok"
         /\ Alarm(Policy!Status(ms)) => Alarm(Policy!Status(mt))
         /\ Policy!Status(ms) = "Standalone" => Policy!Status(mt) = "Standalone"
<1>1. Policy!Opposing(ms) => Policy!Opposing(mt)
  BY DEF Policy!Opposing
<1>2. Policy!Blocked(ms) => Policy!Blocked(mt)
  BY DEF Policy!Blocked
<1>3. ASSUME \A i \in DOMAIN ms : Policy!Sure(ms[i])
      PROVE  (Policy!Opposing(mt) => Policy!Opposing(ms)) /\ (Policy!Blocked(mt) => Policy!Blocked(ms))
             /\ \A i \in DOMAIN ms : ms[i] = mt[i]
  BY <1>3 DEF Policy!Opposing, Policy!Blocked
<1> QED BY <1>1, <1>2, <1>3, AlarmIs

Known == [p \in Peers |-> CachedPeerObs(p)]
Real  == [p \in Peers |-> ObsOf(looks[p], Version(p))]

(* What is shown of a group at rest. *)
LEMMA SeenAsItIs ==
  ASSUME ViewTypeOK, CacheInv, calm > Trusted
  PROVE  /\ View = "Ok" => Truth = "Ok"
         /\ Alarm(View) => Alarm(Truth)
         /\ View = "Standalone" => Truth = "Standalone"
<1>1. ASSUME NEW p \in Peers, Policy!Sure(CachedPeerObs(p))
      PROVE  CachedPeerObs(p) = ObsOf(looks[p], Version(p))
  <2>1. Has(p)
    BY <1>1 DEF CachedPeerObs, ObsOf, Policy!Sure
  <2>2. cache[p].age \in Nat /\ cache[p].age < Trusted
    BY <2>1 DEF Has, ViewTypeOK, NoAnswer
  <2>3. cache[p].look = looks[p]
    BY <2>1, <2>2, ViewAssumption DEF CacheInv, ViewTypeOK
  <2> QED BY <2>1, <2>3 DEF CachedPeerObs
<1>2. CASE ~grouped
  BY <1>2 DEF View, Truth, ViewOf, Alarm
<1>3. CASE grouped
  <2> DEFINE ps == SetToSeq(members)
  <2>1. View = Policy!Status(Zones(Known)) /\ Truth = Policy!Status(Zones(Real))
    BY <1>3 DEF View, Truth, ViewOf, Zones, Known, Real
  <2>2. members \in SUBSET Peers
    BY DEF ViewTypeOK
  <2>3. /\ DOMAIN Zones(Known) = DOMAIN Zones(Real) /\ Len(Zones(Known)) = Len(Zones(Real))
        /\ ps \in Seq(members) /\ DOMAIN Zones(Known) = 1 .. Len(ps) + 1
        /\ Zones(Known)[1] = Zones(Real)[1]
        /\ \A i \in 2 .. Len(ps) + 1 :
             Zones(Known)[i] = Known[ps[i - 1]] /\ Zones(Real)[i] = Real[ps[i - 1]]
    BY <2>2, ZonesAreSelfAndMembers
  <2> HIDE DEF ps
  <2>4. ASSUME NEW i \in DOMAIN Zones(Known), Policy!Sure(Zones(Known)[i])
        PROVE  Zones(Known)[i] = Zones(Real)[i]
    <3>1. CASE i = 1
      BY <2>3, <3>1
    <3>2. CASE i \in 2 .. Len(ps) + 1
      <4>1. ps[i - 1] \in Peers
        BY <2>2, <2>3, <3>2
      <4> QED BY <1>1, <2>3, <2>4, <3>2, <4>1 DEF Known, Real
    <3> QED BY <2>3, <3>1, <3>2
  <2> QED BY <2>1, <2>3, <2>4, KnowingLess
<1> QED BY <1>2, <1>3

(* What it computes is a status of the group.                              *)
LEMMA ViewIsAStatus == View \in Statuses
<1>1. CASE grouped
  BY <1>1, AlarmIs DEF View, ViewOf
<1>2. CASE ~grouped
  BY <1>2 DEF View, ViewOf, Statuses
<1> QED BY <1>1, <1>2

(* What a tick does, whatever else happens in it. *)
LEMMA TickKeeps ==
  ASSUME ViewTypeOK, CacheInv, Ticks, looks' = looks
  PROVE  /\ cache' \in [Peers -> {NoAnswer} \cup [look : Looks, age : 0 .. Trusted]]
         /\ calm' \in 0 .. Settled /\ calm' <= calm + 1
         /\ CacheInv'
<1>1. calm' \in 0 .. Settled /\ calm' <= calm + 1
  BY ViewAssumption DEF Ticks, ViewTypeOK, Settled
<1>2. ASSUME NEW p \in Peers
      PROVE  /\ cache'[p] \in {NoAnswer} \cup [look : Looks, age : 0 .. Trusted]
             /\ Has(p)' => cache'[p].look = looks'[p] \/ calm' <= cache'[p].age + 1
  <2>1. CASE Has(p)
    <3>1. cache[p] \in [look : Looks, age : 0 .. Trusted] /\ cache[p].age < Trusted
      BY <2>1 DEF Has, ViewTypeOK
    <3>2. cache'[p] = [cache[p] EXCEPT !.age = @ + 1]
      BY <2>1 DEF Ticks
    <3>3. /\ cache'[p] \in [look : Looks, age : 0 .. Trusted]
          /\ cache'[p].look = cache[p].look /\ cache'[p].age = cache[p].age + 1
      BY <3>1, <3>2, ViewAssumption
    <3>4. cache[p].look = looks[p] \/ calm <= cache[p].age + 1
      BY <2>1 DEF CacheInv
    <3> QED BY <1>1, <3>1, <3>3, <3>4 DEF ViewTypeOK, Settled
  <2>2. CASE ~Has(p)
    BY <2>2 DEF Ticks, Has, ViewTypeOK
  <2> QED BY <2>1, <2>2
<1>3. cache' = [p \in Peers |-> cache'[p]]
  BY DEF Ticks
<1>4. cache' \in [Peers -> {NoAnswer} \cup [look : Looks, age : 0 .. Trusted]]
  BY <1>2, <1>3
<1> QED BY <1>1, <1>2, <1>4 DEF CacheInv

(* What update_group_mqtt sends or queues is a status, within the outbox.  *)
LEMMA PublishKeeps ==
  ASSUME ViewTypeOK, PublishGroupState(View)
  PROVE  /\ topic' \in Statuses \cup {Unsent} /\ behind' \in BOOLEAN
         /\ queue' \in Seq(Statuses) /\ Len(queue') <= MaxQueue
<1>1. CASE alive
  <2>1. behind' \in BOOLEAN
    BY <1>1 DEF PublishGroupState
  <2> QED BY <1>1, <2>1, ViewIsAStatus DEF PublishGroupState, ViewTypeOK
<1>2. CASE ~alive
  <2>1. behind' \in BOOLEAN
    BY <1>2 DEF PublishGroupState
  <2>2. Append(queue, View) \in Seq(Statuses) /\ Len(Append(queue, View)) = Len(queue) + 1
    BY ViewIsAStatus DEF ViewTypeOK
  <2>3. Len(queue) \in Nat
    BY DEF ViewTypeOK
  <2> QED BY <1>2, <2>1, <2>2, <2>3, ViewAssumption DEF PublishGroupState, ViewTypeOK
<1> QED BY <1>1, <1>2

(* A step that leaves this head's picture, and the group if it counts. *)
LEMMA SameTruth ==
  ASSUME UNCHANGED <<here, looks, foreign, grouped, members>>
  PROVE  Truth' = Truth
BY DEF Truth, ViewOf, Version

(* A step that leaves the answers and the peers' states leaves the cache   *)
(* as true, and one that leaves the picture leaves the light as true.      *)
LEMMA SameCache ==
  ASSUME CacheInv, UNCHANGED <<looks, cache, calm>>
  PROVE  CacheInv'
BY DEF CacheInv, Has

LEMMA SameLed ==
  ASSUME LedInv, UNCHANGED <<here, looks, foreign, grouped, members, led, calm>>, Lit' = Lit
  PROVE  LedInv'
<1>1. LedTrue' = LedTrue
  BY SameTruth DEF LedTrue
<1> QED BY <1>1 DEF LedInv

(* A change of the group puts the clock back. *)
LEMMA UnsettledHolds ==
  ASSUME calm' = 0, round' # "answer" \/ answer' \in [look : Looks, from : Peers],
         cache' \in [Peers -> {NoAnswer} \cup [look : Looks, age : 0 .. Trusted]]
  PROVE  AnswerInv' /\ CacheInv' /\ LedInv'
<1>1. AnswerInv'
  BY DEF AnswerInv
<1>2. CacheInv'
  BY DEF CacheInv, Has, NoAnswer
<1>3. 0 <= Trusted + Lit'
  BY ViewAssumption DEF Lit
<1> QED BY <1>1, <1>2, <1>3 DEF LedInv

(* Every step of the poll task, the head, its peers and the network keeps  *)
(* the invariant.                                                          *)
LEMMA ViewStep == SeenInv /\ [ViewNext]_viewVars => SeenInv'
<1> SUFFICES ASSUME SeenInv, [ViewNext]_viewVars PROVE SeenInv'
  OBVIOUS
<1>0. ViewTypeOK /\ AnswerInv /\ CacheInv /\ LedInv
  BY DEF SeenInv
<1>f. ViewFault => viewFaults' \in 0 .. MaxViewFaults
  BY <1>0, ViewAssumption DEF ViewFault, ViewTypeOK
<1>e. <<>> \in Seq(Statuses) /\ Len(<<>>) = 0 /\ 0 <= MaxQueue
  BY ViewAssumption
<1>1. CASE RoundBegins
  <2>1. Ticks /\ looks' = looks
    BY <1>1 DEF RoundBegins, zoneVars
  <2>2. ViewTypeOK'
    BY <1>0, <1>1, <2>1, TickKeeps DEF RoundBegins, ViewTypeOK, zoneVars, mirrorVars
  <2>3. AnswerInv'
    BY <1>1 DEF RoundBegins, AnswerInv
  <2>4. LedInv'
    <3>1. LedTrue' = LedTrue /\ Lit = 0 /\ Lit' = 1
      BY <1>1, SameTruth DEF RoundBegins, zoneVars, LedTrue, Lit
    <3> QED BY <1>0, <2>1, <3>1, TickKeeps, ViewAssumption DEF LedInv, ViewTypeOK, Settled
  <2> QED BY <1>0, <2>1, <2>2, <2>3, <2>4, TickKeeps DEF SeenInv
<1>2. CASE CallsTakeLong
  <2>1. Ticks /\ looks' = looks
    BY <1>2 DEF CallsTakeLong, zoneVars
  <2>2. ViewTypeOK'
    BY <1>0, <1>2, <2>1, TickKeeps DEF CallsTakeLong, ViewTypeOK, zoneVars, mirrorVars
  <2>3. AnswerInv'
    BY <1>0, <1>2, <2>1, TickKeeps DEF CallsTakeLong, AnswerInv, ViewTypeOK, Settled
  <2>4. LedInv'
    <3>1. LedTrue' = LedTrue /\ Lit = 1 /\ Lit' = 2
      BY <1>2, SameTruth DEF CallsTakeLong, zoneVars, LedTrue, Lit
    <3> QED BY <1>0, <2>1, <3>1, TickKeeps, ViewAssumption DEF LedInv, ViewTypeOK, Settled
  <2> QED BY <1>0, <2>1, <2>2, <2>3, <2>4, TickKeeps DEF SeenInv
<1>3. ASSUME NEW p \in Peers, PeerAnswers(p) PROVE SeenInv'
  <2>1. /\ answer' \in [look : Looks, from : Peers]
        /\ answer'.look = looks'[answer'.from]
    BY <1>0, <1>3 DEF PeerAnswers, ViewTypeOK, zoneVars
  <2>2. ViewTypeOK'
    BY <1>0, <1>3, <2>1 DEF PeerAnswers, ViewTypeOK, zoneVars, mirrorVars
  <2>3. CacheInv' /\ LedInv'
    BY <1>0, <1>3, SameCache, SameLed DEF PeerAnswers, zoneVars, Lit
  <2> QED BY <2>1, <2>2, <2>3 DEF SeenInv, AnswerInv
<1>4. ASSUME NEW p \in Peers, PollFails(p) PROVE SeenInv'
  <2>1. ViewTypeOK' /\ AnswerInv'
    BY <1>0, <1>4 DEF PollFails, ViewTypeOK, AnswerInv, zoneVars, mirrorVars
  <2>2. CacheInv' /\ LedInv'
    BY <1>0, <1>4, SameCache, SameLed DEF PollFails, zoneVars, Lit
  <2> QED BY <2>1, <2>2 DEF SeenInv
<1>5. CASE StoreAnswer
  <2>1. answer \in [look : Looks, from : Peers] /\ (answer.look = looks[answer.from] \/ calm <= 1)
    BY <1>0, <1>5 DEF StoreAnswer, AnswerInv, ViewTypeOK
  <2>2. [look |-> answer.look, age |-> 0] \in [look : Looks, age : 0 .. Trusted]
    BY <2>1, ViewAssumption
  <2>3. ViewTypeOK' /\ AnswerInv'
    BY <1>0, <1>5, <2>1, <2>2 DEF StoreAnswer, ViewTypeOK, AnswerInv, zoneVars, mirrorVars
  <2>4. LedInv'
    BY <1>0, <1>5, SameLed DEF StoreAnswer, zoneVars, Lit
  <2>5. CacheInv'
    <3> SUFFICES ASSUME NEW p \in Peers, Has(p)'
                 PROVE  cache'[p].look = looks'[p] \/ calm' <= cache'[p].age + 1
      BY DEF CacheInv
    <3>1. looks' = looks /\ calm' = calm
      BY <1>5 DEF StoreAnswer, zoneVars
    <3>2. CASE cache'[p] = cache[p]
      BY <1>0, <3>1, <3>2 DEF CacheInv, Has
    <3>3. CASE cache'[p] # cache[p]
      <4>1. p = answer.from /\ cache'[p] = [look |-> answer.look, age |-> 0]
        BY <1>0, <1>5, <2>1, <3>3 DEF StoreAnswer, ViewTypeOK
      <4> QED BY <2>1, <3>1, <4>1
    <3> QED BY <3>2, <3>3
  <2> QED BY <2>3, <2>4, <2>5 DEF SeenInv
<1>6. CASE DropEntries
  <2>1. ViewTypeOK' /\ AnswerInv'
    BY <1>0, <1>6 DEF DropEntries, ViewTypeOK, AnswerInv, zoneVars, mirrorVars
  <2>2. LedInv'
    BY <1>0, <1>6, SameLed DEF DropEntries, zoneVars, Lit
  <2>3. CacheInv'
    BY <1>0, <1>6 DEF DropEntries, CacheInv, Has, zoneVars
  <2> QED BY <2>1, <2>2, <2>3 DEF SeenInv
<1>7. CASE UpdateStatusLed
  <2>1. ViewTypeOK' /\ AnswerInv'
    BY <1>0, <1>7 DEF UpdateStatusLed, LedOf, ViewTypeOK, AnswerInv, zoneVars, mirrorVars
  <2>2. CacheInv'
    BY <1>0, <1>7, SameCache DEF UpdateStatusLed, zoneVars
  <2>3. LedInv'
    <3>1. Truth' = Truth /\ calm' = calm /\ Lit' = 0 /\ led' = LedOf(View)
      BY <1>7, SameTruth DEF UpdateStatusLed, zoneVars, Lit
    <3>2. CASE calm > Trusted
      <4>1. led' = "Off" => View \in {"Ok", "Standalone"}
        BY <3>1, ViewIsAStatus DEF LedOf, Alarm, Statuses
      <4>2. led' = "Alert" => Alarm(View)
        BY <3>1 DEF LedOf
      <4>3. LedTrue'
        BY <1>0, <3>1, <3>2, <4>1, <4>2, SeenAsItIs DEF LedTrue, Alarm
      <4> QED BY <4>3 DEF LedInv
    <3>3. CASE ~(calm > Trusted)
      BY <1>0, <3>1, <3>3, ViewAssumption DEF LedInv, ViewTypeOK, Settled
    <3> QED BY <3>2, <3>3
  <2> QED BY <2>1, <2>2, <2>3 DEF SeenInv
<1>8. CASE UpdateGroupMqtt
  <2>1. CASE flagged /\ View # sent
    BY <1>0, <1>8, <2>1, PublishKeeps, ViewIsAStatus, SameCache, SameLed
    DEF UpdateGroupMqtt, ViewTypeOK, AnswerInv, SeenInv, zoneVars, Lit
  <2>2. CASE ~(flagged /\ View # sent)
    BY <1>0, <1>8, <2>2, SameCache, SameLed
    DEF UpdateGroupMqtt, ViewTypeOK, AnswerInv, SeenInv, zoneVars, Lit
  <2> QED BY <2>1, <2>2
<1>9. CASE Unsettled /\ SameHead /\ here' \in Looks /\ looks' \in [Peers -> Looks]
           /\ foreign' \subseteq Peers /\ reach' \subseteq Peers
           /\ grouped' \in BOOLEAN /\ members' \subseteq Peers
  <2>1. ViewTypeOK'
    BY <1>0, <1>9, <1>f, ViewAssumption
    DEF Unsettled, SameHead, ViewTypeOK, roundVars, mirrorVars, Settled
  <2>2. round' # "answer" \/ answer' \in [look : Looks, from : Peers]
    BY <1>0, <1>9 DEF SameHead, roundVars, AnswerInv
  <2> QED BY <1>9, <2>1, <2>2, UnsettledHolds DEF SeenInv, ViewTypeOK, Unsettled
<1>10. CASE HereChanges \/ GroupChanges \/ \E p \in Peers : PeerChanges(p)
  BY <1>0, <1>9, <1>10 DEF HereChanges, GroupChanges, PeerChanges, ViewTypeOK
<1>11. CASE ViewReset
  <2>a. queue' \in Seq(Statuses) /\ Len(queue') <= MaxQueue
    BY <1>11, <1>e DEF ViewReset
  <2>b. calm' \in 0 .. Settled /\ viewFaults' \in 0 .. MaxViewFaults
    BY <1>11, <1>f, ViewAssumption DEF ViewReset, Unsettled, Settled
  <2>c. cache' \in [Peers -> {NoAnswer} \cup [look : Looks, age : 0 .. Trusted]]
    BY <1>11 DEF ViewReset
  <2>1. ViewTypeOK'
    BY <1>0, <1>11, <2>a, <2>b, <2>c DEF ViewReset, ViewTypeOK, zoneVars
  <2>2. calm' = 0 /\ round' # "answer"
    BY <1>11 DEF ViewReset, Unsettled
  <2> QED BY <2>1, <2>2, UnsettledHolds DEF SeenInv, ViewTypeOK
<1>12. ASSUME NEW p \in Peers, ReachChanges(p) PROVE SeenInv'
  <2>1. ViewTypeOK' /\ AnswerInv'
    BY <1>0, <1>12, <1>f
    DEF ReachChanges, SameHead, roundVars, mirrorVars, ViewTypeOK, AnswerInv
  <2>2. CacheInv' /\ LedInv'
    BY <1>0, <1>12, SameCache, SameLed DEF ReachChanges, SameHead, roundVars, Lit
  <2> QED BY <2>1, <2>2 DEF SeenInv
<1>13. CASE BrokerLinkDies \/ Client
  <2>1. ViewTypeOK' /\ AnswerInv'
    <3>1. CASE SendQueued
      <4>1. queue \in Seq(Statuses) /\ queue # <<>> /\ Len(queue) <= MaxQueue
            /\ topic' = Head(queue) /\ queue' = Tail(queue)
        BY <1>0, <3>1 DEF SendQueued, ViewTypeOK
      <4>2. topic' \in Statuses /\ queue' \in Seq(Statuses) /\ Len(queue') <= MaxQueue
        BY <4>1, ViewAssumption
      <4> QED
        BY <1>0, <3>1, <4>2 DEF SendQueued, roundVars, zoneVars, ViewTypeOK, AnswerInv
    <3>0. ASSUME UNCHANGED <<zoneVars, roundVars, cache, led, sent, queue, topic, behind, calm>>,
                 alive' \in BOOLEAN, flagged' \in BOOLEAN, viewFaults' \in 0 .. MaxViewFaults
          PROVE  ViewTypeOK' /\ AnswerInv'
      <4>1. UNCHANGED <<here, looks, foreign, reach, grouped, members, round, left, answer, slow,
                        cache, led, sent, queue, topic, behind, calm>>
        BY <3>0 DEF roundVars, zoneVars
      <4> QED BY <1>0, <3>0, <4>1 DEF ViewTypeOK, AnswerInv
    <3>v. alive \in BOOLEAN /\ flagged \in BOOLEAN /\ viewFaults \in 0 .. MaxViewFaults
      BY <1>0 DEF ViewTypeOK
    <3>2. CASE BrokerLinkDies
      BY <1>f, <3>0, <3>2, <3>v DEF BrokerLinkDies
    <3>3. CASE BrokerLost
      BY <3>0, <3>3, <3>v DEF BrokerLost
    <3>4. CASE BrokerFound
      BY <3>0, <3>4, <3>v DEF BrokerFound
    <3> QED BY <1>13, <3>1, <3>2, <3>3, <3>4 DEF Client
  <2>2. CacheInv' /\ LedInv'
    BY <1>0, <1>13, SameCache, SameLed DEF BrokerLinkDies, Client, BrokerLost, BrokerFound,
       SendQueued, roundVars, zoneVars, Lit
  <2> QED BY <2>1, <2>2 DEF SeenInv
<1>14. CASE UNCHANGED viewVars
  <2>1. ViewTypeOK' /\ AnswerInv'
    BY <1>0, <1>14 DEF viewVars, roundVars, zoneVars, mirrorVars, ViewTypeOK, AnswerInv
  <2>2. CacheInv' /\ LedInv'
    BY <1>0, <1>14, SameCache, SameLed DEF viewVars, roundVars, zoneVars, Lit
  <2> QED BY <2>1, <2>2 DEF SeenInv
<1> QED
  BY <1>1, <1>2, <1>3, <1>4, <1>5, <1>6, <1>7, <1>8, <1>10, <1>11, <1>12, <1>13, <1>14
  DEF ViewNext, Round, Polling

(* The poll task starts with an empty cache and the light off.             *)
LEMMA ViewStart == ViewInit => SeenInv
<1> SUFFICES ASSUME ViewInit PROVE SeenInv
  OBVIOUS
<1>e. <<>> \in Seq(Statuses) /\ Len(<<>>) = 0 /\ 0 <= MaxQueue
  BY ViewAssumption
<1>a. queue \in Seq(Statuses) /\ Len(queue) <= MaxQueue
  BY <1>e DEF ViewInit
<1>b. calm \in 0 .. Settled /\ viewFaults \in 0 .. MaxViewFaults
  BY ViewAssumption DEF ViewInit, Settled
<1>c. cache \in [Peers -> {NoAnswer} \cup [look : Looks, age : 0 .. Trusted]]
  BY DEF ViewInit
<1>1. ViewTypeOK
  BY <1>a, <1>b, <1>c DEF ViewInit, ViewTypeOK
<1>2. AnswerInv /\ CacheInv
  BY DEF ViewInit, AnswerInv, CacheInv, Has
<1>3. LedInv
  BY ViewAssumption DEF ViewInit, LedInv, Lit
<1> QED BY <1>1, <1>2, <1>3 DEF SeenInv

(* The poll task, the client and the cache only ever hold what they may, up to *)
(* their bounds (ViewTypeOK), with any number of peers.                        *)
THEOREM ViewTypes == ViewSpec => []ViewTypeOK
<1>1. SeenInv => ViewTypeOK
  BY DEF SeenInv
<1> QED BY <1>1, ViewStart, ViewStep, PTL DEF ViewSpec

(* GroupSeenTruthfully of compute_group_view and update_status_led: with any   *)
(* number of peers and any time an answer is trusted, once the group has been  *)
(* as it is for that long, a peer out of reach or of another version never     *)
(* makes a conflict look resolved, nor an old answer one look real.            *)
THEOREM SeenTruthfully == ViewSpec => []GroupSeenTruthfully
<1>1. SeenInv => GroupSeenTruthfully
  <2> SUFFICES ASSUME SeenInv PROVE GroupSeenTruthfully
    OBVIOUS
  <2>1. calm = Settled => LedTrue
    BY ViewAssumption DEF SeenInv, LedInv, Lit, Settled
  <2> QED BY <2>1, SeenAsItIs DEF SeenInv, GroupSeenTruthfully, LedTrue
<1> QED BY <1>1, ViewStart, ViewStep, PTL DEF ViewSpec

===============================================================================
