------------------------------ MODULE MqttBridge ------------------------------
(***************************************************************************)
(* The MQTT bridge (hvac_mqtt/hvac_mqtt.cpp) and the callbacks main.cpp    *)
(* gives it, with what the broker keeps for Home Assistant.  The client's  *)
(* task runs event_handler; the driver's task publishes settings as they   *)
(* change; app_main registers the connected callback only after it has     *)
(* started the client.  Broker, TCP and the client's outbox are external.  *)
(***************************************************************************)
EXTENDS Naturals, Sequences

CONSTANTS
  Names,          \* friendly names, each with a base topic and a slug of its own
  States,         \* settings of the unit, as published
  NoState,        \* nothing published
  Placeholder,    \* what the driver holds before it has heard the unit
  MaxOutbox,      \* bound: messages the client keeps
  MaxMqttFaults   \* bound: resets, lost links, renames and changes of the unit

ASSUME MqttAssumption ==
  /\ NoState \notin States /\ Placeholder \in States
  /\ MaxOutbox \in Nat /\ MaxMqttFaults \in Nat

Nameless == "none"      \* no session, or no handler that runs
Stable   == "did"       \* g_did, which no name can be
ASSUME NamesAreNames == {Nameless, Stable} \cap Names = {}

VARIABLES
  \* the broker
  session,      \* the name whose last will the broker holds
  avail,        \* <base>/availability, retained
  shown,        \* <base>/state, retained
  configs,      \* discovery topics that hold a config
  \* the link and the client
  linked,       \* the session's connection carries data
  connected,    \* g_connected
  outbox,       \* messages that have not reached the broker
  \* the head
  stored,       \* friendly name in NVS
  name,         \* the one the client was started with, g_base
  registered,   \* g_on_connected is set
  at,           \* where event_handler is
  snap,         \* the settings it has read
  real,         \* the driver's settings
  telling,      \* they are still to be handed to the callback
  whole,        \* history: the session's link holds, and its event has found a callback so far
  recent,       \* history: the settings since this session began, and those it found queued
  overtaken,    \* history: an older message may follow a newer one
  mqttFaults

brokerVars == <<session, avail, shown, configs>>
clientVars == <<linked, connected, outbox>>
driverVars == <<real, telling>>
headVars   == <<stored, name, registered>>
histVars   == <<whole, recent, overtaken>>
mqttVars == <<brokerVars, clientVars, headVars, at, snap, driverVars, histVars,
              mqttFaults>>

Message == [topic : {"avail", "config", "legacy"}] \cup [topic : {"state"}, value : States]

MqttTypeOK ==
  /\ session \in Names \cup {Nameless}
  /\ avail \in [Names -> {"none", "online", "offline"}]
  /\ shown \in [Names -> States \cup {NoState}]
  /\ configs \subseteq Names \cup {Stable}
  /\ linked \in BOOLEAN /\ connected \in BOOLEAN
  /\ outbox \in Seq(Message) /\ Len(outbox) <= MaxOutbox
  /\ stored \in Names /\ name \in Names \cup {Nameless}
  /\ registered \in BOOLEAN
  /\ at \in {"idle", "online", "callback", "discover", "read", "publish"}
  /\ snap \in States /\ real \in States
  /\ telling \in BOOLEAN /\ whole \in BOOLEAN /\ overtaken \in BOOLEAN
  /\ recent \subseteq States
  /\ mqttFaults \in 0 .. MaxMqttFaults

(* Configs under some names may be left from the firmware that used the slug. *)
MqttInit ==
  /\ session = Nameless
  /\ avail = [n \in Names |-> "none"]
  /\ shown = [n \in Names |-> NoState]
  /\ configs \in SUBSET Names
  /\ linked = FALSE /\ connected = FALSE /\ outbox = <<>>
  /\ stored \in Names /\ name = Nameless /\ registered = FALSE
  /\ at = "idle"
  /\ snap = Placeholder /\ real = Placeholder /\ telling = FALSE
  /\ whole = FALSE /\ recent = {} /\ overtaken = FALSE
  /\ mqttFaults = 0

MqttFault == mqttFaults < MaxMqttFaults /\ mqttFaults' = mqttFaults + 1

--------------------------------------------------------------------------------
(* What the broker makes of a message of this head. *)
Arrives(m) ==
  /\ avail' = IF m.topic = "avail" THEN [avail EXCEPT ![name] = "online"] ELSE avail
  /\ shown' = IF m.topic = "state" THEN [shown EXCEPT ![name] = m.value] ELSE shown
  /\ configs' = CASE m.topic = "config" -> configs \cup {Stable}
                  [] m.topic = "legacy" -> configs \ {name}
                  [] OTHER -> configs
  /\ UNCHANGED session

QueuedStates == {outbox[i].value : i \in {j \in DOMAIN outbox : outbox[j].topic = "state"}}
Stale == QueuedStates # {}

(* esp_mqtt_client_publish(), retained and with QoS 1: what cannot be sent is *)
(* kept for the next connection, behind whose first messages it then comes,   *)
(* or is dropped if there is no room.                                         *)
Publish(m) ==
  IF linked
  THEN /\ Arrives(m) /\ UNCHANGED clientVars
       /\ overtaken' = IF m.topic = "state" THEN Stale ELSE overtaken
  ELSE /\ outbox' \in {outbox} \cup IF Len(outbox) < MaxOutbox THEN {Append(outbox, m)} ELSE {}
       /\ UNCHANGED <<brokerVars, linked, connected, overtaken>>

(* The last will, which is retained; mutant: an old firmware's, which is not. *)
WillForgotten(left) == avail
Will(left) == IF left = Nameless THEN avail ELSE [avail EXCEPT ![left] = "offline"]

--------------------------------------------------------------------------------
(* app_main: init() starts the client with the stored name ... *)
StartClient ==
  /\ name = Nameless
  /\ name' = stored
  /\ UNCHANGED <<brokerVars, clientVars, stored, registered, at, snap, driverVars, histVars,
                 mqttFaults>>

(* ... and set_on_connected() follows. *)
SetOnConnected ==
  /\ name # Nameless /\ ~registered
  /\ registered' = TRUE
  /\ UNCHANGED <<brokerVars, clientVars, stored, name, at, snap, driverVars, histVars,
                 mqttFaults>>

(* A session begins; if the broker still has the last one it ends that first. *)
(* Then MQTT_EVENT_CONNECTED.                                                 *)
ConnectBroker ==
  /\ name # Nameless /\ ~connected
  /\ avail' = Will(session)
  /\ session' = name
  /\ linked' = TRUE /\ connected' = TRUE
  /\ at' = "online" /\ whole' = TRUE /\ recent' = {real} \cup QueuedStates
  /\ UNCHANGED <<shown, configs, outbox, headVars, snap, driverVars, overtaken, mqttFaults>>

(* The handler goes on; it learns nothing of a link that is lost meanwhile. *)
Step(from, to) == at = from /\ at' = to /\ UNCHANGED <<whole, recent>>

SayOnline ==
  /\ Step("online", "callback") /\ Publish([topic |-> "avail"])
  /\ UNCHANGED <<headVars, snap, driverVars, mqttFaults>>

(* Without a callback that is all, until the next connection. *)
NoCallback ==
  /\ at = "callback" /\ ~registered
  /\ at' = "idle" /\ whole' = FALSE
  /\ UNCHANGED <<brokerVars, clientVars, headVars, snap, driverVars, recent, overtaken, mqttFaults>>

(* publish_discovery(): first the config under the slug goes. *)
ClearLegacy ==
  /\ registered /\ Step("callback", "discover") /\ Publish([topic |-> "legacy"])
  /\ UNCHANGED <<headVars, snap, driverVars, mqttFaults>>

Discovery ==
  /\ Step("discover", "read") /\ Publish([topic |-> "config"])
  /\ UNCHANGED <<headVars, snap, driverVars, mqttFaults>>

(* publish_state(g_hp.getSettings(), ...): read, then published.  (Before it  *)
(* <base>/settings, which the climate entity does not use, goes the same way, *)
(* from a read of its own.)                                                   *)
ReadAtBoot ==          \* mutant: what an earlier connection read is published
  /\ Step("read", "publish")
  /\ UNCHANGED <<brokerVars, clientVars, headVars, snap, driverVars, overtaken, mqttFaults>>

ReadSettings ==
  /\ Step("read", "publish")
  /\ snap' = real
  /\ UNCHANGED <<brokerVars, clientVars, headVars, driverVars, overtaken, mqttFaults>>

PublishSettings ==
  /\ Step("publish", "idle")
  /\ LET m == [topic |-> "state", value |-> snap]
     IN  IF linked
         THEN /\ Arrives(m) /\ UNCHANGED clientVars
              /\ overtaken' = (Stale \/ (snap # real /\ ~telling))
         ELSE Publish(m)
  /\ UNCHANGED <<headVars, snap, driverVars, mqttFaults>>

(* The driver's settings change, and its task, the last that app_main starts, *)
(* hands them to the callback.                                                *)
UnitChanges ==
  /\ MqttFault /\ registered /\ ~telling
  /\ \E s \in States \ {real} : real' = s
  /\ telling' = TRUE
  /\ recent' = IF linked THEN recent \cup {real'} ELSE recent
  /\ UNCHANGED <<brokerVars, clientVars, headVars, at, snap, whole, overtaken>>

TellSettings ==
  /\ telling /\ telling' = FALSE
  /\ Publish([topic |-> "state", value |-> real])
  /\ UNCHANGED <<headVars, at, snap, real, whole, recent, mqttFaults>>

(* A new status alone: the settings are published again with it. *)
TellStatus ==
  /\ registered /\ ~telling
  /\ Publish([topic |-> "state", value |-> real])
  /\ UNCHANGED <<headVars, at, snap, driverVars, whole, recent, mqttFaults>>

(* Once it is connected and has nothing else to do the client sends what it kept. *)
SendKept ==
  /\ connected /\ linked /\ at = "idle" /\ outbox # <<>>
  /\ Arrives(Head(outbox)) /\ outbox' = Tail(outbox)
  /\ UNCHANGED <<linked, connected, headVars, at, snap, driverVars, histVars, mqttFaults>>

--------------------------------------------------------------------------------
(* The link goes silently; each end finds out by itself. *)
LinkDies ==
  /\ MqttFault /\ linked /\ linked' = FALSE
  /\ whole' = FALSE /\ recent' = {} /\ overtaken' = FALSE
  /\ UNCHANGED <<brokerVars, connected, outbox, headVars, at, snap, driverVars>>

BrokerNotices ==
  /\ session # Nameless /\ ~linked
  /\ avail' = Will(session) /\ session' = Nameless
  /\ UNCHANGED <<shown, configs, clientVars, headVars, at, snap, driverVars, histVars, mqttFaults>>

(* MQTT_EVENT_DISCONNECTED *)
Disconnected ==
  /\ connected /\ ~linked /\ at = "idle"
  /\ connected' = FALSE
  /\ UNCHANGED <<brokerVars, linked, outbox, headVars, at, snap, driverVars, histVars, mqttFaults>>

(* Memory after a reset; the broker is told nothing. *)
MqttReset(next) ==
  /\ MqttFault
  /\ stored' = next /\ name' = Nameless /\ registered' = FALSE
  /\ linked' = FALSE /\ connected' = FALSE /\ outbox' = <<>>
  /\ at' = "idle" /\ snap' = Placeholder
  /\ real' = Placeholder /\ telling' = FALSE
  /\ whole' = FALSE /\ recent' = {} /\ overtaken' = FALSE
  /\ UNCHANGED brokerVars

(* handle_mqtt_post: a new name is stored and the head restarts; a write that *)
(* is refused, which it does not see, keeps the old one.                      *)
Rename == name # Nameless /\ \E n \in Names : MqttReset(n)

EventHandler == \/ SayOnline \/ NoCallback \/ ClearLegacy \/ Discovery
                \/ ReadSettings \/ PublishSettings \/ Disconnected

MqttNext == \/ StartClient \/ SetOnConnected \/ ConnectBroker \/ EventHandler
            \/ UnitChanges \/ TellSettings \/ TellStatus \/ SendKept
            \/ LinkDies \/ BrokerNotices \/ MqttReset(stored) \/ Rename

MqttSpec == MqttInit /\ [][MqttNext]_mqttVars

--------------------------------------------------------------------------------
(* Home Assistant never shows a ghost: a name is "online" only while the      *)
(* broker holds the last will of a session under that name, whatever was      *)
(* renamed, reset or queued; and a link that carries data is this head's.     *)
GhostsGoOffline ==
  /\ \A n \in Names : avail[n] = "online" => session = n
  /\ linked => session = name

(* After a broker drop Home Assistant re-syncs: once the callback has run on   *)
(* a link that held, whatever the driver's task publishes meanwhile and        *)
(* whatever is still queued,                                                   *)
(*   - the one stable config is there, and the one under the name is not;      *)
(*   - the state shown is one the unit has had since the session began, or one *)
(*     that was queued then: never what the broker had retained before;        *)
(*   - it is the unit's own, unless the driver has still to tell its last      *)
(*     change, or a publish was overtaken: the callback's by the driver's      *)
(*     between its read and its publish, or a new one by an old one queued.    *)
Resynced ==
  connected /\ linked /\ whole /\ at = "idle" =>
    /\ Stable \in configs /\ name \notin configs
    /\ shown[name] \in recent
    /\ ~telling /\ ~overtaken => shown[name] = real
================================================================================
