----------------------------- MODULE MCServices -----------------------------
(***************************************************************************)
(* Instance for TLC of the head's services: accounts, the pairing window,  *)
(* the event log, the MQTT bridge, the Wi-Fi station, the firmware update, *)
(* and the view a head has of its group.  No two of them share a variable, *)
(* and every property is about one, so that it sees the same states        *)
(* whether the others take steps in between or not: in each behaviour one  *)
(* of them runs, and the others stay where they start.                     *)
(***************************************************************************)
EXTENDS Accounts, PairingWindow, EventLog, MqttBridge, WifiStation, FirmwareUpdate,
        GroupView

VARIABLE part       \* the service that runs

vars == <<part, accountVars, pairingVars, logVars, mqttVars, wifiVars, firmwareVars,
          viewVars>>

Init ==
  /\ part \in {"accounts", "pairing", "log", "mqtt", "wifi", "firmware", "view"}
  /\ AccountsInit /\ PairingInit /\ LogInit /\ MqttInit /\ WifiInit /\ FirmwareInit
  /\ ViewInit
  /\ part # "accounts" => nvs = Blank
  /\ part # "log"      => mounted
  /\ part # "mqtt"     => configs = {}
  /\ stored = CHOOSE n \in Names : TRUE     \* one name is as good as another
  /\ part # "wifi"     => creds = Empty /\ router
  /\ here = "heats" /\ \A p \in Peers : looks[p] = "off"
  /\ part # "view"     => foreign = {}

Next ==
  /\ UNCHANGED part
  /\ \/ /\ part = "accounts" /\ AccountsNext
        /\ UNCHANGED <<pairingVars, logVars, mqttVars, wifiVars, firmwareVars, viewVars>>
     \/ /\ part = "pairing" /\ PairingNext
        /\ UNCHANGED <<accountVars, logVars, mqttVars, wifiVars, firmwareVars, viewVars>>
     \/ /\ part = "log" /\ LogNext
        /\ UNCHANGED <<accountVars, pairingVars, mqttVars, wifiVars, firmwareVars, viewVars>>
     \/ /\ part = "mqtt" /\ MqttNext
        /\ UNCHANGED <<accountVars, pairingVars, logVars, wifiVars, firmwareVars, viewVars>>
     \/ /\ part = "wifi" /\ WifiNext
        /\ UNCHANGED <<accountVars, pairingVars, logVars, mqttVars, firmwareVars, viewVars>>
     \/ /\ part = "firmware" /\ FirmwareNext
        /\ UNCHANGED <<accountVars, pairingVars, logVars, mqttVars, wifiVars, viewVars>>
     \/ /\ part = "view" /\ ViewNext
        /\ UNCHANGED <<accountVars, pairingVars, logVars, mqttVars, wifiVars, firmwareVars>>

(* The fairness of one service asks nothing where another runs: no step of *)
(* the update's is possible there, and those of the view are not meant.     *)
ViewRuns(Action) == part = "view" /\ Action

Fairness ==
  /\ FirmwareFairness
  /\ WF_viewVars(ViewRuns(Round))
  /\ WF_viewVars(ViewRuns(BrokerLost)) /\ WF_viewVars(ViewRuns(BrokerFound))
  /\ WF_viewVars(ViewRuns(SendQueued))

Spec == Init /\ [][Next]_vars /\ Fairness

(* Where the view runs, Home Assistant and the light end at how the group    *)
(* stands once it is at rest (see ToldInTheEnd of group_poll_task).          *)
GroupTold == part = "view" => ToldInTheEnd
=============================================================================
