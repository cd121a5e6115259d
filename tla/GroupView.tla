------------------------------- MODULE GroupView -------------------------------
(***************************************************************************)
(* How a head sees its group (main/web_ui.cpp): group_poll_task asks every *)
(* peer for its state and keeps the answers with their time; the view is   *)
(* made of this head's own state and of the answers that are fresh, by the *)
(* rules of GroupPolicy; the task shows it with the LED and mirrors it to  *)
(* Home Assistant when it changes.  The peers, their units, the broker and *)
(* the MQTT client's outbox are external.                                  *)
(*                                                                         *)
(* A tick is 15 s: the pause between two rounds takes one, the calls of a  *)
(* round, five seconds each, another at most (up to three peers).          *)
(***************************************************************************)
EXTENDS Naturals, Sequences, SequencesExt, FiniteSets

CONSTANTS
  Peers,          \* the heads that may be in a group with this one
  Looks,          \* what a zone may look like, of those ObsOf knows
  Trusted,        \* kPeerFreshUs, in ticks
  MaxQueue,       \* bound: messages the client keeps
  MaxViewFaults   \* bound: changes, resets and failures around this head

ASSUME ViewAssumption ==
  /\ IsFiniteSet(Peers)
  /\ Looks \subseteq {"off", "heats", "cools", "held", "auto"}
  /\ Trusted \in Nat \ {0} /\ MaxQueue \in Nat /\ MaxViewFaults \in Nat

Policy == INSTANCE GroupPolicy WITH Mode <- {"HEAT", "COOL", "AUTO"}

NoAnswer == [look |-> "none"]
Statuses == {"Standalone", "Ok", "Indeterminate", "PendingConflict", "Conflict"}
Unsent   == "nothing"

VARIABLES
  \* the group
  here,        \* this head's settings and status
  looks,       \* those of the peers
  foreign,     \* peers that speak another version of the protocol
  reach,       \* peers that answer
  grouped,     \* in_group()
  members,     \* g.peers
  \* group_poll_task
  round,       \* where it is
  left,        \* peers it has still to ask in this round
  answer,      \* what it has just been told
  slow,        \* the calls of this round have taken their tick
  cache,       \* s_peer_cache, with the age of each entry
  led,         \* the warning light
  sent,        \* s_last_pub
  \* the broker and the client
  alive,       \* the connection carries data
  flagged,     \* g_connected
  queue,       \* messages that have not reached the broker
  topic,       \* <base>/group/state, retained
  \* history
  behind,      \* a message was dropped, or followed a newer one
  calm,        \* ticks since something changed, up to Settled
  viewFaults

zoneVars   == <<here, looks, foreign, reach, grouped, members>>
roundVars  == <<round, left, answer, slow>>
mirrorVars == <<alive, flagged, queue, topic, behind>>
viewVars   == <<zoneVars, roundVars, cache, led, sent, mirrorVars, calm, viewFaults>>

(* An answer is up to a tick old when it is stored, an entry is used for less *)
(* than Trusted, and what is shown is renewed after two ticks at the latest.    *)
Settled == Trusted + 3

ViewTypeOK ==
  /\ here \in Looks /\ looks \in [Peers -> Looks]
  /\ foreign \subseteq Peers /\ reach \subseteq Peers
  /\ grouped \in BOOLEAN /\ members \subseteq Peers
  /\ round \in {"wait", "poll", "answer", "led", "mqtt"}
  /\ left \subseteq Peers
  /\ answer \in {NoAnswer} \cup [look : Looks, from : Peers]
  /\ slow \in BOOLEAN
  /\ cache \in [Peers -> {NoAnswer} \cup [look : Looks, age : 0 .. Trusted]]
  /\ led \in {"Off", "Warn", "Alert"}
  /\ sent \in Statuses \cup {Unsent} /\ topic \in Statuses \cup {Unsent}
  /\ alive \in BOOLEAN /\ flagged \in BOOLEAN /\ behind \in BOOLEAN
  /\ queue \in Seq(Statuses) /\ Len(queue) <= MaxQueue
  /\ calm \in 0 .. Settled
  /\ viewFaults \in 0 .. MaxViewFaults

ViewInit ==
  /\ here \in Looks /\ looks \in [Peers -> Looks]
  /\ foreign \in SUBSET Peers /\ reach = Peers
  /\ grouped = TRUE /\ members = Peers
  /\ round = "wait" /\ left = {} /\ answer = NoAnswer /\ slow = FALSE
  /\ cache = [p \in Peers |-> NoAnswer]
  /\ led = "Off" /\ sent = Unsent
  /\ alive = FALSE /\ flagged = FALSE /\ queue = <<>> /\ topic = Unsent
  /\ behind = FALSE
  /\ calm = 0
  /\ viewFaults = 0

ViewFault == viewFaults < MaxViewFaults /\ viewFaults' = viewFaults + 1

--------------------------------------------------------------------------------
(* observe(): what a zone's settings and status amount to. *)
ObsOf(look, state) ==
  [state   |-> state,
   on      |-> look # "off",
   demand  |-> CASE look = "heats" -> "Heat"
                 [] look \in {"cools", "held"} -> "Cool"
                 [] look = "auto" -> "Auto"
                 [] OTHER -> "Neutral",
   active  |-> look = "heats",
   standby |-> look = "held"]

Version(p) == IF p \in foreign THEN "Incompatible" ELSE "Known"

(* cached_peer_obs(); mutant: an answer is good for ever. *)
HasEver(p) == cache[p] # NoAnswer
Has(p) == cache[p] # NoAnswer /\ cache[p].age < Trusted
CachedPeerObs(p) == IF Has(p) THEN ObsOf(cache[p].look, Version(p)) ELSE ObsOf("off", "Unknown")

(* compute_group_view(), or no view outside a group. *)
ViewOf(obs) ==
  IF ~grouped THEN "Standalone"
  ELSE LET ps == SetToSeq(members)
       IN  Policy!Status(<<ObsOf(here, "SelfKnown")>> \o [i \in DOMAIN ps |-> obs[ps[i]]])
View == ViewOf([p \in Peers |-> CachedPeerObs(p)])

Alarm(status) == status \in {"Conflict", "PendingConflict"}

(* update_status_led() *)
LedOf(status) == IF Alarm(status) THEN "Alert"
                 ELSE IF status = "Indeterminate" THEN "Warn" ELSE "Off"

--------------------------------------------------------------------------------
Ticks ==
  /\ cache' = [p \in Peers |-> IF Has(p) THEN [cache[p] EXCEPT !.age = @ + 1] ELSE cache[p]]
  /\ calm' = IF calm < Settled THEN calm + 1 ELSE calm

(* The pause is over; the round goes to the peers of this moment. *)
RoundBegins ==
  /\ round = "wait"
  /\ Ticks
  /\ IF grouped THEN round' = "poll" /\ left' = members ELSE round' = "led" /\ UNCHANGED left
  /\ slow' = FALSE
  /\ UNCHANGED <<zoneVars, answer, led, sent, mirrorVars, viewFaults>>

CallsTakeLong ==
  /\ round \in {"poll", "answer"} /\ ~slow /\ slow' = TRUE
  /\ Ticks
  /\ UNCHANGED <<zoneVars, round, left, answer, led, sent, mirrorVars, viewFaults>>

(* poll_peer(): the peer answers, and the answer arrives or is lost. *)
PeerAnswers(p) ==
  /\ round = "poll" /\ p \in left /\ p \in reach /\ grouped
  /\ answer' = [look |-> looks[p], from |-> p]
  /\ round' = "answer" /\ left' = left \ {p}
  /\ UNCHANGED <<zoneVars, slow, cache, led, sent, mirrorVars, calm, viewFaults>>

PollFails(p) ==
  /\ round = "poll" /\ p \in left /\ (p \notin reach \/ ~grouped)
  /\ left' = left \ {p}
  /\ UNCHANGED <<zoneVars, round, answer, slow, cache, led, sent, mirrorVars, calm, viewFaults>>

StoreAnswer ==
  /\ round = "answer" /\ round' = "poll"
  /\ cache' = IF answer.from \in reach
              THEN [cache EXCEPT ![answer.from] = [look |-> answer.look, age |-> 0]] ELSE cache
  /\ answer' = NoAnswer
  /\ UNCHANGED <<zoneVars, left, slow, led, sent, mirrorVars, calm, viewFaults>>

(* The entries of those that are no longer peers go. *)
DropEntries ==
  /\ round = "poll" /\ left = {}
  /\ round' = "led"
  /\ cache' = [p \in Peers |-> IF p \in members THEN cache[p] ELSE NoAnswer]
  /\ UNCHANGED <<zoneVars, left, answer, slow, led, sent, mirrorVars, calm, viewFaults>>

UpdateStatusLed ==
  /\ round = "led" /\ round' = "mqtt"
  /\ led' = LedOf(View)
  /\ UNCHANGED <<zoneVars, left, answer, slow, cache, sent, mirrorVars, calm, viewFaults>>

(* esp_mqtt_client_publish(), retained, as in MqttBridge; what it returns is *)
(* ignored.                                                                  *)
PublishGroupState(status) ==
  IF alive
  THEN /\ topic' = status /\ behind' = (queue # <<>>) /\ UNCHANGED queue
  ELSE /\ \/ Len(queue) < MaxQueue /\ queue' = Append(queue, status) /\ behind' = FALSE
          \/ UNCHANGED queue /\ behind' = TRUE
       /\ UNCHANGED topic

(* update_group_mqtt(); mutant: what is not published is remembered as sent. *)
UpdateGroupMqttForgetful ==
  /\ round = "mqtt" /\ round' = "wait"
  /\ sent' = View
  /\ IF flagged /\ View # sent THEN PublishGroupState(View)
     ELSE UNCHANGED <<queue, topic, behind>>
  /\ UNCHANGED <<zoneVars, left, answer, slow, cache, led, alive, flagged, calm, viewFaults>>

UpdateGroupMqtt ==
  /\ round = "mqtt" /\ round' = "wait"
  /\ IF flagged /\ View # sent
     THEN sent' = View /\ PublishGroupState(View)
     ELSE UNCHANGED <<sent, queue, topic, behind>>
  /\ UNCHANGED <<zoneVars, left, answer, slow, cache, led, alive, flagged, calm, viewFaults>>

--------------------------------------------------------------------------------
(* Something changes around this head. *)
Unsettled == ViewFault /\ calm' = 0
SameHead  == UNCHANGED <<roundVars, cache, led, sent, mirrorVars>>

HereChanges ==
  /\ Unsettled /\ here' \in Looks \ {here}
  /\ UNCHANGED <<looks, foreign, reach, grouped, members>> /\ SameHead

PeerChanges(p) ==
  /\ Unsettled
  /\ \E l \in Looks \ {looks[p]} : looks' = [looks EXCEPT ![p] = l]
  /\ UNCHANGED <<here, foreign, reach, grouped, members>> /\ SameHead

(* A peer is switched off or out of reach, or is back. *)
ReachChanges(p) ==
  /\ ViewFault
  /\ reach' = IF p \in reach THEN reach \ {p} ELSE reach \cup {p}
  /\ UNCHANGED <<here, looks, foreign, grouped, members, calm>> /\ SameHead

(* Pairing, eviction, leaving and merging. *)
GroupChanges ==
  /\ Unsettled
  /\ \/ grouped' = TRUE /\ members' \in SUBSET Peers
     \/ grouped' = FALSE /\ members' = {}
  /\ <<grouped, members>>' # <<grouped, members>>
  /\ UNCHANGED <<here, looks, foreign, reach>> /\ SameHead

ViewReset ==
  /\ Unsettled
  /\ round' = "wait" /\ left' = {} /\ answer' = NoAnswer /\ slow' = FALSE
  /\ cache' = [p \in Peers |-> NoAnswer]
  /\ led' = "Off" /\ sent' = Unsent
  /\ alive' = FALSE /\ flagged' = FALSE /\ queue' = <<>>
  /\ behind' = FALSE
  /\ UNCHANGED <<zoneVars, topic>>

(* The connection to the broker, of which the client learns later. *)
BrokerLinkDies ==
  /\ ViewFault /\ alive /\ alive' = FALSE
  /\ UNCHANGED <<zoneVars, roundVars, cache, led, sent, flagged, queue, topic, behind, calm>>

BrokerLost ==
  /\ flagged /\ ~alive /\ flagged' = FALSE
  /\ UNCHANGED <<zoneVars, roundVars, cache, led, sent, alive, queue, topic, behind, calm,
                 viewFaults>>

BrokerFound ==
  /\ ~flagged /\ flagged' = TRUE /\ alive' = TRUE
  /\ UNCHANGED <<zoneVars, roundVars, cache, led, sent, queue, topic, behind, calm, viewFaults>>

SendQueued ==
  /\ alive /\ queue # <<>>
  /\ topic' = Head(queue) /\ queue' = Tail(queue)
  /\ UNCHANGED <<zoneVars, roundVars, cache, led, sent, alive, flagged, behind, calm, viewFaults>>

--------------------------------------------------------------------------------
Polling == \E p \in Peers : PeerAnswers(p) \/ PollFails(p)
Round == \/ RoundBegins \/ Polling \/ StoreAnswer \/ DropEntries
         \/ UpdateStatusLed \/ UpdateGroupMqtt
Client == BrokerLost \/ BrokerFound \/ SendQueued

ViewNext ==
  \/ Round \/ CallsTakeLong \/ Client
  \/ HereChanges \/ GroupChanges \/ ViewReset \/ BrokerLinkDies
  \/ \E p \in Peers : PeerChanges(p) \/ ReachChanges(p)

ViewSpec == ViewInit /\ [][ViewNext]_viewVars

(* The task runs for ever and no call of it lasts; the client reconnects and *)
(* sends what it kept.                                                       *)
ViewFairness == WF_viewVars(Round) /\ WF_viewVars(BrokerLost) /\ WF_viewVars(BrokerFound)
                /\ WF_viewVars(SendQueued)

ViewFairSpec == ViewSpec /\ ViewFairness

--------------------------------------------------------------------------------
(* What the group really is. *)
Truth == ViewOf([p \in Peers |-> ObsOf(looks[p], Version(p))])

(* A hidden member never makes a conflict look resolved, nor an old answer   *)
(* one look real: when the group has changed nothing for as long as answers  *)
(* are trusted, the view and the light say "all is well" only where it is,   *)
(* and "conflict" only where there is one, whoever is out of reach.          *)
GroupSeenTruthfully ==
  /\ calm > Trusted =>
       /\ View = "Ok" => Truth = "Ok"
       /\ Alarm(View) => Alarm(Truth)
  /\ calm = Settled =>
       /\ led = "Off" => Truth \in {"Ok", "Standalone"}
       /\ led = "Alert" => Alarm(Truth)

(* Home Assistant learns how things stand: once the group and the network    *)
(* are at rest, the retained status and the light are and stay those of the  *)
(* group, or with a peer out of reach at least do not say that all is well.  *)
(* (Not if a message is dropped or an older one follows: nothing repeats an  *)
(* unchanged status.)                                                        *)
ToldTruth == IF members \subseteq reach THEN topic = Truth /\ led = LedOf(Truth)
                                        ELSE topic # "Ok" /\ led # "Off"
ToldInTheEnd == <>[]~behind => <>[]ToldTruth

================================================================================
