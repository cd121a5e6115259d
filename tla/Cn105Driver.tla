---------------------------- MODULE Cn105Driver ----------------------------
(***************************************************************************)
(* The CN105 driver (components/cn105/cn105.cpp): one pump task that owns  *)
(* the UART and the driver's view of the unit, setters called from other   *)
(* tasks, the serial line and the indoor unit.                             *)
(*                                                                         *)
(* A step of the pump is the code between two points at which another task *)
(* can be seen: a critical section under want_mtx_ or pub_mtx_, a frame    *)
(* read, a frame written.  Elapsed time is an input: an interval test of   *)
(* the code is a choice, restricted where the code relates two of them.    *)
(***************************************************************************)
EXTENDS Naturals, Sequences, FiniteSets

CONSTANTS
  Field,        \* the settings a SET packet can carry
  WV,           \* the wide vane, the field the capability probe takes over
  Value,        \* the values a setting can have
  Placeholder,  \* what connect() seeds, kept apart from every real value
  None,         \* no outstanding intent
  Powered,      \* does the unit have a motorised wide vane?
  InfoModes,    \* length of the INFOMODE poll cycle
  BackoffMin, BackoffMax,   \* CONNECT_BACKOFF_MIN_MS and _MAX_MS, in seconds
  UserField,    \* the fields user commands touch in this instance
  MaxOps, MaxProbes, MaxExternal, MaxLost, MaxLate, MaxOutages,  \* bounds
  MaxDisturbances           \* bound on the last five together

ASSUME FieldAssumption ==
  /\ WV \in Field
  /\ UserField \subseteq Field
  /\ Placeholder \notin Value
  /\ None \notin Value \cup {Placeholder}
  /\ Powered \in BOOLEAN
  /\ InfoModes \in Nat \ {0}

ASSUME BackoffAssumption ==
  /\ BackoffMin \in Nat
  /\ BackoffMax \in Nat
  /\ BackoffMin <= BackoffMax

Setting == Value \cup {Placeholder}
Settings == [Field -> Setting]
Default == [f \in Field |-> Placeholder]

VARIABLES
  \* owned by the pump task
  pc,           \* where the pump is in update()
  connected,    \* connected_
  firstRun,     \* firstRun_
  current,      \* current_
  changed,      \* settingsChanged_
  infoMode,     \* infoMode_
  backoff,      \* connectBackoff_
  snap,         \* wsnap, wvProbe, wvProbeSend, wvTarget: pump_()'s locals,
                \* and w, the copy of sendWideVaneOnce_
  \* guarded by want_mtx_
  wanted,       \* wanted_
  dirty,        \* the fields whose d_... flag is set
  probe,        \* wvProbe_, wvProbeSend_, wvProbeTarget_
  graceOver,    \* now - lastWanted_ > AUTOUPDATE_GRACE_MS
  remote,       \* pendingRemoteTempSet_
  sync,         \* sync_requested_ (atomic)
  \* what other tasks see
  pub,          \* pub_settings_ and pub_connected_
  told,         \* the last value given to on_settings_ (MQTT publishes it)
  \* the line and the unit
  unit,         \* the settings the unit really has
  unitUp,       \* the unit is powered and plugged in
  rx,           \* frames waiting in the UART buffer
  silent,       \* now - lastRecv_ > RECV_TIMEOUT_MS
  \* history and bounds
  intent,       \* the user's latest value of a field the unit has not had yet
  spent         \* how much of each bound is used

pumpVars == <<pc, connected, firstRun, current, changed, infoMode, backoff, snap>>
wantVars == <<wanted, dirty, probe, graceOver, remote, sync>>
seenVars == <<pub, told>>
lineVars == <<unit, unitUp, rx, silent>>
histVars == <<intent, spent>>
vars == <<pumpVars, wantVars, seenVars, lineVars, histVars>>

PC == {"idle", "down", "connWait", "drain", "decide", "probeDrain", "probeSend",
       "probeAck", "flushDrain", "flushSend", "flushAck", "tail", "infoWait", "publish"}
Kind == {"settings", "status", "ack", "conn"}
Message == [kind : Kind, set : Settings]
Probe == [on : BOOLEAN, queued : BOOLEAN, target : Setting]
Snapshot == [wanted : Settings, probe : Probe, shot : Settings]
Seen == [set : Settings, connected : BOOLEAN]
Spent == [ops : Nat, probes : Nat, external : Nat, lost : Nat, late : Nat,
          outages : Nat]

TypeOK ==
  /\ pc \in PC
  /\ connected \in BOOLEAN /\ firstRun \in BOOLEAN /\ changed \in BOOLEAN
  /\ current \in Settings /\ wanted \in Settings /\ unit \in Settings
  /\ infoMode \in 0 .. InfoModes - 1
  /\ backoff \in BackoffMin .. BackoffMax
  /\ snap \in Snapshot
  /\ dirty \in SUBSET Field
  /\ probe \in Probe
  /\ graceOver \in BOOLEAN /\ remote \in BOOLEAN /\ sync \in BOOLEAN
  /\ pub \in Seen /\ told \in Seen
  /\ unitUp \in BOOLEAN /\ silent \in BOOLEAN
  /\ rx \in Seq(Message)
  /\ intent \in [Field -> Setting \cup {None}]
  /\ spent \in Spent

-----------------------------------------------------------------------------
(* The unit and the line (external: known only from how the driver uses it) *)

Reply(k) == [kind |-> k, set |-> Default]
SettingsReply == [kind |-> "settings", set |-> unit]

Disturbances ==
  spent.probes + spent.external + spent.lost + spent.late + spent.outages

Disturb(what, most) ==
  /\ spent[what] < most /\ Disturbances < MaxDisturbances
  /\ spent' = [spent EXCEPT ![what] = @ + 1]

(* What is still owed to the user once the unit has settings u. *)
Owed(u) == [f \in Field |-> IF intent[f] = u[f] THEN None ELSE intent[f]]

(* One frame out.  The unit, when it is there, moves to one of the results *)
(* and answers at once; the command or the answer may be lost.             *)
Transmit(results, replies) ==
  \/ /\ unitUp
     /\ \E u \in results : unit' = u /\ intent' = Owed(u)
     /\ \/ /\ \E m \in replies : rx' = rx \o m
           /\ UNCHANGED spent
        \/ /\ Disturb("lost", MaxLost)
           /\ UNCHANGED rx
  \/ /\ \/ ~unitUp /\ UNCHANGED spent
        \/ unitUp /\ Disturb("lost", MaxLost)
     /\ UNCHANGED <<unit, intent, rx>>

(* createSetPacket_: the fields of w that differ from current_ and only    *)
(* those.                                                                  *)
Carried(w) == {f \in Field : w[f] # current[f]}

(* What a flush would have to send; a running probe hides the wide vane.   *)
Differs(w, probing) ==
  \E f \in Field : w[f] # current[f] /\ (f = WV => ~probing)

(* Seeded fault: the wide vane is enforced during a probe as well. *)
MustFlushEnforcing == ~firstRun /\ Differs(wanted, FALSE)

MustFlush == ~firstRun /\ Differs(wanted, probe.on)

(* What a unit may do with a SET of w: take every carried field, or, when  *)
(* the wide vane is a manual louver, ignore that field.                    *)
Obey(w) ==
  LET all == [f \in Field |-> IF f \in Carried(w) THEN w[f] ELSE unit[f]]
  IN  IF Powered THEN {all} ELSE {all, [all EXCEPT ![WV] = unit[WV]]}

(* A wait may end with no answer: there is none, or it comes too late and  *)
(* stays in the buffer.                                                    *)
NoAnswer ==
  \/ rx = <<>> /\ UNCHANGED spent
  \/ rx # <<>> /\ Disturb("late", MaxLate)

(* Someone uses the unit's own remote control. *)
ExternalChange(f, v) ==
  /\ unitUp /\ unit[f] # v
  /\ Disturb("external", MaxExternal)
  /\ unit' = [unit EXCEPT ![f] = v]
  /\ intent' = Owed(unit')
  /\ UNCHANGED <<pumpVars, wantVars, seenVars, unitUp, rx, silent>>

UnitDown ==
  /\ unitUp
  /\ Disturb("outages", MaxOutages)
  /\ unitUp' = FALSE
  /\ UNCHANGED <<pumpVars, wantVars, seenVars, unit, rx, silent, intent>>

UnitBack ==
  /\ ~unitUp
  /\ unitUp' = TRUE
  /\ UNCHANGED <<pumpVars, wantVars, seenVars, unit, rx, silent, histVars>>

(* Ten seconds pass without a valid frame. *)
Silence ==
  /\ pc = "idle" /\ connected /\ ~unitUp /\ ~silent
  /\ silent' = TRUE
  /\ UNCHANGED <<pumpVars, wantVars, seenVars, unit, unitUp, rx, histVars>>

(* Thirty seconds pass since the last setter.  On a live link that is many *)
(* times the one-second retry of a SET and a whole poll cycle, so the last *)
(* reply is the unit's state, no older one is still on its way and nothing *)
(* is left to send.                                                        *)
GraceElapses ==
  /\ pc = "idle" /\ ~graceOver
  /\ connected /\ unitUp => current = unit /\ ~MustFlush /\ rx = <<>>
  /\ graceOver' = TRUE
  /\ UNCHANGED <<pumpVars, remote, sync, wanted, dirty, probe, seenVars,
                 lineVars, histVars>>

-----------------------------------------------------------------------------
(* Setters, called from the MQTT, web and capability tasks                 *)

Op == spent.ops < MaxOps /\ spent' = [spent EXCEPT !.ops = @ + 1]

(* setPowerSetting, setModeSetting, ... : one critical section. *)
Record(f, v) ==
  /\ wanted' = [wanted EXCEPT ![f] = v]
  /\ dirty' = dirty \cup {f}
  /\ graceOver' = FALSE
  /\ intent' = [intent EXCEPT ![f] = IF unit[f] = v THEN None ELSE v]

Set(f, v) ==
  /\ Op
  /\ Record(f, v)
  /\ UNCHANGED <<pumpVars, probe, remote, sync, seenVars, lineVars>>

SetRemoteTemperature ==
  /\ Op
  /\ remote' = TRUE
  /\ UNCHANGED <<pumpVars, wanted, dirty, probe, graceOver, sync, seenVars,
                 lineVars, intent>>

RequestSync ==
  /\ Op
  /\ sync' = TRUE
  /\ UNCHANGED <<pumpVars, wanted, dirty, probe, graceOver, remote, seenVars,
                 lineVars, intent>>

BeginWideVaneProbe(v) ==
  /\ probe' = [on |-> TRUE, queued |-> TRUE, target |-> v]
  /\ UNCHANGED <<pumpVars, wanted, dirty, graceOver, remote, sync, seenVars,
                 lineVars, intent>>

ProbeOff == probe' = [probe EXCEPT !.on = FALSE, !.queued = FALSE]

EndWideVaneProbeRestore(v) ==
  /\ probe.on
  /\ ProbeOff
  /\ Record(WV, v)
  /\ UNCHANGED <<pumpVars, remote, sync, seenVars, lineVars, spent>>

AbortWideVaneProbe ==
  /\ probe.on
  /\ ProbeOff
  /\ UNCHANGED <<pumpVars, wanted, dirty, graceOver, remote, sync, seenVars,
                 lineVars, histVars>>

-----------------------------------------------------------------------------
(* readPacket_ and decodeInfo_                                             *)

Goto(l) == pc' = l

(* Seeded faults: adoption without regard to the dirty flags, adoption of  *)
(* the user's fields instead of the others.                                *)
AdoptedAll(s) == s
AdoptedSwapped(s) == [f \in Field |-> IF f \in dirty THEN s[f] ELSE wanted[f]]

(* decodeInfo_, case 0x02: current_ follows the unit; wanted_ adopts it,   *)
(* field by field and sparing the dirty ones, on the first reply of a      *)
(* session and after the grace period.                                     *)
Adopted(s) == [f \in Field |-> IF f \in dirty THEN wanted[f] ELSE s[f]]

DecodeSettings(s) ==
  /\ current' = s
  /\ changed' = (changed \/ s # current)
  /\ wanted' = IF firstRun \/ graceOver THEN Adopted(s) ELSE wanted
  /\ firstRun' = FALSE

(* One valid frame: it counts as life on the line whatever it is. *)
Heard ==
  /\ rx # <<>>
  /\ rx' = Tail(rx)
  /\ silent' = FALSE
  /\ backoff' = BackoffMin

(* readPacket_: one frame and its dispatch. *)
ReadPacket ==
  /\ Heard
  /\ connected' = (connected \/ Head(rx).kind = "conn")
  /\ \/ /\ Head(rx).kind = "settings"
        /\ DecodeSettings(Head(rx).set)
     \/ /\ Head(rx).kind # "settings"
        /\ UNCHANGED <<current, changed, wanted, firstRun>>

unreadVars == <<dirty, probe, graceOver, remote, sync, seenVars, unit, unitUp>>

-----------------------------------------------------------------------------
(* pump_(), one iteration from "idle" to "idle"                            *)

PumpBegin ==
  /\ pc = "idle"
  /\ ~(connected /\ silent)
  /\ changed' = FALSE
  /\ Goto(IF connected THEN "drain" ELSE "down")
  /\ UNCHANGED <<connected, firstRun, current, infoMode, backoff, snap,
                 wantVars, seenVars, lineVars, histVars>>

(* Seeded fault: the listeners are not told. *)
DropLinkQuietly == connected' = FALSE /\ firstRun' = TRUE /\ changed' = FALSE

DropLink == connected' = FALSE /\ firstRun' = TRUE /\ changed' = TRUE

(* No packet for RECV_TIMEOUT_MS: the same iteration goes on to reconnect. *)
LinkLost ==
  /\ pc = "idle"
  /\ connected /\ silent
  /\ DropLink
  /\ Goto("down")
  /\ UNCHANGED <<current, infoMode, backoff, snap, wantVars, seenVars,
                 lineVars, histVars>>

(* The reconnect interval has not passed. *)
BackOff ==
  /\ pc = "down"
  /\ Goto("publish")
  /\ UNCHANGED <<connected, firstRun, current, changed, infoMode, backoff,
                 snap, wantVars, seenVars, lineVars, histVars>>

SendConnect ==
  /\ pc = "down"
  /\ Transmit({unit}, {<<Reply("conn")>>})
  /\ Goto("connWait")
  /\ UNCHANGED <<connected, firstRun, current, changed, infoMode, backoff,
                 snap, wantVars, seenVars, unitUp, silent>>

ConnectRead ==
  /\ pc = "connWait"
  /\ ReadPacket
  /\ Goto(IF Head(rx).kind = "conn" THEN "publish" ELSE "connWait")
  /\ UNCHANGED <<infoMode, snap, unreadVars, histVars>>

Doubled(b) == IF 2 * b > BackoffMax THEN BackoffMax ELSE 2 * b

ConnectTimeout ==
  /\ pc = "connWait"
  /\ NoAnswer
  /\ backoff' = Doubled(backoff)
  /\ Goto("publish")
  /\ UNCHANGED <<connected, firstRun, current, changed, infoMode, snap,
                 wantVars, seenVars, lineVars, intent>>

(* drainPackets_(4), at the top of an iteration and again before each SET.  *)
Drain ==
  /\ pc \in {"drain", "probeDrain", "flushDrain"}
  /\ ReadPacket
  /\ UNCHANGED <<pc, infoMode, snap, unreadVars, histVars>>

(* A reply that is late may even come after the drain that was to clear it. *)
Drained ==
  /\ pc \in {"drain", "probeDrain", "flushDrain"}
  /\ NoAnswer
  /\ Goto(CASE pc = "drain" -> "decide" [] pc = "probeDrain" -> "probeSend"
            [] OTHER -> "flushSend")
  /\ UNCHANGED <<connected, firstRun, current, changed, infoMode, backoff,
                 snap, wantVars, seenVars, lineVars, intent>>

(* The branches of an iteration in their order: a queued probe, a flush,   *)
(* the rest.  Each asks canSend_ again, so that the interval may end        *)
(* between two of them; Due is the one taken once it has ended.            *)
Branches ==
  {l \in {"probeDrain", "flushDrain", "tail"} :
     (l = "probeDrain" => probe.queued) /\ (l = "flushDrain" => MustFlush)}

Due == IF probe.queued THEN "probeDrain" ELSE IF MustFlush THEN "flushDrain" ELSE "tail"

(* sendWideVaneOnce_ copies current_ before it drains the line. *)
ShotComposed == [current EXCEPT ![WV] = probe.target]

(* The critical section that copies wanted_ and the probe, and the branch  *)
(* taken on the copies.                                                    *)
Take(l) ==
  /\ pc = "decide"
  /\ snap' = [wanted |-> wanted, probe |-> probe,
              shot |-> IF l = "probeDrain" THEN ShotComposed ELSE Default]
  /\ Goto(l)
  /\ UNCHANGED <<connected, firstRun, current, changed, infoMode, backoff,
                 wantVars, seenVars, lineVars, histVars>>

Decide == \E l \in Branches : Take(l)

(* The last frame went out less than a second ago: nothing may be sent. *)
TooSoon ==
  /\ pc = "decide"
  /\ Goto("publish")
  /\ UNCHANGED <<connected, firstRun, current, changed, infoMode, backoff,
                 snap, wantVars, seenVars, lineVars, histVars>>

(* sendWideVaneOnce_: the copy against current_ as it is after the drain.  *)
(* When that read a reply, the SET carries the other fields as they were.  *)
ProbeSend ==
  /\ pc = "probeSend"
  /\ Transmit(Obey(snap.shot), {<<Reply("ack")>>})
  /\ Goto("probeAck")
  /\ UNCHANGED <<connected, firstRun, current, changed, infoMode, backoff,
                 snap, wantVars, seenVars, unitUp, silent>>

(* The one-shot is over, answered or not. *)
ProbeSent ==
  /\ infoMode' = 0
  /\ probe' = [probe EXCEPT !.queued = FALSE]
  /\ Goto("publish")

ProbeRead ==
  /\ pc = "probeAck"
  /\ ReadPacket
  /\ \/ /\ Head(rx).kind = "ack"
        /\ ProbeSent
     \/ /\ Head(rx).kind # "ack"
        /\ UNCHANGED <<pc, infoMode, probe>>
  /\ UNCHANGED <<snap, dirty, graceOver, remote, sync, seenVars, unit, unitUp,
                 histVars>>

ProbeTimeout ==
  /\ pc = "probeAck"
  /\ NoAnswer
  /\ ProbeSent
  /\ UNCHANGED <<connected, firstRun, current, changed, backoff, snap, wanted,
                 dirty, graceOver, remote, sync, seenVars, lineVars, intent>>

FlushSend ==
  /\ pc = "flushSend"
  /\ Transmit(Obey(snap.wanted), {<<Reply("ack")>>})
  /\ Goto("flushAck")
  /\ UNCHANGED <<connected, firstRun, current, changed, infoMode, backoff,
                 snap, wantVars, seenVars, unitUp, silent>>

(* Seeded faults: the echo of wanted_ as it is now, an echo that tells     *)
(* nobody, and no echo, the SET storm the comment at this place describes. *)
EchoLive == current' = wanted /\ changed' = (changed \/ wanted # current)
EchoQuietly == current' = snap.wanted /\ UNCHANGED changed
NoEcho == UNCHANGED <<current, changed>>

(* current_ takes what the SET carried, not what wanted_ has become since. *)
Echo == current' = snap.wanted /\ changed' = (changed \/ snap.wanted # current)

(* The ACK: every dirty flag clears and current_ takes what was sent. *)
FlushRead ==
  /\ pc = "flushAck"
  /\ Heard
  /\ Head(rx).kind = "ack"
  /\ dirty' = {}
  /\ Echo
  /\ infoMode' = 0
  /\ Goto("publish")
  /\ UNCHANGED <<connected, firstRun, snap, wanted, probe, graceOver, remote,
                 sync, seenVars, unit, unitUp, histVars>>

FlushReadOther ==
  /\ pc = "flushAck"
  /\ ReadPacket
  /\ Head(rx).kind # "ack"
  /\ UNCHANGED <<pc, infoMode, snap, unreadVars, histVars>>

FlushTimeout ==
  /\ pc = "flushAck"
  /\ NoAnswer
  /\ Goto("publish")
  /\ UNCHANGED <<connected, firstRun, current, changed, infoMode, backoff,
                 snap, wantVars, seenVars, lineVars, intent>>

(* sendRemoteTemp_: the flag clears under the mutex, then one frame goes   *)
(* out and nobody waits for an answer.                                     *)
RemoteSend ==
  /\ pc = "tail"
  /\ remote
  /\ remote' = FALSE
  /\ Transmit({unit}, {<<>>, <<Reply("ack")>>})
  /\ Goto("publish")
  /\ UNCHANGED <<connected, firstRun, current, changed, infoMode, backoff,
                 snap, wanted, dirty, probe, graceOver, sync, seenVars, unitUp,
                 silent>>

(* sendInfoPacket_: the settings while a probe runs or on request, else    *)
(* the next packet of the cycle, whose first is the settings.              *)
PollSend ==
  /\ pc = "tail"
  /\ ~remote
  /\ LET forced == snap.probe.on \/ sync
     IN  /\ sync' = IF snap.probe.on THEN sync ELSE FALSE
         /\ infoMode' = IF forced THEN infoMode ELSE (infoMode + 1) % InfoModes
         /\ Transmit({unit}, IF forced \/ infoMode = 0 THEN {<<SettingsReply>>}
                             ELSE {<<Reply("status")>>})
  /\ Goto("infoWait")
  /\ UNCHANGED <<connected, firstRun, current, changed, backoff, snap, wanted,
                 dirty, probe, graceOver, remote, seenVars, unitUp, silent>>

(* Less than two seconds since the last frame: no poll yet. *)
PollLater ==
  /\ pc = "tail"
  /\ ~remote
  /\ Goto("publish")
  /\ UNCHANGED <<connected, firstRun, current, changed, infoMode, backoff,
                 snap, wantVars, seenVars, lineVars, histVars>>

(* Any decoded frame ends the wait. *)
InfoRead ==
  /\ pc = "infoWait"
  /\ ReadPacket
  /\ Goto("publish")
  /\ UNCHANGED <<infoMode, snap, unreadVars, histVars>>

InfoTimeout ==
  /\ pc = "infoWait"
  /\ NoAnswer
  /\ Goto("publish")
  /\ UNCHANGED <<connected, firstRun, current, changed, infoMode, backoff,
                 snap, wantVars, seenVars, lineVars, intent>>

NoSnapshot ==
  [wanted |-> Default, shot |-> Default,
   probe |-> [on |-> FALSE, queued |-> FALSE, target |-> Placeholder]]

(* publishSnapshot_ and fireCallbacks_, at the end of every path. *)
PublishAndFire ==
  /\ pc = "publish"
  /\ pub' = [set |-> current, connected |-> connected]
  /\ told' = IF changed THEN pub' ELSE told
  /\ changed' = FALSE
  /\ snap' = NoSnapshot
  /\ Goto("idle")
  /\ UNCHANGED <<connected, firstRun, current, infoMode, backoff, wantVars,
                 lineVars, histVars>>

-----------------------------------------------------------------------------

(* connect(): placeholders, and one handshake that may have failed. *)
Init ==
  /\ pc = "idle"
  /\ connected \in BOOLEAN /\ firstRun = TRUE /\ changed = FALSE
  /\ current = Default /\ wanted = Default
  /\ infoMode = 0 /\ backoff = BackoffMin
  /\ snap = NoSnapshot
  /\ dirty = {}
  /\ probe = NoSnapshot.probe
  /\ graceOver = FALSE /\ remote = FALSE /\ sync = FALSE
  /\ pub = [set |-> Default, connected |-> connected]
  /\ told = [set |-> Default, connected |-> FALSE]
  /\ unit \in [Field -> Value]
  /\ unitUp = TRUE /\ rx = <<>> /\ silent = FALSE
  /\ intent = [f \in Field |-> None]
  /\ spent = [ops |-> 0, probes |-> 0, external |-> 0, lost |-> 0, late |-> 0,
              outages |-> 0]

Connecting == BackOff \/ SendConnect \/ ConnectRead \/ ConnectTimeout
Probing == ProbeSend \/ ProbeRead \/ ProbeTimeout
Flushing == FlushSend \/ FlushRead \/ FlushReadOther \/ FlushTimeout
Polling == RemoteSend \/ PollSend \/ PollLater \/ InfoRead \/ InfoTimeout

Pump ==
  \/ PumpBegin \/ LinkLost \/ Connecting
  \/ Drain \/ Drained \/ Decide \/ TooSoon
  \/ Probing \/ Flushing \/ Polling
  \/ PublishAndFire

User ==
  \/ \E f \in UserField, v \in Value : Set(f, v)
  \/ SetRemoteTemperature
  \/ RequestSync

(* The detection task begins a probe only once unit_on() has seen the power *)
(* ON in the published settings, where the placeholder is OFF.             *)
Prober ==
  \/ /\ pub.set # Default
     /\ Disturb("probes", MaxProbes)
     /\ \E v \in Value : BeginWideVaneProbe(v)
  \/ \E v \in Value : EndWideVaneProbeRestore(v)
  \/ AbortWideVaneProbe

Environment ==
  \/ \E f \in Field, v \in Value : ExternalChange(f, v)
  \/ UnitDown \/ UnitBack \/ Silence \/ GraceElapses

Next == Pump \/ User \/ Prober \/ Environment

Spec == Init /\ [][Next]_vars

-----------------------------------------------------------------------------
(* Safety                                                                  *)

(* The placeholders that connect() writes into wanted_ and current_ never  *)
(* reach the unit, by a flush or by the copy a probe is composed from: a   *)
(* driver that sent before it had read the unit would switch it off at     *)
(* every boot.                                                             *)
PlaceholderNeverSent == \A f \in Field : unit[f] # Placeholder

(* An undelivered setting whose dirty flag is up is still what the user    *)
(* asked for last, whatever replies were adopted meanwhile.                *)
IntentKept ==
  \A f \in dirty : intent[f] # None => wanted[f] = intent[f]

(* A link that is up reconnects at the shortest interval when it drops,    *)
(* however long the unit had been absent before.                           *)
ConnectedIsSnappy == connected => backoff = BackoffMin

(* Between two iterations the listeners, and MQTT behind them, hold the    *)
(* settings the driver holds: no path changes current_ without telling.    *)
ListenersCurrent == pc = "idle" => told.set = current /\ pub.set = current

(* Between two iterations nobody still believes in a link that was lost.   *)
NeverToldUpWhenDown ==
  pc = "idle" /\ ~connected => ~told.connected /\ ~pub.connected

Undisturbed ==
  /\ spent.lost = 0 /\ spent.late = 0 /\ spent.outages = 0
  /\ spent.external = 0 /\ spent.probes = 0

(* On an undisturbed line the optimistic echo of a SET is what the unit    *)
(* has, whatever setters ran between the snapshot and the ACK.             *)
EchoTruthful == Undisturbed /\ pc = "idle" /\ ~firstRun => current = unit

(* What the code's comments promise: "Per-field: never clobber a field the *)
(* user changed but we haven't yet delivered (its dirty flag is still      *)
(* set)" and, of the ACK, "the user's intent is delivered, so the dirty    *)
(* flags can clear".  The flags clear for setters that ran after the SET   *)
(* was composed too.                                                       *)
NoLostIntent == \A f \in Field : intent[f] # None => wanted[f] = intent[f]

-----------------------------------------------------------------------------
(* Liveness                                                                *)

(* cn105_task runs update() every 100 ms for ever, so every enabled pump    *)
(* step is taken.  Intervals elapse, so sending is not put off for ever;   *)
(* the unit comes back, and ten silent seconds are noticed.                *)
Fairness ==
  /\ WF_vars(Pump)
  /\ SF_vars(Take(Due))
  /\ SF_vars(SendConnect)
  /\ SF_vars(PollSend)
  /\ WF_vars(UnitBack)

FairSpec == Spec /\ Fairness

(* When commands, disturbances and faults stop, the unit, the driver's view *)
(* of it and what the driver wants end up the same and stay so.            *)
Converges == <>[](current = unit /\ wanted = unit)

(* A setting the user makes reaches the unit or is replaced by a later     *)
(* one, unless the link drops while it is on its way.                      *)
IntentDelivered ==
  \A f \in Field : intent[f] # None ~> intent[f] = None \/ spent.outages > 0

(* A remote temperature and a sync request are always served: no stream of  *)
(* SETs starves them.                                                      *)
RequestsServed == (remote ~> ~remote) /\ (sync ~> ~sync)

(* "connected: true once a valid packet has been exchanged", says the      *)
(* field that the settings callback hands to MQTT.                         *)
ListenersLearnConnected == []<>(told.connected = connected)
=============================================================================
