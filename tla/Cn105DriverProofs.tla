------------------------- MODULE Cn105DriverProofs -------------------------
(***************************************************************************)
(* Proofs about Cn105Driver, for every set of fields and values.           *)
(***************************************************************************)
EXTENDS Cn105Driver, TLAPS

USE DEF Goto, Op, Disturb, pumpVars, wantVars, seenVars, lineVars, histVars,
        unreadVars

-----------------------------------------------------------------------------
(* Types                                                                   *)

(* The constant records are of the types the variables have. *)
LEMMA ConstantTypes ==
  /\ Default \in Settings
  /\ NoSnapshot \in Snapshot
  /\ \A k \in Kind : Reply(k) \in Message
  /\ [Field -> Value] \subseteq Settings
BY FieldAssumption
DEF Default, Settings, Setting, NoSnapshot, Snapshot, Probe, Reply, Message

(* Spending a bound leaves the tally a record of numbers. *)
LEMMA SpendTypes ==
  ASSUME spent \in Spent, NEW what \in DOMAIN spent,
         spent' = [spent EXCEPT ![what] = @ + 1]
  PROVE  spent' \in Spent
BY DEF Spent

(* A unit that obeys a SET has settings again. *)
LEMMA ObeyTypes ==
  ASSUME TypeOK, NEW w \in Settings
  PROVE  Obey(w) \subseteq Settings
BY FieldAssumption DEF TypeOK, Obey, Settings

(* A frame out leaves the unit and the buffer well typed. *)
LEMMA TransmitTypes ==
  ASSUME TypeOK, NEW results \in SUBSET Settings,
         NEW replies \in SUBSET Seq(Message), Transmit(results, replies)
  PROVE  /\ unit' \in Settings /\ rx' \in Seq(Message)
         /\ intent' \in [Field -> Setting \cup {None}] /\ spent' \in Spent
<1>1. spent' \in Spent
  <2>1. CASE Disturb("lost", MaxLost)
    <3>1. "lost" \in DOMAIN spent
      BY DEF TypeOK, Spent
    <3> QED BY <2>1, <3>1, SpendTypes DEF TypeOK
  <2>2. CASE UNCHANGED spent
    BY <2>2 DEF TypeOK
  <2> QED BY <2>1, <2>2 DEF Transmit
<1>2. intent' \in [Field -> Setting \cup {None}]
  BY DEF Transmit, TypeOK, Owed
<1>3. unit' \in Settings
  BY DEF Transmit, TypeOK
<1>4. rx' \in Seq(Message)
  <2>1. \A m \in replies : rx \o m \in Seq(Message)
    BY DEF TypeOK
  <2> QED BY <2>1 DEF Transmit, TypeOK
<1> QED BY <1>1, <1>2, <1>3, <1>4

(* A frame read leaves everything it writes well typed. *)
LEMMA ReadPacketTypes ==
  ASSUME TypeOK, ReadPacket
  PROVE  /\ rx' \in Seq(Message) /\ silent' \in BOOLEAN
         /\ backoff' \in BackoffMin .. BackoffMax
         /\ connected' \in BOOLEAN /\ firstRun' \in BOOLEAN
         /\ current' \in Settings /\ wanted' \in Settings
         /\ changed' \in BOOLEAN
<1>1. /\ rx' \in Seq(Message) /\ silent' \in BOOLEAN
      /\ backoff' \in BackoffMin .. BackoffMax
      /\ Head(rx) \in Message
  <2>1. Head(rx) \in Message /\ Tail(rx) \in Seq(Message)
    BY DEF TypeOK, ReadPacket, Heard
  <2>2. BackoffMin \in BackoffMin .. BackoffMax
    BY BackoffAssumption
  <2> QED BY <2>1, <2>2 DEF ReadPacket, Heard
<1>2. Head(rx).set \in Settings
  BY <1>1 DEF Message
<1>3. Adopted(Head(rx).set) \in Settings
  BY <1>2 DEF Adopted, TypeOK, Settings
<1>4. connected' \in BOOLEAN
  BY DEF TypeOK, ReadPacket
<1>5. CASE DecodeSettings(Head(rx).set)
  <2>1. changed' \in BOOLEAN
    BY <1>5 DEF TypeOK, DecodeSettings
  <2> QED BY <1>1, <1>2, <1>3, <1>4, <1>5, <2>1 DEF TypeOK, DecodeSettings
<1>6. CASE UNCHANGED <<current, changed, wanted, firstRun>>
  BY <1>1, <1>4, <1>6 DEF TypeOK
<1> QED BY <1>5, <1>6 DEF ReadPacket

(* A wait that ends with nothing spends at most a bound. *)
LEMMA NoAnswerTypes ==
  ASSUME TypeOK, NoAnswer
  PROVE  spent' \in Spent
<1>1. "late" \in DOMAIN spent
  BY DEF TypeOK, Spent
<1>2. CASE Disturb("late", MaxLate)
  BY <1>1, <1>2, SpendTypes DEF TypeOK
<1> QED BY <1>2 DEF NoAnswer, TypeOK

(* Recording a setting leaves what is wanted well typed. *)
LEMMA RecordTypes ==
  ASSUME TypeOK, NEW f \in Field, NEW v \in Value, Record(f, v)
  PROVE  /\ wanted' \in Settings /\ dirty' \in SUBSET Field
         /\ graceOver' \in BOOLEAN
         /\ intent' \in [Field -> Setting \cup {None}]
BY DEF TypeOK, Record, Settings, Setting

(* Doubling stays within the bounds of the backoff. *)
LEMMA DoubledTypes ==
  ASSUME NEW b \in BackoffMin .. BackoffMax
  PROVE  Doubled(b) \in BackoffMin .. BackoffMax
BY BackoffAssumption DEF Doubled

(* The value of a one-shot and of a poll index after their step. *)
LEMMA CycleTypes ==
  ASSUME TypeOK
  PROVE  0 \in 0 .. InfoModes - 1 /\ (infoMode + 1) % InfoModes \in 0 .. InfoModes - 1
BY FieldAssumption DEF TypeOK

(* Every step of the pump, of a setter, of the probe and of the line keeps *)
(* every variable in its type.                                             *)
LEMMA TypeStep ==
  ASSUME TypeOK, Next
  PROVE  TypeOK'
<1> USE DEF PC
<1>1. CASE PumpBegin
  BY <1>1 DEF PumpBegin, TypeOK
<1>2. CASE LinkLost
  BY <1>2 DEF LinkLost, DropLink, TypeOK
<1>3. CASE BackOff
  BY <1>3 DEF BackOff, TypeOK
<1>4. CASE SendConnect
  <2>1. {unit} \in SUBSET Settings /\ {<<Reply("conn")>>} \in SUBSET Seq(Message)
    BY ConstantTypes DEF TypeOK, Kind
  <2> QED BY <1>4, <2>1, TransmitTypes DEF SendConnect, TypeOK
<1>5. CASE ConnectRead
  BY <1>5, ReadPacketTypes DEF ConnectRead, TypeOK
<1>6. CASE ConnectTimeout
  BY <1>6, NoAnswerTypes, DoubledTypes DEF ConnectTimeout, TypeOK
<1>7. CASE Drain
  BY <1>7, ReadPacketTypes DEF Drain, TypeOK
<1>8. CASE Drained
  BY <1>8, NoAnswerTypes DEF Drained, TypeOK
<1>9. CASE Decide
  <2>1. PICK l \in Branches : Take(l)
    BY <1>9 DEF Decide
  <2>2. ShotComposed \in Settings /\ Default \in Settings
    BY ConstantTypes DEF ShotComposed, TypeOK, Settings, Probe
  <2>3. snap' \in Snapshot /\ pc' \in PC
    BY <2>1, <2>2 DEF Take, Branches, TypeOK, Snapshot
  <2> QED BY <2>1, <2>3 DEF Take, TypeOK
<1>10. CASE TooSoon
  BY <1>10 DEF TooSoon, TypeOK
<1>11. CASE ProbeSend
  <2>1. {<<Reply("ack")>>} \in SUBSET Seq(Message)
    BY ConstantTypes DEF Kind
  <2>2. Obey(snap.shot) \in SUBSET Settings
    BY ObeyTypes DEF TypeOK, Snapshot
  <2> QED BY <1>11, <2>1, <2>2, TransmitTypes DEF ProbeSend, TypeOK
<1>12. CASE ProbeRead
  <2>1. infoMode' \in 0 .. InfoModes - 1 /\ probe' \in Probe /\ pc' \in PC
    BY <1>12, CycleTypes DEF ProbeRead, ProbeSent, TypeOK, Probe
  <2> QED BY <1>12, <2>1, ReadPacketTypes DEF ProbeRead, TypeOK
<1>13. CASE ProbeTimeout
  <2>1. infoMode' \in 0 .. InfoModes - 1 /\ probe' \in Probe /\ pc' \in PC
    BY <1>13, CycleTypes DEF ProbeTimeout, ProbeSent, TypeOK, Probe
  <2> QED BY <1>13, <2>1, NoAnswerTypes DEF ProbeTimeout, TypeOK
<1>14. CASE FlushSend
  <2>1. {<<Reply("ack")>>} \in SUBSET Seq(Message)
    BY ConstantTypes DEF Kind
  <2>2. Obey(snap.wanted) \in SUBSET Settings
    BY ObeyTypes DEF TypeOK, Snapshot
  <2> QED BY <1>14, <2>1, <2>2, TransmitTypes DEF FlushSend, TypeOK
<1>15. CASE FlushRead
  <2>1. Tail(rx) \in Seq(Message) /\ BackoffMin \in BackoffMin .. BackoffMax
    BY <1>15, BackoffAssumption DEF FlushRead, Heard, TypeOK
  <2>2. current' \in Settings /\ changed' \in BOOLEAN
    BY <1>15 DEF FlushRead, Echo, TypeOK, Snapshot
  <2> QED BY <1>15, <2>1, <2>2, CycleTypes DEF FlushRead, Heard, TypeOK
<1>16. CASE FlushReadOther
  BY <1>16, ReadPacketTypes DEF FlushReadOther, TypeOK
<1>17. CASE FlushTimeout
  BY <1>17, NoAnswerTypes DEF FlushTimeout, TypeOK
<1>18. CASE RemoteSend
  <2>1. /\ {unit} \in SUBSET Settings
        /\ {<<>>, <<Reply("ack")>>} \in SUBSET Seq(Message)
    BY ConstantTypes DEF TypeOK, Kind
  <2> QED BY <1>18, <2>1, TransmitTypes DEF RemoteSend, TypeOK
<1>19. CASE PollSend
  <2>1. /\ {unit} \in SUBSET Settings
        /\ {<<SettingsReply>>} \in SUBSET Seq(Message)
        /\ {<<Reply("status")>>} \in SUBSET Seq(Message)
    <3>1. SettingsReply \in Message /\ Reply("status") \in Message
      BY ConstantTypes DEF TypeOK, Kind, SettingsReply, Message
    <3> QED BY <3>1 DEF TypeOK
  <2>2. sync' \in BOOLEAN /\ infoMode' \in 0 .. InfoModes - 1
    BY <1>19, CycleTypes DEF PollSend, TypeOK
  <2> QED BY <1>19, <2>1, <2>2, TransmitTypes DEF PollSend, TypeOK
<1>20. CASE PollLater
  BY <1>20 DEF PollLater, TypeOK
<1>21. CASE InfoRead
  BY <1>21, ReadPacketTypes DEF InfoRead, TypeOK
<1>22. CASE InfoTimeout
  BY <1>22, NoAnswerTypes DEF InfoTimeout, TypeOK
<1>23. CASE PublishAndFire
  BY <1>23, ConstantTypes DEF PublishAndFire, TypeOK, Seen
<1>24. CASE User
  <2>1. spent' \in Spent
    <3>1. Op
      BY <1>24 DEF User, Set, SetRemoteTemperature, RequestSync
    <3> QED BY <3>1 DEF TypeOK, Spent
  <2>2. ASSUME NEW f \in UserField, NEW v \in Value, Set(f, v) PROVE TypeOK'
    BY <2>1, <2>2, RecordTypes, FieldAssumption DEF Set, TypeOK
  <2>3. CASE SetRemoteTemperature
    BY <2>1, <2>3 DEF SetRemoteTemperature, TypeOK
  <2>4. CASE RequestSync
    BY <2>1, <2>4 DEF RequestSync, TypeOK
  <2> QED BY <1>24, <2>2, <2>3, <2>4 DEF User
<1>25. CASE Prober
  <2>1. ASSUME NEW v \in Value, BeginWideVaneProbe(v), Disturb("probes", MaxProbes)
        PROVE  TypeOK'
    <3>1. spent' \in Spent
      BY <2>1 DEF BeginWideVaneProbe, TypeOK, Spent
    <3>2. probe' \in Probe
      BY <2>1 DEF BeginWideVaneProbe, Probe, Setting
    <3> QED BY <2>1, <3>1, <3>2 DEF BeginWideVaneProbe, TypeOK
  <2>2. ASSUME NEW v \in Value, EndWideVaneProbeRestore(v) PROVE TypeOK'
    <3>1. probe' \in Probe
      BY <2>2 DEF EndWideVaneProbeRestore, ProbeOff, TypeOK, Probe
    <3> QED BY <2>2, <3>1, RecordTypes, FieldAssumption
            DEF EndWideVaneProbeRestore, TypeOK
  <2>3. CASE AbortWideVaneProbe
    <3>1. probe' \in Probe
      BY <2>3 DEF AbortWideVaneProbe, ProbeOff, TypeOK, Probe
    <3> QED BY <2>3, <3>1 DEF AbortWideVaneProbe, TypeOK
  <2> QED BY <1>25, <2>1, <2>2, <2>3 DEF Prober
<1>26. CASE Environment
  <2>1. ASSUME NEW f \in Field, NEW v \in Value, ExternalChange(f, v)
        PROVE  TypeOK'
    <3>1. spent' \in Spent
      BY <2>1 DEF ExternalChange, TypeOK, Spent
    <3>2. unit' \in Settings
      BY <2>1 DEF ExternalChange, TypeOK, Settings, Setting
    <3>3. intent' \in [Field -> Setting \cup {None}]
      BY <2>1 DEF ExternalChange, Owed, TypeOK
    <3> QED BY <2>1, <3>1, <3>2, <3>3 DEF ExternalChange, TypeOK
  <2>2. CASE UnitDown
    <3>1. spent' \in Spent
      BY <2>2 DEF UnitDown, TypeOK, Spent
    <3> QED BY <2>2, <3>1 DEF UnitDown, TypeOK
  <2>3. CASE UnitBack \/ Silence \/ GraceElapses
    BY <2>3 DEF UnitBack, Silence, GraceElapses, TypeOK
  <2> QED BY <1>26, <2>1, <2>2, <2>3 DEF Environment
<1> QED BY <1>1, <1>2, <1>3, <1>4, <1>5, <1>6, <1>7, <1>8, <1>9, <1>10, <1>11,
           <1>12, <1>13, <1>14, <1>15, <1>16, <1>17, <1>18, <1>19, <1>20,
           <1>21, <1>22, <1>23, <1>24, <1>25, <1>26
        DEF Next, Pump, Connecting, Probing, Flushing, Polling

(* connect() leaves every variable in its type. *)
LEMMA InitTypes == Init => TypeOK
<1> SUFFICES ASSUME Init PROVE TypeOK
  OBVIOUS
<1>1. unit \in Settings /\ pub \in Seen /\ told \in Seen
  BY ConstantTypes DEF Init, Seen
<1>2. infoMode \in 0 .. InfoModes - 1 /\ backoff \in BackoffMin .. BackoffMax
  BY FieldAssumption, BackoffAssumption DEF Init
<1>3. probe \in Probe /\ snap \in Snapshot /\ spent \in Spent
  BY ConstantTypes DEF Init, Snapshot, Spent
<1>4. intent \in [Field -> Setting \cup {None}] /\ rx \in Seq(Message)
  BY DEF Init
<1> QED BY <1>1, <1>2, <1>3, <1>4, ConstantTypes DEF Init, TypeOK, PC

(* Whatever the tasks, the line and the unit do, every variable keeps its  *)
(* type; in particular the reconnect interval stays between its two bounds *)
(* and the poll index stays inside the INFOMODE table it indexes.          *)
THEOREM TypeCorrect == Spec => []TypeOK
<1>1. TypeOK /\ UNCHANGED vars => TypeOK'
  BY DEF TypeOK, vars
<1> QED BY <1>1, InitTypes, TypeStep, PTL DEF Spec

-----------------------------------------------------------------------------
(* Strengthenings: each is inductive together with TypeOK                  *)

(* An attempt to connect is only made on a link that is down, so no failed *)
(* handshake doubles the backoff of a link that is up.                     *)
SnappyInv ==
  /\ pc \in {"down", "connWait"} => ~connected
  /\ ConnectedIsSnappy

(* settingsChanged_ is up from the moment current_ moves or the link drops *)
(* until the listeners are told.                                           *)
TellInv ==
  /\ ~changed => told.set = current
  /\ ~changed /\ ~connected => ~told.connected
  /\ pc = "idle" => /\ ~changed
                    /\ pub.set = current
                    /\ pub.connected => connected

(* Placeholders stay in wanted_ only until the first reply, and only in    *)
(* fields nobody has set, and in current_ only until the first settings;   *)
(* what is sent, and what a probe's SET is composed from, was copied later. *)
Real == [Field -> Value]
Line == {m \in Message : m.kind = "settings" => m.set \in Real}

SeedInv ==
  /\ unit \in Real
  /\ rx \in Seq(Line)
  /\ \A f \in dirty : wanted[f] \in Value
  /\ ~firstRun => wanted \in Real
  /\ current = Default \/ current \in Real
  /\ pub.set # Default => current \in Real
  /\ pc \in {"flushDrain", "flushSend", "flushAck"} => snap.wanted \in Real
  /\ probe.queued => probe.target \in Value /\ current \in Real
  /\ pc \in {"probeDrain", "probeSend", "probeAck"} => snap.shot \in Real

(* On an undisturbed line every reply in the buffer is the unit's state,   *)
(* the buffer is empty when a SET goes out, so the frame waited for is its *)
(* ACK, and the SET has made the unit what the snapshot was.               *)
Fresh == {m \in Message : m.kind = "settings" => m.set = unit}

EchoInv ==
  Undisturbed =>
    /\ unitUp /\ ~silent
    /\ ~probe.on /\ ~probe.queued
    /\ pc \notin {"probeDrain", "probeSend", "probeAck"}
    /\ rx \in Seq(Fresh)
    /\ pc \in {"flushDrain", "flushSend", "flushAck"} => ~firstRun
    /\ pc = "flushSend" => rx = <<>>
    /\ pc = "flushAck" => /\ rx = <<Reply("ack")>>
                          /\ unit = snap.wanted
    /\ pc # "flushAck" /\ ~firstRun => current = unit

-----------------------------------------------------------------------------
(* Facts about the operators the actions share                             *)

(* A frame read is one of the frames that were there. *)
LEMMA HeardTakes ==
  ASSUME NEW S, rx \in Seq(S), Heard
  PROVE  Head(rx) \in S /\ rx' \in Seq(S)
BY DEF Heard

(* A frame sent leaves the unit alone or moves it to a result, and adds to *)
(* the buffer nothing but one of the replies.                              *)
LEMMA TransmitAdds ==
  ASSUME NEW S, rx \in Seq(S), NEW results, NEW replies \in SUBSET Seq(S),
         Transmit(results, replies)
  PROVE  unit' \in results \cup {unit} /\ rx' \in Seq(S)
<1>1. \A m \in replies : rx \o m \in Seq(S)
  OBVIOUS
<1> QED BY <1>1 DEF Transmit

(* A frame that is no command leaves the unit alone. *)
LEMMA TransmitAsks ==
  ASSUME NEW S, rx \in Seq(S), NEW replies \in SUBSET Seq(S),
         Transmit({unit}, replies)
  PROVE  unit' = unit /\ rx' \in Seq(S)
<1>1. unit' = unit
  BY DEF Transmit
<1>2. rx' \in Seq(S)
  BY TransmitAdds
<1> QED BY <1>1, <1>2

(* Nothing the environment or another task does moves the pump. *)
LEMMA OthersLeavePump ==
  ASSUME User \/ Prober \/ Environment
  PROVE  UNCHANGED <<pc, connected, firstRun, current, changed, infoMode,
                     backoff, snap, pub, told>>
<1>1. CASE User
  BY <1>1 DEF User, Set, SetRemoteTemperature, RequestSync
<1>2. CASE Prober
  BY <1>2 DEF Prober, BeginWideVaneProbe, EndWideVaneProbeRestore,
              AbortWideVaneProbe
<1>3. CASE Environment
  BY <1>3 DEF Environment, ExternalChange, UnitDown, UnitBack, Silence,
              GraceElapses
<1> QED BY <1>1, <1>2, <1>3

-----------------------------------------------------------------------------
(* The reconnect backoff                                                   *)

(* The strengthened invariant of the backoff is kept by every step.        *)
LEMMA SnappyStep ==
  ASSUME SnappyInv, Next
  PROVE  SnappyInv'
<1> USE DEF SnappyInv, ConnectedIsSnappy
<1>1. CASE PumpBegin \/ LinkLost
  BY <1>1 DEF PumpBegin, LinkLost, DropLink
<1>2. CASE BackOff \/ SendConnect \/ ConnectTimeout
  BY <1>2 DEF BackOff, SendConnect, ConnectTimeout
<1>3. CASE ConnectRead
  BY <1>3 DEF ConnectRead, ReadPacket, Heard
<1>4. CASE Drain \/ FlushReadOther \/ InfoRead
  BY <1>4 DEF Drain, FlushReadOther, InfoRead, ReadPacket, Heard
<1>5. CASE ProbeRead
  BY <1>5 DEF ProbeRead, ProbeSent, ReadPacket, Heard
<1>6. CASE FlushRead
  BY <1>6 DEF FlushRead, Heard
<1>7. CASE Drained \/ Decide \/ TooSoon
  BY <1>7 DEF Drained, Decide, Branches, Take, TooSoon
<1>8. CASE ProbeSend \/ ProbeTimeout \/ FlushSend \/ FlushTimeout
  BY <1>8 DEF ProbeSend, ProbeTimeout, ProbeSent, FlushSend, FlushTimeout
<1>9. CASE RemoteSend \/ PollLater \/ InfoTimeout
  BY <1>9 DEF RemoteSend, PollLater, InfoTimeout
<1>10. CASE PollSend
  BY <1>10 DEF PollSend
<1>11. CASE PublishAndFire
  BY <1>11 DEF PublishAndFire
<1>12. CASE User \/ Prober \/ Environment
  BY <1>12, OthersLeavePump
<1> QED BY <1>1, <1>2, <1>3, <1>4, <1>5, <1>6, <1>7, <1>8, <1>9, <1>10, <1>11,
           <1>12
        DEF Next, Pump, Connecting, Probing, Flushing, Polling

(* Once a unit answers, a later drop is retried at the shortest interval:  *)
(* no order of failed handshakes and frames leaves a live link with a      *)
(* backoff that has grown.                                                 *)
THEOREM LiveLinkIsSnappy == Spec => []ConnectedIsSnappy
<1>1. Init => SnappyInv
  BY DEF Init, SnappyInv, ConnectedIsSnappy
<1>2. SnappyInv /\ UNCHANGED vars => SnappyInv'
  BY DEF SnappyInv, ConnectedIsSnappy, vars
<1>3. SnappyInv => ConnectedIsSnappy
  BY DEF SnappyInv
<1> QED BY <1>1, <1>2, <1>3, SnappyStep, PTL DEF Spec

-----------------------------------------------------------------------------
(* What the listeners believe                                              *)

(* The strengthened invariant of what the listeners hold is kept by every  *)
(* step.                                                                   *)
LEMMA TellStep ==
  ASSUME TellInv, Next
  PROVE  TellInv'
<1> USE DEF TellInv
<1>1. CASE PumpBegin
  BY <1>1 DEF PumpBegin
<1>2. CASE LinkLost
  BY <1>2 DEF LinkLost, DropLink
<1>3. CASE BackOff \/ SendConnect \/ ConnectTimeout
  BY <1>3 DEF BackOff, SendConnect, ConnectTimeout
<1>4. ASSUME ReadPacket, pc' # "idle", UNCHANGED seenVars
      PROVE  TellInv'
  <2>1. connected' = (connected \/ Head(rx).kind = "conn")
    BY <1>4 DEF ReadPacket
  <2>2. \/ UNCHANGED <<current, changed>>
        \/ changed' = (changed \/ current' # current)
    BY <1>4 DEF ReadPacket, DecodeSettings
  <2> QED BY <1>4, <2>1, <2>2
<1>5. CASE ConnectRead \/ Drain \/ FlushReadOther \/ InfoRead
  BY <1>4, <1>5 DEF ConnectRead, Drain, FlushReadOther, InfoRead
<1>6. CASE ProbeRead
  BY <1>4, <1>6 DEF ProbeRead, ProbeSent
<1>7. CASE FlushRead
  BY <1>7 DEF FlushRead, Echo
<1>8. CASE Drained \/ Decide \/ TooSoon
  BY <1>8 DEF Drained, Decide, Branches, Take, TooSoon
<1>9. CASE ProbeSend \/ ProbeTimeout \/ FlushSend \/ FlushTimeout
  BY <1>9 DEF ProbeSend, ProbeTimeout, ProbeSent, FlushSend, FlushTimeout
<1>10. CASE RemoteSend \/ PollSend \/ PollLater \/ InfoTimeout
  BY <1>10 DEF RemoteSend, PollSend, PollLater, InfoTimeout
<1>11. CASE PublishAndFire
  BY <1>11 DEF PublishAndFire
<1>12. CASE User \/ Prober \/ Environment
  BY <1>12, OthersLeavePump
<1> QED BY <1>1, <1>2, <1>3, <1>5, <1>6, <1>7, <1>8, <1>9, <1>10, <1>11, <1>12
        DEF Next, Pump, Connecting, Probing, Flushing, Polling

(* Between iterations of the pump the snapshot other tasks read and the    *)
(* last value given to the listeners are what the driver holds.            *)
THEOREM ListenersHoldCurrent == Spec => []ListenersCurrent
<1>1. Init => TellInv
  BY DEF Init, TellInv
<1>2. TellInv /\ UNCHANGED vars => TellInv'
  BY DEF TellInv, vars
<1>3. TellInv => ListenersCurrent
  BY DEF TellInv, ListenersCurrent
<1> QED BY <1>1, <1>2, <1>3, TellStep, PTL DEF Spec

(* And none of them still takes a lost link for a live one. *)
THEOREM ListenersSeeLoss == Spec => []NeverToldUpWhenDown
<1>1. Init => TellInv
  BY DEF Init, TellInv
<1>2. TellInv /\ UNCHANGED vars => TellInv'
  BY DEF TellInv, vars
<1>3. TellInv => NeverToldUpWhenDown
  BY DEF TellInv, NeverToldUpWhenDown
<1> QED BY <1>1, <1>2, <1>3, TellStep, PTL DEF Spec

-----------------------------------------------------------------------------
(* The user's intent                                                       *)

(* Whatever the unit does, what it still owes is what it owed or nothing.  *)
LEMMA OwedIsOld ==
  ASSUME NEW u, NEW f \in Field
  PROVE  Owed(u)[f] \in {intent[f], None}
BY DEF Owed

(* A command in flight does not make the unit owe anything new. *)
LEMMA TransmitOwes ==
  ASSUME NEW results, NEW replies, Transmit(results, replies), NEW f \in Field
  PROVE  intent'[f] = intent[f] \/ intent'[f] = None
BY OwedIsOld DEF Transmit

(* No step breaks the tie between a raised dirty flag and the intent.      *)
LEMMA IntentStep ==
  ASSUME TypeOK, IntentKept, Next
  PROVE  IntentKept'
<1> USE DEF IntentKept
<1>1. ASSUME UNCHANGED <<wanted, dirty>>,
             \A f \in Field : intent'[f] = intent[f] \/ intent'[f] = None
      PROVE  IntentKept'
  BY <1>1 DEF TypeOK
<1>2. CASE UNCHANGED <<wanted, dirty, intent>>
  BY <1>2
<1>3. CASE PumpBegin \/ LinkLost \/ BackOff \/ ConnectTimeout
  BY <1>2, <1>3 DEF PumpBegin, LinkLost, BackOff, ConnectTimeout
<1>4. ASSUME ReadPacket, UNCHANGED <<dirty, intent>>
      PROVE  IntentKept'
  <2>1. \A f \in dirty : wanted'[f] = wanted[f]
    BY <1>4 DEF ReadPacket, DecodeSettings, Adopted, TypeOK
  <2> QED BY <1>4, <2>1
<1>5. CASE ConnectRead \/ Drain \/ FlushReadOther \/ InfoRead
  BY <1>4, <1>5 DEF ConnectRead, Drain, FlushReadOther, InfoRead
<1>6. CASE ProbeRead
  BY <1>4, <1>6 DEF ProbeRead
<1>7. CASE SendConnect
  BY <1>1, <1>7, TransmitOwes DEF SendConnect
<1>8. CASE ProbeSend
  BY <1>1, <1>8, TransmitOwes DEF ProbeSend
<1>9. CASE FlushSend
  BY <1>1, <1>9, TransmitOwes DEF FlushSend
<1>10. CASE FlushRead
  BY <1>10 DEF FlushRead
<1>11. CASE RemoteSend
  BY <1>1, <1>11, TransmitOwes DEF RemoteSend
<1>12. CASE PollSend
  BY <1>1, <1>12, TransmitOwes DEF PollSend
<1>13. CASE Drained \/ Decide \/ TooSoon
  BY <1>2, <1>13 DEF Drained, Decide, Take, TooSoon
<1>14. CASE ProbeTimeout \/ FlushTimeout \/ PollLater \/ InfoTimeout
  BY <1>2, <1>14 DEF ProbeTimeout, FlushTimeout, PollLater, InfoTimeout
<1>15. CASE PublishAndFire
  BY <1>2, <1>15 DEF PublishAndFire
<1>16. ASSUME NEW g \in Field, NEW v \in Value, Record(g, v)
       PROVE  IntentKept'
  <2> TAKE f \in dirty'
  <2>1. CASE f = g
    BY <1>16, <2>1 DEF Record, TypeOK, Settings
  <2>2. CASE f # g
    BY <1>16, <2>2 DEF Record, TypeOK, Settings
  <2> QED BY <2>1, <2>2
<1>17. CASE User
  BY <1>2, <1>16, <1>17, FieldAssumption
  DEF User, Set, SetRemoteTemperature, RequestSync
<1>18. CASE Prober
  BY <1>2, <1>16, <1>18, FieldAssumption
  DEF Prober, BeginWideVaneProbe, EndWideVaneProbeRestore, AbortWideVaneProbe
<1>19. CASE Environment
  <2>1. ASSUME NEW g \in Field, NEW v \in Value, ExternalChange(g, v)
        PROVE  IntentKept'
    BY <1>1, <2>1, OwedIsOld DEF ExternalChange
  <2>2. CASE UnitDown \/ UnitBack \/ Silence \/ GraceElapses
    BY <1>2, <2>2 DEF UnitDown, UnitBack, Silence, GraceElapses
  <2> QED BY <1>19, <2>1, <2>2 DEF Environment
<1> QED BY <1>3, <1>5, <1>6, <1>7, <1>8, <1>9, <1>10, <1>11, <1>12, <1>13,
           <1>14, <1>15, <1>17, <1>18, <1>19
        DEF Next, Pump, Connecting, Probing, Flushing, Polling

(* No reply adopted while a setting waits with its dirty flag up, on the   *)
(* first read of a session or after the grace period, takes it away.       *)
THEOREM UndeliveredIntentKept == Spec => []IntentKept
<1>1. Init => IntentKept
  BY DEF Init, IntentKept
<1>2. IntentKept /\ UNCHANGED vars => IntentKept'
  BY DEF IntentKept, vars
<1> QED BY <1>1, <1>2, IntentStep, TypeCorrect, PTL DEF Spec

-----------------------------------------------------------------------------
(* The placeholders                                                        *)

(* A unit with real settings keeps them when what it is sent is real in    *)
(* the fields the SET carries.                                             *)
LEMMA ObeyReal ==
  ASSUME unit \in Real, NEW w, \A f \in Carried(w) : w[f] \in Value
  PROVE  Obey(w) \subseteq Real
BY FieldAssumption DEF Obey, Real

(* The answers of a unit with real settings are real. *)
LEMMA RealReplies ==
  ASSUME unit \in Real
  PROVE  /\ \A k \in Kind \ {"settings"} : Reply(k) \in Line
         /\ SettingsReply \in Line
<1>1. unit \in Settings
  BY ConstantTypes DEF Real
<1> QED BY <1>1, ConstantTypes DEF Reply, SettingsReply, Line, Message, Kind

(* The strengthened invariant that fences in the placeholders is kept by   *)
(* every step.                                                             *)
LEMMA SeedStep ==
  ASSUME TypeOK, SeedInv, Next
  PROVE  SeedInv'
<1> USE DEF SeedInv
<1>1. ASSUME ReadPacket,
             UNCHANGED <<dirty, unit, snap, pub>>,
             pc' \in {"flushDrain", "flushSend", "flushAck"} => pc' = pc,
             pc' \in {"probeDrain", "probeSend", "probeAck"} => pc' = pc,
             probe'.queued => probe' = probe
      PROVE  SeedInv'
  <2>1. Head(rx) \in Line /\ rx' \in Seq(Line)
    BY <1>1, HeardTakes DEF ReadPacket
  <2>2. CASE UNCHANGED <<wanted, firstRun, current>>
    BY <1>1, <2>1, <2>2
  <2>3. CASE /\ Head(rx).kind = "settings"
             /\ DecodeSettings(Head(rx).set)
    <3>1. Head(rx).set \in Real
      BY <2>1, <2>3 DEF Line
    <3>2. Adopted(Head(rx).set) \in Real
      BY <3>1 DEF Adopted, Real
    <3>3. wanted' \in Real
      BY <2>3, <3>2 DEF DecodeSettings
    <3>4. \A f \in dirty : wanted'[f] \in Value
      BY <3>3 DEF Real, TypeOK
    <3>5. current' \in Real
      BY <2>3, <3>1 DEF DecodeSettings
    <3> QED BY <1>1, <2>1, <3>3, <3>4, <3>5
  <2> QED BY <1>1, <2>2, <2>3 DEF ReadPacket
<1>2. CASE PumpBegin \/ LinkLost \/ BackOff \/ ConnectTimeout
  BY <1>2 DEF PumpBegin, LinkLost, DropLink, BackOff, ConnectTimeout
<1>3. CASE SendConnect
  <2>1. {<<Reply("conn")>>} \in SUBSET Seq(Line)
    BY RealReplies DEF Kind
  <2>2. unit' = unit /\ rx' \in Seq(Line)
    BY <1>3, <2>1, TransmitAsks DEF SendConnect
  <2> QED BY <1>3, <2>2 DEF SendConnect
<1>4. CASE ConnectRead
  BY <1>1, <1>4 DEF ConnectRead
<1>5. CASE Drain
  BY <1>1, <1>5 DEF Drain
<1>6. CASE Drained \/ TooSoon
  BY <1>6 DEF Drained, TooSoon
<1>7. CASE Decide
  <2>1. PICK l \in Branches : Take(l)
    BY <1>7 DEF Decide
  <2>2. probe.queued => ShotComposed \in Real
    BY DEF ShotComposed, Real
  <2> QED BY <2>1, <2>2 DEF Take, Branches, MustFlush
<1>8. CASE ProbeSend
  <2>1. Obey(snap.shot) \subseteq Real
    BY <1>8, ObeyReal DEF ProbeSend, Carried, Real
  <2>2. {<<Reply("ack")>>} \in SUBSET Seq(Line)
    BY RealReplies DEF Kind
  <2>3. unit' \in Real /\ rx' \in Seq(Line)
    BY <1>8, <2>1, <2>2, TransmitAdds DEF ProbeSend
  <2> QED BY <1>8, <2>3 DEF ProbeSend
<1>9. CASE ProbeRead
  BY <1>1, <1>9 DEF ProbeRead, ProbeSent, TypeOK, Probe
<1>10. CASE ProbeTimeout
  BY <1>10 DEF ProbeTimeout, ProbeSent, TypeOK, Probe
<1>11. CASE FlushSend
  <2>1. Obey(snap.wanted) \subseteq Real
    BY <1>11, ObeyReal DEF FlushSend, Carried, Real
  <2>2. {<<Reply("ack")>>} \in SUBSET Seq(Line)
    BY RealReplies DEF Kind
  <2>3. unit' \in Real /\ rx' \in Seq(Line)
    BY <1>11, <2>1, <2>2, TransmitAdds DEF FlushSend
  <2> QED BY <1>11, <2>3 DEF FlushSend
<1>12. CASE FlushRead
  <2>1. rx' \in Seq(Line)
    BY <1>12, HeardTakes DEF FlushRead
  <2>2. current' \in Real
    BY <1>12 DEF FlushRead, Echo
  <2> QED BY <1>12, <2>1, <2>2 DEF FlushRead
<1>13. CASE FlushReadOther
  BY <1>1, <1>13 DEF FlushReadOther
<1>14. CASE FlushTimeout \/ PollLater \/ InfoTimeout
  BY <1>14 DEF FlushTimeout, PollLater, InfoTimeout
<1>15. CASE RemoteSend
  <2>1. {<<>>, <<Reply("ack")>>} \in SUBSET Seq(Line)
    BY RealReplies DEF Kind
  <2>2. unit' = unit /\ rx' \in Seq(Line)
    BY <1>15, <2>1, TransmitAsks DEF RemoteSend
  <2> QED BY <1>15, <2>2 DEF RemoteSend
<1>16. CASE PollSend
  <2>1. /\ {<<SettingsReply>>} \in SUBSET Seq(Line)
        /\ {<<Reply("status")>>} \in SUBSET Seq(Line)
    <3>1. SettingsReply \in Line /\ Reply("status") \in Line
      BY RealReplies DEF Kind
    <3> QED BY <3>1
  <2>2. unit' = unit /\ rx' \in Seq(Line)
    BY <1>16, <2>1, TransmitAsks DEF PollSend
  <2> QED BY <1>16, <2>2 DEF PollSend
<1>17. CASE InfoRead
  BY <1>1, <1>17 DEF InfoRead
<1>18. CASE PublishAndFire
  BY <1>18 DEF PublishAndFire
<1>19. ASSUME NEW g \in Field, NEW v \in Value, Record(g, v),
              UNCHANGED <<pumpVars, pub, unit, rx>>,
              probe'.queued => probe' = probe
       PROVE  SeedInv'
  <2>1. \A f \in dirty' : wanted'[f] \in Value
    BY <1>19 DEF Record, TypeOK, Settings
  <2>2. ~firstRun => wanted' \in Real
    BY <1>19 DEF Record, Real
  <2> QED BY <1>19, <2>1, <2>2
<1>20. CASE User
  <2>1. ASSUME NEW f \in UserField, NEW v \in Value, Set(f, v)
        PROVE  SeedInv'
    BY <1>19, <2>1, FieldAssumption DEF Set
  <2>2. CASE SetRemoteTemperature \/ RequestSync
    BY <2>2 DEF SetRemoteTemperature, RequestSync
  <2> QED BY <1>20, <2>1, <2>2 DEF User
<1>21. CASE Prober
  <2>1. ASSUME NEW v \in Value, BeginWideVaneProbe(v), pub.set # Default
        PROVE  SeedInv'
    BY <2>1 DEF BeginWideVaneProbe
  <2>2. ASSUME NEW v \in Value, EndWideVaneProbeRestore(v) PROVE SeedInv'
    <3>1. ~probe'.queued
      BY <2>2 DEF EndWideVaneProbeRestore, ProbeOff, TypeOK, Probe
    <3> QED BY <1>19, <2>2, <3>1, FieldAssumption
            DEF EndWideVaneProbeRestore
  <2>3. CASE AbortWideVaneProbe
    <3>1. ~probe'.queued
      BY <2>3 DEF AbortWideVaneProbe, ProbeOff, TypeOK, Probe
    <3> QED BY <2>3, <3>1 DEF AbortWideVaneProbe
  <2> QED BY <1>21, <2>1, <2>2, <2>3 DEF Prober
<1>22. CASE Environment
  <2>1. ASSUME NEW f \in Field, NEW v \in Value, ExternalChange(f, v)
        PROVE  SeedInv'
    <3>1. unit' \in Real
      BY <2>1 DEF ExternalChange, Real
    <3> QED BY <2>1, <3>1 DEF ExternalChange
  <2>2. CASE UnitDown \/ UnitBack \/ Silence \/ GraceElapses
    BY <2>2 DEF UnitDown, UnitBack, Silence, GraceElapses
  <2> QED BY <1>22, <2>1, <2>2 DEF Environment
<1> QED BY <1>2, <1>3, <1>4, <1>5, <1>6, <1>7, <1>8, <1>9, <1>10, <1>11,
           <1>12, <1>13, <1>14, <1>15, <1>16, <1>17, <1>18, <1>20, <1>21, <1>22
        DEF Next, Pump, Connecting, Probing, Flushing, Polling

(* The placeholders that connect() writes into wanted_ never reach the     *)
(* unit, whatever is set, adopted, probed or lost before the first reply,  *)
(* when probes begin only once settings of the unit have been published.   *)
THEOREM PlaceholdersStayHome == Spec => []PlaceholderNeverSent
<1>1. Init => SeedInv
  BY FieldAssumption DEF Init, SeedInv, Real, NoSnapshot
<1>2. SeedInv /\ UNCHANGED vars => SeedInv'
  BY DEF SeedInv, vars
<1>3. SeedInv => PlaceholderNeverSent
  BY FieldAssumption DEF SeedInv, PlaceholderNeverSent, Real
<1> QED BY <1>1, <1>2, <1>3, SeedStep, TypeCorrect, PTL DEF Spec

-----------------------------------------------------------------------------
(* The optimistic echo                                                     *)

Faults == {"probes", "external", "lost", "late", "outages"}

(* A disturbance leaves its trace. *)
LEMMA DisturbShows ==
  ASSUME TypeOK, NEW what \in Faults, NEW most, Disturb(what, most)
  PROVE  ~Undisturbed'
BY DEF TypeOK, Spent, Faults, Undisturbed

(* What has not been disturbed yet was not disturbed before. *)
LEMMA QuietBefore ==
  ASSUME TypeOK, Next, Undisturbed'
  PROVE  Undisturbed
<1>1. UNCHANGED spent => Undisturbed
  BY DEF Undisturbed
<1>2. Op => Undisturbed
  BY DEF Undisturbed, TypeOK, Spent
<1>3. ASSUME NEW what \in Faults, NEW most, Disturb(what, most) PROVE FALSE
  BY <1>3, DisturbShows
<1>4. CASE PumpBegin \/ LinkLost \/ BackOff \/ ConnectRead \/ Drain \/ Decide
  BY <1>1, <1>4 DEF PumpBegin, LinkLost, BackOff, ConnectRead, Drain, Decide, Take
<1>5. CASE TooSoon \/ ProbeRead \/ FlushRead \/ FlushReadOther \/ PollLater
  BY <1>1, <1>5 DEF TooSoon, ProbeRead, FlushRead, FlushReadOther, PollLater
<1>6. CASE InfoRead \/ PublishAndFire
  BY <1>1, <1>6 DEF InfoRead, PublishAndFire
<1>7. ASSUME NEW r, NEW m, Transmit(r, m) PROVE Undisturbed
  BY <1>1, <1>3, <1>7 DEF Transmit, Faults
<1>8. CASE SendConnect \/ ProbeSend \/ FlushSend \/ RemoteSend
  BY <1>7, <1>8 DEF SendConnect, ProbeSend, FlushSend, RemoteSend
<1>9. CASE PollSend
  BY <1>7, <1>9 DEF PollSend
<1>10. ASSUME NoAnswer PROVE Undisturbed
  BY <1>1, <1>3, <1>10 DEF NoAnswer, Faults
<1>11. CASE ConnectTimeout \/ Drained \/ ProbeTimeout \/ FlushTimeout \/ InfoTimeout
  BY <1>10, <1>11
  DEF ConnectTimeout, Drained, ProbeTimeout, FlushTimeout, InfoTimeout
<1>12. CASE User
  BY <1>2, <1>12 DEF User, Set, SetRemoteTemperature, RequestSync
<1>13. CASE Prober
  BY <1>1, <1>3, <1>13 DEF Prober, BeginWideVaneProbe,
     EndWideVaneProbeRestore, AbortWideVaneProbe, Faults
<1>14. CASE Environment
  BY <1>1, <1>3, <1>14 DEF Environment, ExternalChange, UnitDown, UnitBack,
     Silence, GraceElapses, Faults
<1> QED BY <1>4, <1>5, <1>6, <1>8, <1>9, <1>11, <1>12, <1>13, <1>14
        DEF Next, Pump, Connecting, Probing, Flushing, Polling

(* With no fault a frame reaches the unit and is answered. *)
LEMMA QuietTransmit ==
  ASSUME TypeOK, unitUp, Undisturbed', NEW r, NEW m, Transmit(r, m)
  PROVE  unit' \in r /\ \E a \in m : rx' = rx \o a
<1>1. ~Disturb("lost", MaxLost)
  BY DisturbShows DEF Faults
<1> QED BY <1>1 DEF Transmit

(* With no fault a wait ends only when nothing is there. *)
LEMMA QuietWait ==
  ASSUME TypeOK, Undisturbed', NoAnswer
  PROVE  rx = <<>>
<1>1. ~Disturb("late", MaxLate)
  BY DisturbShows DEF Faults
<1> QED BY <1>1 DEF NoAnswer

(* When current_ is the unit's state, a SET composed against it makes a    *)
(* unit with a motorised vane exactly what was wanted.                     *)
LEMMA SetMakesWanted ==
  ASSUME Powered, TypeOK, current = unit, NEW w \in Settings
  PROVE  Obey(w) = {w}
<1>1. [f \in Field |-> IF f \in Carried(w) THEN w[f] ELSE unit[f]] = w
  BY DEF Carried, TypeOK, Settings
<1> QED BY <1>1 DEF Obey

(* The strengthened invariant of an undisturbed line is kept by every step. *)
LEMMA EchoStep ==
  ASSUME Powered, TypeOK, EchoInv, Next
  PROVE  EchoInv'
<1> SUFFICES ASSUME Undisturbed' PROVE EchoInv'
  BY DEF EchoInv
<1>1. Undisturbed
  BY QuietBefore
<1>2. /\ unitUp /\ ~silent /\ ~probe.on /\ ~probe.queued
      /\ pc \notin {"probeDrain", "probeSend", "probeAck"}
      /\ rx \in Seq(Fresh)
      /\ pc \in {"flushDrain", "flushSend", "flushAck"} => ~firstRun
      /\ pc = "flushSend" => rx = <<>>
      /\ pc = "flushAck" => rx = <<Reply("ack")>> /\ unit = snap.wanted
      /\ pc # "flushAck" /\ ~firstRun => current = unit
  BY <1>1 DEF EchoInv
<1>3. ASSUME NEW what \in Faults, NEW most, Disturb(what, most) PROVE FALSE
  BY <1>3, DisturbShows
<1>4. unit' = unit => Fresh' = Fresh
  BY DEF Fresh
<1>5. ASSUME UNCHANGED <<current, firstRun, unitUp, silent, unit, rx>>,
             ~probe'.on /\ ~probe'.queued, pc # "flushAck",
             pc' \notin {"probeDrain", "probeSend", "probeAck", "flushDrain",
                        "flushSend", "flushAck"}
      PROVE  EchoInv'
  BY <1>2, <1>4, <1>5 DEF EchoInv
<1>6. CASE PumpBegin \/ BackOff \/ TooSoon \/ PollLater
  BY <1>2, <1>5, <1>6 DEF PumpBegin, BackOff, TooSoon, PollLater
<1>7. CASE LinkLost
  BY <1>2, <1>7 DEF LinkLost
<1>8. CASE ConnectTimeout \/ InfoTimeout \/ PublishAndFire
  BY <1>2, <1>5, <1>8 DEF ConnectTimeout, InfoTimeout, PublishAndFire
<1>9. CASE Decide
  BY <1>2, <1>4, <1>9 DEF Decide, Branches, Take, MustFlush, EchoInv
<1>10. CASE Drained
  <2>1. rx = <<>>
    BY <1>10, QuietWait DEF Drained
  <2> QED BY <1>2, <1>4, <1>10, <2>1 DEF Drained, EchoInv
<1>11. ASSUME ReadPacket, pc \notin {"flushSend", "flushAck"},
              UNCHANGED <<probe, unit, unitUp>>,
              pc' # "flushSend" /\ pc' # "flushAck",
              pc' = pc \/ pc' = "publish"
       PROVE  EchoInv'
  <2>1. Head(rx) \in Fresh /\ rx' \in Seq(Fresh) /\ silent' = FALSE
    BY <1>2, <1>11, HeardTakes DEF ReadPacket, Heard
  <2>2. CASE UNCHANGED <<current, firstRun>>
    BY <1>2, <1>4, <1>11, <2>1, <2>2 DEF EchoInv
  <2>3. CASE /\ Head(rx).kind = "settings"
             /\ DecodeSettings(Head(rx).set)
    <3>1. current' = unit /\ firstRun' = FALSE
      BY <2>1, <2>3 DEF Fresh, DecodeSettings
    <3> QED BY <1>2, <1>4, <1>11, <2>1, <3>1 DEF EchoInv
  <2> QED BY <1>11, <2>2, <2>3 DEF ReadPacket
<1>12. CASE ConnectRead \/ Drain \/ InfoRead
  BY <1>2, <1>11, <1>12 DEF ConnectRead, Drain, InfoRead
<1>13. CASE ProbeSend \/ ProbeRead \/ ProbeTimeout
  BY <1>2, <1>13 DEF ProbeSend, ProbeRead, ProbeTimeout
<1>14. CASE FlushSend
  <2>1. Obey(snap.wanted) = {snap.wanted}
    BY <1>2, <1>14, SetMakesWanted DEF FlushSend, TypeOK, Snapshot
  <2>2. unit' = snap.wanted /\ rx' = <<>> \o <<Reply("ack")>>
    BY <1>2, <1>14, <2>1, QuietTransmit DEF FlushSend
  <2>3. rx' = <<Reply("ack")>> /\ rx' \in Seq(Fresh')
    <3>1. Reply("ack") \in Fresh'
      BY ConstantTypes DEF Fresh, Reply, Kind
    <3> QED BY <2>2, <3>1
  <2> QED BY <1>2, <1>14, <2>2, <2>3 DEF FlushSend, EchoInv
<1>15. CASE FlushRead
  <2>1. current' = unit /\ rx' = <<>>
    BY <1>2, <1>15 DEF FlushRead, Echo, Heard
  <2> QED BY <1>2, <1>4, <1>15, <2>1 DEF FlushRead, Heard, EchoInv
<1>16. CASE FlushReadOther
  <2>1. Head(rx).kind = "ack"
    BY <1>2, <1>16 DEF FlushReadOther, Reply
  <2> QED BY <1>16, <2>1 DEF FlushReadOther
<1>17. CASE FlushTimeout
  <2>1. rx = <<>>
    BY <1>17, QuietWait DEF FlushTimeout
  <2> QED BY <1>2, <1>17, <2>1 DEF FlushTimeout
<1>18. ASSUME NEW replies \in SUBSET Seq(Fresh), Transmit({unit}, replies),
              UNCHANGED <<current, firstRun, unitUp, silent, probe>>,
              pc # "flushAck", pc' \in {"connWait", "infoWait", "publish"}
       PROVE  EchoInv'
  <2>1. unit' = unit /\ rx' \in Seq(Fresh)
    BY <1>2, <1>18, TransmitAsks
  <2> QED BY <1>2, <1>4, <1>18, <2>1 DEF EchoInv
<1>19. /\ \A k \in Kind \ {"settings"} : Reply(k) \in Fresh
       /\ SettingsReply \in Fresh
  BY ConstantTypes DEF Fresh, Reply, SettingsReply, Message, Kind, TypeOK
<1>20. CASE SendConnect
  <2>1. {<<Reply("conn")>>} \in SUBSET Seq(Fresh)
    BY <1>19 DEF Kind
  <2> QED BY <1>18, <1>20, <2>1 DEF SendConnect
<1>21. CASE RemoteSend
  <2>1. {<<>>, <<Reply("ack")>>} \in SUBSET Seq(Fresh)
    BY <1>19 DEF Kind
  <2> QED BY <1>18, <1>21, <2>1 DEF RemoteSend
<1>22. CASE PollSend
  <2>1. SettingsReply \in Fresh /\ Reply("status") \in Fresh
    BY <1>19 DEF Kind
  <2>2. /\ {<<SettingsReply>>} \in SUBSET Seq(Fresh)
        /\ {<<Reply("status")>>} \in SUBSET Seq(Fresh)
    BY <2>1
  <2> QED BY <1>18, <1>22, <2>2 DEF PollSend
<1>23. CASE User
  <2>1. UNCHANGED <<pumpVars, probe, unit, unitUp, rx, silent>>
    BY <1>23 DEF User, Set, SetRemoteTemperature, RequestSync
  <2> QED BY <1>2, <1>4, <2>1 DEF EchoInv
<1>24. CASE Prober
  BY <1>2, <1>3, <1>24 DEF Prober, BeginWideVaneProbe,
     EndWideVaneProbeRestore, AbortWideVaneProbe, Faults
<1>25. CASE Environment
  <2>1. CASE GraceElapses
    BY <1>2, <1>4, <2>1 DEF GraceElapses, EchoInv
  <2>2. CASE UnitBack \/ Silence
    BY <1>2, <2>2 DEF UnitBack, Silence
  <2> QED BY <1>3, <1>25, <2>1, <2>2
          DEF Environment, ExternalChange, UnitDown, Faults
<1> QED BY <1>6, <1>7, <1>8, <1>9, <1>10, <1>12, <1>13, <1>14, <1>15, <1>16,
           <1>17, <1>20, <1>21, <1>22, <1>23, <1>24, <1>25
        DEF Next, Pump, Connecting, Probing, Flushing, Polling

(* On an undisturbed line to a unit with a motorised vane, what the driver *)
(* shows between iterations once it has read the unit is what the unit     *)
(* has, however setters interleave with the snapshot, the SET and the ACK. *)
THEOREM EchoIsTrue == ASSUME Powered PROVE Spec => []EchoTruthful
<1>1. Init => EchoInv
  BY DEF Init, EchoInv, NoSnapshot
<1>2. EchoInv /\ UNCHANGED vars => EchoInv'
  BY DEF EchoInv, Undisturbed, Fresh, vars
<1>3. EchoInv => EchoTruthful
  BY DEF EchoInv, EchoTruthful
<1>4. EchoInv /\ TypeOK /\ [Next]_vars => EchoInv'
  BY <1>2, EchoStep
<1> QED BY <1>1, <1>3, <1>4, TypeCorrect, PTL DEF Spec
=============================================================================
