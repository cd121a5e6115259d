---------------------------- MODULE WideVaneProofs ----------------------------
(***************************************************************************)
(* Wide-vane detection: proofs for every number of samples, commands and   *)
(* faults, over the driver with all its fields and settings.               *)
(***************************************************************************)
EXTENDS WideVaneCapability, Cn105DriverProofs

(* run_probe's locals, as far as the loops bound them. *)
RunInv ==
  /\ phase # "idle" => run.target \in {Right, Left}
  /\ phase = "accept" => run.age <= AcceptSamples
  /\ phase = "acceptLook" => run.age < AcceptSamples
  /\ phase = "hold" => run.age <= HoldSamples
  /\ phase = "holdLook" => run.age < HoldSamples
  /\ phase \in {"begin", "accept", "acceptLook"} => run.off = 0 /\ run.age <= AcceptSamples
  /\ phase \in {"begin", "hold", "holdLook"} => run.off < RevertConfirm

(* In the hold of a louver without a motor every sample after it has fallen  *)
(* back, and a poll has told so, is one off the target.                      *)
Fallen == RevertSamples + PollLag

HoldInv ==
  ~motor /\ phase \in {"hold", "holdLook"} =>
    /\ run.age <= Fallen + run.off
    /\ phase = "holdLook" /\ run.age >= Fallen =>
         pub.set[WV] = Detent /\ (pc = "publish" => current[WV] = Detent)

VerdictInv ==
  /\ detect = "Supported" => motor
  /\ run.verdict = "Supported" => motor

ProbeInv == TypeOK /\ CapTypeOK /\ RunInv /\ HoldInv /\ VerdictInv /\ EnforcementResumes

-------------------------------------------------------------------------------
(* The driver's part                                                       *)

(* A sample's two reads of the snapshot meet no other step of the pump. *)
LEMMA PublishOnly ==
  ASSUME Pump, pc = "publish"
  PROVE  PublishAndFire
BY DEF Pump, PumpBegin, LinkLost, Connecting, BackOff, SendConnect, ConnectRead, ConnectTimeout,
   Drain, Drained, Decide, Take, TooSoon, Probing, ProbeSend, ProbeRead, ProbeTimeout, Flushing,
   FlushSend, FlushRead, FlushReadOther, FlushTimeout, Polling, RemoteSend, PollSend, PollLater,
   InfoRead, InfoTimeout

(* The pump never starts or ends a probe. *)
LEMMA PumpLeavesProbe ==
  ASSUME TypeOK, Pump
  PROVE  probe'.on = probe.on
<1> USE DEF TypeOK, Probe
<1>1. CASE PumpBegin \/ LinkLost \/ Connecting
  BY <1>1 DEF PumpBegin, LinkLost, Connecting, BackOff, SendConnect, ConnectRead,
     ConnectTimeout, wantVars, unreadVars
<1>2. CASE Drain \/ Drained \/ Decide \/ TooSoon \/ PublishAndFire
  BY <1>2 DEF Drain, Drained, Decide, Take, TooSoon, PublishAndFire, wantVars, unreadVars
<1>3. CASE Probing
  BY <1>3 DEF Probing, ProbeSend, ProbeRead, ProbeTimeout, ProbeSent, wantVars
<1>4. CASE Flushing
  BY <1>4 DEF Flushing, FlushSend, FlushRead, FlushReadOther, FlushTimeout, wantVars, unreadVars
<1>5. CASE Polling
  BY <1>5 DEF Polling, RemoteSend, PollSend, PollLater, InfoRead, InfoTimeout, wantVars,
     unreadVars
<1> QED BY <1>1, <1>2, <1>3, <1>4, <1>5 DEF Pump

(* A setter, whichever field it sets. *)
LEMMA SetKeeps ==
  ASSUME TypeOK, NEW f \in Field, NEW v \in Value, Set(f, v)
  PROVE  TypeOK' /\ UNCHANGED <<pc, current, pub, probe>>
<1>1. spent' \in Spent
  BY SpendTypes DEF Set, Op, TypeOK, Spent
<1> QED
  BY <1>1, RecordTypes DEF Set, TypeOK, pumpVars, seenVars, lineVars

(* What leaves the task and the snapshot alone leaves its conclusions. *)
LEMMA SameRun ==
  ASSUME CapTypeOK, RunInv, HoldInv, VerdictInv, EnforcementResumes,
         UNCHANGED <<motor, taskVars, pc, current, pub>>, probe'.on = probe.on
  PROVE  RunInv' /\ HoldInv' /\ VerdictInv' /\ EnforcementResumes'
BY DEF taskVars, RunInv, HoldInv, VerdictInv, EnforcementResumes

(* What a run's fields may be, and what a change of some of them leaves.     *)
LEMMA RunFields ==
  /\ NoRun \in Run /\ NoRun.age = 0 /\ NoRun.off = 0 /\ NoRun.verdict = "Unknown"
  /\ \A r \in Run : /\ r.age \in Nat /\ r.off \in 0 .. RevertConfirm
                      /\ r.target \in Setting /\ r.pre \in Setting /\ r.verdict \in Verdict
<1>1. 0 \in 0 .. AcceptSamples + HoldSamples /\ 0 \in 0 .. RevertConfirm
  BY TimingAssumption
<1> QED BY <1>1, TimingAssumption DEF NoRun, Run, Setting, Verdict

(* The locals a probe begins with are locals.                              *)
LEMMA RunStarts ==
  ASSUME NEW p \in Setting, NEW t \in {Right, Left}, NEW n \in Nat, NEW v \in Verdict
  PROVE  [pre |-> p, target |-> t, seq0 |-> n, age |-> 0, off |-> 0, verdict |-> v] \in Run
<1>1. 0 \in 0 .. AcceptSamples + HoldSamples /\ 0 \in 0 .. RevertConfirm
  BY TimingAssumption
<1>2. t \in Setting
  BY ProbeAssumption DEF Setting
<1> QED BY <1>1, <1>2 DEF Run

-------------------------------------------------------------------------------
(* The steps                                                               *)

(* What a user commands, and the notification of it, changes no verdict.   *)
LEMMA CommandsKeep ==
  ASSUME ProbeInv, Commands
  PROVE  ProbeInv'
<1>0. TypeOK /\ CapTypeOK /\ RunInv /\ HoldInv /\ VerdictInv /\ EnforcementResumes
  BY DEF ProbeInv
<1>1. ASSUME NEW v \in Value, UserWideVane(v) PROVE ProbeInv'
  <2>1. TypeOK' /\ UNCHANGED <<pc, current, pub, probe>>
    BY <1>0, <1>1, SetKeeps, FieldAssumption DEF UserWideVane
  <2>2. CapTypeOK'
    BY <1>0, <1>1 DEF UserWideVane, CapTypeOK, taskVars, askVars
  <2> QED
    BY <1>0, <1>1, <2>1, <2>2, SameRun DEF UserWideVane, ProbeInv
<1>2. ASSUME NEW f \in UserField, NEW v \in Value, UserOther(f, v) PROVE ProbeInv'
  <2>1. TypeOK' /\ UNCHANGED <<pc, current, pub, probe>>
    BY <1>0, <1>2, SetKeeps, FieldAssumption DEF UserOther
  <2>2. CapTypeOK'
    BY <1>0, <1>2 DEF UserOther, CapTypeOK, capVars, taskVars, askVars, userVars
  <2> QED
    BY <1>0, <1>2, <2>1, <2>2, SameRun DEF UserOther, ProbeInv, capVars
<1>3. CASE NotifyUser \/ RequestWideVaneDetect
  <2>1. UNCHANGED <<vars, motor, taskVars>>
    BY <1>3 DEF NotifyUser, RequestWideVaneDetect
  <2>3. CapTypeOK'
    <3>1. CASE NotifyUser
      <4>1. /\ UNCHANGED <<motor, manual, phase, run, detect, override>>
            /\ notify' \in BOOLEAN /\ seq' \in Nat
        <5>1. UNCHANGED <<motor, manual, phase, run, detect, override>>
          BY <3>1 DEF NotifyUser, taskVars, askVars
        <5>2. notify' \in BOOLEAN /\ seq' = seq + 1
          BY <3>1 DEF NotifyUser
        <5>3. seq \in Nat
          BY <1>0 DEF CapTypeOK
        <5> QED BY <5>1, <5>2, <5>3
      <4> QED BY <1>0, <4>1 DEF CapTypeOK
    <3>2. CASE RequestWideVaneDetect
      BY <1>0, <3>2 DEF RequestWideVaneDetect, CapTypeOK, taskVars, userVars
    <3> QED BY <1>3, <3>1, <3>2
  <2>2. UNCHANGED <<pc, current, pub, probe>> /\ TypeOK'
    BY <1>0, <2>1 DEF vars, pumpVars, wantVars, seenVars, lineVars, histVars, TypeOK
  <2> QED
    BY <1>0, <2>1, <2>2, <2>3, SameRun DEF ProbeInv
<1>4. ASSUME NEW o \in Override, SetWideVaneOverride(o) PROVE ProbeInv'
  <2>1. spent' \in Spent
    BY <1>0, <1>4, SpendTypes DEF SetWideVaneOverride, Op, TypeOK, Spent
  <2>2. TypeOK' /\ UNCHANGED <<pc, current, pub, probe>>
    BY <1>0, <1>4, <2>1 DEF SetWideVaneOverride, TypeOK, pumpVars, wantVars, seenVars, lineVars
  <2>3. CapTypeOK'
    BY <1>0, <1>4 DEF SetWideVaneOverride, CapTypeOK, taskVars, userVars
  <2> QED
    BY <1>0, <1>4, <2>2, <2>3, SameRun DEF SetWideVaneOverride, ProbeInv
<1> QED BY <1>1, <1>2, <1>3, <1>4 DEF Commands

(* Nor does what befalls the unit and the line.                            *)
LEMMA UnitKeeps ==
  ASSUME ProbeInv, LouverReverts \/ SwitchedOff
                   \/ ((UnitDown \/ UnitBack \/ Silence \/ GraceElapses) /\ UNCHANGED capVars)
  PROVE  ProbeInv'
<1>0. TypeOK /\ CapTypeOK /\ RunInv /\ HoldInv /\ VerdictInv /\ EnforcementResumes
  BY DEF ProbeInv
<1>1. CASE LouverReverts
  <2>1. unit' \in Settings /\ intent' \in [Field -> Setting \cup {None}]
    BY <1>0, <1>1, FieldAssumption, ProbeAssumption
    DEF LouverReverts, TypeOK, Settings, Setting, Owed
  <2>2. TypeOK' /\ UNCHANGED <<pc, current, pub, probe>>
    BY <1>0, <1>1, <2>1 DEF LouverReverts, TypeOK, pumpVars, wantVars, seenVars
  <2>3. CapTypeOK'
    BY <1>0, <1>1 DEF LouverReverts, CapTypeOK, capVars, taskVars, askVars, userVars
  <2> QED
    BY <1>0, <1>1, <2>2, <2>3, SameRun DEF LouverReverts, ProbeInv, capVars
<1>2. CASE UNCHANGED capVars /\ Environment
  <2>1. TypeOK'
    BY <1>0, <1>2, TypeStep DEF Next
  <2>2. UNCHANGED <<pc, current, pub, probe>>
    BY <1>2 DEF Environment, ExternalChange, UnitDown, UnitBack, Silence, GraceElapses,
       pumpVars, wantVars, seenVars
  <2>3. CapTypeOK'
    BY <1>0, <1>2 DEF CapTypeOK, capVars, taskVars, askVars, userVars
  <2> QED
    BY <1>0, <1>2, <2>1, <2>2, <2>3, SameRun DEF ProbeInv, capVars
<1>3. SwitchedOff => UNCHANGED capVars /\ Environment
  BY ProbeAssumption DEF SwitchedOff, Environment
<1> QED BY <1>1, <1>2, <1>3 DEF Environment

(* A pump iteration moves the published position, but not between a sample *)
(* of the hold and its look: what that look sees is still the detent.      *)
LEMMA PumpKeeps ==
  ASSUME ProbeInv, Pump, Prompt, UNCHANGED capVars
  PROVE  ProbeInv'
<1>0. TypeOK /\ CapTypeOK /\ RunInv /\ HoldInv /\ VerdictInv /\ EnforcementResumes
  BY DEF ProbeInv
<1>1. TypeOK' /\ probe'.on = probe.on
  BY <1>0, TypeStep, PumpLeavesProbe DEF Next
<1>2. UNCHANGED <<motor, phase, run, detect, override, manual, seq, notify>>
  BY DEF capVars, taskVars, askVars, userVars
<1>3. HoldInv'
  <2>1. CASE phase = "holdLook"
    <3>1. pc = "publish" /\ PublishAndFire
      BY <2>1, PublishOnly DEF Prompt
    <3>2. pub'.set = current /\ pc' = "idle"
      BY <3>1 DEF PublishAndFire, Goto
    <3> QED BY <1>0, <1>2, <2>1, <3>1, <3>2 DEF HoldInv
  <2>2. CASE phase # "holdLook"
    BY <1>0, <1>2, <2>2 DEF HoldInv
  <2> QED BY <2>1, <2>2
<1> QED
  BY <1>0, <1>1, <1>2, <1>3 DEF ProbeInv, CapTypeOK, RunInv, VerdictInv, EnforcementResumes

(* The task's own steps: a sample of the hold that is off the target is    *)
(* counted, and one that is not comes before the louver has fallen back.   *)
LEMMA DetectorSteps ==
  ASSUME ProbeInv, Detector
  PROVE  ProbeInv'
<1>0. TypeOK /\ CapTypeOK /\ RunInv /\ HoldInv /\ VerdictInv /\ EnforcementResumes
  BY DEF ProbeInv
<1> USE ProbeAssumption, TimingAssumption
<1>q. ASSUME UNCHANGED vars
      PROVE  TypeOK' /\ UNCHANGED <<pc, current, pub, probe, unit>>
  BY <1>0, <1>q DEF TypeOK, vars, pumpVars, wantVars, seenVars, lineVars, histVars
<1>t. /\ run \in Run
      /\ run.age \in Nat /\ run.off \in 0 .. RevertConfirm /\ seq \in Nat
  BY <1>0, RunFields DEF CapTypeOK
<1>1. CASE Wake
  <2>0. spent' \in Spent
    BY <1>0, <1>1, SpendTypes DEF Wake, Disturb, TypeOK, Spent
  <2>1. TypeOK' /\ UNCHANGED <<pc, current, pub, probe, motor, detect, override, seq, notify>>
    BY <1>0, <1>1, <2>0 DEF Wake, TypeOK, pumpVars, wantVars, seenVars, lineVars, userVars
  <2>2. CASE phase' = "begin"
    <3>1. /\ phase = "idle"
          /\ run' = [NoRun EXCEPT !.pre = pub.set[WV], !.seq0 = seq,
                                  !.target = ProbeTarget(pub.set[WV])]
      BY <1>1, <2>2 DEF Wake
    <3>2. pub.set[WV] \in Setting /\ ProbeTarget(pub.set[WV]) \in {Right, Left}
      BY <1>0, FieldAssumption DEF TypeOK, Seen, Settings, ProbeTarget
    <3>a. run' = [pre |-> pub.set[WV], target |-> ProbeTarget(pub.set[WV]), seq0 |-> seq,
                  age |-> 0, off |-> 0, verdict |-> "Unknown"]
      BY <3>1 DEF NoRun
    <3>3. /\ run'.target \in {Right, Left} /\ run'.age = 0 /\ run'.off = 0
          /\ run'.verdict = "Unknown" /\ run' \in Run
      <4>1. run' \in Run
        BY <3>a, <3>2, <1>t, RunStarts DEF Verdict
      <4> QED BY <3>a, <3>2, <4>1
    <3>4. CapTypeOK'
      BY <1>0, <1>1, <2>1, <2>2, <3>3 DEF Wake, CapTypeOK, Phase
    <3> QED
      BY <1>0, <2>1, <2>2, <3>1, <3>3, <3>4
      DEF ProbeInv, RunInv, HoldInv, VerdictInv, EnforcementResumes
  <2>3. CASE phase' # "begin"
    <3>1. UNCHANGED <<phase, run>> /\ manual' \in BOOLEAN
      BY <1>1, <2>3 DEF Wake
    <3>2. CapTypeOK'
      BY <1>0, <2>1, <3>1 DEF CapTypeOK
    <3> QED
      BY <1>0, <2>1, <3>1, <3>2, SameRun DEF ProbeInv, taskVars
  <2> QED BY <2>2, <2>3
<1>2. CASE Begin
  <2>1. /\ phase = "begin" /\ phase' = "accept" /\ probe'.on
        /\ UNCHANGED <<pc, current, pub, motor, run, detect, override, manual, seq, notify>>
    BY <1>2 DEF Begin, BeginWideVaneProbe, pumpVars, seenVars, askVars, userVars
  <2>2. TypeOK'
    <3>1. spent' \in Spent
      BY <1>0, <1>2 DEF Begin, TypeOK
    <3>2. probe' \in Probe
      BY <1>2, <1>t, RunFields DEF Begin, BeginWideVaneProbe, Probe
    <3> QED
      BY <1>0, <1>2, <3>1, <3>2 DEF Begin, BeginWideVaneProbe, TypeOK, pumpVars, seenVars, lineVars
  <2> QED
    BY <1>0, <2>1, <2>2
    DEF ProbeInv, CapTypeOK, Phase, RunInv, HoldInv, VerdictInv, EnforcementResumes
<1>3. ASSUME NEW v \in Verdict, FinishAs(v), v = "Supported" => motor,
             phase \in {"accept", "hold", "holdLook"},
             UNCHANGED <<vars, motor, home, detect, askVars, userVars>>
      PROVE  ProbeInv'
  <2>1. TypeOK' /\ UNCHANGED <<pc, current, pub, probe>>
    BY <1>3, <1>q
  <2>2. /\ run'.verdict = v /\ run'.target = run.target /\ phase' = "finish"
        /\ run' \in Run
    BY <1>3, <1>t DEF FinishAs, Run
  <2>3. CapTypeOK'
    BY <1>0, <1>3, <2>2 DEF CapTypeOK, Phase, askVars, userVars
  <2> QED
    BY <1>0, <1>3, <2>1, <2>2, <2>3 DEF ProbeInv, RunInv, HoldInv, VerdictInv, EnforcementResumes
<1>4. CASE AcceptSample
  <2>1. CASE phase' = "finish"
    BY <1>3, <1>4, <2>1 DEF AcceptSample, Verdict, FinishAs
  <2>2. CASE phase' # "finish"
    <3>1. /\ phase = "accept" /\ phase' = "acceptLook" /\ run' = run /\ run.age # AcceptSamples
          /\ UNCHANGED <<vars, motor, home, detect, askVars, userVars>>
      BY <1>4, <2>2 DEF AcceptSample, FinishAs
    <3>2. run.age < AcceptSamples
      BY <1>0, <1>t, <3>1 DEF RunInv
    <3> QED
      BY <1>0, <1>q, <3>1, <3>2
      DEF ProbeInv, CapTypeOK, Phase, RunInv, HoldInv, VerdictInv, EnforcementResumes,
          askVars, userVars
  <2> QED BY <2>1, <2>2
<1>5. CASE AcceptLook
  <2>1. TypeOK' /\ UNCHANGED <<pc, current, pub, probe, motor, detect, override, manual, seq, notify>>
    BY <1>5, <1>q DEF AcceptLook, askVars, userVars
  <2>2. /\ phase = "acceptLook" /\ run.age < AcceptSamples /\ run.off = 0
        /\ run.target \in {Right, Left}
    BY <1>0, <1>5 DEF AcceptLook, RunInv
  <2>3. CASE phase' = "hold"
    <3>1. /\ run' = [run EXCEPT !.age = 0] /\ run'.age = 0 /\ run'.off = 0
          /\ run'.target = run.target /\ run'.verdict = run.verdict
      BY <1>5, <1>t, <2>2, <2>3 DEF AcceptLook, Run
    <3>2. run' \in Run
      BY <1>t, <3>1 DEF Run
    <3> QED
      BY <1>0, <2>1, <2>2, <2>3, <3>1, <3>2
      DEF ProbeInv, CapTypeOK, Phase, RunInv, HoldInv, Fallen, VerdictInv, EnforcementResumes
  <2>4. CASE phase' # "hold"
    <3>1. /\ run' = [run EXCEPT !.age = @ + 1] /\ run'.age = run.age + 1 /\ run'.off = 0
          /\ run'.target = run.target /\ run'.verdict = run.verdict /\ phase' = "accept"
      BY <1>5, <1>t, <2>2, <2>4 DEF AcceptLook, Run
    <3>2. run' \in Run
      BY <1>t, <2>2, <3>1 DEF Run
    <3> QED
      BY <1>0, <1>t, <2>1, <2>2, <3>1, <3>2
      DEF ProbeInv, CapTypeOK, Phase, RunInv, HoldInv, VerdictInv, EnforcementResumes
  <2> QED BY <2>3, <2>4
<1>6. CASE HoldSample
  <2>1. CASE run.age = HoldSamples
    <3>1. motor
      BY <1>0, <1>6, <1>t, <2>1 DEF HoldSample, HoldInv, RunInv, Fallen
    <3> QED
      BY <1>3, <1>6, <2>1, <3>1 DEF HoldSample, Verdict
  <2>2. CASE run.age # HoldSamples /\ Disturbed
    BY <1>3, <1>6, <2>2 DEF HoldSample, Verdict
  <2>3. CASE run.age # HoldSamples /\ ~Disturbed
    <3>1. /\ phase = "hold" /\ phase' = "holdLook" /\ run' = run /\ TimelyHold
          /\ UNCHANGED <<vars, motor, home, detect, askVars, userVars>>
      BY <1>6, <2>3 DEF HoldSample
    <3>2. TypeOK' /\ UNCHANGED <<pc, current, pub, probe>>
      BY <3>1, <1>q
    <3>3. run.age < HoldSamples
      BY <1>0, <1>t, <2>3, <3>1 DEF RunInv
    <3>4. ~motor /\ run.age >= Fallen => pub.set[WV] = Detent /\ current[WV] = Detent
      <4>1. pub.connected
        BY <2>3 DEF Disturbed, UnitReady
      <4> QED BY <1>t, <3>1, <4>1 DEF TimelyHold, CaughtUp, Fallen
    <3>5. CapTypeOK'
      BY <1>0, <3>1 DEF CapTypeOK, Phase, askVars, userVars
    <3> QED
      BY <1>0, <3>1, <3>2, <3>3, <3>4, <3>5
      DEF ProbeInv, RunInv, HoldInv, VerdictInv, EnforcementResumes
  <2> QED BY <2>1, <2>2, <2>3
<1>7. CASE HoldLook
  <2> DEFINE off == IF pub.set[WV] = run.target THEN 0 ELSE run.off + 1
  <2>0. off \in Nat /\ run.target \in {Right, Left} /\ phase = "holdLook" /\ run.age < HoldSamples
    BY <1>0, <1>7, <1>t DEF HoldLook, RunInv
  <2>1. CASE off >= RevertConfirm
    BY <1>3, <1>7, <2>1 DEF HoldLook, Verdict
  <2>2. CASE ~(off >= RevertConfirm)
    <3>1. /\ phase' = "hold" /\ run' = [run EXCEPT !.age = @ + 1, !.off = off]
          /\ UNCHANGED <<vars, motor, home, detect, askVars, userVars>>
      BY <1>7, <2>2 DEF HoldLook
    <3>2. TypeOK' /\ UNCHANGED <<pc, current, pub, probe>>
      BY <3>1, <1>q
    <3>3. ~motor => run.age + 1 <= Fallen + off
      <4>1. ~motor => run.age <= Fallen + run.off
                      /\ (run.age >= Fallen => pub.set[WV] = Detent)
        BY <1>0, <2>0 DEF HoldInv
      <4>2. ~motor /\ run.age >= Fallen => off = run.off + 1
        BY <2>0, <4>1
      <4> QED BY <1>t, <2>0, <4>1, <4>2 DEF Fallen
    <3> HIDE DEF off
    <3>4. /\ run'.age = run.age + 1 /\ run'.off = off /\ run'.target = run.target
          /\ run'.verdict = run.verdict
          /\ run' \in Run
      <4>1. run.age + 1 \in 0 .. AcceptSamples + HoldSamples /\ off \in 0 .. RevertConfirm
        BY <1>t, <2>0, <2>2
      <4> QED BY <1>t, <3>1, <4>1 DEF Run
    <3>5. CapTypeOK'
      BY <1>0, <3>1, <3>4 DEF CapTypeOK, Phase, askVars, userVars
    <3>6. RunInv' /\ HoldInv'
      BY <1>0, <1>t, <2>0, <2>2, <3>1, <3>3, <3>4 DEF RunInv, HoldInv, Fallen
    <3> QED
      BY <1>0, <2>0, <3>1, <3>2, <3>4, <3>5, <3>6 DEF ProbeInv, VerdictInv, EnforcementResumes
  <2> QED BY <2>1, <2>2
<1>8. CASE Finish
  BY <1>0, <1>q, <1>8
  DEF Finish, ProbeInv, CapTypeOK, Phase, RunInv, HoldInv, VerdictInv, EnforcementResumes,
      askVars, userVars
<1>9. CASE Restore \/ Abort
  <2>1. /\ phase \in {"restore", "abort"} /\ phase' = "record" /\ ~probe'.on /\ probe' \in Probe
        /\ UNCHANGED <<pc, current, pub, motor, run, detect, override, manual, seq, notify>>
    BY <1>0, <1>9 DEF Restore, Abort, EndWideVaneProbeRestore, AbortWideVaneProbe, ProbeOff,
       TypeOK, Probe, pumpVars, seenVars, askVars, userVars
  <2>2. TypeOK'
    <3>1. CASE Restore
      <4>1. /\ wanted' \in Settings /\ dirty' \in SUBSET Field
            /\ intent' \in [Field -> Setting \cup {None}] /\ graceOver' \in BOOLEAN
        BY <1>0, <1>t, <3>1, RunFields, FieldAssumption
        DEF Restore, EndWideVaneProbeRestore, Record, TypeOK, Settings
      <4> QED
        BY <1>0, <2>1, <3>1, <4>1 DEF Restore, EndWideVaneProbeRestore, TypeOK, pumpVars,
           seenVars, lineVars
    <3>2. CASE Abort
      BY <1>0, <2>1, <3>2 DEF Abort, AbortWideVaneProbe, TypeOK, pumpVars, seenVars, lineVars,
         histVars
    <3> QED BY <1>9, <3>1, <3>2
  <2> QED
    BY <1>0, <2>1, <2>2
    DEF ProbeInv, CapTypeOK, Phase, RunInv, HoldInv, VerdictInv, EnforcementResumes
<1>10. CASE RecordVerdict
  <2>1. /\ phase = "record" /\ phase' = "idle" /\ run' = NoRun
        /\ detect' \in {detect} \cup ({run.verdict} \cap {"Supported", "Unsupported"})
        /\ UNCHANGED <<vars, motor, home, override, manual, seq, notify>>
    BY <1>10 DEF RecordVerdict, askVars, userVars
  <2>2. NoRun \in Run /\ NoRun.verdict = "Unknown"
    BY RunFields
  <2>3. CapTypeOK'
    BY <1>0, <2>1, <2>2 DEF CapTypeOK, Phase, Verdict
  <2> QED
    BY <1>0, <1>q, <2>1, <2>2, <2>3
    DEF ProbeInv, RunInv, HoldInv, VerdictInv, EnforcementResumes
<1> QED BY <1>1, <1>2, <1>4, <1>5, <1>6, <1>7, <1>8, <1>9, <1>10 DEF Detector

(* Nothing is probed and nothing is known at start-up.                     *)
LEMMA CapStart == CapInit => ProbeInv
<1> SUFFICES ASSUME CapInit PROVE ProbeInv
  OBVIOUS
<1>1. TypeOK
  BY InitTypes DEF CapInit
<1>2. CapTypeOK
  BY RunFields DEF CapInit, CapTypeOK, Phase, Verdict, Override
<1>3. RunInv /\ HoldInv /\ VerdictInv
  BY DEF CapInit, RunInv, HoldInv, VerdictInv, NoRun
<1>4. EnforcementResumes
  BY DEF CapInit, Init, EnforcementResumes, NoSnapshot
<1> QED BY <1>1, <1>2, <1>3, <1>4 DEF ProbeInv

(* Every step of driver, task, user and unit keeps the invariant.          *)
LEMMA CapStep == ProbeInv /\ [CapNext]_allVars => ProbeInv'
<1> SUFFICES ASSUME ProbeInv, [CapNext]_allVars PROVE ProbeInv'
  OBVIOUS
<1>1. CASE UNCHANGED allVars
  BY <1>1 DEF allVars, vars, capVars, taskVars, askVars, userVars, pumpVars, wantVars, seenVars,
     lineVars, histVars, ProbeInv, TypeOK, CapTypeOK, RunInv, HoldInv, VerdictInv,
     EnforcementResumes
<1> QED BY <1>1, PumpKeeps, DetectorSteps, CommandsKeep, UnitKeeps DEF CapNext

(* The detection task, its locals and its verdict keep their types.        *)
THEOREM CapTypes == CapSpec => []CapTypeOK
<1>1. ProbeInv => CapTypeOK
  BY DEF ProbeInv
<1> QED BY <1>1, CapStart, CapStep, PTL DEF CapSpec

(* A louver without a motor is never found to have one, however the task   *)
(* and the pump interleave and whatever is lost, late or commanded: it is  *)
(* back at its detent, and a poll has told so, RevertConfirm samples before *)
(* the hold of run_probe ends, and the suspended driver does not send it   *)
(* back to the target.                                                     *)
THEOREM LouverNotShown == CapSpec => []ManualNotShown
<1>1. ProbeInv => ManualNotShown
  BY DEF ProbeInv, VerdictInv, ManualNotShown
<1> QED BY <1>1, CapStart, CapStep, PTL DEF CapSpec

(* The driver's enforcement of the wide vane is suspended exactly while    *)
(* run_probe runs: every way out of it resumes it.                         *)
THEOREM ProbeEnds == CapSpec => []EnforcementResumes
<1>1. ProbeInv => EnforcementResumes
  BY DEF ProbeInv
<1> QED BY <1>1, CapStart, CapStep, PTL DEF CapSpec

-------------------------------------------------------------------------------
(* A probe puts the vane back                                              *)

ProbePC == {"probeDrain", "probeSend", "probeAck"}
FlushPC == {"flushDrain", "flushSend", "flushAck"}

(* The tally of commands and disturbances never goes down. *)
Grows ==
  /\ spent'.ops >= spent.ops /\ spent'.probes >= spent.probes
  /\ spent'.external >= spent.external /\ spent'.outages >= spent.outages
  /\ spent'.lost >= spent.lost /\ spent'.late >= spent.late

LEMMA SpendGrows ==
  ASSUME spent \in Spent, NEW what \in DOMAIN spent,
         spent' = [spent EXCEPT ![what] = @ + 1]
  PROVE  Grows
BY DEF Spent, Grows

(* The pump spends nothing but a frame that is lost or late. *)
LEMMA PumpSpends ==
  ASSUME Pump
  PROVE  UNCHANGED spent \/ Disturb("lost", MaxLost) \/ Disturb("late", MaxLate)
<1>1. ASSUME NEW r, NEW m, Transmit(r, m)
      PROVE  UNCHANGED spent \/ Disturb("lost", MaxLost)
  BY <1>1 DEF Transmit
<1>2. NoAnswer => UNCHANGED spent \/ Disturb("late", MaxLate)
  BY DEF NoAnswer
<1>3. CASE PumpBegin \/ LinkLost \/ BackOff \/ ConnectRead \/ Drain \/ Decide \/ TooSoon
           \/ PublishAndFire
  BY <1>3 DEF PumpBegin, LinkLost, BackOff, ConnectRead, Drain, Decide, Take, TooSoon,
     PublishAndFire, histVars
<1>4. CASE ProbeRead \/ FlushRead \/ FlushReadOther \/ PollLater \/ InfoRead
  BY <1>4 DEF ProbeRead, FlushRead, FlushReadOther, PollLater, InfoRead, histVars
<1>5. CASE SendConnect \/ ProbeSend \/ FlushSend
  BY <1>1, <1>5 DEF SendConnect, ProbeSend, FlushSend
<1>6. CASE RemoteSend \/ PollSend
  BY <1>1, <1>6 DEF RemoteSend, PollSend
<1>7. CASE ConnectTimeout \/ Drained \/ ProbeTimeout \/ FlushTimeout \/ InfoTimeout
  BY <1>2, <1>7 DEF ConnectTimeout, Drained, ProbeTimeout, FlushTimeout, InfoTimeout
<1> QED BY <1>3, <1>4, <1>5, <1>6, <1>7 DEF Pump, Connecting, Probing, Flushing, Polling

(* What a step of the driver, the task, a user or the unit spends. *)
LEMMA CapSpends ==
  ASSUME TypeOK, CapNext
  PROVE  Grows /\ spent' \in Spent
<1>1. /\ spent \in Spent
      /\ DOMAIN spent = {"ops", "probes", "external", "lost", "late", "outages"}
  BY DEF TypeOK, Spent
<1>2. ASSUME NEW what \in DOMAIN spent, NEW most, Disturb(what, most)
      PROVE  Grows /\ spent' \in Spent
  BY <1>1, <1>2, SpendGrows, SpendTypes DEF Disturb
<1>3. ASSUME Op PROVE Grows /\ spent' \in Spent
  BY <1>1, <1>3, SpendGrows, SpendTypes DEF Op
<1>4. ASSUME UNCHANGED spent PROVE Grows /\ spent' \in Spent
  BY <1>1, <1>4 DEF Grows, Spent
<1>5. CASE Pump
  BY <1>1, <1>2, <1>4, <1>5, PumpSpends
<1>6. CASE Detector
  <2>1. CASE Wake
    BY <1>1, <1>2, <1>4, <2>1 DEF Wake
  <2>2. CASE Begin \/ AcceptSample \/ AcceptLook \/ HoldSample \/ HoldLook
    BY <1>4, <2>2 DEF Begin, AcceptSample, AcceptLook, HoldSample, HoldLook, vars, histVars
  <2>3. CASE Finish \/ Restore \/ Abort \/ RecordVerdict
    BY <1>4, <2>3 DEF Finish, Restore, Abort, RecordVerdict, EndWideVaneProbeRestore,
       AbortWideVaneProbe, vars, histVars
  <2> QED BY <1>6, <2>1, <2>2, <2>3 DEF Detector
<1>7. CASE Commands
  <2>1. CASE NotifyUser \/ RequestWideVaneDetect
    BY <1>4, <2>1 DEF NotifyUser, RequestWideVaneDetect, vars, histVars
  <2>2. ASSUME NEW f \in Field, NEW v \in Value, Set(f, v) PROVE Grows /\ spent' \in Spent
    BY <1>3, <2>2 DEF Set
  <2>3. ASSUME NEW o \in Override, SetWideVaneOverride(o) PROVE Grows /\ spent' \in Spent
    BY <1>3, <2>3 DEF SetWideVaneOverride
  <2> QED BY <1>7, <2>1, <2>2, <2>3, FieldAssumption DEF Commands, UserWideVane, UserOther
<1>8. CASE LouverReverts \/ SwitchedOff \/ UnitDown \/ UnitBack \/ Silence \/ GraceElapses
  BY <1>1, <1>2, <1>4, <1>8 DEF LouverReverts, SwitchedOff, ExternalChange, UnitDown, UnitBack,
     Silence, GraceElapses, histVars
<1> QED BY <1>5, <1>6, <1>7, <1>8 DEF CapNext

(* Nobody commanded anything, the unit was never away, and a second probe  *)
(* did not start on a bad line.                                            *)
HomeCase ==
  motor /\ spent.ops = 0 /\ spent.outages = 0 /\ (spent.probes <= 1 \/ FaultlessLine)

HomeReport == {m \in Message : m.kind = "settings" => m.set[WV] = home}
NoReport == {m \in Message : m.kind # "settings"}

(* The vane is where it was, and nothing the driver holds or is about to   *)
(* read says otherwise.                                                    *)
AtHome ==
  /\ unit[WV] = home /\ rx \in Seq(HomeReport) /\ pc \notin ProbePC
  /\ ~firstRun => current[WV] = home /\ wanted[WV] = home

(* A link to a unit that is there is not dropped, and nothing is sent      *)
(* before the unit has been read.                                          *)
LinkHome ==
  /\ unitUp /\ ~silent
  /\ ~connected => firstRun /\ pc \in {"idle", "down", "connWait", "publish"}
                   /\ rx \in Seq(NoReport)
  /\ pub.connected => connected
  /\ firstRun => current = Default /\ pub.set = Default /\ pc \notin FlushPC
                 /\ spent.probes = 0

NobodyAsked ==
  /\ seq = 0 /\ ~notify /\ run.seq0 = 0 /\ phase # "abort"
  /\ dirty \subseteq {WV}

(* Away from home the grace period has not passed, and until it has the    *)
(* driver wants the vane back home.                                        *)
WantHome ==
  /\ spent.probes = 0 => dirty = {} /\ ~probe.on /\ phase = "idle"
                         /\ (pub.set = Default \/ pub.set[WV] = home)
  /\ spent.probes = 0 \/ (graceOver /\ ~probe.on) => AtHome
  /\ ~firstRun /\ ~graceOver => wanted[WV] = home
  /\ ~firstRun /\ graceOver => \A f \in Field \ {WV} : wanted[f] = current[f]
  /\ pc \in FlushPC => ~graceOver /\ snap.wanted[WV] = home
  /\ phase # "idle" => run.pre = home

HomeInv == HomeCase => LinkHome /\ NobodyAsked /\ WantHome

(* What is undisturbed after a step was so before it. *)
LEMMA HomeCaseBefore ==
  ASSUME TypeOK, CapNext, HomeCase'
  PROVE  HomeCase /\ motor' = motor /\ home' = home
         /\ spent'.ops = spent.ops /\ spent'.outages = spent.outages
<1>1. /\ spent.ops \in Nat /\ spent.outages \in Nat /\ spent.probes \in Nat
      /\ spent.lost \in Nat /\ spent.late \in Nat
  BY DEF TypeOK, Spent
<1>2. Grows /\ spent' \in Spent
  BY CapSpends
<1>3. motor' = motor /\ home' = home
  <2>1. CASE Detector
    BY <2>1 DEF Detector, Wake, Begin, AcceptSample, AcceptLook, HoldSample, HoldLook, Finish,
       Restore, Abort, RecordVerdict
  <2>2. CASE Commands
    BY <2>2 DEF Commands, UserWideVane, UserOther, NotifyUser, RequestWideVaneDetect,
       SetWideVaneOverride, capVars
  <2> QED BY <2>1, <2>2 DEF CapNext, LouverReverts, SwitchedOff, capVars
<1>4. /\ spent'.ops \in Nat /\ spent'.outages \in Nat /\ spent'.probes \in Nat
      /\ spent'.lost \in Nat /\ spent'.late \in Nat
  BY <1>2 DEF Spent
<1>5. /\ spent'.ops = 0 => spent.ops = 0
      /\ spent'.outages = 0 => spent.outages = 0
      /\ spent'.lost = 0 => spent.lost = 0
      /\ spent'.late = 0 => spent.late = 0
      /\ spent'.probes <= 1 => spent.probes <= 1
  BY <1>1, <1>2, <1>4 DEF Grows
<1>6. FaultlessLine' => FaultlessLine
  BY <1>5 DEF FaultlessLine
<1> QED BY <1>3, <1>5, <1>6 DEF HomeCase

(* A frame read brings nothing but what the unit told. *)
LEMMA HomeRead ==
  ASSUME TypeOK, LinkHome, NobodyAsked, WantHome, ReadPacket, home' = home,
         UNCHANGED <<dirty, graceOver, pub, unit, unitUp, seq, notify, run, phase, snap>>,
         spent'.probes = spent.probes, probe'.on = probe.on,
         pc' \in {pc, "publish"}
  PROVE  LinkHome' /\ NobodyAsked' /\ WantHome'
<1>r. rx \in Seq(Message) /\ rx # <<>> /\ rx' = Tail(rx) /\ silent' = FALSE
      /\ connected' = (connected \/ Head(rx).kind = "conn")
  BY DEF TypeOK, ReadPacket, Heard
<1>t. Head(rx) \in Message
  BY <1>r
<1>1. /\ rx \in Seq(NoReport) => Head(rx).kind # "settings" /\ rx' \in Seq(NoReport)
      /\ rx \in Seq(HomeReport) => (Head(rx).kind = "settings" => Head(rx).set[WV] = home)
                                   /\ rx' \in Seq(HomeReport)
  BY HeardTakes DEF ReadPacket, NoReport, HomeReport
<1>2. HomeReport' = HomeReport /\ NoReport' = NoReport
  BY DEF HomeReport, NoReport
<1>3. CASE UNCHANGED <<current, changed, wanted, firstRun>>
  <2>1. LinkHome'
    BY <1>r, <1>1, <1>2, <1>3 DEF LinkHome, FlushPC
  <2>2. AtHome => AtHome'
    BY <1>1, <1>2, <1>3 DEF AtHome, ProbePC
  <2> QED BY <1>3, <2>1, <2>2 DEF NobodyAsked, WantHome, FlushPC
<1>4. CASE Head(rx).kind = "settings" /\ DecodeSettings(Head(rx).set)
  <2> DEFINE s == Head(rx).set
  <2>1. /\ current' = s /\ ~firstRun' /\ s \in Settings
        /\ wanted' = IF firstRun \/ graceOver THEN Adopted(s) ELSE wanted
    BY <1>t, <1>4 DEF DecodeSettings, Message
  <2>2. connected /\ connected'
    BY <1>r, <1>1, <1>4 DEF LinkHome
  <2>3. \A f \in Field : Adopted(s)[f] = IF f \in dirty THEN wanted[f] ELSE s[f]
    BY DEF Adopted
  <2> HIDE DEF s
  <2>4. LinkHome'
    BY <1>r, <2>1, <2>2 DEF LinkHome
  <2>5. ASSUME AtHome, WV \notin dirty \/ ~firstRun PROVE AtHome'
    <3>1. s[WV] = home
      BY <1>1, <1>4, <2>5 DEF AtHome, s
    <3>2. wanted'[WV] = home
      BY <2>1, <2>3, <2>5, <3>1, FieldAssumption DEF AtHome
    <3> QED BY <1>1, <1>2, <2>1, <2>5, <3>1, <3>2 DEF AtHome, ProbePC
  <2>6. spent.probes = 0 \/ (graceOver /\ ~probe.on) => AtHome'
    BY <2>5 DEF WantHome, LinkHome
  <2>7. ~graceOver => wanted'[WV] = home
    BY <2>1, <2>6 DEF WantHome, LinkHome, AtHome
  <2>8. graceOver => \A f \in Field \ {WV} : wanted'[f] = current'[f]
    BY <2>1, <2>3 DEF NobodyAsked
  <2> QED BY <2>4, <2>6, <2>7, <2>8 DEF NobodyAsked, WantHome, FlushPC
<1> QED BY <1>3, <1>4 DEF ReadPacket

(* What leaves the line, the settings and the task alone changes nothing.  *)
LEMMA HomeSame ==
  ASSUME LinkHome, NobodyAsked, WantHome, home' = home,
         UNCHANGED <<connected, firstRun, current, wanted, dirty, graceOver, unit, unitUp,
                     rx, silent, seq, notify, run, phase>>,
         spent'.probes = spent.probes, probe'.on = probe.on,
         UNCHANGED pub \/ pub' = [set |-> current, connected |-> connected],
         ~connected => pc' \in {"idle", "down", "connWait", "publish"},
         pc' \in ProbePC => pc \in ProbePC \/ probe.on,
         pc' \in FlushPC => ~firstRun /\ ~graceOver /\ snap'.wanted[WV] = home
  PROVE  LinkHome' /\ NobodyAsked' /\ WantHome'
<1>1. HomeReport' = HomeReport /\ NoReport' = NoReport
  BY DEF HomeReport, NoReport
<1>2. LinkHome'
  BY <1>1 DEF LinkHome
<1>3. AtHome => current = Default \/ current[WV] = home
  BY DEF AtHome, LinkHome
<1>4. AtHome /\ pc' \notin ProbePC => AtHome'
  BY <1>1 DEF AtHome
<1> QED BY <1>1, <1>2, <1>3, <1>4 DEF NobodyAsked, WantHome, AtHome

(* A frame that only asks leaves the vane where it is. *)
LEMMA HomeAsks ==
  ASSUME TypeOK, LinkHome, NobodyAsked, WantHome, home' = home,
         NEW replies \in SUBSET Seq(Message), Transmit({unit}, replies),
         replies \in SUBSET Seq(HomeReport) \/ ~(spent.probes = 0 \/ (graceOver /\ ~probe.on)),
         connected \/ replies \in SUBSET Seq(NoReport),
         UNCHANGED <<connected, firstRun, current, wanted, dirty, probe, graceOver, unitUp, pub,
                     silent, seq, notify, run, phase, snap>>,
         spent'.probes = spent.probes,
         pc' \in {"connWait", "infoWait", "publish"}, ~connected => pc' # "infoWait"
  PROVE  LinkHome' /\ NobodyAsked' /\ WantHome'
<1>1. HomeReport' = HomeReport /\ NoReport' = NoReport
  BY DEF HomeReport, NoReport
<1>2. unit' = unit
  BY DEF Transmit
<1>3. rx \in Seq(NoReport) /\ ~connected => rx' \in Seq(NoReport)
  BY TransmitAdds
<1>4. AtHome /\ replies \in SUBSET Seq(HomeReport) => rx' \in Seq(HomeReport)
  BY TransmitAdds DEF AtHome
<1>5. LinkHome'
  BY <1>1, <1>3 DEF LinkHome, FlushPC
<1>6. spent.probes = 0 \/ (graceOver /\ ~probe.on) => AtHome'
  BY <1>1, <1>2, <1>4 DEF AtHome, ProbePC, WantHome
<1> QED BY <1>5, <1>6 DEF NobodyAsked, WantHome, FlushPC

(* The pump keeps it: whatever it flushes wants the vane back home.        *)
LEMMA HomePump ==
  ASSUME TypeOK, LinkHome, NobodyAsked, WantHome, Pump, UNCHANGED capVars,
         probe.queued => probe.on
  PROVE  LinkHome' /\ NobodyAsked' /\ WantHome'
<1>1. UNCHANGED <<motor, home, seq, notify, run, phase>>
  BY DEF capVars, taskVars, userVars
<1>2. spent'.probes = spent.probes
  BY PumpSpends DEF Disturb, TypeOK, Spent
<1>3. probe'.on = probe.on
  BY PumpLeavesProbe
<1> USE DEF pumpVars, wantVars, seenVars, lineVars, histVars, unreadVars, Goto
<1>4. CASE PumpBegin \/ BackOff \/ ConnectTimeout \/ TooSoon \/ PollLater
  <2>1. pc = "decide" \/ pc = "tail" => connected
    BY DEF LinkHome
  <2> QED BY <1>1, <1>2, <1>3, <1>4, <2>1, HomeSame
          DEF PumpBegin, BackOff, ConnectTimeout, TooSoon, PollLater, ProbePC, FlushPC
<1>5. CASE LinkLost
  BY <1>5 DEF LinkLost, LinkHome
<1>6. CASE ConnectRead \/ Drain \/ InfoRead \/ FlushReadOther
  BY <1>1, <1>2, <1>6, HomeRead DEF ConnectRead, Drain, InfoRead, FlushReadOther
<1>7. CASE ProbeRead
  BY <1>1, <1>2, <1>3, <1>7, HomeRead DEF ProbeRead, ProbeSent
<1>8. CASE Drained
  <2>1. connected
    BY <1>8 DEF Drained, LinkHome
  <2>2. pc' \in ProbePC => pc \in ProbePC
    BY <1>8 DEF Drained, ProbePC
  <2>3. pc' \in FlushPC => pc \in FlushPC /\ snap' = snap
    BY <1>8 DEF Drained, FlushPC
  <2>4. pc' \in FlushPC => ~firstRun /\ ~graceOver /\ snap'.wanted[WV] = home
    BY <2>3 DEF LinkHome, WantHome
  <2> QED BY <1>1, <1>2, <1>3, <1>8, <2>1, <2>2, <2>4, HomeSame DEF Drained
<1>9. CASE Decide
  <2>1. connected
    BY <1>9 DEF Decide, Take, LinkHome
  <2>2. pc' \in ProbePC => probe.on
    BY <1>9 DEF Decide, Branches, Take, ProbePC
  <2>3. ASSUME pc' \in FlushPC PROVE ~firstRun /\ ~graceOver /\ snap'.wanted[WV] = home
    <3>1. MustFlush /\ snap'.wanted = wanted
      BY <1>9, <2>3 DEF Decide, Branches, Take, FlushPC
    <3>2. ~firstRun
      BY <3>1 DEF MustFlush
    <3>3. PICK f \in Field : wanted[f] # current[f] /\ (f = WV => ~probe.on)
      BY <3>1 DEF MustFlush, Differs
    <3>4. ~graceOver
      BY <3>2, <3>3 DEF WantHome, AtHome
    <3> QED BY <3>1, <3>2, <3>4 DEF WantHome
  <2> QED BY <1>1, <1>2, <1>3, <1>9, <2>1, <2>2, <2>3, HomeSame DEF Decide, Take
<1>10. CASE ProbeTimeout \/ FlushTimeout \/ InfoTimeout \/ PublishAndFire
  BY <1>1, <1>2, <1>3, <1>10, HomeSame
  DEF ProbeTimeout, ProbeSent, FlushTimeout, InfoTimeout, PublishAndFire, ProbePC, FlushPC
<1>c. HomeReport' = HomeReport /\ NoReport' = NoReport
  BY <1>1 DEF HomeReport, NoReport
<1>a. {<<Reply("ack")>>} \in SUBSET Seq(Message)
  BY ConstantTypes DEF Kind
<1>11. CASE ProbeSend
  <2>1. connected /\ ~firstRun /\ ~(spent.probes = 0 \/ (graceOver /\ ~probe.on))
    BY <1>11 DEF ProbeSend, LinkHome, WantHome, AtHome, ProbePC
  <2> QED BY <1>1, <1>2, <1>3, <1>11, <2>1
          DEF ProbeSend, LinkHome, NobodyAsked, WantHome, ProbePC, FlushPC
<1>12. CASE FlushSend
  <2>1. connected /\ ~firstRun /\ ~graceOver /\ snap.wanted[WV] = home
    BY <1>12 DEF FlushSend, LinkHome, WantHome, FlushPC
  <2>2. unit[WV] = home => unit'[WV] = home
    <3>1. unit' \in Obey(snap.wanted) \cup {unit}
      BY <1>12 DEF FlushSend, Transmit
    <3> QED BY <2>1, <3>1, FieldAssumption DEF Obey
  <2>3. AtHome => rx' \in Seq(HomeReport)
    <3>1. {<<Reply("ack")>>} \in SUBSET Seq(HomeReport)
      BY ConstantTypes DEF Kind, HomeReport, Reply
    <3> QED BY <1>12, <3>1, TransmitAdds DEF FlushSend, AtHome
  <2>4. AtHome => AtHome'
    <3>1. pc' = "flushAck" /\ UNCHANGED <<firstRun, current, wanted>>
      BY <1>12 DEF FlushSend
    <3> QED BY <1>c, <1>1, <2>2, <2>3, <3>1 DEF AtHome, ProbePC
  <2> QED BY <1>1, <1>2, <1>3, <1>12, <2>1, <2>4
          DEF FlushSend, LinkHome, NobodyAsked, WantHome, ProbePC, FlushPC
<1>13. CASE FlushRead
  <2>1. connected /\ ~firstRun /\ ~graceOver /\ snap.wanted[WV] = home /\ wanted[WV] = home
    BY <1>13 DEF FlushRead, LinkHome, WantHome, FlushPC
  <2>2. current' = snap.wanted
    BY <1>13 DEF FlushRead, Echo
  <2>3. AtHome => AtHome'
    <3>1. AtHome => rx' \in Seq(HomeReport)
      BY <1>13, HeardTakes DEF FlushRead, AtHome
    <3>2. pc' = "publish" /\ UNCHANGED <<unit, wanted>>
      BY <1>13 DEF FlushRead
    <3> QED BY <1>1, <1>c, <2>1, <2>2, <3>1, <3>2 DEF AtHome, ProbePC
  <2> QED BY <1>1, <1>2, <1>3, <1>13, <2>1, <2>2, <2>3
          DEF FlushRead, Heard, LinkHome, NobodyAsked, WantHome, ProbePC, FlushPC
<1>14. \A k \in Kind \ {"settings"} : <<Reply(k)>> \in Seq(HomeReport) \cap Seq(NoReport)
  BY ConstantTypes DEF HomeReport, NoReport, Reply
<1>15. CASE SendConnect
  <2>1. {<<Reply("conn")>>} \in (SUBSET Seq(HomeReport)) \cap (SUBSET Seq(NoReport))
    BY <1>14 DEF Kind
  <2>2. {<<Reply("conn")>>} \in SUBSET Seq(Message)
    BY ConstantTypes DEF Kind
  <2> QED BY <1>1, <1>2, <1>15, <2>1, <2>2, HomeAsks DEF SendConnect
<1>16. CASE RemoteSend
  <2>1. {<<>>, <<Reply("ack")>>} \in SUBSET Seq(HomeReport)
    BY <1>14 DEF Kind
  <2>2. {<<>>, <<Reply("ack")>>} \in SUBSET Seq(Message)
    BY <1>a
  <2>3. connected
    BY <1>16 DEF RemoteSend, LinkHome
  <2> QED BY <1>1, <1>2, <1>16, <2>1, <2>2, <2>3, HomeAsks DEF RemoteSend
<1>17. CASE PollSend
  <2>1. SettingsReply \in Message /\ Reply("status") \in Message
    BY ConstantTypes DEF SettingsReply, Message, Kind, TypeOK
  <2>2. unit[WV] = home => SettingsReply \in HomeReport
    BY <2>1 DEF SettingsReply, HomeReport
  <2>3. connected
    BY <1>17 DEF PollSend, LinkHome
  <2>4. PICK replies \in {{<<SettingsReply>>}, {<<Reply("status")>>}} : Transmit({unit}, replies)
    BY <1>17 DEF PollSend
  <2>5. replies \in SUBSET Seq(Message)
    <3>1. <<SettingsReply>> \in Seq(Message) /\ <<Reply("status")>> \in Seq(Message)
      BY <2>1
    <3> QED BY <2>4, <3>1
  <2>6. AtHome => replies \in SUBSET Seq(HomeReport)
    <3>1. AtHome => <<SettingsReply>> \in Seq(HomeReport)
      BY <2>2 DEF AtHome
    <3>2. <<Reply("status")>> \in Seq(HomeReport)
      BY <1>14 DEF Kind
    <3>3. CASE replies = {<<SettingsReply>>}
      BY <3>1, <3>3
    <3>4. CASE replies = {<<Reply("status")>>}
      BY <3>2, <3>4
    <3> QED BY <2>4, <3>3, <3>4
  <2>7. replies \in SUBSET Seq(HomeReport) \/ ~(spent.probes = 0 \/ (graceOver /\ ~probe.on))
    BY <2>6 DEF WantHome
  <2> QED BY <1>1, <1>2, <1>17, <2>3, <2>4, <2>5, <2>7, HomeAsks DEF PollSend
<1> QED BY <1>4, <1>5, <1>6, <1>7, <1>8, <1>9, <1>10, <1>11, <1>12, <1>13, <1>15, <1>16, <1>17
        DEF Pump, Connecting, Probing, Flushing, Polling

(* A shot is queued only while its probe runs. *)
OneShot == probe.queued => probe.on

(* A notification that is due or done was a command. *)
Counted == spent.ops >= seq + (IF notify THEN 1 ELSE 0)

(* The pump ends a shot and never queues one; the task queues it with its  *)
(* probe and takes it back with it.                                        *)
LEMMA OneShotStep ==
  ASSUME TypeOK, OneShot, CapNext
  PROVE  OneShot'
<1> USE DEF pumpVars, wantVars, unreadVars
<1>1. CASE Pump
  <2>1. probe'.on = probe.on
    BY <1>1, PumpLeavesProbe
  <2>2. probe' = probe \/ ~probe'.queued
    <3> USE DEF TypeOK, Probe
    <3>1. CASE PumpBegin \/ LinkLost \/ Connecting
      BY <3>1 DEF PumpBegin, LinkLost, Connecting, BackOff, SendConnect, ConnectRead,
         ConnectTimeout
    <3>2. CASE Drain \/ Drained \/ Decide \/ TooSoon \/ PublishAndFire
      BY <3>2 DEF Drain, Drained, Decide, Take, TooSoon, PublishAndFire
    <3>3. CASE Probing
      BY <3>3 DEF Probing, ProbeSend, ProbeRead, ProbeTimeout, ProbeSent
    <3>4. CASE Flushing
      BY <3>4 DEF Flushing, FlushSend, FlushRead, FlushReadOther, FlushTimeout
    <3>5. CASE Polling
      BY <3>5 DEF Polling, RemoteSend, PollSend, PollLater, InfoRead, InfoTimeout
    <3> QED BY <1>1, <3>1, <3>2, <3>3, <3>4, <3>5 DEF Pump
  <2> QED BY <2>1, <2>2 DEF OneShot
<1>2. CASE Detector
  <2>1. CASE Begin
    BY <2>1 DEF Begin, BeginWideVaneProbe, OneShot
  <2>2. CASE Restore \/ Abort
    BY <2>2 DEF Restore, Abort, EndWideVaneProbeRestore, AbortWideVaneProbe, ProbeOff, TypeOK,
       Probe, OneShot
  <2>3. CASE ~(Begin \/ Restore \/ Abort)
    BY <1>2, <2>3 DEF Detector, Wake, AcceptSample, AcceptLook, HoldSample, HoldLook, Finish,
       RecordVerdict, vars, OneShot
  <2> QED BY <2>1, <2>2, <2>3
<1>3. CASE Commands
  BY <1>3 DEF Commands, UserWideVane, UserOther, Set, NotifyUser, RequestWideVaneDetect,
     SetWideVaneOverride, vars, OneShot
<1>4. CASE LouverReverts \/ SwitchedOff \/ UnitDown \/ UnitBack \/ Silence \/ GraceElapses
  BY <1>4 DEF LouverReverts, SwitchedOff, ExternalChange, UnitDown, UnitBack, Silence,
     GraceElapses, OneShot
<1> QED BY <1>1, <1>2, <1>3, <1>4 DEF CapNext

(* A command of the vane counts before its notification is due.           *)
LEMMA CountStep ==
  ASSUME TypeOK, CapTypeOK, Counted, CapNext
  PROVE  Counted'
<1>1. /\ spent \in Spent /\ spent.ops \in Nat /\ spent'.ops \in Nat
      /\ spent'.ops >= spent.ops /\ seq \in Nat
  BY CapSpends DEF Grows, TypeOK, CapTypeOK, Spent
<1>2. CASE UNCHANGED <<seq, notify>>
  BY <1>1, <1>2 DEF Counted
<1>3. ASSUME NEW v \in Value, UserWideVane(v) PROVE Counted'
  <2>1. ~notify /\ notify' /\ seq' = seq
    BY <1>3 DEF UserWideVane
  <2>2. spent'.ops = spent.ops + 1
    BY <1>1, <1>3 DEF UserWideVane, Set, Op, Spent
  <2> QED BY <1>1, <2>1, <2>2 DEF Counted
<1>4. CASE NotifyUser
  BY <1>1, <1>4 DEF NotifyUser, Counted, vars, histVars
<1>5. CASE Detector
  BY <1>2, <1>5 DEF Detector, Wake, Begin, AcceptSample, AcceptLook, HoldSample, HoldLook,
     Finish, Restore, Abort, RecordVerdict, userVars
<1> QED BY <1>2, <1>3, <1>4, <1>5 DEF CapNext, Commands, UserOther, RequestWideVaneDetect,
        SetWideVaneOverride, LouverReverts, SwitchedOff, capVars, userVars

(* What the next two theorems know of the task.                            *)
TaskInv == ProbeInv /\ OneShot /\ Counted

(* At start-up nothing is queued, commanded or found out.                 *)
LEMMA TaskStart == CapInit => TaskInv
<1> SUFFICES ASSUME CapInit PROVE TaskInv
  OBVIOUS
<1>1. ProbeInv
  BY CapStart
<1>2. OneShot /\ Counted
  BY DEF CapInit, Init, OneShot, Counted, NoSnapshot
<1> QED BY <1>1, <1>2 DEF TaskInv

(* And every step keeps it.                                              *)
LEMMA TaskStep ==
  ASSUME TaskInv, CapNext
  PROVE  TaskInv'
<1>1. TypeOK /\ CapTypeOK /\ OneShot /\ Counted /\ ProbeInv
  BY DEF TaskInv, ProbeInv
<1> QED BY <1>1, CapStep, OneShotStep, CountStep DEF TaskInv

(* The task keeps it: a probe takes home for its old position and, nobody  *)
(* having commanded anything, ends with the restore.                       *)
LEMMA HomeDetector ==
  ASSUME ProbeInv, LinkHome, NobodyAsked, WantHome, HomeCase', Detector
  PROVE  LinkHome' /\ NobodyAsked' /\ WantHome'
<1>0. TypeOK /\ CapTypeOK /\ EnforcementResumes
  BY DEF ProbeInv
<1>h. CapNext
  BY DEF CapNext
<1>b. /\ HomeCase /\ motor' = motor /\ home' = home /\ spent.ops = 0
      /\ spent.probes \in Nat /\ spent'.probes \in Nat /\ run \in Run
  BY <1>0, <1>h, HomeCaseBefore, CapSpends DEF HomeCase, TypeOK, CapTypeOK, Spent
<1>c. HomeReport' = HomeReport /\ NoReport' = NoReport
  BY <1>b DEF HomeReport, NoReport
<1> USE DEF pumpVars, wantVars, seenVars, lineVars, histVars
<1>1. ASSUME UNCHANGED vars, UNCHANGED <<seq, notify>>, phase' # "abort",
             phase' # "idle" => phase # "idle" /\ run'.pre = run.pre,
             run'.seq0 = 0
      PROVE  LinkHome' /\ NobodyAsked' /\ WantHome'
  <2>1. AtHome => AtHome'
    BY <1>1, <1>b, <1>c DEF AtHome, vars
  <2> QED BY <1>1, <1>b, <1>c, <2>1 DEF vars, LinkHome, NobodyAsked, WantHome
<1>2. CASE AcceptSample \/ AcceptLook \/ HoldSample \/ HoldLook
  <2>1. /\ UNCHANGED vars /\ UNCHANGED <<seq, notify>>
        /\ phase # "idle" /\ phase' # "abort"
    BY <1>2 DEF AcceptSample, AcceptLook, HoldSample, HoldLook, FinishAs, userVars
  <2>2. run'.pre = run.pre /\ run'.seq0 = run.seq0
    BY <1>2, <1>b DEF AcceptSample, AcceptLook, HoldSample, HoldLook, FinishAs, Run
  <2> QED BY <1>1, <2>1, <2>2 DEF NobodyAsked
<1>3. CASE Finish \/ RecordVerdict
  <2>1. UNCHANGED vars /\ UNCHANGED <<seq, notify>>
    BY <1>3 DEF Finish, RecordVerdict, userVars
  <2>2. phase' # "abort" /\ run'.seq0 = 0
    BY <1>3, RunFields DEF Finish, RecordVerdict, NobodyAsked, NoRun
  <2>3. phase' # "idle" => phase # "idle" /\ run'.pre = run.pre
    BY <1>3 DEF Finish, RecordVerdict
  <2> QED BY <1>1, <2>1, <2>2, <2>3
<1>4. CASE Wake
  <2>1. CASE phase' # "begin"
    BY <1>1, <1>4, <2>1 DEF Wake, userVars, vars, NobodyAsked, WantHome
  <2>2. CASE phase' = "begin"
    <3>1. /\ Rested /\ UnitReady /\ phase = "idle"
          /\ run' = [NoRun EXCEPT !.pre = pub.set[WV], !.seq0 = seq,
                                  !.target = ProbeTarget(pub.set[WV])]
          /\ spent' = [spent EXCEPT !.probes = @ + 1]
          /\ UNCHANGED <<pumpVars, wantVars, seenVars, lineVars, userVars>>
      BY <1>4, <2>2 DEF Wake, Disturb
    <3>2. spent'.probes = spent.probes + 1 /\ run'.pre = pub.set[WV] /\ run'.seq0 = seq
      BY <1>0, <3>1 DEF TypeOK, Spent, NoRun
    <3>3. pub.set # Default /\ ~firstRun
      <4>1. Default[PW] # On
        BY FieldAssumption, ProbeAssumption DEF Default
      <4> QED BY <3>1, <4>1 DEF UnitReady, LinkHome
    <3>4. pub.set[WV] = home
      <4>1. CASE spent.probes = 0
        BY <3>3, <4>1 DEF WantHome
      <4>2. CASE spent.probes # 0
        <5>1. FaultlessLine
          <6>1. FaultlessLine'
            BY <1>b, <3>2, <4>2 DEF HomeCase
          <6>2. /\ spent'.lost = spent.lost /\ spent'.late = spent.late
                /\ spent'.outages = spent.outages
            BY <1>0, <3>1 DEF TypeOK, Spent
          <6> QED BY <6>1, <6>2 DEF FaultlessLine
        <5>2. wanted[WV] = unit[WV] /\ pub.set[WV] = unit[WV]
          BY <1>b, <3>1, <4>2, <5>1 DEF Rested
        <5>3. ~probe.on
          BY <1>0, <3>1 DEF EnforcementResumes
        <5> QED BY <3>3, <5>2, <5>3 DEF WantHome, AtHome
      <4> QED BY <4>1, <4>2
    <3>5. AtHome => AtHome'
      BY <1>b, <1>c, <3>1 DEF AtHome
    <3> QED BY <1>b, <1>c, <2>2, <3>1, <3>2, <3>3, <3>4, <3>5
            DEF LinkHome, NobodyAsked, WantHome, userVars
  <2> QED BY <2>1, <2>2
<1>5. CASE Begin
  <2>1. phase = "begin" /\ spent.probes # 0
    BY <1>5 DEF Begin, WantHome
  <2>2. /\ probe'.on /\ phase' = "accept"
        /\ UNCHANGED <<pumpVars, wanted, dirty, graceOver, seenVars, lineVars, spent, run,
                       userVars>>
    BY <1>5 DEF Begin, BeginWideVaneProbe
  <2> QED BY <1>b, <1>c, <2>1, <2>2 DEF LinkHome, NobodyAsked, WantHome, userVars
<1>6. CASE Restore
  <2>1. phase = "restore" /\ spent.probes # 0 /\ run.pre = home /\ WV \in Field
    BY <1>6, FieldAssumption DEF Restore, WantHome
  <2>2. /\ phase' = "record" /\ ~graceOver' /\ dirty' = dirty \cup {WV}
        /\ wanted' = [wanted EXCEPT ![WV] = home]
        /\ UNCHANGED <<pumpVars, seenVars, lineVars, spent, run, userVars>>
    BY <1>6, <2>1 DEF Restore, EndWideVaneProbeRestore, Record
  <2>3. wanted'[WV] = home
    BY <1>0, <2>1, <2>2 DEF TypeOK, Settings
  <2> QED BY <1>b, <1>c, <2>1, <2>2, <2>3 DEF LinkHome, NobodyAsked, WantHome, userVars
<1>7. CASE Abort
  BY <1>7 DEF Abort, NobodyAsked
<1> QED BY <1>2, <1>3, <1>4, <1>5, <1>6, <1>7 DEF Detector

(* What a user commands or the unit meets with ends the case or keeps it.  *)
(* The grace period passes only when the vane that is to go home is there. *)
LEMMA HomeOthers ==
  ASSUME ProbeInv, LinkHome, NobodyAsked, WantHome, HomeCase', CapNext,
         Commands \/ LouverReverts \/ SwitchedOff
           \/ ((UnitDown \/ UnitBack \/ Silence \/ GraceElapses) /\ UNCHANGED capVars)
  PROVE  LinkHome' /\ NobodyAsked' /\ WantHome'
<1>0. TypeOK /\ CapTypeOK
  BY DEF ProbeInv
<1>b. /\ HomeCase /\ motor /\ home' = home
      /\ spent'.ops = spent.ops /\ spent'.outages = spent.outages
      /\ spent \in Spent /\ spent.ops \in Nat /\ spent.outages \in Nat /\ spent.probes \in Nat
  BY <1>0, HomeCaseBefore DEF HomeCase, TypeOK, Spent
<1>c. HomeReport' = HomeReport /\ NoReport' = NoReport
  BY <1>b DEF HomeReport, NoReport
<1> USE DEF pumpVars, wantVars, seenVars, lineVars, histVars
<1>1. ~Op
  BY <1>b DEF Op, Spent
<1>2. CASE Commands
  <2>1. RequestWideVaneDetect
    BY <1>1, <1>2 DEF Commands, UserWideVane, UserOther, Set, SetWideVaneOverride, NotifyUser,
       NobodyAsked
  <2>2. UNCHANGED <<vars, taskVars, userVars>>
    BY <2>1 DEF RequestWideVaneDetect
  <2>3. AtHome => AtHome'
    BY <1>b, <1>c, <2>2 DEF AtHome, vars
  <2> QED BY <1>b, <1>c, <2>2, <2>3 DEF vars, taskVars, userVars, LinkHome, NobodyAsked, WantHome
<1>3. CASE LouverReverts
  BY <1>b, <1>3 DEF LouverReverts
<1>4. CASE SwitchedOff
  <2>1. /\ UNCHANGED <<pumpVars, wantVars, seenVars, unitUp, rx, silent, capVars>>
        /\ unit' = [unit EXCEPT ![PW] = Off] /\ spent' = [spent EXCEPT !.external = @ + 1]
    BY <1>4 DEF SwitchedOff, ExternalChange, Disturb
  <2>2. unit'[WV] = unit[WV] /\ spent'.probes = spent.probes
    BY <1>0, <1>b, <2>1, ProbeAssumption, FieldAssumption DEF TypeOK, Settings, Spent
  <2>3. AtHome => AtHome'
    BY <1>b, <1>c, <2>1, <2>2 DEF AtHome
  <2> QED BY <1>b, <1>c, <2>1, <2>2, <2>3
          DEF capVars, taskVars, userVars, LinkHome, NobodyAsked, WantHome
<1>5. CASE UnitDown
  BY <1>b, <1>5 DEF UnitDown, Disturb, Spent
<1>6. CASE UnitBack \/ Silence
  BY <1>6 DEF UnitBack, Silence, LinkHome
<1>7. CASE GraceElapses /\ UNCHANGED capVars
  <2>1. /\ pc = "idle" /\ ~graceOver /\ graceOver' /\ unitUp
        /\ connected => current = unit /\ ~MustFlush /\ rx = <<>>
        /\ UNCHANGED <<pumpVars, remote, sync, wanted, dirty, probe, seenVars, lineVars, histVars>>
        /\ UNCHANGED <<seq, notify, run, phase>>
    BY <1>7 DEF GraceElapses, LinkHome, capVars, taskVars, userVars
  <2>2. ASSUME ~firstRun PROVE \A f \in Field \ {WV} : wanted[f] = current[f]
    BY <2>1, <2>2 DEF LinkHome, MustFlush, Differs
  <2>3. AtHome => AtHome'
    BY <1>b, <1>c, <2>1 DEF AtHome
  <2>4. ASSUME ~firstRun, ~probe.on PROVE AtHome
    <3>1. connected /\ wanted[WV] = home
      BY <2>1, <2>4 DEF LinkHome, WantHome
    <3>2. wanted[WV] = current[WV]
      BY <2>1, <2>4, <3>1, FieldAssumption DEF MustFlush, Differs
    <3> QED BY <2>1, <3>1, <3>2 DEF AtHome, ProbePC
  <2>5. firstRun => AtHome
    BY DEF LinkHome, WantHome
  <2> QED BY <1>b, <1>c, <2>1, <2>2, <2>3, <2>4, <2>5
          DEF LinkHome, NobodyAsked, WantHome, FlushPC
<1> QED BY <1>2, <1>3, <1>4, <1>5, <1>6, <1>7

(* Before the unit has been read nothing is known of the vane.            *)
LEMMA HomeStart == CapInit => HomeInv
<1> SUFFICES ASSUME CapInit PROVE HomeInv
  OBVIOUS
<1>1. rx \in Seq(HomeReport) /\ rx \in Seq(NoReport)
  BY DEF CapInit, Init
<1>2. LinkHome
  BY <1>1 DEF CapInit, Init, LinkHome, FlushPC
<1>3. NobodyAsked
  BY DEF CapInit, Init, NobodyAsked, NoRun
<1>4. WantHome
  BY <1>1 DEF CapInit, Init, WantHome, AtHome, ProbePC, FlushPC, NoSnapshot
<1> QED BY <1>2, <1>3, <1>4 DEF HomeInv

(* Every step leaves the vane home, or on a trip with the way back booked. *)
LEMMA HomeStep ==
  ASSUME TaskInv, HomeInv, CapNext
  PROVE  HomeInv'
<1> SUFFICES ASSUME HomeCase' PROVE LinkHome' /\ NobodyAsked' /\ WantHome'
  BY DEF HomeInv
<1>1. ProbeInv /\ TypeOK /\ OneShot
  BY DEF TaskInv, ProbeInv
<1>2. LinkHome /\ NobodyAsked /\ WantHome
  BY <1>1, HomeCaseBefore DEF HomeInv
<1>3. CASE Pump /\ UNCHANGED capVars
  BY <1>1, <1>2, <1>3, HomePump DEF OneShot
<1>4. CASE Detector
  BY <1>1, <1>2, <1>4, HomeDetector
<1> QED BY <1>1, <1>2, <1>3, <1>4, HomeOthers DEF CapNext

(* A probe of a motorised vane leaves no trace: whatever is lost, late or  *)
(* switched off, unless the unit itself was away or a second probe met     *)
(* what a bad line left of the first, once nothing runs and nothing is     *)
(* left to send the vane is where it was before the first probe.           *)
THEOREM VanePutBack == CapSpec => []PutBack
<1>1. TaskInv /\ HomeInv => PutBack
  <2> SUFFICES ASSUME TaskInv, HomeInv, HomeCase, phase = "idle", pc = "idle",
                      ~firstRun, ~MustFlush, current = unit
               PROVE  unit[WV] = home
    BY DEF PutBack, HomeCase
  <2>1. WantHome /\ ~probe.on
    BY DEF HomeInv, TaskInv, ProbeInv, EnforcementResumes
  <2>2. current[WV] = wanted[WV]
    BY <2>1, FieldAssumption DEF MustFlush, Differs
  <2> QED BY <2>1, <2>2 DEF WantHome, AtHome
<1>2. TaskInv /\ HomeInv /\ [CapNext]_allVars => TaskInv' /\ HomeInv'
  <2>1. CASE UNCHANGED allVars
    BY <2>1 DEF allVars, vars, capVars, taskVars, askVars, userVars, pumpVars, wantVars,
       seenVars, lineVars, histVars, TaskInv, ProbeInv, TypeOK, CapTypeOK, RunInv, HoldInv,
       VerdictInv, EnforcementResumes, OneShot, Counted, HomeInv, HomeCase, FaultlessLine,
       LinkHome, NobodyAsked, WantHome, AtHome, HomeReport, NoReport
  <2> QED BY <2>1, TaskStep, HomeStep
<1> QED BY <1>1, <1>2, TaskStart, HomeStart, PTL DEF CapSpec

-------------------------------------------------------------------------------
(* A motor is not overlooked on a quiet line                               *)

(* Only the vane is commanded, and every frame is answered in time.        *)
QuietCase == motor /\ OnlyVaneCommanded /\ spent.external = 0 /\ FaultlessLine

Waits == {"connWait", "probeAck", "flushAck", "infoWait"}

(* What a wait waits for is there; nothing else ever is.                   *)
QuietLine ==
  /\ unitUp /\ ~silent /\ ~remote
  /\ pc = "connWait" => rx = <<Reply("conn")>>
  /\ pc \in {"probeAck", "flushAck"} => rx = <<Reply("ack")>>
  /\ pc = "infoWait" => rx \in {<<SettingsReply>>, <<Reply("status")>>}
  /\ pc \notin Waits => rx = <<>>

(* The published settings are the driver's, which nobody has seen only     *)
(* while the vane in them is where it is.                                  *)
PubFollows ==
  /\ firstRun => current = Default /\ pub.set = Default /\ pc \notin FlushPC
  /\ pub.set = current \/ (pc = "publish" /\ current[WV] = unit[WV])

OthersSettled ==
  /\ dirty \subseteq {WV}
  /\ \A f \in Field \ {WV} :
       /\ ~firstRun => wanted[f] = current[f] /\ current[f] = unit[f]
       /\ pc \in FlushPC => snap.wanted[f] = current[f]
       /\ pc \in {"probeDrain", "probeSend"} => snap.shot[f] = current[f]

(* A flush moves the vane to what its ACK will echo.                       *)
FlushCarries ==
  /\ pc \in {"flushDrain", "flushSend"} => current[WV] # snap.wanted[WV]
  /\ pc = "flushAck" => unit[WV] = snap.wanted[WV]

(* Once its shot is out a running probe has the vane at its target, and no *)
(* flush is on its way that would take it from there.                      *)
ShotInv ==
  /\ phase = "begin" => pc \notin ProbePC
  /\ probe.on =>
       /\ probe.target = run.target
       /\ pc \in ProbePC => probe.queued /\ snap.shot[WV] = run.target
       /\ pc = "probeAck" \/ ~probe.queued => unit[WV] = run.target
       /\ pc \in FlushPC => probe.queued

(* What the task has seen is where the vane is and stays.                  *)
SightInv ==
  /\ phase # "idle" => ~firstRun
  /\ phase = "begin" \/ probe.on =>
       (pub.set[WV] = run.target =>
          current[WV] = run.target /\ unit[WV] = run.target /\ pc \notin FlushPC)

(* So the acceptance ends within PollLag samples, and no sample of the hold *)
(* is off the target.                                                      *)
QuietRun ==
  /\ phase = "begin" => run.age = 0
  /\ phase = "accept" => run.age <= PollLag
  /\ phase = "acceptLook" /\ run.age >= PollLag => pub.set[WV] = run.target
  /\ phase \in {"hold", "holdLook"} => pub.set[WV] = run.target /\ run.off = 0
  /\ run.verdict # "Unsupported" /\ detect # "Unsupported"

QuietDriver == QuietLine /\ PubFollows /\ OthersSettled /\ FlushCarries
QuietProbe == ShotInv /\ SightInv /\ QuietRun
QuietInv == QuietCase => QuietDriver /\ QuietProbe

(* A quiet step follows quiet ones, and is no fault.                       *)
LEMMA CalmBefore ==
  ASSUME TaskInv, CapNext, QuietCase'
  PROVE  /\ QuietCase /\ motor' = motor
         /\ spent'.lost = spent.lost /\ spent'.late = spent.late
         /\ spent'.outages = spent.outages /\ spent'.external = spent.external
<1>0. TypeOK /\ CapTypeOK /\ Counted
  BY DEF TaskInv, ProbeInv
<1>1. /\ spent.ops \in Nat /\ spent.lost \in Nat /\ spent.late \in Nat
      /\ spent.outages \in Nat /\ spent.external \in Nat /\ seq \in Nat
  BY <1>0 DEF TypeOK, CapTypeOK, Spent
<1>2. Grows /\ spent' \in Spent
  BY <1>0, CapSpends
<1>3. /\ spent'.ops \in Nat /\ spent'.lost \in Nat /\ spent'.late \in Nat
      /\ spent'.outages \in Nat /\ spent'.external \in Nat
  BY <1>2 DEF Spent
<1>4. /\ spent'.lost = 0 => spent.lost = 0
      /\ spent'.late = 0 => spent.late = 0
      /\ spent'.outages = 0 => spent.outages = 0
      /\ spent'.external = 0 => spent.external = 0
      /\ spent'.ops >= spent.ops
  BY <1>1, <1>2, <1>3 DEF Grows
<1>5. motor' = motor
  <2>1. CASE Detector
    BY <2>1 DEF Detector, Wake, Begin, AcceptSample, AcceptLook, HoldSample, HoldLook, Finish,
       Restore, Abort, RecordVerdict
  <2>2. CASE Commands
    BY <2>2 DEF Commands, UserWideVane, UserOther, NotifyUser, RequestWideVaneDetect,
       SetWideVaneOverride, capVars
  <2> QED BY <2>1, <2>2 DEF CapNext, LouverReverts, SwitchedOff, capVars
<1>6. OnlyVaneCommanded' => OnlyVaneCommanded
  <2>1. CASE UNCHANGED <<seq, notify>>
    BY <1>0, <1>1, <1>3, <1>4, <2>1 DEF OnlyVaneCommanded, Counted
  <2>2. ASSUME NEW v \in Value, UserWideVane(v), OnlyVaneCommanded' PROVE OnlyVaneCommanded
    <3>1. ~notify /\ notify' /\ seq' = seq /\ spent'.ops = spent.ops + 1
      BY <1>0, <2>2 DEF UserWideVane, Set, Op, TypeOK, Spent
    <3> QED BY <1>1, <2>2, <3>1 DEF OnlyVaneCommanded
  <2>3. CASE NotifyUser
    BY <1>1, <2>3 DEF NotifyUser, OnlyVaneCommanded, vars, histVars
  <2>4. CASE Detector
    BY <2>1, <2>4 DEF Detector, Wake, Begin, AcceptSample, AcceptLook, HoldSample, HoldLook,
       Finish, Restore, Abort, RecordVerdict, userVars
  <2> QED BY <2>1, <2>2, <2>3, <2>4 DEF CapNext, Commands, UserOther, RequestWideVaneDetect,
          SetWideVaneOverride, LouverReverts, SwitchedOff, capVars, userVars
<1>7. motor' /\ OnlyVaneCommanded' /\ spent'.external = 0 /\ FaultlessLine'
  BY DEF QuietCase
<1>8. motor /\ OnlyVaneCommanded
  BY <1>5, <1>6, <1>7
<1>9. /\ spent'.lost = 0 /\ spent'.late = 0 /\ spent'.outages = 0
      /\ spent.lost = 0 /\ spent.late = 0 /\ spent.outages = 0 /\ spent.external = 0
  BY <1>4, <1>7 DEF FaultlessLine
<1> QED BY <1>5, <1>7, <1>8, <1>9 DEF QuietCase, FaultlessLine

(* Where nothing is lost a frame out is obeyed and answered.               *)
LEMMA CalmTransmit ==
  ASSUME spent \in Spent, spent'.lost = spent.lost, unitUp, rx = <<>>,
         NEW results, NEW reply \in Message, Transmit(results, {<<reply>>})
  PROVE  unit' \in results /\ rx' = <<reply>> /\ UNCHANGED spent
<1>1. ~Disturb("lost", MaxLost)
  BY DEF Disturb, Spent
<1>2. unit' \in results /\ rx' = <<>> \o <<reply>> /\ UNCHANGED spent
  BY <1>1 DEF Transmit
<1>3. <<>> \o <<reply>> = <<reply>>
  OBVIOUS
<1> QED BY <1>2, <1>3

(* And where nothing is late a wait ends with its answer.                  *)
LEMMA CalmWait ==
  ASSUME spent \in Spent, spent'.late = spent.late, NoAnswer
  PROVE  rx = <<>>
<1>1. ~Disturb("late", MaxLate)
  BY DEF Disturb, Spent
<1> QED BY <1>1 DEF NoAnswer

(* The answer a wait reads.                                                *)
LEMMA CalmRead ==
  ASSUME TypeOK, QuietLine, ReadPacket
  PROVE  /\ pc \in Waits /\ rx' = <<>> /\ ~silent'
         /\ pc = "connWait" => Head(rx).kind = "conn"
         /\ pc \in {"probeAck", "flushAck"} => Head(rx).kind = "ack"
         /\ \/ UNCHANGED <<current, changed, wanted, firstRun>>
            \/ /\ pc = "infoWait" /\ current' = unit /\ ~firstRun'
               /\ wanted' = IF firstRun \/ graceOver THEN Adopted(unit) ELSE wanted
<1>1. rx # <<>> /\ rx' = Tail(rx) /\ ~silent'
  BY DEF ReadPacket, Heard
<1>2. PICK m \in Message : rx = <<m>> /\ (m.kind = "settings" => pc = "infoWait" /\ m.set = unit)
                           /\ (pc = "connWait" => m.kind = "conn")
                           /\ (pc \in {"probeAck", "flushAck"} => m.kind = "ack")
  <2>1. /\ \A k \in Kind : Reply(k) \in Message /\ Reply(k).kind = k
        /\ SettingsReply \in Message /\ SettingsReply.set = unit
        /\ SettingsReply.kind = "settings"
    BY ConstantTypes DEF Reply, SettingsReply, Message, Kind, TypeOK
  <2>2. CASE pc = "connWait"
    BY <2>1, <2>2 DEF QuietLine, Kind
  <2>3. CASE pc \in {"probeAck", "flushAck"}
    BY <2>1, <2>3 DEF QuietLine, Kind
  <2>4. CASE pc = "infoWait"
    BY <2>1, <2>4 DEF QuietLine, Kind
  <2> QED BY <1>1, <2>2, <2>3, <2>4 DEF QuietLine, Waits
<1>3. Head(rx) = m /\ rx' = <<>>
  BY <1>1, <1>2
<1> QED BY <1>1, <1>2, <1>3 DEF ReadPacket, DecodeSettings, QuietLine, Waits

(* A step that neither waits nor sends nor reads.                          *)
LEMMA CalmStill ==
  ASSUME QuietDriver,
         UNCHANGED <<firstRun, current, remote, pub, unit, unitUp, rx, silent>>,
         dirty' \subseteq dirty \cup {WV},
         \A f \in Field \ {WV} : wanted'[f] = wanted[f],
         pc' = pc \/ (pc \notin Waits \cup {"publish"} /\ pc' \notin Waits),
         pc' \in FlushPC => snap' = snap /\ (pc' = pc \/ (pc = "flushDrain" /\ pc' = "flushSend")),
         pc' \in {"probeDrain", "probeSend"} =>
           snap' = snap /\ pc \in {"probeDrain", "probeSend"}
  PROVE  QuietDriver'
<1>1. SettingsReply' = SettingsReply /\ (Reply("conn"))' = Reply("conn")
      /\ (Reply("ack"))' = Reply("ack") /\ (Reply("status"))' = Reply("status")
  BY DEF SettingsReply, Reply
<1>2. QuietLine /\ PubFollows /\ OthersSettled /\ FlushCarries
  BY DEF QuietDriver
<1>3. QuietLine'
  BY <1>1, <1>2 DEF QuietLine, Waits
<1>4. PubFollows'
  BY <1>2 DEF PubFollows, FlushPC
<1>5. OthersSettled'
  BY <1>2 DEF OthersSettled, FlushPC
<1>6. FlushCarries'
  BY <1>2 DEF FlushCarries, FlushPC
<1> QED BY <1>3, <1>4, <1>5, <1>6 DEF QuietDriver

(* What the pump does on a quiet line: nothing is silent, late or left over. *)
LEMMA CalmMoves ==
  ASSUME TypeOK, QuietLine, Pump, spent'.late = spent.late
  PROVE  \/ PumpBegin \/ BackOff \/ TooSoon \/ PollLater \/ Drained \/ Decide
         \/ SendConnect \/ PollSend \/ ProbeSend \/ FlushSend
         \/ (pc' = "publish" /\ (ConnectRead \/ ProbeRead \/ InfoRead))
         \/ FlushRead \/ PublishAndFire
<1>s. spent \in Spent
  BY DEF TypeOK
<1>n. NoAnswer => rx = <<>>
  BY <1>s, CalmWait
<1>w. <<Reply("conn")>> # <<>> /\ <<Reply("ack")>> # <<>> /\ <<Reply("status")>> # <<>>
      /\ <<SettingsReply>> # <<>>
  OBVIOUS
<1>u. ~silent /\ ~remote /\ (pc \notin Waits => rx = <<>>) /\ (pc \in Waits => rx # <<>>)
  BY <1>w DEF QuietLine, Waits
<1>1. ~(LinkLost \/ RemoteSend)
  BY <1>u DEF LinkLost, RemoteSend
<1>2. ~(ConnectTimeout \/ ProbeTimeout \/ FlushTimeout \/ InfoTimeout)
  BY <1>n, <1>u DEF ConnectTimeout, ProbeTimeout, FlushTimeout, InfoTimeout, Waits
<1>3. ~(Drain \/ FlushReadOther)
  BY CalmRead DEF Drain, FlushReadOther, Waits
<1>4. ConnectRead \/ ProbeRead \/ InfoRead => pc' = "publish"
  BY CalmRead DEF ConnectRead, ProbeRead, ProbeSent, InfoRead, Goto
<1> QED BY <1>1, <1>2, <1>3, <1>4 DEF Pump, Connecting, Probing, Flushing, Polling

(* On a quiet line the driver holds what the unit has, but for the vane,   *)
(* and of the vane it holds and publishes nothing that was never so.       *)
LEMMA CalmDriver ==
  ASSUME TypeOK, QuietDriver, motor, Pump, Faithful, UNCHANGED capVars,
         spent'.lost = spent.lost, spent'.late = spent.late
  PROVE  QuietDriver'
<1>0. QuietLine /\ PubFollows /\ OthersSettled /\ FlushCarries
  BY DEF QuietDriver
<1>s. spent \in Spent /\ WV \in Field
  BY FieldAssumption DEF TypeOK
<1>r. /\ \A k \in Kind : Reply(k) \in Message /\ (Reply(k))' = Reply(k)
      /\ SettingsReply \in Message
  BY ConstantTypes DEF Reply, SettingsReply, Message, Kind, TypeOK
<1>w. <<Reply("conn")>> # <<>> /\ <<Reply("ack")>> # <<>> /\ <<Reply("status")>> # <<>>
      /\ <<SettingsReply>> # <<>>
  OBVIOUS
<1>u. unitUp /\ ~silent /\ ~remote /\ (pc \notin Waits => rx = <<>>)
      /\ (pc \in Waits => rx # <<>>)
  BY <1>0, <1>w DEF QuietLine, Waits
<1> USE DEF pumpVars, wantVars, seenVars, lineVars, histVars, unreadVars, Goto
<1>1. CASE PumpBegin \/ BackOff \/ TooSoon \/ PollLater
  BY <1>1, CalmStill DEF PumpBegin, BackOff, TooSoon, PollLater, Waits, FlushPC
<1>2. CASE Drained
  BY <1>2, CalmStill DEF Drained, Waits, FlushPC
<1>3. CASE SendConnect
  <2>1. unit' = unit /\ rx' = <<Reply("conn")>>
    BY <1>3, <1>s, <1>u, <1>r, CalmTransmit DEF SendConnect, Waits, Kind
  <2>2. QuietLine'
    BY <1>3, <1>u, <1>r, <2>1 DEF SendConnect, QuietLine, Waits, Kind
  <2> QED BY <1>0, <1>3, <2>1, <2>2
          DEF SendConnect, QuietDriver, PubFollows, OthersSettled, FlushCarries, FlushPC
<1>4. CASE PollSend
  <2>1. PICK m \in {SettingsReply, Reply("status")} : Transmit({unit}, {<<m>>})
    BY <1>4 DEF PollSend
  <2>2. m \in Message
    BY <1>r DEF Kind
  <2>3. unit' = unit /\ rx' = <<m>>
    BY <1>4, <1>s, <1>u, <2>1, <2>2, CalmTransmit DEF PollSend, Waits
  <2>4. SettingsReply' = SettingsReply
    BY <2>3 DEF SettingsReply
  <2>5. QuietLine'
    BY <1>4, <1>u, <1>r, <2>3, <2>4 DEF PollSend, QuietLine, Waits, Kind
  <2> QED BY <1>0, <1>4, <2>3, <2>5
          DEF PollSend, QuietDriver, PubFollows, OthersSettled, FlushCarries, FlushPC
<1>5. CASE ConnectRead
  <2>1. /\ ReadPacket /\ pc = "connWait" /\ pc' = "publish"
        /\ UNCHANGED <<dirty, remote, pub, unit, unitUp>>
    BY <1>5, <1>0, CalmRead DEF ConnectRead
  <2>2. UNCHANGED <<current, wanted, firstRun>> /\ rx' = <<>> /\ ~silent'
    BY <1>0, <2>1, CalmRead
  <2> QED BY <1>0, <1>u, <2>1, <2>2
          DEF QuietDriver, QuietLine, PubFollows, OthersSettled, FlushCarries, FlushPC, Waits
<1>6. CASE ProbeRead
  <2>1. /\ ReadPacket /\ pc = "probeAck" /\ pc' = "publish"
        /\ UNCHANGED <<dirty, remote, pub, unit, unitUp>>
    BY <1>6, <1>0, CalmRead DEF ProbeRead, ProbeSent
  <2>2. UNCHANGED <<current, wanted, firstRun>> /\ rx' = <<>> /\ ~silent'
    BY <1>0, <2>1, CalmRead
  <2> QED BY <1>0, <1>u, <2>1, <2>2
          DEF QuietDriver, QuietLine, PubFollows, OthersSettled, FlushCarries, FlushPC, Waits
<1>7. CASE InfoRead
  <2>1. /\ ReadPacket /\ pc = "infoWait" /\ pc' = "publish"
        /\ UNCHANGED <<dirty, remote, pub, unit, unitUp>>
    BY <1>7 DEF InfoRead
  <2>2. rx' = <<>> /\ ~silent'
    BY <1>0, <2>1, CalmRead
  <2>3. QuietLine' /\ FlushCarries'
    BY <1>0, <1>u, <2>1, <2>2 DEF QuietLine, FlushCarries, Waits
  <2>4. CASE UNCHANGED <<current, changed, wanted, firstRun>>
    BY <1>0, <2>1, <2>3, <2>4 DEF QuietDriver, PubFollows, OthersSettled, FlushPC
  <2>5. CASE /\ current' = unit /\ ~firstRun'
             /\ wanted' = IF firstRun \/ graceOver THEN Adopted(unit) ELSE wanted
    <3>1. \A f \in Field \ {WV} : Adopted(unit)[f] = unit[f]
      BY <1>0 DEF OthersSettled, Adopted
    <3>2. \A f \in Field \ {WV} : wanted'[f] = unit[f]
      BY <1>0, <2>5, <3>1 DEF OthersSettled
    <3>3. OthersSettled' /\ PubFollows'
      BY <1>0, <2>1, <2>5, <3>2 DEF OthersSettled, PubFollows, FlushPC
    <3> QED BY <2>3, <3>3 DEF QuietDriver
  <2> QED BY <1>0, <2>1, <2>4, <2>5, CalmRead
<1>8. CASE Decide
  <2>1. /\ pc = "decide" /\ snap'.wanted = wanted
        /\ pc' \in {"probeDrain", "flushDrain", "tail"}
        /\ pc' = "flushDrain" => MustFlush
        /\ UNCHANGED <<firstRun, current, wanted, dirty, remote, pub, unit, unitUp, rx, silent>>
        /\ pc' = "probeDrain" => snap'.shot = ShotComposed
    BY <1>8 DEF Decide, Branches, Take
  <2>2. MustFlush => ~firstRun /\ wanted[WV] # current[WV]
    BY <1>0 DEF MustFlush, Differs, OthersSettled
  <2>3. QuietLine'
    BY <1>u, <2>1 DEF QuietLine, Waits
  <2>4. OthersSettled' /\ FlushCarries' /\ PubFollows'
    BY <1>0, <2>1, <2>2 DEF OthersSettled, FlushCarries, PubFollows, FlushPC, ShotComposed,
       TypeOK, Settings
  <2> QED BY <2>3, <2>4 DEF QuietDriver
<1>9. CASE ProbeSend
  <2>1. /\ unit' \in Obey(snap.shot) /\ rx' = <<Reply("ack")>>
        /\ pc = "probeSend" /\ pc' = "probeAck"
        /\ UNCHANGED <<firstRun, current, wanted, dirty, remote, pub, unitUp, silent, snap>>
    BY <1>9, <1>s, <1>u, <1>r, CalmTransmit DEF ProbeSend, Waits, Kind
  <2>2. \A f \in Field \ {WV} : unit'[f] = unit[f]
    BY <1>0, <1>s, <2>1 DEF Obey, Carried, TypeOK, Settings, OthersSettled
  <2>3. QuietLine'
    BY <1>u, <1>r, <2>1 DEF QuietLine, Waits, Kind
  <2>4. OthersSettled' /\ FlushCarries' /\ PubFollows'
    BY <1>0, <2>1, <2>2 DEF OthersSettled, FlushCarries, PubFollows, FlushPC
  <2> QED BY <2>3, <2>4 DEF QuietDriver
<1>10. CASE FlushSend
  <2>1. /\ unit' \in Obey(snap.wanted) /\ rx' = <<Reply("ack")>>
        /\ pc = "flushSend" /\ pc' = "flushAck"
        /\ UNCHANGED <<firstRun, current, wanted, dirty, remote, pub, unitUp, silent, snap>>
    BY <1>10, <1>s, <1>u, <1>r, CalmTransmit DEF FlushSend, Waits, Kind
  <2>2. \A f \in Field \ {WV} : unit'[f] = unit[f]
    BY <1>0, <1>s, <2>1 DEF Obey, Carried, TypeOK, Settings, OthersSettled, FlushPC
  <2>3. unit'[WV] = snap.wanted[WV]
    <3>1. rx' # rx
      BY <1>u, <1>w, <2>1 DEF Waits
    <3>2. WV \in Carried(snap.wanted)
      BY <1>0, <1>s, <2>1 DEF FlushCarries, Carried
    <3> QED BY <2>1, <3>1, <3>2 DEF Faithful
  <2>4. QuietLine'
    BY <1>u, <1>r, <2>1 DEF QuietLine, Waits, Kind
  <2>5. OthersSettled' /\ FlushCarries' /\ PubFollows'
    BY <1>0, <2>1, <2>2, <2>3 DEF OthersSettled, FlushCarries, PubFollows, FlushPC
  <2> QED BY <2>4, <2>5 DEF QuietDriver
<1>11. CASE FlushRead
  <2>1. /\ pc = "flushAck" /\ pc' = "publish" /\ current' = snap.wanted /\ dirty' = {}
        /\ rx' = <<>> /\ ~silent'
        /\ UNCHANGED <<firstRun, wanted, remote, pub, unit, unitUp>>
    <3>1. rx = <<Reply("ack")>> /\ rx' = Tail(rx)
      BY <1>0, <1>11 DEF FlushRead, Heard, QuietLine
    <3> QED BY <1>11, <3>1 DEF FlushRead, Heard, Echo
  <2>2. QuietLine' /\ FlushCarries'
    BY <1>u, <2>1 DEF QuietLine, FlushCarries, Waits
  <2>3. OthersSettled' /\ PubFollows'
    BY <1>0, <2>1 DEF OthersSettled, FlushCarries, PubFollows, FlushPC
  <2> QED BY <2>2, <2>3 DEF QuietDriver
<1>12. CASE PublishAndFire
  <2>1. /\ pc = "publish" /\ pc' = "idle" /\ pub'.set = current
        /\ UNCHANGED <<firstRun, current, wanted, dirty, remote, unit, unitUp, rx, silent>>
    BY <1>12 DEF PublishAndFire
  <2> QED BY <1>0, <1>u, <2>1
          DEF QuietDriver, QuietLine, OthersSettled, FlushCarries, PubFollows, FlushPC, Waits
<1> QED BY <1>0, <1>1, <1>2, <1>3, <1>4, <1>5, <1>6, <1>7, <1>8, <1>9, <1>10, <1>11, <1>12,
           CalmMoves

(* What leaves the driver's view, the probe and the task alone.            *)
LEMMA CalmSame ==
  ASSUME QuietProbe,
         UNCHANGED <<pc, firstRun, current, snap, probe, pub, unit, phase, run, detect>>
  PROVE  QuietProbe'
BY DEF QuietProbe, ShotInv, SightInv, QuietRun

(* An iteration of the pump shows a sample nothing but the target once it  *)
(* has shown the target.                                                   *)
LEMMA CalmProbe ==
  ASSUME TaskInv, QuietDriver, QuietProbe, motor, Pump, Faithful, Prompt, UNCHANGED capVars,
         spent'.lost = spent.lost, spent'.late = spent.late
  PROVE  QuietProbe'
<1>0. TypeOK /\ EnforcementResumes /\ OneShot
  BY DEF TaskInv, ProbeInv
<1>q. /\ QuietLine /\ PubFollows /\ OthersSettled /\ FlushCarries
      /\ ShotInv /\ SightInv /\ QuietRun
  BY DEF QuietDriver, QuietProbe
<1>c. UNCHANGED <<phase, run, detect>>
  BY DEF capVars, taskVars
<1>p. probe'.on = probe.on
  BY <1>0, PumpLeavesProbe
<1>s. spent \in Spent /\ WV \in Field
  BY <1>0, FieldAssumption DEF TypeOK
<1> USE DEF pumpVars, wantVars, seenVars, lineVars, histVars, unreadVars, Goto
<1>1. CASE PublishAndFire
  <2>1. /\ pub'.set = current /\ pc' = "idle" /\ pc = "publish"
        /\ UNCHANGED <<firstRun, current, probe, unit>>
    BY <1>1 DEF PublishAndFire
  <2>2. ShotInv'
    BY <1>q, <1>c, <2>1 DEF ShotInv, ProbePC, FlushPC
  <2>3. SightInv'
    BY <1>q, <1>c, <2>1 DEF SightInv, PubFollows, FlushPC
  <2>4. QuietRun'
    BY <1>0, <1>q, <1>c, <2>1 DEF QuietRun, SightInv, EnforcementResumes
  <2> QED BY <2>2, <2>3, <2>4 DEF QuietProbe
<1>2. CASE ~PublishAndFire
  <2>a. /\ pc # "publish" /\ phase \notin {"begin", "acceptLook", "holdLook"}
        /\ UNCHANGED pub
    <3>1. pc # "publish"
      BY <1>2, PublishOnly
    <3>2. pub' = pub
      BY <1>0, <1>2, <1>q, CalmMoves
      DEF PumpBegin, BackOff, TooSoon, PollLater, Drained, Decide, Take, SendConnect,
          PollSend, ProbeSend, FlushSend, ConnectRead, ProbeRead, InfoRead, FlushRead
    <3> QED BY <3>1, <3>2 DEF Prompt
  <2>b. QuietRun'
    BY <1>q, <1>c, <2>a DEF QuietRun
  <2>c. firstRun' => firstRun
    BY <1>0, <1>2, <1>q, CalmMoves
    DEF PumpBegin, BackOff, TooSoon, PollLater, Drained, Decide, Take, SendConnect,
        PollSend, ProbeSend, FlushSend, ConnectRead, ProbeRead, InfoRead, FlushRead, ReadPacket,
        DecodeSettings
  <2>d. CASE ~probe.on
    BY <1>q, <1>c, <1>p, <2>a, <2>b, <2>c, <2>d DEF QuietProbe, ShotInv, SightInv
  <2>e. CASE probe.on
    <3> SUFFICES ShotInv' /\ SightInv'
      BY <2>b DEF QuietProbe
    <3> USE <2>e
    <3>f. ~firstRun
      BY <1>0, <1>q DEF EnforcementResumes, SightInv
    <3>g. ASSUME UNCHANGED <<current, unit, probe>>,
                 pc' \notin ProbePC \cup FlushPC
                   \/ (snap' = snap /\ pc' # "probeAck"
                       /\ (pc' \in ProbePC => pc \in ProbePC)
                       /\ (pc' \in FlushPC => pc \in FlushPC))
          PROVE  ShotInv' /\ SightInv'
      BY <1>q, <1>c, <2>a, <2>c, <3>g DEF ShotInv, SightInv, ProbePC, FlushPC
    <3>1. CASE PumpBegin \/ BackOff \/ TooSoon \/ PollLater \/ Drained
      BY <3>1, <3>g DEF PumpBegin, BackOff, TooSoon, PollLater, Drained, ProbePC, FlushPC
    <3>2. CASE SendConnect \/ PollSend
      <4>1. unit' = unit
        BY <3>2 DEF SendConnect, PollSend, Transmit
      <4> QED BY <3>2, <3>g, <4>1 DEF SendConnect, PollSend, ProbePC, FlushPC
    <3>3. CASE Decide
      <4>1. ~MustFlush
        BY <1>q, <3>f DEF MustFlush, Differs, OthersSettled
      <4>2. /\ UNCHANGED <<current, unit, probe>> /\ snap'.probe = probe
            /\ \/ pc' = "probeDrain" /\ probe.queued /\ snap'.shot = ShotComposed
               \/ pc' = "tail"
        BY <3>3, <4>1 DEF Decide, Branches, Take
      <4>3. ShotComposed[WV] = probe.target
        BY <1>0, <1>s DEF ShotComposed, TypeOK, Settings
      <4> QED BY <4>3, <1>q, <1>c, <2>a, <2>c, <4>2 DEF ShotInv, SightInv, ProbePC, FlushPC
    <3>4. CASE ProbeSend
      <4>1. rx' # rx
        <5>1. rx' = <<Reply("ack")>> /\ rx = <<>>
          BY <1>0, <1>q, <1>s, <3>4, ConstantTypes, CalmTransmit
          DEF ProbeSend, QuietLine, Waits, Kind
        <5> QED BY <5>1
      <4>2. /\ pc = "probeSend" /\ pc' = "probeAck" /\ UNCHANGED <<current, snap, probe>>
            /\ unit'[WV] = snap.shot[WV] \/ WV \notin Carried(snap.shot)
            /\ unit' \in Obey(snap.shot) \cup {unit}
        BY <3>4, <4>1 DEF ProbeSend, Faithful, Transmit
      <4>3. unit'[WV] = run.target
        <5>1. snap.shot[WV] = run.target
          BY <1>q, <4>2 DEF ShotInv, ProbePC
        <5>2. CASE WV \notin Carried(snap.shot)
          <6>1. current[WV] = run.target /\ pub.set = current
            BY <1>q, <1>s, <4>2, <5>1, <5>2 DEF Carried, PubFollows
          <6>2. unit[WV] = run.target
            BY <1>q, <6>1 DEF SightInv
          <6> QED BY <1>s, <4>2, <5>2, <6>2 DEF Obey
        <5> QED BY <4>2, <5>1, <5>2
      <4> QED BY <1>q, <1>c, <2>a, <2>c, <4>2, <4>3 DEF ShotInv, SightInv, ProbePC, FlushPC
    <3>5. CASE FlushSend
      <4>1. pc = "flushSend" /\ pc' = "flushAck" /\ UNCHANGED <<current, snap, probe>>
        BY <3>5 DEF FlushSend
      <4> QED BY <1>q, <1>c, <2>a, <2>c, <4>1 DEF ShotInv, SightInv, ProbePC, FlushPC
    <3>6. CASE FlushRead
      <4>1. pc = "flushAck" /\ pc' = "publish" /\ UNCHANGED <<unit, probe>>
        BY <3>6 DEF FlushRead
      <4> QED BY <1>q, <1>c, <2>a, <2>c, <4>1 DEF ShotInv, SightInv, ProbePC, FlushPC
    <3>7. CASE pc' = "publish" /\ ConnectRead
      <4>1. UNCHANGED <<current, unit, probe>>
        BY <1>0, <1>q, <3>7, CalmRead DEF ConnectRead
      <4> QED BY <3>7, <3>g, <4>1 DEF ProbePC, FlushPC
    <3>8. CASE pc' = "publish" /\ ProbeRead
      <4>1. /\ pc = "probeAck" /\ UNCHANGED <<current, unit>> /\ probe'.target = probe.target
        BY <1>0, <1>q, <3>8, CalmRead DEF ProbeRead, ProbeSent, TypeOK, Probe
      <4> QED BY <1>q, <1>c, <1>p, <2>a, <2>c, <3>8, <4>1
              DEF ShotInv, SightInv, ProbePC, FlushPC
    <3>9. CASE pc' = "publish" /\ InfoRead
      <4>1. UNCHANGED <<unit, probe>> /\ current' \in {current, unit}
        BY <1>0, <1>q, <3>9, CalmRead DEF InfoRead
      <4> QED BY <1>q, <1>c, <2>a, <2>c, <3>9, <4>1 DEF ShotInv, SightInv, ProbePC, FlushPC
    <3> QED BY <1>0, <1>2, <1>q, <3>1, <3>2, <3>3, <3>4, <3>5, <3>6, <3>7, <3>8, <3>9, CalmMoves
  <2> QED BY <2>d, <2>e
<1> QED BY <1>1, <1>2

(* A step of the task that concludes something concludes no "unsupported". *)
LEMMA CalmTask ==
  ASSUME TaskInv, QuietDriver, QuietProbe, Detector
  PROVE  QuietDriver' /\ QuietProbe'
<1>0. TypeOK /\ CapTypeOK /\ RunInv /\ EnforcementResumes /\ OneShot
  BY DEF TaskInv, ProbeInv
<1>q. /\ QuietLine /\ PubFollows /\ OthersSettled /\ FlushCarries
      /\ ShotInv /\ SightInv /\ QuietRun
  BY DEF QuietDriver, QuietProbe
<1>t. /\ run \in Run /\ run.age \in Nat /\ run.off \in 0 .. RevertConfirm
      /\ PollLag \in Nat /\ AcceptSamples \in Nat /\ RevertConfirm \in Nat
      /\ RevertConfirm > 0 /\ AcceptSamples > PollLag /\ WV \in Field
  BY <1>0, RunFields, TimingAssumption, FieldAssumption DEF CapTypeOK
<1> USE DEF pumpVars, wantVars, seenVars, lineVars, histVars
<1>d. QuietDriver'
  <2>1. /\ UNCHANGED <<pc, snap, firstRun, current, remote, pub, unit, unitUp, rx, silent>>
        /\ dirty' \subseteq dirty \cup {WV}
        /\ \A f \in Field \ {WV} : wanted'[f] = wanted[f]
    <3>1. CASE Wake \/ Begin \/ Abort
      BY <3>1 DEF Wake, Begin, Abort, BeginWideVaneProbe, AbortWideVaneProbe
    <3>2. CASE Restore
      BY <1>0, <3>2 DEF Restore, EndWideVaneProbeRestore, Record, TypeOK, Settings
    <3>3. CASE AcceptSample \/ AcceptLook \/ HoldSample \/ HoldLook \/ Finish \/ RecordVerdict
      BY <3>3 DEF AcceptSample, AcceptLook, HoldSample, HoldLook, Finish, RecordVerdict, vars
    <3> QED BY <3>1, <3>2, <3>3 DEF Detector
  <2> QED BY <2>1, CalmStill
<1>v. ASSUME UNCHANGED vars PROVE UNCHANGED <<pc, firstRun, current, snap, probe, pub, unit>>
  BY <1>v DEF vars
<1>p. QuietProbe'
  <2>1. CASE Wake
    <3>1. CASE UNCHANGED <<phase, run>>
      BY <2>1, <3>1, CalmSame DEF Wake
    <3>2. CASE ~UNCHANGED <<phase, run>>
      <4>1. /\ Rested /\ UnitReady /\ phase = "idle" /\ phase' = "begin"
            /\ run' = [NoRun EXCEPT !.pre = pub.set[WV], !.seq0 = seq,
                                    !.target = ProbeTarget(pub.set[WV])]
            /\ UNCHANGED <<pc, firstRun, current, snap, probe, pub, unit, detect>>
        BY <2>1, <3>2 DEF Wake
      <4>2. /\ run'.target = ProbeTarget(pub.set[WV]) /\ run'.age = 0
            /\ run'.verdict = "Unknown"
        BY <4>1 DEF NoRun
      <4>3. ProbeTarget(pub.set[WV]) # pub.set[WV]
        BY ProbeAssumption DEF ProbeTarget
      <4>4. ~firstRun
        <5>1. Default[PW] # On
          BY FieldAssumption, ProbeAssumption DEF Default
        <5> QED BY <1>q, <4>1, <5>1 DEF UnitReady, PubFollows
      <4>5. ~probe.on /\ pc \notin ProbePC
        BY <1>0, <4>1 DEF EnforcementResumes, Rested, ProbePC
      <4> QED BY <1>q, <4>1, <4>2, <4>3, <4>4, <4>5 DEF QuietProbe, ShotInv, SightInv, QuietRun
    <3> QED BY <3>1, <3>2
  <2>2. CASE Begin
    <3>1. /\ phase = "begin" /\ phase' = "accept"
          /\ probe' = [on |-> TRUE, queued |-> TRUE, target |-> run.target]
          /\ UNCHANGED <<pc, firstRun, current, snap, pub, unit, run, detect>>
      BY <2>2 DEF Begin, BeginWideVaneProbe
    <3> QED BY <1>q, <1>t, <3>1 DEF QuietProbe, ShotInv, SightInv, QuietRun, ProbePC
  <2>f. ASSUME NEW v \in {"Supported", "Inconclusive"}, FinishAs(v), UNCHANGED vars,
               UNCHANGED detect, phase # "idle"
        PROVE  QuietProbe'
    <3>1. /\ run'.verdict = v /\ run'.target = run.target /\ run'.age = run.age
          /\ run'.off = run.off /\ phase' = "finish"
      BY <1>t, <2>f DEF FinishAs, Run
    <3> QED BY <1>q, <1>v, <2>f, <3>1 DEF QuietProbe, ShotInv, SightInv, QuietRun
  <2>3. CASE AcceptSample
    <3>1. phase = "accept" /\ TimelyAccept /\ UNCHANGED vars /\ UNCHANGED detect
      BY <2>3 DEF AcceptSample
    <3>2. run.age # AcceptSamples
      BY <1>q, <1>t, <3>1 DEF QuietRun
    <3>3. CASE Disturbed
      BY <2>3, <2>f, <3>1, <3>2, <3>3 DEF AcceptSample
    <3>4. CASE ~Disturbed
      <4>1. phase' = "acceptLook" /\ run' = run
        BY <2>3, <3>2, <3>4 DEF AcceptSample
      <4>2. run.age >= PollLag => pub.set[WV] = run.target
        BY <1>0, <1>q, <3>1, <3>4
        DEF TimelyAccept, CaughtUp, Disturbed, UnitReady, EnforcementResumes, ShotInv
      <4> QED BY <1>q, <1>v, <3>1, <4>1, <4>2 DEF QuietProbe, ShotInv, SightInv, QuietRun
    <3> QED BY <3>3, <3>4
  <2>4. CASE AcceptLook
    <3>1. /\ phase = "acceptLook" /\ run.off = 0 /\ UNCHANGED vars /\ UNCHANGED detect
      BY <1>0, <2>4 DEF AcceptLook, RunInv
    <3>2. CASE pub.set[WV] = run.target /\ phase' = "hold" /\ run' = [run EXCEPT !.age = 0]
      <4>1. /\ run'.verdict = run.verdict /\ run'.target = run.target /\ run'.off = 0
        BY <1>t, <3>1, <3>2 DEF Run
      <4> QED BY <1>q, <1>v, <3>1, <3>2, <4>1 DEF QuietProbe, ShotInv, SightInv, QuietRun
    <3>3. CASE /\ pub.set[WV] # run.target /\ phase' = "accept"
               /\ run' = [run EXCEPT !.age = @ + 1]
      <4>1. /\ run'.verdict = run.verdict /\ run'.target = run.target
            /\ run'.age = run.age + 1
        BY <1>t, <3>3 DEF Run
      <4>2. run.age + 1 <= PollLag
        BY <1>q, <1>t, <3>1, <3>3 DEF QuietRun
      <4> QED BY <1>q, <1>v, <3>1, <3>3, <4>1, <4>2 DEF QuietProbe, ShotInv, SightInv, QuietRun
    <3> QED BY <2>4, <3>2, <3>3 DEF AcceptLook
  <2>5. CASE HoldSample
    <3>1. phase = "hold" /\ UNCHANGED vars /\ UNCHANGED detect
      BY <2>5 DEF HoldSample
    <3>2. CASE phase' = "finish"
      BY <2>5, <2>f, <3>1, <3>2 DEF HoldSample
    <3>3. CASE phase' # "finish"
      <4>1. phase' = "holdLook" /\ run' = run
        BY <2>5, <3>3 DEF HoldSample, FinishAs
      <4> QED BY <1>q, <1>v, <3>1, <4>1 DEF QuietProbe, ShotInv, SightInv, QuietRun
    <3> QED BY <3>2, <3>3
  <2>6. CASE HoldLook
    <3>1. /\ phase = "holdLook" /\ pub.set[WV] = run.target
          /\ UNCHANGED vars /\ UNCHANGED detect
      BY <1>q, <2>6 DEF HoldLook, QuietRun
    <3>2. phase' = "hold" /\ run' = [run EXCEPT !.age = @ + 1, !.off = 0]
      BY <1>t, <2>6, <3>1 DEF HoldLook
    <3>3. run'.verdict = run.verdict /\ run'.target = run.target /\ run'.off = 0
      BY <1>t, <3>2 DEF Run
    <3> QED BY <1>q, <1>v, <3>1, <3>2, <3>3 DEF QuietProbe, ShotInv, SightInv, QuietRun
  <2>7. CASE Finish
    <3>1. /\ phase = "finish" /\ phase' \in {"abort", "restore"}
          /\ UNCHANGED vars /\ UNCHANGED <<run, detect>>
      BY <2>7 DEF Finish
    <3> QED BY <1>q, <1>v, <3>1 DEF QuietProbe, ShotInv, SightInv, QuietRun
  <2>8. CASE Restore \/ Abort
    <3>1. /\ phase \in {"restore", "abort"} /\ phase' = "record" /\ ~probe'.on
          /\ UNCHANGED <<pc, firstRun, current, snap, pub, unit, run, detect>>
      BY <1>0, <2>8 DEF Restore, Abort, EndWideVaneProbeRestore, AbortWideVaneProbe, ProbeOff,
         TypeOK, Probe
    <3> QED BY <1>q, <3>1 DEF QuietProbe, ShotInv, SightInv, QuietRun
  <2>9. CASE RecordVerdict
    <3>1. /\ phase = "record" /\ phase' = "idle" /\ run' = NoRun
          /\ detect' \in {detect, run.verdict} /\ UNCHANGED vars
      BY <2>9 DEF RecordVerdict
    <3>2. ~probe.on /\ run'.verdict = "Unknown"
      BY <1>0, <3>1 DEF EnforcementResumes, NoRun
    <3> QED BY <1>q, <1>v, <3>1, <3>2 DEF QuietProbe, ShotInv, SightInv, QuietRun
  <2> QED BY <2>1, <2>2, <2>3, <2>4, <2>5, <2>6, <2>7, <2>8, <2>9 DEF Detector
<1> QED BY <1>d, <1>p

(* The commands a quiet line allows are the vane's, and nothing befalls    *)
(* its unit.                                                               *)
LEMMA CalmOthers ==
  ASSUME TaskInv, QuietDriver, QuietProbe, QuietCase, QuietCase', CapNext,
         Commands \/ LouverReverts \/ SwitchedOff
           \/ ((UnitDown \/ UnitBack \/ Silence \/ GraceElapses) /\ UNCHANGED capVars)
  PROVE  QuietDriver' /\ QuietProbe'
<1>0. TypeOK /\ CapTypeOK
  BY DEF TaskInv, ProbeInv
<1>b. /\ motor /\ spent \in Spent /\ spent.ops \in Nat /\ spent.external \in Nat
      /\ spent.outages \in Nat /\ seq \in Nat /\ WV \in Field /\ unitUp
      /\ spent'.external = spent.external /\ spent'.outages = spent.outages
  BY <1>0, CalmBefore, FieldAssumption
  DEF QuietCase, TypeOK, CapTypeOK, Spent, QuietDriver, QuietLine
<1> USE DEF pumpVars, wantVars, seenVars, lineVars, histVars
<1>s. ASSUME UNCHANGED <<pc, firstRun, current, snap, probe, pub, unit, remote, unitUp, rx,
                         silent, phase, run, detect>>,
             dirty' \subseteq dirty \cup {WV},
             \A f \in Field \ {WV} : wanted'[f] = wanted[f]
      PROVE  QuietDriver' /\ QuietProbe'
  BY <1>s, CalmStill, CalmSame
<1>1. CASE Commands
  <2>1. ASSUME NEW v \in Value, UserWideVane(v) PROVE QuietDriver' /\ QuietProbe'
    <3>1. Set(WV, v) /\ UNCHANGED <<phase, run, detect>>
      BY <2>1 DEF UserWideVane, taskVars
    <3>2. /\ UNCHANGED <<pc, firstRun, current, snap, probe, pub, unit, remote, unitUp, rx,
                         silent>>
          /\ dirty' = dirty \cup {WV} /\ wanted' = [wanted EXCEPT ![WV] = v]
      BY <3>1 DEF Set, Record
    <3>3. \A f \in Field \ {WV} : wanted'[f] = wanted[f]
      BY <1>0, <3>2 DEF TypeOK, Settings
    <3> QED BY <1>s, <3>1, <3>2, <3>3
  <2>2. ASSUME Op, UNCHANGED <<seq, notify>> PROVE FALSE
    <3>1. spent'.ops = spent.ops + 1
      BY <1>b, <2>2 DEF Op, Spent
    <3> QED BY <1>b, <2>2, <3>1 DEF QuietCase, OnlyVaneCommanded
  <2>3. CASE NotifyUser \/ RequestWideVaneDetect
    <3>1. UNCHANGED <<vars, phase, run, detect>>
      BY <2>3 DEF NotifyUser, RequestWideVaneDetect, taskVars
    <3> QED BY <1>s, <3>1 DEF vars
  <2> QED BY <1>1, <2>1, <2>2, <2>3
          DEF Commands, UserOther, Set, SetWideVaneOverride, capVars, userVars
<1>2. CASE LouverReverts \/ SwitchedOff \/ UnitDown \/ UnitBack \/ Silence
  <2>1. SwitchedOff => spent'.external = spent.external + 1
    BY <1>b DEF SwitchedOff, ExternalChange, Disturb, Spent
  <2>2. UnitDown => spent'.outages = spent.outages + 1
    BY <1>b DEF UnitDown, Disturb, Spent
  <2> QED BY <1>b, <1>2, <2>1, <2>2 DEF LouverReverts, UnitBack, Silence
<1>3. CASE GraceElapses /\ UNCHANGED capVars
  BY <1>s, <1>3 DEF GraceElapses, capVars, taskVars
<1> QED BY <1>1, <1>2, <1>3

(* At start-up nothing is on the line and nothing has been seen.           *)
LEMMA CalmStart == CapInit => QuietInv
<1> SUFFICES ASSUME CapInit PROVE QuietDriver /\ QuietProbe
  BY DEF QuietInv
<1>1. QuietDriver
  BY DEF CapInit, Init, QuietDriver, QuietLine, PubFollows, OthersSettled, FlushCarries, Waits,
     FlushPC
<1>2. QuietProbe
  BY DEF CapInit, Init, QuietProbe, ShotInv, SightInv, QuietRun, ProbePC, NoSnapshot, NoRun
<1> QED BY <1>1, <1>2

(* Every step of a quiet line keeps the vane where the task has seen it.   *)
LEMMA CalmStep ==
  ASSUME TaskInv, QuietInv, CapNext
  PROVE  QuietInv'
<1> SUFFICES ASSUME QuietCase' PROVE QuietDriver' /\ QuietProbe'
  BY DEF QuietInv
<1>1. /\ QuietCase /\ motor /\ spent'.lost = spent.lost /\ spent'.late = spent.late
      /\ QuietDriver /\ QuietProbe /\ TypeOK
  BY CalmBefore DEF QuietInv, QuietCase, TaskInv, ProbeInv
<1>2. CASE Pump /\ Faithful /\ Prompt /\ UNCHANGED capVars
  BY <1>1, <1>2, CalmDriver, CalmProbe
<1>3. CASE Detector
  BY <1>1, <1>3, CalmTask
<1> QED BY <1>1, <1>2, <1>3, CalmOthers DEF CapNext

(* A motorised vane is never hidden on a line without faults, whatever the *)
(* users do with the vane meanwhile and however the task, the pump and the *)
(* setters interleave: a published target is where the vane is and stays   *)
(* until the probe ends, so no look of the hold takes a stale snapshot for *)
(* a louver falling back, and the acceptance does not run out.             *)
THEOREM VerdictRight == CapSpec => []QuietVerdictRight
<1>1. QuietInv => QuietVerdictRight
  BY DEF QuietInv, QuietCase, QuietVerdictRight, QuietProbe, QuietRun
<1>2. TaskInv /\ QuietInv /\ [CapNext]_allVars => TaskInv' /\ QuietInv'
  <2>1. CASE UNCHANGED allVars
    <3>1. TaskInv => TaskInv'
      BY <2>1 DEF allVars, vars, capVars, taskVars, askVars, userVars, pumpVars, wantVars,
         seenVars, lineVars, histVars, TaskInv, ProbeInv, TypeOK, CapTypeOK, RunInv, HoldInv,
         VerdictInv, EnforcementResumes, OneShot, Counted
    <3>2. QuietInv => QuietInv'
      BY <2>1 DEF allVars, vars, capVars, taskVars, askVars, userVars, pumpVars, wantVars,
         seenVars, lineVars, histVars, QuietInv, QuietCase, OnlyVaneCommanded, FaultlessLine,
         QuietDriver, QuietLine, PubFollows, OthersSettled, FlushCarries, QuietProbe, ShotInv,
         SightInv, QuietRun, Reply, SettingsReply
    <3> QED BY <3>1, <3>2
  <2> QED BY <2>1, TaskStep, CalmStep
<1> QED BY <1>1, <1>2, TaskStart, CalmStart, PTL DEF CapSpec
=============================================================================
