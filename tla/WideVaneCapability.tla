------------------------ MODULE WideVaneCapability ------------------------
(***************************************************************************)
(* Wide-vane detection (main/capability.cpp) on top of the driver: a task  *)
(* that commands an off-centre position once, with the driver's own        *)
(* enforcement suspended, and judges from the published position whether   *)
(* the louver has a motor; and the user commands that may interrupt it.    *)
(*                                                                         *)
(* Time is counted in samples (kSampleMs).  What the code's durations      *)
(* relate, the guards Timely... relate: a poll is seen within PollLag      *)
(* samples, a louver without a motor is back within RevertSamples.         *)
(***************************************************************************)
EXTENDS Cn105Driver

CONSTANTS
  PW, On, Off,            \* the power field and two of its values
  Right, Left,            \* ">>" and "<<"
  Detent,                 \* where a louver without a motor falls back to
  AcceptSamples,          \* kAcceptTimeoutMs
  HoldSamples,            \* kHoldMs
  RevertConfirm,          \* kRevertConfirm
  RevertSamples, PollLag  \* of the unit and of the line

ASSUME ProbeAssumption ==
  /\ PW \in Field \ {WV}
  /\ {On, Off, Right, Left, Detent} \subseteq Value
  /\ On # Off /\ Right # Left /\ Detent \notin {Right, Left}

ASSUME TimingAssumption ==
  /\ {AcceptSamples, HoldSamples, RevertConfirm, RevertSamples, PollLag} \subseteq Nat
  /\ RevertConfirm > 0
  /\ AcceptSamples > PollLag
  /\ HoldSamples >= RevertSamples + PollLag + RevertConfirm

VARIABLES
  motor,      \* has the louver a motor? (the driver's Powered is FALSE: both
              \* kinds of answer to a SET are possible, see Faithful)
  home,       \* history: where the wide vane was at first
  phase,      \* where detect_task is
  run,        \* run_probe's locals
  detect,     \* s_detect
  override,   \* s_override
  manual,     \* s_manual_request
  seq,        \* s_user_seq
  notify      \* on_mqtt_command has set the vane and not yet told capability

taskVars == <<phase, run, detect>>
askVars == <<override, manual>>
userVars == <<seq, notify>>
capVars == <<motor, home, taskVars, askVars, userVars>>
allVars == <<vars, capVars>>

Phase == {"idle", "begin", "accept", "acceptLook", "hold", "holdLook", "finish",
          "restore", "abort", "record"}
Verdict == {"Unknown", "Supported", "Unsupported", "Inconclusive"}
Override == {"Auto", "ForceShow", "ForceHide"}

NoRun == [pre |-> Placeholder, target |-> Placeholder, seq0 |-> 0, age |-> 0,
          off |-> 0, verdict |-> "Unknown"]

Run == [pre : Setting, target : Setting, seq0 : Nat,
        age : 0 .. AcceptSamples + HoldSamples, off : 0 .. RevertConfirm,
        verdict : Verdict]

CapTypeOK ==
  /\ motor \in BOOLEAN /\ manual \in BOOLEAN /\ notify \in BOOLEAN
  /\ phase \in Phase
  /\ run \in Run
  /\ detect \in Verdict \ {"Inconclusive"}
  /\ override \in Override
  /\ seq \in Nat

-----------------------------------------------------------------------------
(* Commands                                                                *)

(* on_mqtt_command, WideVane: the setter, then the notification. *)
UserWideVane(v) ==
  /\ ~notify
  /\ Set(WV, v)
  /\ notify' = TRUE
  /\ UNCHANGED <<motor, home, taskVars, askVars, seq>>

NotifyUser ==
  /\ notify
  /\ notify' = FALSE
  /\ seq' = seq + 1
  /\ UNCHANGED <<vars, motor, home, taskVars, askVars>>

UserOther(f, v) ==
  /\ f # WV
  /\ Set(f, v)
  /\ UNCHANGED capVars

RequestWideVaneDetect ==
  /\ ~manual
  /\ manual' = TRUE
  /\ UNCHANGED <<vars, motor, home, taskVars, override, userVars>>

SetWideVaneOverride(o) ==
  /\ Op
  /\ override' = o
  /\ UNCHANGED <<pumpVars, wantVars, seenVars, lineVars, intent, motor, home,
                 taskVars, manual, userVars>>

-----------------------------------------------------------------------------
(* detect_task and run_probe                                               *)

UnitReady == pub.connected /\ pub.set[PW] = On

Disturbed == seq # run.seq0 \/ ~UnitReady

ProbeTarget(v) == IF v = Right THEN Left ELSE Right

FaultlessLine == spent.lost = 0 /\ spent.late = 0 /\ spent.outages = 0

(* kIdlePollMs, the pause of the loop, outlasts an iteration of the pump.   *)
(* When nothing was commanded, lost or late it also outlasts the flush of   *)
(* the restored position and its publication.                              *)
Rested ==
  /\ pc \notin {"probeDrain", "probeSend", "probeAck"}
  /\ spent.probes > 0 /\ spent.ops = 0 /\ FaultlessLine =>
       wanted[WV] = unit[WV] /\ pub.set[WV] = unit[WV]

(* One turn of the loop up to begin_probe.  Whether the retry of an        *)
(* inconclusive run is due is a choice.                                    *)
Wake ==
  /\ phase = "idle"
  /\ manual' = FALSE
  /\ \/ /\ manual \/ (detect = "Unknown" /\ override # "ForceHide")
        /\ UnitReady
        /\ Rested
        /\ Disturb("probes", MaxProbes)
        /\ phase' = "begin"
        /\ run' = [NoRun EXCEPT !.pre = pub.set[WV], !.seq0 = seq,
                                !.target = ProbeTarget(pub.set[WV])]
     \/ /\ manual => (~UnitReady \/ ~(spent.probes < MaxProbes))
        /\ UNCHANGED <<phase, run, spent>>
  /\ UNCHANGED <<pumpVars, wantVars, seenVars, lineVars, intent, motor, home, detect,
                 override, userVars>>

Begin ==
  /\ phase = "begin"
  /\ BeginWideVaneProbe(run.target)
  /\ phase' = "accept"
  /\ UNCHANGED <<spent, motor, home, run, detect, askVars, userVars>>

FinishAs(v) == phase' = "finish" /\ run' = [run EXCEPT !.verdict = v]

(* A poll has been answered since the unit last moved, or the link is known *)
(* to be down: no older reply and no echo is still to come.                *)
CaughtUp ==
  pub.connected =>
    /\ unitUp /\ ~probe.queued
    /\ pub.set[WV] = unit[WV] /\ current[WV] = unit[WV]
    /\ rx = <<>> /\ pc # "flushAck"

(* The notification follows its setter at once: no sample falls between    *)
(* them, though the end of a probe may.                                    *)
TimelyAccept == ~notify /\ (run.age >= PollLag => CaughtUp)

TimelyHold ==
  /\ ~notify
  /\ run.age >= RevertSamples => motor \/ unit[WV] = Detent
  /\ run.age >= RevertSamples + PollLag => CaughtUp

AcceptSample ==
  /\ phase = "accept"
  /\ TimelyAccept
  /\ IF run.age = AcceptSamples THEN FinishAs("Unsupported")
     ELSE IF Disturbed THEN FinishAs("Inconclusive")
     ELSE phase' = "acceptLook" /\ UNCHANGED run
  /\ UNCHANGED <<vars, motor, home, detect, askVars, userVars>>

(* Seeded fault: taken once is held for ever. *)
AcceptIsEnough ==
  /\ phase = "acceptLook"
  /\ IF pub.set[WV] = run.target THEN FinishAs("Supported")
     ELSE phase' = "accept" /\ run' = [run EXCEPT !.age = @ + 1]
  /\ UNCHANGED <<vars, motor, home, detect, askVars, userVars>>

AcceptLook ==
  /\ phase = "acceptLook"
  /\ \/ /\ pub.set[WV] = run.target
        /\ phase' = "hold"
        /\ run' = [run EXCEPT !.age = 0]
     \/ /\ pub.set[WV] # run.target
        /\ phase' = "accept"
        /\ run' = [run EXCEPT !.age = @ + 1]
  /\ UNCHANGED <<vars, motor, home, detect, askVars, userVars>>

HoldSample ==
  /\ phase = "hold"
  /\ TimelyHold
  /\ IF run.age = HoldSamples THEN FinishAs("Supported")
     ELSE IF Disturbed THEN FinishAs("Inconclusive")
     ELSE phase' = "holdLook" /\ UNCHANGED run
  /\ UNCHANGED <<vars, motor, home, detect, askVars, userVars>>

HoldLook ==
  /\ phase = "holdLook"
  /\ LET off == IF pub.set[WV] = run.target THEN 0 ELSE run.off + 1
     IN  IF off >= RevertConfirm THEN FinishAs("Unsupported")
         ELSE /\ phase' = "hold"
              /\ run' = [run EXCEPT !.age = @ + 1, !.off = off]
  /\ UNCHANGED <<vars, motor, home, detect, askVars, userVars>>

(* finish(): the counter is read, then one of two calls is made. *)
Finish ==
  /\ phase = "finish"
  /\ phase' = IF seq # run.seq0 THEN "abort" ELSE "restore"
  /\ UNCHANGED <<vars, motor, home, run, detect, askVars, userVars>>

(* Seeded faults: no way back to the old position, and a probe that is     *)
(* never switched off.                                                     *)
RestoreNothing ==
  /\ phase = "restore"
  /\ AbortWideVaneProbe
  /\ phase' = "record"
  /\ UNCHANGED <<motor, home, run, detect, askVars, userVars>>

AbortForgotten ==
  /\ phase = "abort"
  /\ phase' = "record"
  /\ UNCHANGED <<vars, motor, home, run, detect, askVars, userVars>>

Restore ==
  /\ phase = "restore"
  /\ EndWideVaneProbeRestore(run.pre)
  /\ phase' = "record"
  /\ UNCHANGED <<motor, home, run, detect, askVars, userVars>>

Abort ==
  /\ phase = "abort"
  /\ AbortWideVaneProbe
  /\ phase' = "record"
  /\ UNCHANGED <<motor, home, run, detect, askVars, userVars>>

RecordVerdict ==
  /\ phase = "record"
  /\ detect' = IF run.verdict \in {"Supported", "Unsupported"} THEN run.verdict
               ELSE detect
  /\ phase' = "idle"
  /\ run' = NoRun
  /\ UNCHANGED <<vars, motor, home, askVars, userVars>>

-----------------------------------------------------------------------------
(* The unit (external)                                                     *)

(* A motor goes where it is sent. *)
Faithful ==
  motor /\ rx' # rx =>
    /\ pc = "probeSend" => unit'[WV] = snap.shot[WV] \/ WV \notin Carried(snap.shot)
    /\ pc = "flushSend" => unit'[WV] = snap.wanted[WV] \/ WV \notin Carried(snap.wanted)

(* Two reads of the published snapshot in one sample are so close that at  *)
(* most one snapshot is published between them; so are the read of the old *)
(* position and begin_probe.                                               *)
Prompt == phase \in {"begin", "acceptLook", "holdLook"} => pc = "publish"

(* Without one the louver falls back after a while. *)
LouverReverts ==
  /\ ~motor /\ unitUp /\ unit[WV] # Detent
  /\ unit' = [unit EXCEPT ![WV] = Detent]
  /\ intent' = Owed(unit')
  /\ UNCHANGED <<pumpVars, wantVars, seenVars, unitUp, rx, silent, spent, capVars>>

(* Someone switches the unit off with the remote control. *)
SwitchedOff == ExternalChange(PW, Off) /\ UNCHANGED capVars

CapInit ==
  /\ Init
  /\ motor \in BOOLEAN /\ home = unit[WV]
  /\ unit[PW] \in {On, Off}
  /\ ~motor => unit[WV] = Detent
  /\ phase = "idle" /\ run = NoRun /\ detect = "Unknown"
  /\ override = "Auto" /\ manual = FALSE
  /\ seq = 0 /\ notify = FALSE

Detector ==
  \/ Wake \/ Begin
  \/ AcceptSample \/ AcceptLook \/ HoldSample \/ HoldLook
  \/ Finish \/ Restore \/ Abort \/ RecordVerdict

Commands ==
  \/ \E v \in Value : UserWideVane(v)
  \/ \E f \in UserField, v \in Value : UserOther(f, v)
  \/ NotifyUser
  \/ RequestWideVaneDetect
  \/ \E o \in Override : SetWideVaneOverride(o)

CapNext ==
  \/ Pump /\ Faithful /\ Prompt /\ UNCHANGED capVars
  \/ Detector
  \/ Commands
  \/ LouverReverts \/ SwitchedOff
  \/ (UnitDown \/ UnitBack \/ Silence \/ GraceElapses) /\ UNCHANGED capVars

CapSpec == CapInit /\ [][CapNext]_allVars

-----------------------------------------------------------------------------
(* A louver without a motor is never offered as a control: it may take the *)
(* commanded position for a while, and the driver must not be the one that *)
(* keeps it there.                                                         *)
ManualNotShown == detect = "Supported" => motor

(* Every command so far was one of the wide vane. *)
OnlyVaneCommanded == spent.ops = seq + (IF notify THEN 1 ELSE 0)

(* Nor is a motorised vane hidden when nobody touches anything but the     *)
(* vane and every SET is answered in time: what the driver sends, holds    *)
(* back or adopts while the probe runs is not taken for a louver falling   *)
(* back.                                                                   *)
QuietVerdictRight ==
  detect = "Unsupported" /\ OnlyVaneCommanded /\ spent.external = 0
    /\ FaultlessLine => ~motor

(* Enforcement is suspended exactly while a probe runs: no way out of      *)
(* run_probe leaves the driver blind to the wide vane.                     *)
EnforcementResumes ==
  probe.on <=> phase \in {"accept", "acceptLook", "hold", "holdLook", "finish",
                          "restore", "abort"}

(* A probe leaves no trace: when nobody has commanded the vane, the unit   *)
(* was never away, nothing runs and nothing is left to send, a motorised   *)
(* vane is where it was.  (After an outage of the unit during the probe a  *)
(* restart adopts where the probe left the vane; and on a bad line a second *)
(* probe may find the vane where the first one left it.)                   *)
PutBack ==
  motor /\ spent.ops = 0 /\ spent.outages = 0 /\ (spent.probes <= 1 \/ FaultlessLine)
    /\ phase = "idle" /\ pc = "idle"
    /\ ~firstRun /\ ~MustFlush /\ current = unit => unit[WV] = home

(* "a user change during the probe wins (abort leaves their value in        *)
(* place)", says run_probe: ending a probe does not overwrite a position   *)
(* the user commanded while it ran.                                        *)
UserWins ==
  [][phase = "restore" /\ phase' = "record" => ~notify /\ seq = run.seq0]_allVars
=============================================================================
