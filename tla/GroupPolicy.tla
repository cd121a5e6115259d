---------------------------- MODULE GroupPolicy ----------------------------
(***************************************************************************)
(* The pure rules of a group that shares a compressor (components/         *)
(* hvac_group/group_proto.cpp): what a zone asks of it, how a head sees    *)
(* the group, and what a resolution does to a zone.                        *)
(***************************************************************************)
EXTENDS Naturals, Sequences, FiniteSets, FiniteSetsExt

CONSTANT Mode   \* the modes of this instance

ASSUME ModeAssumption ==
  /\ {"HEAT", "COOL"} \subseteq Mode
  /\ Mode \subseteq {"HEAT", "COOL", "DRY", "FAN", "AUTO"}

Demands == {"Neutral", "Heat", "Cool", "Auto"}
Target == {"Heat", "Cool"}            \* parse_target_mode takes no other
Strategy == {"flip", "off"}
Zone == [on : BOOLEAN, mode : Mode]   \* power and mode are kept apart

(* classify_demand *)
Demand(z) ==
  CASE ~z.on -> "Neutral"
    [] z.on /\ z.mode = "HEAT" -> "Heat"
    [] z.on /\ z.mode \in {"COOL", "DRY"} -> "Cool"
    [] z.on /\ z.mode = "AUTO" -> "Auto"
    [] OTHER -> "Neutral"

Opposite(d) == IF d = "Heat" THEN "Cool" ELSE IF d = "Cool" THEN "Heat" ELSE "Neutral"

ModeOf(target) == IF target = "Heat" THEN "HEAT" ELSE "COOL"   \* demand_str

-----------------------------------------------------------------------------
(* plan_resolution and apply_resolve_op                                    *)

(* Seeded fault: a zone that is off is brought to the target like another. *)
PlanForAll(z, target, strat) ==
  IF Demand(z) = target THEN "none" ELSE IF strat = "off" THEN "off" ELSE "flip"

(* Seeded fault: a zone in AUTO is left alone. *)
PlanSkippingAuto(z, target, strat) ==
  IF Demand(z) # Opposite(target) THEN "none" ELSE IF strat = "off" THEN "off" ELSE "flip"

Plan(z, target, strat) ==
  IF ~z.on \/ Demand(z) \in {"Neutral", target} THEN "none"
  ELSE IF strat = "off" THEN "off" ELSE "flip"

(* What the command of a plan makes of a zone: a mode switches it on. *)
Commanded(z, plan, target) ==
  CASE plan = "off" -> [z EXCEPT !.on = FALSE]
    [] plan = "flip" -> [on |-> TRUE, mode |-> ModeOf(target)]
    [] OTHER -> z

(* A zone that does not work against the target. *)
InLine(z, target) == Demand(z) \in {"Neutral", target}

-----------------------------------------------------------------------------
(* evaluate_group                                                          *)

MemberState == {"SelfKnown", "Known", "Unknown", "Incompatible"}
Obs == [state : MemberState, on : BOOLEAN, demand : Demands, active : BOOLEAN,
        standby : BOOLEAN]

Sure(m) == m.state \in {"SelfKnown", "Known"}
Claims(m) == m.on /\ m.demand \in Target

(* Of several heads that run, and of several that are blocked, the last.   *)
LockedMode(ms) ==
  LET running == {i \in DOMAIN ms : Sure(ms[i]) /\ ms[i].active /\ ms[i].demand \in Target}
      parked == {i \in DOMAIN ms : Sure(ms[i]) /\ ms[i].standby /\ Claims(ms[i])}
  IN  IF running # {} THEN ms[Max(running)].demand
      ELSE IF parked # {} THEN Opposite(ms[Max(parked)].demand) ELSE "Neutral"

Opposing(ms) ==
  \E i, j \in DOMAIN ms :
    /\ Sure(ms[i]) /\ ms[i].on /\ ms[i].demand = "Heat"
    /\ Sure(ms[j]) /\ ms[j].on /\ ms[j].demand = "Cool"

Blocked(ms) == \E i \in DOMAIN ms : Sure(ms[i]) /\ ms[i].standby /\ Claims(ms[i])

Status(ms) ==
  IF Len(ms) <= 1 THEN "Standalone"
  ELSE IF Opposing(ms) THEN IF LockedMode(ms) # "Neutral" THEN "Conflict" ELSE "PendingConflict"
  ELSE IF Blocked(ms) THEN "Conflict"
  ELSE IF \E i \in DOMAIN ms : ~Sure(ms[i]) \/ (ms[i].on /\ ms[i].demand = "Auto")
       THEN "Indeterminate" ELSE "Ok"
=============================================================================
