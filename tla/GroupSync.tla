------------------------------ MODULE GroupSync ------------------------------
(***************************************************************************)
(* Coordinated resolution (main/web_ui.cpp): the head a user acts on takes *)
(* an operation number, changes itself and sends the operation to every    *)
(* peer, one after the other.  A head serves its peers on its web server,  *)
(* one task, and coordinates there (REST) or on the MQTT task (Home        *)
(* Assistant), so the two can meet in it.                                  *)
(*                                                                         *)
(* A step is a critical section: of the operation counter, of the driver's *)
(* published snapshot, of its setters.  What a head knows of its own zone  *)
(* is that snapshot, which follows a command when the unit has taken it.   *)
(***************************************************************************)
EXTENDS GroupPolicy

CONSTANTS
  Heads, Nobody,
  MaxStarts, MaxCommands, MaxLost, MaxReboots,   \* bounds
  MaxDisturbances   \* bound on the last three together

ASSUME SyncAssumption ==
  /\ IsFiniteSet(Heads)
  /\ Nobody \notin Heads

VARIABLES
  want,     \* what the driver was told last (wanted_), per head
  seen,     \* what get_settings() returns
  op,       \* s_op_id, in NVS as well
  dwell,    \* s_have_last_op, and s_last_op_us less than kGroupDwellUs ago
  task,     \* what the web and the MQTT task of a head are doing
  req,      \* requests to /api/group/sync in the sockets of their receivers
  \* history and bounds
  by,       \* the operation that changed the zone last
  recent,   \* an operation has changed the zone less than kGroupDwellUs ago
  resting,  \* zones that have been off for all to see, and had no command since
  excused,  \* heads where commands have met, see Excuse
  spent     \* how much of each bound is used

ownVars == <<want, seen, op, dwell, task>>
histVars == <<by, recent, excused>>
vars == <<ownVars, req, histVars, resting, spent>>

Task == {"web", "mqtt"}
Result == {"applied", "aligned", "dwell", "stale", "unreachable"}

(* An operation as one head works on it: its own, or one it was sent. *)
Order == [from : Heads, by : Task, to : Heads, op : Nat, target : Target,
          strat : Strategy]
Job == [at : {"look", "act", "fan", "wait"}, order : Order,
        plan : {"none", "off", "flip"}, todo : SUBSET Heads,
        peer : Heads \cup {Nobody}, result : [Heads -> Result \cup {"none"}]]
Idle == [at |-> "idle"]

TypeOK ==
  /\ want \in [Heads -> Zone] /\ seen \in [Heads -> Zone]
  /\ op \in [Heads -> Nat]
  /\ by \in [Heads -> [op : Nat, from : Heads \cup {Nobody}]]
  /\ dwell \in [Heads -> BOOLEAN] /\ recent \in [Heads -> BOOLEAN]
  /\ task \in [Heads -> [Task -> Job \cup {Idle}]]
  /\ req \in SUBSET Order
  /\ resting \in SUBSET Heads /\ excused \in SUBSET Heads
  /\ spent \in [starts : Nat, commands : Nat, lost : Nat, reboots : Nat]

Spend(what, most) ==
  spent[what] < most /\ spent' = [spent EXCEPT ![what] = @ + 1]

Disturb(what, most) ==
  /\ spent.commands + spent.lost + spent.reboots < MaxDisturbances
  /\ Spend(what, most)

Begun(order) ==
  [at |-> "look", order |-> order, plan |-> "none", todo |-> Heads \ {order.from},
   peer |-> Nobody, result |-> [k \in Heads |-> "none"]]

(* The coordinator notes a result and goes on. *)
Answered(job, h, result) ==
  [job EXCEPT !.at = "fan", !.peer = Nobody, !.result[h] = result]

Own(h, t) == task[h][t].order.from = h

Done(h, t) == task[h][t].at = "fan" /\ task[h][t].todo = {}

Busy(h, t) == task[h][t].at \in {"look", "act"}

-----------------------------------------------------------------------------
(* The coordinator: coordinate_group_to                                    *)

(* handle_group_resolve, or try_group_mode_command when its view of the    *)
(* group shows a conflict: a choice, since the view may be 45 s old.       *)
Start(h, t, target, strat) ==
  /\ task[h][t] = Idle
  /\ t = "mqtt" => strat = "flip"
  /\ Spend("starts", MaxStarts)
  /\ op' = [op EXCEPT ![h] = @ + 1]
  /\ task' = [task EXCEPT ![h][t] =
                Begun([from |-> h, by |-> t, to |-> h, op |-> op[h] + 1,
                       target |-> target, strat |-> strat])]
  /\ UNCHANGED <<want, seen, dwell, req, by, recent, excused>>

(* sync_peer: the request goes out, or is lost. *)
Send(h, t, k) ==
  /\ task[h][t].at = "fan" /\ k \in task[h][t].todo
  /\ task' = [task EXCEPT ![h][t] = [@ EXCEPT !.at = "wait", !.peer = k,
                                              !.todo = task[h][t].todo \ {k}]]
  /\ \/ req' = req \cup {[task[h][t].order EXCEPT !.to = k]} /\ UNCHANGED spent
     \/ UNCHANGED req /\ Disturb("lost", MaxLost)
  /\ UNCHANGED <<want, seen, op, dwell, histVars>>

Serves(k, order) == task[k]["web"] # Idle /\ task[k]["web"].order = order

(* Four seconds without an answer: a request that its receiver is too busy *)
(* to read stays in the socket and is read later.                          *)
Timeout(h, t) ==
  /\ task[h][t].at = "wait"
  /\ LET k == task[h][t].peer
         order == [task[h][t].order EXCEPT !.to = k]
     IN  /\ order \in req => task[k]["web"] # Idle
         /\ ~Serves(k, order)
         /\ task' = [task EXCEPT ![h][t] = Answered(@, k, "unreachable")]
  /\ UNCHANGED <<want, seen, op, dwell, req, histVars, spent>>

(* All peers have been asked. *)
Return(h, t) ==
  /\ Done(h, t)
  /\ task' = [task EXCEPT ![h][t] = Idle]
  /\ UNCHANGED <<want, seen, op, dwell, req, histVars, spent>>

-----------------------------------------------------------------------------
(* Every head: resolve_self, apply_self_command, handle_group_sync         *)

Awaits(order, h) ==
  LET c == task[order.from][order.by]
  IN  c.at = "wait" /\ c.peer = h /\ c.order.op = order.op

(* The result of head h for an order: to itself, or in the answer to a     *)
(* coordinator that may have given up or that the answer may not reach.    *)
Tell(h, t, order, result) ==
  \/ /\ order.from = h
     /\ task' = [task EXCEPT ![h][t] = Answered(@, h, result)]
     /\ UNCHANGED spent
  \/ /\ order.from # h /\ Awaits(order, h)
     /\ task' = [task EXCEPT ![h][t] = Idle,
                             ![order.from][order.by] = Answered(@, h, result)]
     /\ UNCHANGED spent
  \/ /\ order.from # h
     /\ \/ ~Awaits(order, h) /\ UNCHANGED spent
        \/ Awaits(order, h) /\ Disturb("lost", MaxLost)
     /\ task' = [task EXCEPT ![h][t] = Idle]

(* Seeded fault: an operation that was seen before is taken again. *)
NewerOrEqual(h, n) == n >= op[h]

(* accept_op_id *)
Newer(h, n) == n > op[h]

(* handle_group_sync up to the critical section of the counter. *)
Serve(h, order) ==
  /\ order \in req /\ order.to = h /\ task[h]["web"] = Idle
  /\ req' = req \ {order}
  /\ \/ /\ Newer(h, order.op)
        /\ op' = [op EXCEPT ![h] = order.op]
        /\ task' = [task EXCEPT ![h]["web"] = Begun(order)]
        /\ UNCHANGED spent
     \/ /\ ~Newer(h, order.op)
        /\ Tell(h, "web", order, "stale")
        /\ UNCHANGED op
  /\ UNCHANGED <<want, seen, dwell, histVars>>

(* The origin follows the user to the letter, the others plan. *)
PlanOf(h, t) ==
  LET order == task[h][t].order
  IN  IF ~Own(h, t) THEN Plan(seen[h], order.target, order.strat)
      ELSE IF seen[h].on /\ Demand(seen[h]) = order.target THEN "none" ELSE "flip"

(* Commands meet in a head when one looks at its zone while an earlier one *)
(* has not shown yet, or while the other task is between look and act.     *)
Excuse(h, t) ==
  IF seen[h] # want[h] \/ \E u \in Task \ {t} : Busy(h, u)
  THEN excused \cup {h} ELSE excused

(* Seeded fault: what the dwell forbids is reported as not needed. *)
LookAligned(h, t) ==
  /\ task[h][t].at = "look"
  /\ excused' = Excuse(h, t)
  /\ LET plan == PlanOf(h, t)
     IN  IF plan = "none" \/ dwell[h]
         THEN Tell(h, t, task[h][t].order, "aligned")
         ELSE /\ task' = [task EXCEPT ![h][t] = [@ EXCEPT !.at = "act", !.plan = plan]]
              /\ UNCHANGED spent
  /\ UNCHANGED <<want, seen, op, dwell, req, by, recent>>

(* self_view, plan and dwell_ok. *)
Look(h, t) ==
  /\ task[h][t].at = "look"
  /\ excused' = Excuse(h, t)
  /\ LET plan == PlanOf(h, t)
         told == IF plan = "none" THEN "aligned" ELSE "dwell"
     IN  IF plan = "none" \/ dwell[h]
         THEN Tell(h, t, task[h][t].order, told)
         ELSE /\ task' = [task EXCEPT ![h][t] = [@ EXCEPT !.at = "act", !.plan = plan]]
              /\ UNCHANGED spent
  /\ UNCHANGED <<want, seen, op, dwell, req, by, recent>>

(* apply_resolve_op *)
Apply(h, job) ==
  /\ want' = [want EXCEPT ![h] = Commanded(@, job.plan, job.order.target)]
  /\ by' = [by EXCEPT ![h] = [op |-> job.order.op, from |-> job.order.from]]
  /\ recent' = [recent EXCEPT ![h] = TRUE]

(* Seeded fault: the change is not marked. *)
ActUnmarked(h, t) ==
  /\ task[h][t].at = "act"
  /\ Apply(h, task[h][t])
  /\ Tell(h, t, task[h][t].order, "applied")
  /\ UNCHANGED <<seen, op, dwell, req, excused>>

(* apply and mark_op. *)
Act(h, t) ==
  /\ task[h][t].at = "act"
  /\ Apply(h, task[h][t])
  /\ Tell(h, t, task[h][t].order, "applied")
  /\ dwell' = [dwell EXCEPT ![h] = TRUE]
  /\ UNCHANGED <<seen, op, req, excused>>

-----------------------------------------------------------------------------
(* The rest of a head                                                      *)

(* A command for this head alone: power, or a mode, which switches it on.  *)
Command(h, z) ==
  /\ \E t \in Task : task[h][t] = Idle
  /\ z.mode = want[h].mode \/ z.on
  /\ z # want[h]
  /\ Disturb("commands", MaxCommands)
  /\ want' = [want EXCEPT ![h] = z]
  /\ excused' = excused \cup {h}
  /\ UNCHANGED <<seen, op, dwell, task, req, by, recent>>

(* The unit has taken the command and the driver publishes it. *)
Follow(h) ==
  /\ seen[h] # want[h]
  /\ seen' = [seen EXCEPT ![h] = want[h]]
  /\ UNCHANGED <<want, op, dwell, task, req, histVars, spent>>

DwellOver(h) ==
  /\ dwell[h] \/ recent[h]
  /\ dwell' = [dwell EXCEPT ![h] = FALSE]
  /\ recent' = [recent EXCEPT ![h] = FALSE]
  /\ UNCHANGED <<want, seen, op, task, req, by, excused, spent>>

(* The operation number survives; the dwell, the jobs, the requests in the *)
(* sockets and a command that the unit has not taken do not.               *)
Reboot(h) ==
  /\ Disturb("reboots", MaxReboots)
  /\ want' = [want EXCEPT ![h] = seen[h]]
  /\ dwell' = [dwell EXCEPT ![h] = FALSE]
  /\ task' = [task EXCEPT ![h] = [t \in Task |-> Idle]]
  /\ req' = {order \in req : order.to # h}
  /\ excused' = IF seen[h] # want[h] THEN excused \cup {h} ELSE excused
  /\ UNCHANGED <<seen, op, by, recent>>

Init ==
  /\ want \in [Heads -> Zone] /\ seen = want
  /\ op = [h \in Heads |-> 0] /\ by = [h \in Heads |-> [op |-> 0, from |-> Nobody]]
  /\ dwell = [h \in Heads |-> FALSE] /\ recent = dwell
  /\ task = [h \in Heads |-> [t \in Task |-> Idle]]
  /\ req = {}
  /\ resting = {h \in Heads : ~want[h].on} /\ excused = {}
  /\ spent = [starts |-> 0, commands |-> 0, lost |-> 0, reboots |-> 0]

(* The zone is off and shows it, no task of the head has looked at it       *)
(* before and is about to change it, and none works for its own user.      *)
Off(h) ==
  /\ ~want[h].on /\ ~seen[h].on
  /\ \A t \in Task : Busy(h, t) => task[h][t].at = "look" /\ ~Own(h, t)

(* Zones that go on resting, and those that come to. *)
Rest(before) == resting' = before \cup {h \in Heads : Off(h)'}

User(h) ==
  \/ \E t \in Task, target \in Target, strat \in Strategy : Start(h, t, target, strat)
  \/ \E z \in Zone : Command(h, z)

Work(h, t) ==
  \/ Look(h, t) \/ Act(h, t)
  \/ \E k \in Heads : Send(h, t, k)
  \/ Timeout(h, t) \/ Return(h, t)

ServeAny(h) == \E order \in req : Serve(h, order)

Other(h) ==
  \/ \E t \in Task : Work(h, t)
  \/ ServeAny(h)
  \/ Follow(h) \/ DwellOver(h) \/ Reboot(h)

Next ==
  \E h \in Heads :
    \/ User(h) /\ Rest(resting \ {h})
    \/ Other(h) /\ Rest(resting)

Spec == Init /\ [][Next]_vars

-----------------------------------------------------------------------------
(* "A resolution can never silently turn an OFF zone on": a zone, whoever  *)
(* switched it off, stays off once it shows so, until its own user acts,   *)
(* whatever operations reach it, from whichever head, late or repeated.    *)
(* (A task that looked at it before it showed off may still turn it on.)   *)
OffStaysOff == \A h \in resting : ~want[h].on

(* "Peers apply in op_id order": an operation never replaces what a later  *)
(* one has done to a zone, not even one whose coordinator gave it up.      *)
LaterOpStands ==
  [][\A h \in Heads \ excused' : by'[h] # by[h] => by'[h].op > by[h].op]_vars

(* Two operations do not change one zone within the minimum dwell.  (A     *)
(* reboot forgets it.)                                                     *)
Paced ==
  [][\A h \in Heads \ excused' :
       by'[h] # by[h] /\ spent.reboots = 0 => ~recent[h]]_vars

Succeeded(r) == r \in {"applied", "aligned", "stale"}   \* sync_result_ok

Reached(h, job) ==
  \/ InLine(want[h], job.order.target)
  \/ by[h].op > job.order.op
  \/ h \in excused

(* A head that answered "applied" or "aligned" asks for nothing but the    *)
(* target when the coordinator reports, unless a later operation has been  *)
(* there or commands have met.                                             *)
AnswersTrue ==
  \A h \in Heads, t \in Task :
    Done(h, t) =>
      \A k \in Heads : task[h][t].result[k] \in {"applied", "aligned"}
                         => Reached(k, task[h][t])

(* Nothing is under way: what the zones ask for now they keep asking for.  *)
AtRest ==
  /\ \A h \in Heads, t \in Task : task[h][t] = Idle \/ Done(h, t)
  /\ req = {} /\ seen = want

(* The handler "reports ok only if every enrolled member converged", and a *)
(* result counts as success "only when the change definitely converged".   *)
OkMeansConverged ==
  \A h \in Heads, t \in Task :
    /\ Done(h, t) /\ AtRest
    /\ \A k \in Heads : Succeeded(task[h][t].result[k])
    => \A k \in Heads : Reached(k, task[h][t])

(* A resolution that everybody has answered ends the conflict: whichever    *)
(* head looks, and whatever the compressor serves then, it sees no opposing *)
(* zone, none that is blocked and none it cannot read.                     *)
Observed(z, serving) ==
  [state |-> "Known", on |-> z.on, demand |-> Demand(z),
   active |-> Demand(z) = serving, standby |-> Demand(z) = Opposite(serving) /\ z.on]

Orders == {s \in [1 .. Cardinality(Heads) -> Heads] : \A h \in Heads : \E i \in DOMAIN s : s[i] = h}

ConflictEnds ==
  \A h \in Heads, t \in Task :
    /\ Done(h, t) /\ excused = {}
    /\ \A k \in Heads : /\ task[h][t].result[k] \in {"applied", "aligned"}
                        /\ by[k].op <= task[h][t].order.op
    => \A s \in Orders :
         Status([i \in DOMAIN s |-> Observed(want[s[i]], task[h][t].order.target)]) = "Ok"
=============================================================================
